---------------------------- MODULE PeriodicEngine ----------------------------
(***************************************************************************)
(* The periodic engines of one period: processes that run                  *)
(* PeriodicEngine.run (monasca_notification/periodic_engine.py) against    *)
(* the topic of that period.  A message is read, sent again once the       *)
(* period is over, published at the end of the same topic and committed:   *)
(* it goes round for as long as its alarm stays in the state that it       *)
(* reports and its notification method keeps the period.                   *)
(***************************************************************************)
EXTENDS TopicPartition

CONSTANTS
  Notifications,  \* the notifications, each for one state of one alarm
  MaxTransitions, \* bound: how often the alarm of a notification enters the state
  MaxFaults,      \* bound: crashes, rebalances, database failures
  NoMessage       \* what an engine that waits for a message works on

ASSUME PeriodicAssumption ==
  /\ IsFiniteSet(Engines)
  /\ MaxTransitions \in Nat
  /\ MaxFaults \in Nat
  /\ NoEngine \notin Engines
  /\ NoMessage \notin [id : Notifications]

\* The notification method: of this engine's period, with and without a plugin
\* for its type; of another period; or gone.
Rows == {"plugin", "noPlugin", "otherPeriod", "deleted"}
OfThisPeriod == {"plugin", "noPlugin"}

\* The alarm: in the state that the notification reports, in another one, or gone.
AlarmStates == {"same", "changed", "deleted"}

Phases == {"poll", "received", "check", "send", "publish", "commit", "down"}

VARIABLES
  row,         \* row[n]: the notification method of n in the database
  alarm,       \* alarm[n]: the state of its alarm in the database
  due,         \* due[n]: state changes that NotificationEngine has yet to read
  phase,       \* phase[e]: where engine e is in run
  current,     \* current[e]: the message that e works on
  method,      \* method[e]: what construct_notification_object found
  starts,      \* history: starts[n]: messages for n that NotificationEngine published
  unbroken,    \* history: since the last of them nothing has ended the period
  departures,  \* history: departures[n]: how often the alarm left the state
  lateSends,   \* history: notifications sent while the alarm was not in the state
  faults       \* history: failures so far

database == <<row, alarm>>
local == <<phase, current, method>>
history == <<starts, departures, lateSends>>
vars == <<partition, database, due, local, history, unbroken, faults>>

Messages == [id : Notifications]

Init ==
  /\ PartitionInit
  /\ row = [n \in Notifications |-> "plugin"]
  /\ alarm = [n \in Notifications |-> "changed"]
  /\ due = [n \in Notifications |-> 0]
  /\ phase = [e \in Engines |-> "poll"]
  /\ current = [e \in Engines |-> NoMessage]
  /\ method = [e \in Engines |-> "plugin"]
  /\ starts = [n \in Notifications |-> 0]
  /\ unbroken = [n \in Notifications |-> FALSE]
  /\ departures = [n \in Notifications |-> 0]
  /\ lateSends = [n \in Notifications |-> 0]
  /\ faults = 0

Fault ==
  /\ faults < MaxFaults
  /\ faults' = faults + 1

-----------------------------------------------------------------------------
(* The surroundings.                                                       *)

\* The alarm enters the state: monasca-thresh stores it and writes to the alarm
\* topic.
Enter(n) ==
  /\ alarm[n] = "changed"
  /\ departures[n] < MaxTransitions
  /\ alarm' = [alarm EXCEPT ![n] = "same"]
  /\ due' = [due EXCEPT ![n] = @ + 1]
  /\ UNCHANGED <<partition, row, local, history, unbroken, faults>>

\* It leaves the state, or is deleted.
Leave(n, state) ==
  /\ alarm[n] = "same"
  /\ alarm' = [alarm EXCEPT ![n] = state]
  /\ departures' = [departures EXCEPT ![n] = @ + 1]
  /\ unbroken' = [unbroken EXCEPT ![n] = FALSE]
  /\ UNCHANGED <<partition, row, due, local, starts, lateSends, faults>>

EditMethod(n, r) ==
  /\ row[n] \notin {"deleted", r}
  /\ row' = [row EXCEPT ![n] = r]
  /\ unbroken' = [unbroken EXCEPT ![n] = @ /\ r \in OfThisPeriod]
  /\ UNCHANGED <<partition, alarm, due, local, history, faults>>

\* NotificationEngine._add_periodic_notifications, later, for an alarm message; a
\* crash before its commit makes it do the same again.
Start(n) ==
  /\ due[n] > 0
  /\ \/ /\ row[n] \in OfThisPeriod
        /\ Publish([id |-> n])
        /\ starts' = [starts EXCEPT ![n] = @ + 1]
        /\ unbroken' = [unbroken EXCEPT ![n] = alarm[n] = "same"]
        /\ \/ due' = [due EXCEPT ![n] = @ - 1] /\ UNCHANGED faults
           \/ UNCHANGED due /\ Fault
     \/ /\ row[n] \notin OfThisPeriod
        /\ due' = [due EXCEPT ![n] = @ - 1]
        /\ UNCHANGED <<queue, starts, unbroken, faults>>
  /\ UNCHANGED <<position, owner, database, local, departures, lateSends>>

Die(e) ==
  /\ phase' = [phase EXCEPT ![e] = "down"]
  /\ current' = [current EXCEPT ![e] = NoMessage]
  /\ Release(e)

\* The process is killed, or an exception leaves run: a broker cannot be reached.
Crash(e) ==
  /\ phase[e] # "down"
  /\ Fault
  /\ Die(e)
  /\ UNCHANGED <<database, due, method, history, unbroken>>

Restart(e) ==
  /\ phase[e] = "down"
  /\ phase' = [phase EXCEPT ![e] = "poll"]
  /\ UNCHANGED <<partition, database, due, current, method, history, unbroken, faults>>

AssignFree(e) ==
  /\ phase[e] # "down"
  /\ owner = NoEngine
  /\ Acquire(e)
  /\ UNCHANGED <<database, due, local, history, unbroken, faults>>

\* The owner loses the partition, perhaps while it sleeps, and does not notice.
Rebalance(e) ==
  /\ phase[e] # "down"
  /\ owner \notin {NoEngine, e}
  /\ Fault
  /\ Acquire(e)
  /\ UNCHANGED <<database, due, local, history, unbroken>>

-----------------------------------------------------------------------------
(* The loop of PeriodicEngine.run.                                         *)

Goto(e, place) == phase' = [phase EXCEPT ![e] = place]

\* Mutant: the message is committed when it is read.
ReceiveAndCommit(e) ==
  /\ phase[e] = "poll"
  /\ HasNext(e)
  /\ current' = [current EXCEPT ![e] = NextMessage]
  /\ queue' = Tail(queue)
  /\ Goto(e, "received")
  /\ UNCHANGED <<position, owner, database, due, method, history, unbroken, faults>>

Receive(e) ==
  /\ phase[e] = "poll"
  /\ HasNext(e)
  /\ current' = [current EXCEPT ![e] = NextMessage]
  /\ Advance
  /\ Goto(e, "received")
  /\ UNCHANGED <<database, due, method, history, unbroken, faults>>

\* construct_notification_object, as in RetryEngine.  When the database is down
\* twice in a row the message's own copy of the method is used, which has this
\* period and a type with or without a plugin.
Construct(e) ==
  LET n == current[e].id IN
  /\ phase[e] = "received"
  /\ \/ /\ row[n] # "deleted"
        /\ method' = [method EXCEPT ![e] = row[n]]
        /\ Goto(e, "check")
        /\ UNCHANGED <<unbroken, faults>>
     \/ /\ row[n] = "deleted"
        /\ Goto(e, "commit")
        /\ UNCHANGED <<method, unbroken, faults>>
     \/ /\ Fault
        /\ \E r \in OfThisPeriod : method' = [method EXCEPT ![e] = r]
        /\ Goto(e, "check")
        /\ UNCHANGED unbroken
     \/ /\ Fault
        /\ unbroken' = [unbroken EXCEPT ![n] = FALSE]
        /\ Goto(e, "commit")
        /\ UNCHANGED method
  /\ UNCHANGED <<partition, database, due, current, history>>

\* Mutant: the state of the alarm is not looked up.
HasPeriod(e, n) == method[e] \in OfThisPeriod

\* The conditions of _keep_sending.  The period is what Construct read, the state
\* is read now.
IsDue(e, n) == alarm[n] = "same" /\ method[e] \in OfThisPeriod

\* _keep_sending; the second database failure in a row leaves run.
KeepSending(e) ==
  LET n == current[e].id IN
  /\ phase[e] = "check"
  /\ \/ /\ Goto(e, IF IsDue(e, n) THEN "send" ELSE "commit")
        /\ UNCHANGED <<partition, current, faults>>
     \/ Fault /\ Die(e)
  /\ UNCHANGED <<database, due, method, history, unbroken>>

\* The sleep is over: NotificationProcessor.send, whose outcome is ignored.
Send(e) ==
  LET n == current[e].id IN
  /\ phase[e] = "send"
  /\ lateSends' = [lateSends EXCEPT ![n] =
                     IF method[e] = "plugin" /\ alarm[n] # "same" THEN @ + 1 ELSE @]
  /\ Goto(e, "publish")
  /\ UNCHANGED <<partition, database, due, current, method, starts, departures,
                 unbroken, faults>>

Republish(e) ==
  /\ phase[e] = "publish"
  /\ Publish(current[e])
  /\ Goto(e, "commit")
  /\ UNCHANGED <<position, owner, database, due, current, method, history, unbroken,
                 faults>>

\* Mutants: the offset is not committed; the message is still there when the
\* engine waits for the next one.
CommitNothing(e) ==
  /\ phase[e] = "commit"
  /\ Goto(e, "poll")
  /\ current' = [current EXCEPT ![e] = NoMessage]
  /\ UNCHANGED <<partition, database, due, method, history, unbroken, faults>>

CommitKeepsMessage(e) ==
  /\ phase[e] = "commit"
  /\ CommitRead(e)
  /\ Goto(e, "poll")
  /\ UNCHANGED <<database, due, current, method, history, unbroken, faults>>

Commit(e) ==
  /\ phase[e] = "commit"
  /\ CommitRead(e)
  /\ Goto(e, "poll")
  /\ current' = [current EXCEPT ![e] = NoMessage]
  /\ UNCHANGED <<database, due, method, history, unbroken, faults>>

-----------------------------------------------------------------------------
EngineStep(e) ==
  \/ Receive(e) \/ Construct(e) \/ KeepSending(e)
  \/ Send(e) \/ Republish(e) \/ Commit(e)

Environment ==
  \/ \E n \in Notifications :
       \/ Enter(n) \/ Start(n)
       \/ \E state \in {"changed", "deleted"} : Leave(n, state)
       \/ \E r \in Rows : EditMethod(n, r)
  \/ \E e \in Engines : Crash(e) \/ Restart(e) \/ AssignFree(e) \/ Rebalance(e)

Next == Environment \/ \E e \in Engines : EngineStep(e)

Spec == Init /\ [][Next]_vars

\* A process that runs goes on (a sleep ends), a daemon that died is started
\* again, a free partition is assigned, and alarm messages are read.
\* That a process goes on assumes that every request ends: the plugins set a timeout
\* for theirs, except the Jira plugin, whose jira.JIRA(...) gets none, and the
\* webhook plugin, when it gets a token.
Fairness ==
  /\ \A e \in Engines : WF_vars(EngineStep(e)) /\ WF_vars(Restart(e))
  /\ WF_vars(\E e \in Engines : AssignFree(e))
  /\ \A n \in Notifications : WF_vars(Start(n))

FairSpec == Spec /\ Fairness

-----------------------------------------------------------------------------
(* Properties.                                                             *)

\* Every variable keeps its type.
TypeOK ==
  /\ queue \in Seq(Messages)
  /\ position \in 0 .. Len(queue)
  /\ owner \in Engines \cup {NoEngine}
  /\ row \in [Notifications -> Rows]
  /\ alarm \in [Notifications -> AlarmStates]
  /\ due \in [Notifications -> Nat]
  /\ phase \in [Engines -> Phases]
  /\ current \in [Engines -> Messages \cup {NoMessage}]
  /\ method \in [Engines -> Rows \ {"deleted"}]
  /\ starts \in [Notifications -> Nat]
  /\ unbroken \in [Notifications -> BOOLEAN]
  /\ departures \in [Notifications -> Nat]
  /\ lateSends \in [Notifications -> Nat]
  /\ faults \in Nat
  /\ \A e \in Engines : current[e] = NoMessage <=> phase[e] \in {"poll", "down"}

\* No crash, no takeover and no other alarm silences a periodic notification:
\* while its alarm stays in the state and its method keeps the period, there is
\* a message for it on the topic, because the next one is published before the
\* last one is committed.
StreamKept == \A n \in Notifications : unbroken[n] => Holds(n)

Copies(n) == {i \in 1 .. Len(queue) : queue[i].id = n}

\* The same order of the two calls makes two streams of one when a failure comes
\* between them.  But one failure adds one stream: no notification ever goes out
\* at more than the rate that its starts and the failures account for.
StreamsPaidFor ==
  (\A e \in Engines : phase[e] # "commit") =>
    \A n \in Notifications : Cardinality(Copies(n)) <= starts[n] + faults

\* After its alarm has left the state a notification is sent once more at most (the
\* engine has looked before it sleeps), or once for every failure besides.
LateSendsPaidFor == \A n \in Notifications : lateSends[n] <= departures[n] + faults

\* A notification whose alarm stays in the state goes out again and again.
KeepsSending ==
  \A n \in Notifications :
    <>[](unbroken[n] /\ row[n] = "plugin")
      => []<>(\E e \in Engines : phase[e] = "publish" /\ current[e].id = n)

\* Once its alarm has left the state for good, or its method has got another period
\* or is gone, the messages of a notification are gone from the topic in the end, be
\* the alarm in the state or not.  Nothing starts them on another topic.
FallsSilent ==
  \A n \in Notifications :
    <>[](alarm[n] # "same" \/ row[n] \notin OfThisPeriod) => <>[](~Holds(n))
=============================================================================
