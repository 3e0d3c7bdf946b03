----------------------------- MODULE RetryEngine -----------------------------
(***************************************************************************)
(* The retry engines: processes that run RetryEngine.run                   *)
(* (monasca_notification/retry_engine.py) against the retry topic.  A      *)
(* message is rebuilt with what the database says of its notification      *)
(* method now (construct_notification_object in common/utils.py), held     *)
(* back until the retry interval is over, and sent again.  What fails once *)
(* more goes back to the end of the same topic with a higher retry_count,  *)
(* until the limit is hit.                                                 *)
(***************************************************************************)
EXTENDS TopicPartition

CONSTANTS
  Notifications,  \* the notifications that NotificationEngine failed to send
  MaxAttempts,    \* CONF.retry_engine.max_attempts
  MaxFaults,      \* bound: crashes, rebalances, database failures
  NoMessage       \* what an engine that waits for a message works on

ASSUME RetryAssumption ==
  /\ IsFiniteSet(Engines)
  /\ MaxAttempts \in Nat
  /\ MaxFaults \in Nat
  /\ NoEngine \notin Engines
  /\ NoMessage \notin [id : Notifications, count : Nat]

\* The notification's row of notification_method: of a type with a plugin, of a
\* type without one, or gone.
Rows == {"plugin", "noPlugin", "deleted"}

Phases == {"poll", "received", "send", "publishSent", "republish", "commit", "down"}

VARIABLES
  row,         \* row[n]: the notification method of n in the database
  phase,       \* phase[e]: where engine e is in run
  current,     \* current[e]: the message that e works on
  method,      \* method[e]: the type that construct_notification_object found
  sentTopic,   \* notifications published on notification_topic
  enqueued,    \* history: notifications that were put on the retry topic
  invalid,     \* history: notifications that send dropped for lack of a plugin
  unreadable,  \* history: notifications that could not be rebuilt
  attempts,    \* history: attempts[n]: how often the plugin was given n
  lateSends,   \* history: those of them after the method was deleted
  faults       \* history: failures so far

local == <<phase, current, method>>
history == <<enqueued, invalid, unreadable, attempts, lateSends>>
vars == <<partition, row, local, sentTopic, history, faults>>

Messages == [id : Notifications, count : 0 .. MaxAttempts]

Init ==
  /\ PartitionInit
  /\ row \in [Notifications -> {"plugin", "noPlugin"}]
  /\ phase = [e \in Engines |-> "poll"]
  /\ current = [e \in Engines |-> NoMessage]
  /\ method = [e \in Engines |-> "plugin"]
  /\ sentTopic = {}
  /\ enqueued = {}
  /\ invalid = {}
  /\ unreadable = {}
  /\ attempts = [n \in Notifications |-> 0]
  /\ lateSends = [n \in Notifications |-> 0]
  /\ faults = 0

Fault ==
  /\ faults < MaxFaults
  /\ faults' = faults + 1

-----------------------------------------------------------------------------
(* The surroundings.                                                       *)

\* NotificationEngine publishes a notification that it failed to send; and again,
\* if it crashes before its commit and fails to send it in the replay.
FirstFailure(n) ==
  /\ \/ n \notin enqueued /\ UNCHANGED faults
     \/ n \in enqueued /\ Fault
  /\ enqueued' = enqueued \cup {n}
  /\ Publish([id |-> n, count |-> 0])
  /\ UNCHANGED <<position, owner, row, local, sentTopic, invalid, unreadable,
                 attempts, lateSends>>

\* The monasca API changes or deletes the notification method of n.
EditMethod(n, r) ==
  /\ row[n] \notin {"deleted", r}
  /\ row' = [row EXCEPT ![n] = r]
  /\ UNCHANGED <<partition, local, sentTopic, history, faults>>

\* The process is killed, or an exception leaves run: a broker cannot be reached.
Crash(e) ==
  /\ phase[e] # "down"
  /\ Fault
  /\ phase' = [phase EXCEPT ![e] = "down"]
  /\ current' = [current EXCEPT ![e] = NoMessage]
  /\ Release(e)
  /\ UNCHANGED <<row, method, sentTopic, history>>

Restart(e) ==
  /\ phase[e] = "down"
  /\ phase' = [phase EXCEPT ![e] = "poll"]
  /\ UNCHANGED <<partition, row, current, method, sentTopic, history, faults>>

AssignFree(e) ==
  /\ phase[e] # "down"
  /\ owner = NoEngine
  /\ Acquire(e)
  /\ UNCHANGED <<row, local, sentTopic, history, faults>>

\* The owner loses the partition, perhaps while it sleeps, and does not notice.
Rebalance(e) ==
  /\ phase[e] # "down"
  /\ owner \notin {NoEngine, e}
  /\ Fault
  /\ Acquire(e)
  /\ UNCHANGED <<row, local, sentTopic, history>>

-----------------------------------------------------------------------------
(* The loop of RetryEngine.run.                                            *)

Goto(e, place) == phase' = [phase EXCEPT ![e] = place]

Receive(e) ==
  /\ phase[e] = "poll"
  /\ HasNext(e)
  /\ current' = [current EXCEPT ![e] = NextMessage]
  /\ Advance
  /\ Goto(e, "received")
  /\ UNCHANGED <<row, method, sentTopic, history, faults>>

\* Mutant: the method is what the message says of it.
ConstructFromMessage(e) ==
  /\ phase[e] = "received"
  /\ method' = [method EXCEPT ![e] = "plugin"]
  /\ Goto(e, "send")
  /\ UNCHANGED <<partition, row, current, sentTopic, history, faults>>

\* Mutant: a notification whose method is gone is skipped, and not committed.
ConstructOrSkip(e) ==
  LET gone == row[current[e].id] = "deleted" IN
  /\ phase[e] = "received"
  /\ method' = [method EXCEPT ![e] = IF gone THEN @ ELSE row[current[e].id]]
  /\ current' = [current EXCEPT ![e] = IF gone THEN NoMessage ELSE @]
  /\ Goto(e, IF gone THEN "poll" ELSE "send")
  /\ UNCHANGED <<partition, row, sentTopic, history, faults>>

\* construct_notification_object with grab_stored_notification_method: the row
\* that is stored now, or what the message says when the database is down twice
\* in a row.  A method that is gone and any other error give None.
Construct(e) ==
  LET n == current[e].id IN
  /\ phase[e] = "received"
  /\ \/ /\ row[n] # "deleted"
        /\ method' = [method EXCEPT ![e] = row[n]]
        /\ Goto(e, "send")
        /\ UNCHANGED <<unreadable, faults>>
     \/ /\ row[n] = "deleted"
        /\ Goto(e, "commit")
        /\ UNCHANGED <<method, unreadable, faults>>
     \/ /\ Fault
        /\ method' = [method EXCEPT ![e] = "plugin"]
        /\ Goto(e, "send")
        /\ UNCHANGED unreadable
     \/ /\ Fault
        /\ unreadable' = unreadable \cup {n}
        /\ Goto(e, "commit")
        /\ UNCHANGED method
  /\ UNCHANGED <<partition, row, current, sentTopic, enqueued, invalid, attempts,
                 lateSends>>

\* Mutants: one retry too many, one too few.
MayRetryOnceMore(message) == message.count + 1 <= MaxAttempts
MayRetryOnceLess(message) == message.count + 2 < MaxAttempts

\* notification.retry_count + 1 < CONF.retry_engine.max_attempts
MayRetry(message) == message.count + 1 < MaxAttempts

\* The sleep is over: NotificationProcessor.send with this one notification.  If
\* its type has no plugin it is neither sent nor failed.
Send(e) ==
  LET n == current[e].id IN
  /\ phase[e] = "send"
  /\ \/ /\ method[e] = "noPlugin"
        /\ invalid' = invalid \cup {n}
        /\ Goto(e, "commit")
        /\ UNCHANGED <<attempts, lateSends>>
     \/ /\ method[e] = "plugin"
        /\ attempts' = [attempts EXCEPT ![n] = @ + 1]
        /\ lateSends' = [lateSends EXCEPT ![n] = IF row[n] = "deleted" THEN @ + 1 ELSE @]
        /\ \/ Goto(e, "publishSent")
           \/ Goto(e, IF MayRetry(current[e]) THEN "republish" ELSE "commit")
        /\ UNCHANGED invalid
  /\ UNCHANGED <<partition, row, current, method, sentTopic, enqueued, unreadable, faults>>

PublishSent(e) ==
  /\ phase[e] = "publishSent"
  /\ sentTopic' = sentTopic \cup {current[e].id}
  /\ Goto(e, "commit")
  /\ UNCHANGED <<partition, row, current, method, history, faults>>

\* Mutant: retry_count stays what it is.
Unchanged(message) == message

\* notification.retry_count += 1
Retried(message) == [message EXCEPT !.count = @ + 1]

Republish(e) ==
  /\ phase[e] = "republish"
  /\ Publish(Retried(current[e]))
  /\ Goto(e, "commit")
  /\ UNCHANGED <<position, owner, row, current, method, sentTopic, history, faults>>

Commit(e) ==
  /\ phase[e] = "commit"
  /\ CommitRead(e)
  /\ Goto(e, "poll")
  /\ current' = [current EXCEPT ![e] = NoMessage]
  /\ UNCHANGED <<row, method, sentTopic, history, faults>>

-----------------------------------------------------------------------------
EngineStep(e) ==
  \/ Receive(e) \/ Construct(e) \/ Send(e)
  \/ PublishSent(e) \/ Republish(e) \/ Commit(e)

Environment ==
  \/ \E n \in Notifications : FirstFailure(n) \/ \E r \in Rows : EditMethod(n, r)
  \/ \E e \in Engines : Crash(e) \/ Restart(e) \/ AssignFree(e) \/ Rebalance(e)

Next == Environment \/ \E e \in Engines : EngineStep(e)

Spec == Init /\ [][Next]_vars

\* A process that runs goes on (a sleep ends), a daemon that died is started
\* again, and a free partition is assigned.
\* That a process goes on assumes that every request ends: the plugins set a timeout
\* for theirs, except the Jira plugin, whose jira.JIRA(...) gets none, and the
\* webhook plugin, when it gets a token.
Fairness ==
  /\ \A e \in Engines : WF_vars(EngineStep(e)) /\ WF_vars(Restart(e))
  /\ WF_vars(\E e \in Engines : AssignFree(e))

FairSpec == Spec /\ Fairness

-----------------------------------------------------------------------------
(* Properties.                                                             *)

\* Every variable keeps its type; no message carries a retry_count that has
\* reached the limit.
TypeOK ==
  /\ queue \in Seq(Messages)
  /\ position \in 0 .. Len(queue)
  /\ owner \in Engines \cup {NoEngine}
  /\ row \in [Notifications -> Rows]
  /\ phase \in [Engines -> Phases]
  /\ current \in [Engines -> Messages \cup {NoMessage}]
  /\ method \in [Engines -> {"plugin", "noPlugin"}]
  /\ sentTopic \in SUBSET Notifications
  /\ enqueued \in SUBSET Notifications
  /\ invalid \in SUBSET Notifications
  /\ unreadable \in SUBSET Notifications
  /\ attempts \in [Notifications -> Nat]
  /\ lateSends \in [Notifications -> Nat]
  /\ faults \in Nat
  /\ \A e \in Engines : current[e] = NoMessage <=> phase[e] \in {"poll", "down"}
  /\ \A i \in 1 .. Len(queue) : queue[i].count > 0 => queue[i].count < MaxAttempts

\* n needs no further retry: it was sent, tried as often as the limit says, or
\* nobody can be told any more.
Finished(n) ==
  \/ n \in sentTopic
  \/ attempts[n] >= MaxAttempts
  \/ row[n] = "deleted"
  \/ n \in invalid

\* A notification leaves the retry topic only when it needs no further retry, or
\* when its rebuilding raised an error that is not a database failure.
NotDroppedEarly ==
  \A n \in enqueued : Holds(n) \/ Finished(n) \/ n \in unreadable

\* The same, as the README has it: back to the retry topic while the retry limit
\* is not hit, discarded when it is.
RetriedToTheLimit == \A n \in enqueued : Holds(n) \/ Finished(n)

\* The comparison comes after the attempt: even with a limit of 0 there is one.
Tries == IF MaxAttempts = 0 THEN 1 ELSE MaxAttempts

\* The limit bounds the attempts, and a failure repeats at most the attempts of
\* one more run through the retries: a crash between the publishing and the
\* commit leaves two copies of one message.
AttemptsPaidFor == \A n \in Notifications : attempts[n] <= Tries * (1 + faults)

\* A method that is deleted during the sleep is used once more, and never again
\* unless a failure repeats that: the lookup is done for every attempt.
LateSendsPaidFor == \A n \in Notifications : lateSends[n] <= 1 + faults

\* Every notification on the retry topic leaves it in the end.
RetriesEnd == \A n \in Notifications : n \in enqueued ~> ~Holds(n)
=============================================================================
