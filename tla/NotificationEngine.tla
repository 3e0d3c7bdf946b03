-------------------------- MODULE NotificationEngine --------------------------
(***************************************************************************)
(* The notification engines: processes that run NotificationEngine.run     *)
(* (monasca_notification/notification_engine.py) against one alarm topic.  *)
(* For every alarm an engine looks up the notification methods attached to *)
(* it, publishes the periodic ones on their periodic topic, sends each     *)
(* notification through its plugin, publishes the sent ones on the         *)
(* notification topic and the failed ones on the retry topic, and only     *)
(* then commits the offset.  Several engines share the topic as one Kafka  *)
(* consumer group; any of them may die at any step, and a partition may be *)
(* moved away from an engine that is still working on one of its alarms.   *)
(***************************************************************************)
EXTENDS Naturals, FiniteSets

CONSTANTS
  Engines,      \* the engine processes of all daemons of the consumer group
  Partitions,   \* partitions of CONF.kafka.alarm_topic
  NumAlarms,    \* bound: alarms of one partition, at offsets 0 .. NumAlarms - 1
  AlarmKinds,   \* the kinds of alarm message that the topic may hold
  Methods,      \* ids of the rows of notification_method
  Actions,      \* Actions[a]: methods attached to the definition and state of a
  Configured,   \* methods whose type has a loaded plugin
  Periodic,     \* methods whose period is a key of CONF.kafka.periodic
  MaxFaults,    \* bound: crashes and rebalances of one behaviour
  NoEngine,     \* the owner of a partition that nobody reads
  NoAlarm       \* what an engine that waits for a message works on

Offsets == 0 .. NumAlarms - 1
Alarms == Partitions \X Offsets
Notifications == Alarms \X Methods

\* "malformed": _parse_alarm raises.  "disabled": actionsEnabled is false.
\* "incomplete": it has every expected field, but not the metrics that
\* Notification.__init__ reads.  "valid": everything is there.
Kinds == {"malformed", "disabled", "incomplete", "valid"}

\* The engine's place in the body of NotificationEngine.run.
Phases == {"poll", "received", "periodic", "send",
           "publishSent", "publishFailed", "commit", "down"}

ASSUME ConstantsAssumption ==
  /\ IsFiniteSet(Engines)
  /\ NumAlarms \in Nat
  /\ MaxFaults \in Nat
  /\ AlarmKinds \subseteq Kinds
  /\ Actions \in [Alarms -> SUBSET Methods]
  /\ Configured \subseteq Methods
  /\ Periodic \subseteq Methods
  /\ NoEngine \notin Engines
  /\ NoAlarm \notin Alarms

VARIABLES
  alarmTopic,         \* the message at each offset of the alarm topic
  expired,            \* alarms that are older than CONF.alarm_processor.ttl
  committed,          \* committed[p]: offset of p that the group committed
  owner,              \* owner[p]: the engine that p is assigned to
  position,           \* position[p]: offset the owner of p reads next
  phase,              \* phase[e]: where engine e is in run
  current,            \* current[e]: the alarm that e works on
  todo,               \* todo[e]: methods e has still to send to
  sent,               \* sent[e], failed[e]: outcome of e's sends so far
  failed,
  notificationTopic,  \* notifications published on notification_topic
  retryTopic,         \* ... on notification_retry_topic
  periodicTopic,      \* ... on the topic of their period
  attempts,           \* history: how often a plugin was given a notification
  faults              \* history: crashes and rebalances so far

topics == <<notificationTopic, retryTopic, periodicTopic>>
group == <<committed, owner, position>>
local == <<phase, current, todo, sent, failed>>
vars == <<alarmTopic, expired, group, local, topics, attempts, faults>>

Init ==
  /\ alarmTopic \in [Alarms -> AlarmKinds]
  /\ expired = {}
  /\ committed = [p \in Partitions |-> 0]
  /\ owner = [p \in Partitions |-> NoEngine]
  /\ position = [p \in Partitions |-> 0]
  /\ phase = [e \in Engines |-> "poll"]
  /\ current = [e \in Engines |-> NoAlarm]
  /\ todo = [e \in Engines |-> {}]
  /\ sent = [e \in Engines |-> {}]
  /\ failed = [e \in Engines |-> {}]
  /\ notificationTopic = {}
  /\ retryTopic = {}
  /\ periodicTopic = {}
  /\ attempts = [n \in Notifications |-> 0]
  /\ faults = 0

-----------------------------------------------------------------------------
(* Failures.                                                               *)

\* Mutant: a dead engine keeps its partitions.
DieHoldingPartitions(e) ==
  /\ phase' = [phase EXCEPT ![e] = "down"]
  /\ current' = [current EXCEPT ![e] = NoAlarm]
  /\ todo' = [todo EXCEPT ![e] = {}]
  /\ sent' = [sent EXCEPT ![e] = {}]
  /\ failed' = [failed EXCEPT ![e] = {}]
  /\ UNCHANGED group

\* An exception leaves run, or the process is killed: what it held in memory
\* is lost and its partitions are free.  What it published stays.
Die(e) ==
  /\ phase' = [phase EXCEPT ![e] = "down"]
  /\ current' = [current EXCEPT ![e] = NoAlarm]
  /\ todo' = [todo EXCEPT ![e] = {}]
  /\ sent' = [sent EXCEPT ![e] = {}]
  /\ failed' = [failed EXCEPT ![e] = {}]
  /\ owner' = [p \in Partitions |-> IF owner[p] = e THEN NoEngine ELSE owner[p]]
  /\ UNCHANGED <<committed, position>>

Fault ==
  /\ faults < MaxFaults
  /\ faults' = faults + 1

\* SIGTERM or SIGKILL from clean_exit, a lost machine, a broker that cannot be
\* reached, or a database that is still down when the lookup is repeated.
Crash(e) ==
  /\ phase[e] # "down"
  /\ Fault
  /\ Die(e)
  /\ UNCHANGED <<alarmTopic, expired, topics, attempts>>

\* The process supervisor starts the daemon, and with it the engine, again.
Restart(e) ==
  /\ phase[e] = "down"
  /\ phase' = [phase EXCEPT ![e] = "poll"]
  /\ UNCHANGED <<alarmTopic, expired, group, current, todo, sent, failed,
                 topics, attempts, faults>>

\* An alarm becomes older than the TTL.
Expire(a) ==
  /\ a \notin expired
  /\ expired' = expired \cup {a}
  /\ UNCHANGED <<alarmTopic, group, local, topics, attempts, faults>>

-----------------------------------------------------------------------------
(* The consumer group.                                                     *)

\* Mutant: the new owner goes on where the last one has read to.
AssignAtPosition(p, e) ==
  /\ phase[e] # "down"
  /\ owner' = [owner EXCEPT ![p] = e]
  /\ UNCHANGED <<alarmTopic, expired, committed, position, local, topics, attempts>>

\* e is given p and reads it from the committed offset on.
Assign(p, e) ==
  /\ phase[e] # "down"
  /\ owner' = [owner EXCEPT ![p] = e]
  /\ position' = [position EXCEPT ![p] = committed[p]]
  /\ UNCHANGED <<alarmTopic, expired, committed, local, topics, attempts>>

\* p has no owner: at the start, or after its owner died.
AssignFree(p, e) ==
  /\ owner[p] = NoEngine
  /\ Assign(p, e)
  /\ UNCHANGED faults

\* p is taken from a live owner, which may be in the middle of an alarm of p
\* and does not notice.
Rebalance(p, e) ==
  /\ owner[p] \notin {NoEngine, e}
  /\ Assign(p, e)
  /\ Fault

-----------------------------------------------------------------------------
(* The loop of NotificationEngine.run.                                     *)

Goto(e, place) == phase' = [phase EXCEPT ![e] = place]

\* for alarm in self._consumer
Receive(e, p) ==
  /\ phase[e] = "poll"
  /\ owner[p] = e
  /\ position[p] < NumAlarms
  /\ current' = [current EXCEPT ![e] = <<p, position[p]>>]
  /\ position' = [position EXCEPT ![p] = @ + 1]
  /\ Goto(e, "received")
  /\ UNCHANGED <<alarmTopic, expired, committed, owner, todo, sent, failed,
                 topics, attempts, faults>>

\* _parse_alarm and _alarm_is_valid let a through.
Accepted(a) == alarmTopic[a] \in {"incomplete", "valid"} /\ a \notin expired

\* Notification.__init__ finds every field of a that it reads.
Constructible(a) == alarmTopic[a] = "valid"

\* AlarmProcessor.to_notification.  It returns no notification for an alarm
\* it does not accept and for one without methods.
ToNotification(e) ==
  LET a == current[e] IN
  /\ phase[e] = "received"
  /\ \/ /\ ~Accepted(a) \/ Actions[a] = {}
        /\ Goto(e, "commit")
        /\ UNCHANGED <<group, current, todo>>
        /\ UNCHANGED <<sent, failed>>
     \/ /\ Accepted(a) /\ Actions[a] # {} /\ Constructible(a)
        /\ Goto(e, "periodic")
        /\ todo' = [todo EXCEPT ![e] = Actions[a]]
        /\ UNCHANGED <<group, current, sent, failed>>
     \/ /\ Accepted(a) /\ Actions[a] # {} /\ ~Constructible(a)
        /\ Die(e)                \* KeyError out of Notification.__init__
  /\ UNCHANGED <<alarmTopic, expired, topics, attempts, faults>>

\* Mutant: a publish call that fails in part is not noticed.
PublishedUnchecked(e, all, part, next) ==
  /\ Goto(e, next)
  /\ UNCHANGED <<group, current, todo, sent, failed, faults>>

\* The messages of a publish call that reach the broker: all of them, and the
\* engine goes on, or a part of them, and the call raises.
Published(e, all, part, next) ==
  \/ /\ part = all
     /\ Goto(e, next)
     /\ UNCHANGED <<group, current, todo, sent, failed, faults>>
  \/ /\ part # all
     /\ Fault
     /\ Die(e)

\* _add_periodic_notifications, before anything is sent.
AddPeriodic(e, part) ==
  LET all == todo[e] \cap Periodic IN
  /\ phase[e] = "periodic"
  /\ part \subseteq all
  /\ periodicTopic' = periodicTopic \cup ({current[e]} \X part)
  /\ Published(e, all, part, "send")
  /\ UNCHANGED <<alarmTopic, expired, notificationTopic, retryTopic, attempts>>

\* Mutant: what has failed is tried again in the same loop.
SendUntilSent(e, m) ==
  /\ phase[e] = "send"
  /\ m \in todo[e] \cap Configured
  /\ attempts' = [attempts EXCEPT ![<<current[e], m>>] = @ + 1]
  /\ UNCHANGED <<alarmTopic, expired, group, local, topics, faults>>

\* Mutant: the TTL is looked at again before each notification.
SendUnlessExpired(e, m) ==
  LET n == <<current[e], m>> IN
  /\ phase[e] = "send"
  /\ m \in todo[e]
  /\ todo' = [todo EXCEPT ![e] = @ \ {m}]
  /\ Goto(e, IF todo[e] = {m} THEN "publishSent" ELSE "send")
  /\ \/ /\ m \notin Configured \/ current[e] \in expired
        /\ UNCHANGED <<sent, failed, attempts>>
     \/ /\ m \in Configured /\ current[e] \notin expired
        /\ attempts' = [attempts EXCEPT ![n] = @ + 1]
        /\ \/ sent' = [sent EXCEPT ![e] = @ \cup {m}] /\ UNCHANGED failed
           \/ failed' = [failed EXCEPT ![e] = @ \cup {m}] /\ UNCHANGED sent
  /\ UNCHANGED <<alarmTopic, expired, group, current, topics, faults>>

\* One turn of the loop of notifiers.send_notifications: a notification without
\* a plugin is dropped as invalid, another one is sent or has failed.
Send(e, m) ==
  LET n == <<current[e], m>> IN
  /\ phase[e] = "send"
  /\ m \in todo[e]
  /\ todo' = [todo EXCEPT ![e] = @ \ {m}]
  /\ Goto(e, IF todo[e] = {m} THEN "publishSent" ELSE "send")
  /\ \/ /\ m \notin Configured
        /\ UNCHANGED <<sent, failed, attempts>>
     \/ /\ m \in Configured
        /\ attempts' = [attempts EXCEPT ![n] = @ + 1]
        /\ \/ sent' = [sent EXCEPT ![e] = @ \cup {m}] /\ UNCHANGED failed
           \/ failed' = [failed EXCEPT ![e] = @ \cup {m}] /\ UNCHANGED sent
  /\ UNCHANGED <<alarmTopic, expired, group, current, topics, faults>>

PublishSent(e, part) ==
  /\ phase[e] = "publishSent"
  /\ part \subseteq sent[e]
  /\ notificationTopic' = notificationTopic \cup ({current[e]} \X part)
  /\ Published(e, sent[e], part, "publishFailed")
  /\ UNCHANGED <<alarmTopic, expired, retryTopic, periodicTopic, attempts>>

PublishFailed(e, part) ==
  /\ phase[e] = "publishFailed"
  /\ part \subseteq failed[e]
  /\ retryTopic' = retryTopic \cup ({current[e]} \X part)
  /\ Published(e, failed[e], part, "commit")
  /\ UNCHANGED <<alarmTopic, expired, notificationTopic, periodicTopic, attempts>>

\* Mutant: the alarm is still there when the engine waits for the next one.
CommitKeepsAlarm(e) ==
  /\ phase[e] = "commit"
  /\ committed' = [p \in Partitions |->
                     IF owner[p] = e THEN position[p] ELSE committed[p]]
  /\ Goto(e, "poll")
  /\ UNCHANGED <<alarmTopic, expired, owner, position, current, todo, sent, failed,
                 topics, attempts, faults>>

\* Mutant: an alarm is committed only if something was sent for it.
CommitWhenSent(e) ==
  /\ phase[e] = "commit"
  /\ committed' = [p \in Partitions |->
                     IF owner[p] = e /\ sent[e] # {} THEN position[p] ELSE committed[p]]
  /\ Goto(e, "poll")
  /\ current' = [current EXCEPT ![e] = NoAlarm]
  /\ sent' = [sent EXCEPT ![e] = {}]
  /\ failed' = [failed EXCEPT ![e] = {}]
  /\ UNCHANGED <<alarmTopic, expired, owner, position, todo, topics, attempts,
                 faults>>

\* self._consumer.commit() commits the position of every partition that e
\* owns; for a partition it has lost the broker does not take its offset.
Commit(e) ==
  /\ phase[e] = "commit"
  /\ committed' = [p \in Partitions |->
                     IF owner[p] = e THEN position[p] ELSE committed[p]]
  /\ Goto(e, "poll")
  /\ current' = [current EXCEPT ![e] = NoAlarm]
  /\ sent' = [sent EXCEPT ![e] = {}]
  /\ failed' = [failed EXCEPT ![e] = {}]
  /\ UNCHANGED <<alarmTopic, expired, owner, position, todo, topics, attempts,
                 faults>>

-----------------------------------------------------------------------------
EngineStep(e) ==
  \/ \E p \in Partitions : Receive(e, p)
  \/ ToNotification(e)
  \/ \E part \in SUBSET Methods :
       AddPeriodic(e, part) \/ PublishSent(e, part) \/ PublishFailed(e, part)
  \/ \E m \in Methods : Send(e, m)
  \/ Commit(e)

Environment ==
  \/ \E e \in Engines : Crash(e) \/ Restart(e)
  \/ \E a \in Alarms : Expire(a)
  \/ \E p \in Partitions, e \in Engines : AssignFree(p, e) \/ Rebalance(p, e)

Next == Environment \/ \E e \in Engines : EngineStep(e)

Spec == Init /\ [][Next]_vars

\* A process that runs goes on, a daemon that died is started again, and a free
\* partition is assigned.  Nothing has to crash, to expire or to be rebalanced.
\* That a process goes on assumes that every request ends: the plugins set a timeout
\* for theirs, except the Jira plugin, whose jira.JIRA(...) gets none, and the
\* webhook plugin, when it gets a token.
Fairness ==
  /\ \A e \in Engines : WF_vars(EngineStep(e)) /\ WF_vars(Restart(e))
  /\ \A p \in Partitions : WF_vars(\E e \in Engines : AssignFree(p, e))

FairSpec == Spec /\ Fairness

-----------------------------------------------------------------------------
(* Properties.                                                             *)

\* Every variable keeps its type; in particular an engine that waits for a
\* message, or is down, holds nothing of an earlier alarm.
TypeOK ==
  /\ alarmTopic \in [Alarms -> AlarmKinds]
  /\ expired \in SUBSET Alarms
  /\ committed \in [Partitions -> 0 .. NumAlarms]
  /\ owner \in [Partitions -> Engines \cup {NoEngine}]
  /\ position \in [Partitions -> 0 .. NumAlarms]
  /\ phase \in [Engines -> Phases]
  /\ current \in [Engines -> Alarms \cup {NoAlarm}]
  /\ todo \in [Engines -> SUBSET Methods]
  /\ sent \in [Engines -> SUBSET Methods]
  /\ failed \in [Engines -> SUBSET Methods]
  /\ notificationTopic \in SUBSET Notifications
  /\ retryTopic \in SUBSET Notifications
  /\ periodicTopic \in SUBSET Notifications
  /\ attempts \in [Notifications -> Nat]
  /\ faults \in Nat
  /\ \A e \in Engines :
       current[e] = NoAlarm <=> phase[e] \in {"poll", "down"}

\* The alarms that to_notification answers with an empty list by design.
Waived == {a \in Alarms : alarmTopic[a] \notin {"incomplete", "valid"}} \cup expired

\* The fate of the notification is recorded: on the notification topic or the
\* retry topic unless its type has no plugin, and on the topic of its period.
Settled ==
  {n \in Notifications :
     /\ n \in notificationTopic \cup retryTopic \/ n[2] \notin Configured
     /\ n[2] \in Periodic => n \in periodicTopic}

\* Nothing is left to do for a.
Closed(a) == a \in Waived \/ \A m \in Actions[a] : <<a, m>> \in Settled

\* Nothing is lost: every notification of an alarm below the committed offset
\* has a recorded fate, whatever crashed or was rebalanced in between.  This is
\* the order of the calls in run, with commit as the last one.
NoLoss ==
  \A p \in Partitions, o \in Offsets : o < committed[p] => Closed(<<p, o>>)

\* The alarm was sent or put on a retry topic as a whole, for all that has a plugin.
Whole(a) == \A m \in Actions[a] : <<a, m>> \in Settled

\* Nobody has heard of the alarm.
Unheard(a) == \A m \in Methods : attempts[<<a, m>>] = 0 /\ <<a, m>> \notin periodicTopic

\* The TTL drops an alarm as a whole: one that expires while an engine is on its way
\* through the notifications is sent to all of them or to none.  Only the replay after
\* a failure may find an alarm expired of which a part was sent.
ExpiresWhole ==
  \A p \in Partitions, o \in Offsets :
    o < committed[p] => Whole(<<p, o>>) \/ Unheard(<<p, o>>) \/ faults > 0

\* A notification is given to its plugin once, plus at most once more for every
\* crash or rebalance: without a failure nobody is notified twice.
AttemptsPaidFor == \A n \in Notifications : attempts[n] <= 1 + faults

\* A failure replays at most one alarm of a partition: its owner is never more
\* than the alarm it is working on ahead of the committed offset.
AtMostOneInFlight ==
  \A p \in Partitions :
    owner[p] # NoEngine =>
      \/ position[p] = committed[p]
      \/ /\ position[p] = committed[p] + 1
         /\ current[owner[p]] = <<p, committed[p]>>

\* No notification of an alarm goes out before every earlier alarm of its
\* partition is committed, even when an engine keeps working on an alarm of a
\* partition that it has lost.
DeliveredInOrder ==
  \A p \in Partitions, o \in Offsets, m \in Methods :
    attempts[<<<<p, o>>, m>>] > 0 => o <= committed[p]

\* The engines keep the promise of AlarmDelivery.
Delivery == INSTANCE AlarmDelivery WITH settled <- Settled, waived <- Waived
DeliveryPromise == Delivery!Spec

\* What the comment of _parse_alarm says ("making sure it matches the expected
\* format") and the README's "errors ... are automatically handled by the
\* service restarting" add up to: an alarm with every expected field is dealt
\* with in the end.
ParsedAlarmsCommitted ==
  \A p \in Partitions, o \in Offsets :
    alarmTopic[<<p, o>>] \in {"incomplete", "valid"} ~> committed[p] > o
=============================================================================
