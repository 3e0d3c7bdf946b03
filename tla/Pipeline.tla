------------------------------- MODULE Pipeline -------------------------------
(***************************************************************************)
(* The notification engines and the retry engines together: what the first *)
(* could not send they publish on the retry topic, which the second read   *)
(* (notification_engine.py and retry_engine.py, both reached from          *)
(* main.py).  The components are NotificationEngine and RetryEngine as     *)
(* they are; here their topics are joined, they share the failures, and    *)
(* what the recipients of the notifications see is recorded.  The rows of  *)
(* notification_method do not change: RetryEngine has the edits.           *)
(***************************************************************************)
EXTENDS NotificationEngine, SequencesExt

CONSTANTS
  RetryEngines,   \* the retry engine processes
  MaxAttempts,    \* CONF.retry_engine.max_attempts
  NoMessage       \* what a retry engine that waits for a message works on

ASSUME PipelineAssumption ==
  /\ IsFiniteSet(RetryEngines)
  /\ IsFiniteSet(Methods)
  /\ MaxAttempts \in Nat
  /\ NoEngine \notin RetryEngines
  /\ NoMessage \notin [id : Notifications, count : Nat]

VARIABLES
  retryQueue,     \* the retry topic, as TopicPartition has it
  retryPosition,
  retryOwner,
  retryPhase,     \* the local state of the retry engines
  retrying,
  retryMethod,
  invalid,        \* history of the retry engines
  unreadable,
  retryAttempts,
  told,           \* history: told[n]: how often n was sent with success
  refused,        \* history: notifications that were sent without success
  stale           \* history: notifications that went out after one of the same
                  \* method for a later alarm of the partition

R == INSTANCE RetryEngine WITH
       Engines <- RetryEngines, queue <- retryQueue, position <- retryPosition,
       owner <- retryOwner, phase <- retryPhase, current <- retrying,
       method <- retryMethod, attempts <- retryAttempts,
       sentTopic <- notificationTopic, enqueued <- retryTopic,
       lateSends <- [n \in Notifications |-> 0],
       row <- [n \in Notifications |-> IF n[2] \in Configured THEN "plugin" ELSE "noPlugin"]

retryLocal == <<retryPosition, retryOwner, retryPhase, retrying, retryMethod, invalid,
                unreadable, retryAttempts>>
alarmLocal == <<alarmTopic, expired, group, local, retryTopic, periodicTopic, attempts>>
seen == <<told, refused, stale>>
pipeline == <<vars, retryQueue, retryLocal, seen>>

PipelineInit ==
  /\ Init
  /\ R!Init
  /\ told = [n \in Notifications |-> 0]
  /\ refused = {}
  /\ stale = {}

\* Later(n): the notifications by the same method for a later alarm.
Later(n) == {<<<<n[1][1], o>>, n[2]>> : o \in {x \in Offsets : x > n[1][2]}}

\* The recipients of good get their notification, those of bad do not.
Observe(good, bad) ==
  /\ told' = [n \in Notifications |-> IF n \in good THEN told[n] + 1 ELSE told[n]]
  /\ refused' = refused \cup bad
  /\ stale' = stale \cup {n \in good : \E later \in Later(n) : told[later] > 0}

-----------------------------------------------------------------------------
(* The notification engines.                                               *)

\* Mutant: the notifications that were sent are published too.
EnqueueAll(e, part) ==
  retryQueue' = retryQueue \o
    SetToSeq({[id |-> <<current[e], m>>, count |-> 0] : m \in part \cup sent[e]})

\* The messages of the publish call behind those that the topic holds.
Enqueue(e, part) ==
  retryQueue' = retryQueue \o
    SetToSeq({[id |-> <<current[e], m>>, count |-> 0] : m \in part})

AlarmEngineStep(e) ==
  /\ \/ phase[e] # "publishFailed" /\ EngineStep(e) /\ UNCHANGED retryQueue
     \/ \E part \in SUBSET Methods : PublishFailed(e, part) /\ Enqueue(e, part)
  /\ Observe({current[e]} \X (sent'[e] \ sent[e]), {current[e]} \X (failed'[e] \ failed[e]))
  /\ UNCHANGED retryLocal

AlarmEnvironment == Environment /\ UNCHANGED <<retryQueue, retryLocal, seen>>

-----------------------------------------------------------------------------
(* The retry engines.                                                      *)

\* Whether a step of e has been a send, and how it went.
Retry(e, outcome) ==
  IF retryPhase[e] = "send" /\ retryMethod[e] = "plugin"
       /\ outcome = (retryPhase'[e] = "publishSent")
    THEN {retrying[e].id} ELSE {}

RetryEngineStep(e) ==
  /\ R!EngineStep(e)
  /\ Observe(Retry(e, TRUE), Retry(e, FALSE))
  /\ UNCHANGED alarmLocal

RetryEnvironment ==
  /\ \E e \in RetryEngines :
       R!Crash(e) \/ R!Restart(e) \/ R!AssignFree(e) \/ R!Rebalance(e)
  /\ UNCHANGED <<alarmLocal, seen>>

-----------------------------------------------------------------------------
PipelineNext ==
  \/ AlarmEnvironment \/ RetryEnvironment
  \/ \E e \in Engines : AlarmEngineStep(e)
  \/ \E e \in RetryEngines : RetryEngineStep(e)

PipelineSpec == PipelineInit /\ [][PipelineNext]_pipeline

\* What NotificationEngine and RetryEngine assume of their processes and of Kafka;
\* among it that every request ends, though a few of the plugins' have no timeout.
PipelineFairness ==
  /\ \A e \in Engines :
       WF_pipeline(AlarmEngineStep(e)) /\ WF_pipeline(Restart(e) /\ AlarmEnvironment)
  /\ \A p \in Partitions :
       WF_pipeline((\E e \in Engines : AssignFree(p, e)) /\ AlarmEnvironment)
  /\ \A e \in RetryEngines :
       WF_pipeline(RetryEngineStep(e)) /\ WF_pipeline(R!Restart(e) /\ RetryEnvironment)
  /\ WF_pipeline((\E e \in RetryEngines : R!AssignFree(e)) /\ RetryEnvironment)

PipelineFairSpec == PipelineSpec /\ PipelineFairness

-----------------------------------------------------------------------------
(* Properties.                                                             *)

\* The notifications that somebody is to get.
Wanted == {n \in Notifications : n[2] \in Actions[n[1]] \cap Configured /\ n[1] \notin Waived}

\* Nothing more is tried for n: every attempt has failed, or it could not be rebuilt.
GivenUp(n) == retryAttempts[n] >= MaxAttempts \/ n \in unreadable

\* From the alarm to the last retry nothing is forgotten: once the alarm is committed
\* a notification is recorded as sent, or waits on the retry topic, or was given up.
NothingForgotten ==
  \A n \in Wanted :
    n[1][2] < committed[n[1][1]] => n \in notificationTopic \/ R!Holds(n) \/ GivenUp(n)

\* Nobody is told twice of one alarm, by whichever engine, but for a failure.
ToldPaidFor == \A n \in Notifications : told[n] <= 1 + faults

\* A notification is tried once at first and up to the limit again, with all that for
\* every failure: the two engines multiply nothing between them.
TriesPaidFor ==
  \A n \in Notifications : attempts[n] + retryAttempts[n] <= (1 + R!Tries) * (1 + faults)

\* The recipients learn of the states of an alarm in their order, unless a
\* notification was refused before and has waited for its retry while a later one
\* went out (nothing compares them), or a failure has repeated it.
StaleIsExplained == stale \subseteq refused \/ faults > 0

\* Every alarm is committed in the end, and by then or later everybody is told, or
\* given up after all attempts, however the engines died before.
EverybodyIsTold ==
  <>(/\ \A p \in Partitions : committed[p] = NumAlarms
     /\ \A n \in Wanted : told[n] > 0 \/ GivenUp(n))
=============================================================================
