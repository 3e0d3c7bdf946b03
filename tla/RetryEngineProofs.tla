-------------------------- MODULE RetryEngineProofs --------------------------
(***************************************************************************)
(* What RetryEngine guarantees for any number of engines, notifications    *)
(* and failures, and for every retry limit.                                *)
(***************************************************************************)
EXTENDS RetryEngine, TopicPartitionProofs

-----------------------------------------------------------------------------
(* Type correctness.  The limit on the retry_count of the messages depends *)
(* on who publishes them.                                                  *)

\* The types of TypeOK, and that only a message with a retry left is republished.
TInv ==
  /\ TypeOK
  /\ \A e \in Engines : phase[e] = "republish" => MayRetry(current[e])

PartitionType ==
  /\ queue \in Seq(Messages)
  /\ position \in 0 .. Len(queue)
  /\ owner \in Engines \cup {NoEngine}
  /\ \A i \in 1 .. Len(queue) : queue[i].count > 0 => queue[i].count < MaxAttempts

LocalType ==
  /\ phase \in [Engines -> Phases]
  /\ current \in [Engines -> Messages \cup {NoMessage}]
  /\ method \in [Engines -> {"plugin", "noPlugin"}]
  /\ \A e \in Engines : current[e] = NoMessage <=> phase[e] \in {"poll", "down"}
  /\ \A e \in Engines : phase[e] = "republish" => MayRetry(current[e])

DataType ==
  /\ row \in [Notifications -> Rows]
  /\ sentTopic \in SUBSET Notifications
  /\ enqueued \in SUBSET Notifications
  /\ invalid \in SUBSET Notifications
  /\ unreadable \in SUBSET Notifications
  /\ attempts \in [Notifications -> Nat]
  /\ lateSends \in [Notifications -> Nat]
  /\ faults \in Nat

LEMMA Parts == TInv <=> PartitionType /\ LocalType /\ DataType
  BY DEF TInv, TypeOK, PartitionType, LocalType, DataType

LEMMA MessageIsNotNoMessage == NoMessage \notin Messages
  BY RetryAssumption DEF RetryAssumption, Messages

\* What goes on around the engines when they are a part of a larger system: first
\* failures s are published, several at once perhaps, notifications are recorded as
\* sent, and something fails.  FirstFailure is a step of this kind.
FirstMessages == [id : Notifications, count : {0}]

Outside(s) ==
  /\ queue' = queue \o s
  /\ enqueued' = enqueued \cup {s[i].id : i \in 1 .. Len(s)}
  /\ sentTopic \subseteq sentTopic' /\ sentTopic' \in SUBSET Notifications
  /\ faults' \in Nat
  /\ UNCHANGED <<position, owner, row, local, invalid, unreadable, attempts, lateSends>>

AnyStep == [Next]_vars \/ \E s \in Seq(FirstMessages) : Outside(s)

LEMMA FirstMessagesAre ==
  ASSUME NEW s \in Seq(FirstMessages)
  PROVE  /\ s \in Seq(Messages) /\ Len(s) \in Nat
         /\ \A i \in 1 .. Len(s) :
              s[i] \in Messages /\ s[i].id \in Notifications /\ s[i].count = 0
<1>1. Len(s) \in Nat /\ \A i \in 1 .. Len(s) : s[i] \in FirstMessages
  BY LenProperties, ElementOfSeq
<1>2. \A m \in FirstMessages : m \in Messages /\ m.id \in Notifications /\ m.count = 0
  BY RetryAssumption DEF RetryAssumption, FirstMessages, Messages
<1>3. s \in [1 .. Len(s) -> Messages]
  BY <1>1, <1>2, LenProperties
<1> QED
  BY <1>1, <1>2, <1>3

LEMMA FirstFailureOutside ==
  ASSUME PartitionType, DataType, NEW n \in Notifications, FirstFailure(n)
  PROVE  \E s \in Seq(FirstMessages) : Len(s) = 1 /\ s[1].id = n /\ Outside(s)
<1> DEFINE m == [id |-> n, count |-> 0]
           s == <<m>>
<1>1. m \in FirstMessages /\ m \in Messages
  BY RetryAssumption DEF RetryAssumption, FirstMessages, Messages
<1>2. s \in Seq(FirstMessages) /\ Len(s) = 1 /\ s[1] = m /\ m.id = n
  BY <1>1
<1>3. queue' = queue \o s
  <2>1. queue' = Append(queue, m)
    BY DEF FirstFailure, Publish
  <2> HIDE DEF m
  <2> QED
    BY <1>1, <2>1, AppendIsConcat DEF PartitionType
<1>4. enqueued' = enqueued \cup {s[i].id : i \in 1 .. Len(s)}
  <2>1. {s[i].id : i \in 1 .. Len(s)} = {n}
    <3> HIDE DEF s, m
    <3> QED
      BY <1>2
  <2> HIDE DEF s
  <2> QED
    BY <2>1 DEF FirstFailure
<1>5. faults' \in Nat /\ sentTopic' = sentTopic /\ sentTopic \in SUBSET Notifications
  BY DEF FirstFailure, Fault, DataType
<1> HIDE DEF s
<1> QED
  BY <1>2, <1>3, <1>4, <1>5 DEF Outside, FirstFailure

\* A message that is published below the limit keeps the partition well typed.
LEMMA PublishType ==
  ASSUME PartitionType, NEW m \in Messages, Publish(m), UNCHANGED <<position, owner>>,
         m.count > 0 => m.count < MaxAttempts
  PROVE  PartitionType'
<1>1. /\ queue' \in Seq(Messages) /\ Len(queue) \in Nat /\ Len(queue') = Len(queue) + 1
      /\ \A i \in 1 .. Len(queue) : queue'[i] = queue[i]
      /\ queue'[Len(queue) + 1] = m
  BY Published DEF PartitionType
<1>2. \A i \in 1 .. Len(queue') : queue'[i].count > 0 => queue'[i].count < MaxAttempts
  BY <1>1 DEF PartitionType
<1> QED
  BY <1>1, <1>2 DEF PartitionType

LEMMA OutsideType ==
  ASSUME PartitionType, NEW s \in Seq(FirstMessages), Outside(s)
  PROVE  PartitionType'
<1>1. /\ queue \in Seq(Messages) /\ s \in Seq(Messages) /\ queue' = queue \o s
      /\ \A i \in 1 .. Len(s) : s[i].count = 0
      /\ UNCHANGED <<position, owner>>
  BY FirstMessagesAre DEF PartitionType, Outside
<1>2. /\ queue' \in Seq(Messages) /\ Len(queue) \in Nat /\ Len(s) \in Nat
      /\ Len(queue') = Len(queue) + Len(s)
      /\ \A i \in 1 .. Len(queue) : queue'[i] = queue[i]
      /\ \A i \in 1 .. Len(s) : queue'[Len(queue) + i] = s[i]
  BY <1>1, Extended
<1>3. ASSUME NEW i \in 1 .. Len(queue') PROVE queue'[i].count > 0 => queue'[i].count < MaxAttempts
  <2>1. CASE i <= Len(queue)
    BY <1>2, <2>1 DEF PartitionType
  <2>2. CASE i > Len(queue)
    <3> DEFINE k == i - Len(queue)
    <3>1. k \in 1 .. Len(s) /\ i = Len(queue) + k
      BY <1>2, <2>2
    <3>2. queue'[i].count = 0
      <4> HIDE DEF k
      <4> QED
        BY <1>1, <1>2, <3>1
    <3> QED
      BY <3>2
  <2> QED
    BY <1>2, <2>1, <2>2
<1> QED
  BY <1>1, <1>2, <1>3 DEF PartitionType

LEMMA CommitType ==
  ASSUME PartitionType, NEW e \in Engines, CommitRead(e)
  PROVE  PartitionType'
<1>1. CASE owner = e
  <2>1. /\ queue' \in Seq(Messages) /\ Len(queue) \in Nat /\ Len(queue') = Len(queue) - position
        /\ \A i \in 1 .. Len(queue') : queue'[i] = queue[i + position]
        /\ position' = 0 /\ owner' = owner
    BY <1>1, Committed DEF PartitionType
  <2>2. ASSUME NEW i \in 1 .. Len(queue')
        PROVE  queue'[i].count > 0 => queue'[i].count < MaxAttempts
    <3>1. i + position \in 1 .. Len(queue) /\ queue'[i] = queue[i + position]
      BY <2>1 DEF PartitionType
    <3> QED
      BY <3>1 DEF PartitionType
  <2> QED
    BY <2>1, <2>2 DEF PartitionType
<1>2. CASE owner # e
  BY <1>2 DEF PartitionType, CommitRead
<1> QED
  BY <1>1, <1>2

LEMMA MoveType ==
  ASSUME PartitionType, NEW e \in Engines,
         Acquire(e) \/ Release(e) \/ (Advance /\ HasNext(e)) \/ UNCHANGED partition
  PROVE  PartitionType'
  BY LenProperties DEF PartitionType, Acquire, Release, Advance, HasNext, partition

LEMMA TypeStep == TInv /\ AnyStep => TInv'
<1> SUFFICES ASSUME PartitionType, LocalType, DataType, AnyStep
             PROVE  PartitionType' /\ LocalType' /\ DataType'
  BY Parts DEF PartitionType, LocalType, DataType, TInv, TypeOK, MayRetry, Messages
<1> USE RetryAssumption, MessageIsNotNoMessage DEF RetryAssumption
<1>1. ASSUME NEW s \in Seq(FirstMessages), Outside(s)
      PROVE  PartitionType' /\ LocalType' /\ DataType'
  <2>1. PartitionType'
    BY <1>1, OutsideType
  <2>2. enqueued' \in SUBSET Notifications
    BY <1>1, FirstMessagesAre DEF Outside, DataType
  <2> QED
    BY <1>1, <2>1, <2>2 DEF Outside, LocalType, DataType, local, MayRetry
<1>2. ASSUME NEW n \in Notifications, NEW r \in Rows, EditMethod(n, r)
      PROVE  PartitionType' /\ LocalType' /\ DataType'
  BY <1>2 DEF EditMethod, PartitionType, LocalType, DataType, partition, local, history, MayRetry
<1>3. ASSUME NEW e \in Engines, Crash(e)
      PROVE  PartitionType' /\ LocalType' /\ DataType'
  <2>1. PartitionType'
    BY <1>3, MoveType DEF Crash
  <2> QED
    BY <1>3, <2>1 DEF Crash, Fault, LocalType, DataType, history, MayRetry, Phases
<1>4. ASSUME NEW e \in Engines, Restart(e)
      PROVE  PartitionType' /\ LocalType' /\ DataType'
  <2>1. PartitionType'
    BY <1>4, MoveType DEF Restart
  <2> QED
    BY <1>4, <2>1 DEF Restart, LocalType, DataType, history, MayRetry, Phases
<1>5. ASSUME NEW e \in Engines, AssignFree(e) \/ Rebalance(e)
      PROVE  PartitionType' /\ LocalType' /\ DataType'
  <2>1. PartitionType'
    BY <1>5, MoveType DEF AssignFree, Rebalance
  <2> QED
    BY <1>5, <2>1 DEF AssignFree, Rebalance, Fault, LocalType, DataType, history, local, MayRetry
<1>6. ASSUME NEW e \in Engines, Receive(e)
      PROVE  PartitionType' /\ LocalType' /\ DataType'
  <2>1. PartitionType'
    BY <1>6, MoveType DEF Receive
  <2>2. NextMessage \in Messages
    BY <1>6, ElementOfSeq, LenProperties DEF Receive, HasNext, NextMessage, PartitionType
  <2> QED
    BY <1>6, <2>1, <2>2 DEF Receive, Goto, LocalType, DataType, history, MayRetry, Phases
<1>7. ASSUME NEW e \in Engines, Construct(e)
      PROVE  PartitionType' /\ LocalType' /\ DataType'
  <2>1. PartitionType'
    BY <1>7, MoveType DEF Construct
  <2>2. current[e] \in Messages /\ current[e].id \in Notifications
    BY <1>7 DEF Construct, LocalType, Messages
  <2> QED
    BY <1>7, <2>1, <2>2 DEF Construct, Fault, Goto, LocalType, DataType, Rows, MayRetry, Phases
<1>8. ASSUME NEW e \in Engines, Send(e)
      PROVE  PartitionType' /\ LocalType' /\ DataType'
  <2>1. PartitionType'
    BY <1>8, MoveType DEF Send
  <2>2. current[e] \in Messages /\ current[e].id \in Notifications
    BY <1>8 DEF Send, LocalType, Messages
  <2>3. LocalType'
    BY <1>8, <2>2 DEF Send, Goto, LocalType, MayRetry, Phases
  <2>4. DataType'
    BY <1>8, <2>2 DEF Send, DataType
  <2> QED
    BY <2>1, <2>3, <2>4
<1>9. ASSUME NEW e \in Engines, PublishSent(e)
      PROVE  PartitionType' /\ LocalType' /\ DataType'
  <2>1. PartitionType'
    BY <1>9, MoveType DEF PublishSent
  <2>2. current[e].id \in Notifications
    BY <1>9 DEF PublishSent, LocalType, Messages
  <2> QED
    BY <1>9, <2>1, <2>2 DEF PublishSent, Goto, LocalType, DataType, history, MayRetry, Phases
<1>10. ASSUME NEW e \in Engines, Republish(e)
       PROVE  PartitionType' /\ LocalType' /\ DataType'
  <2>1. /\ current[e] \in Messages
        /\ current[e].count + 1 < MaxAttempts
    BY <1>10 DEF Republish, LocalType, MayRetry
  <2>2. Retried(current[e]) \in Messages /\ Retried(current[e]).count = current[e].count + 1
    BY <2>1 DEF Retried, Messages
  <2>3. PartitionType'
    BY <1>10, <2>1, <2>2, PublishType DEF Republish
  <2> QED
    BY <1>10, <2>3 DEF Republish, Goto, LocalType, DataType, history, MayRetry, Phases
<1>11. ASSUME NEW e \in Engines, Commit(e)
       PROVE  PartitionType' /\ LocalType' /\ DataType'
  <2>1. PartitionType'
    BY <1>11, CommitType DEF Commit
  <2> QED
    BY <1>11, <2>1 DEF Commit, Goto, LocalType, DataType, history, MayRetry, Phases
<1>12. CASE UNCHANGED vars
  BY <1>12 DEF vars, partition, local, history, PartitionType, LocalType, DataType, MayRetry
<1> QED
  BY <1>1, <1>2, <1>3, <1>4, <1>5, <1>6, <1>7, <1>8, <1>9, <1>10, <1>11, <1>12,
     FirstFailureOutside DEF AnyStep, Next, Environment, EngineStep

LEMMA TypeInit == Init => TInv
  BY RetryAssumption, MessageIsNotNoMessage, EmptySeq
     DEF RetryAssumption, Init, PartitionInit, TInv, TypeOK, Phases, Rows

\* The engines keep their types: in particular no message on the retry topic has a
\* retry_count that has reached max_attempts.
THEOREM TypeCorrect == Spec => []TypeOK
<1>1. TInv => TypeOK
  BY DEF TInv
<1> QED
  BY <1>1, TypeInit, TypeStep, PTL DEF Spec, AnyStep

-----------------------------------------------------------------------------
(* Nothing is given up early.  A commit drops the message that the engine  *)
(* works on and no other, so what matters is what is known of that one     *)
(* when the engine gets to the commit.                                     *)

Done(n) == Finished(n) \/ n \in unreadable

\* The owner has read the first message at most, and works on it.
OneRead ==
  owner # NoEngine /\ position # 0 => position = 1 /\ current[owner] = queue[1]

\* The retry_count of a message never exceeds the attempts for its notification.
CountsTrue ==
  /\ \A i \in 1 .. Len(queue) : queue[i].count <= attempts[queue[i].id]
  /\ \A e \in Engines :
       /\ current[e] # NoMessage => current[e].count <= attempts[current[e].id]
       /\ phase[e] = "republish" => current[e].count < attempts[current[e].id]

\* What the owner is about to commit is done with, or is back on the topic.
MayCommit ==
  \A e \in Engines :
    owner = e /\ position # 0 /\ phase[e] = "commit" =>
      Done(current[e].id) \/ \E i \in 2 .. Len(queue) : queue[i].id = current[e].id

KInv == TInv /\ OneRead /\ CountsTrue /\ MayCommit /\ NotDroppedEarly

LEMMA DoneStays ==
  ASSUME TInv, AnyStep
  PROVE  \A n \in Notifications : Done(n) => Done(n)'
<1> SUFFICES ASSUME NEW n \in Notifications, Done(n) PROVE Done(n)'
  OBVIOUS
<1>1. DataType /\ LocalType
  BY Parts
<1>2. \A e \in Engines : phase[e] = "send" => current[e].id \in Notifications
  BY <1>1 DEF LocalType, Messages
<1>3. /\ sentTopic \subseteq sentTopic' /\ invalid \subseteq invalid'
      /\ unreadable \subseteq unreadable'
  BY DEF AnyStep, Outside, Next, Environment, EngineStep, FirstFailure, EditMethod, Crash,
         Restart, AssignFree, Rebalance, Receive, Construct, Send, PublishSent, Republish,
         Commit, vars, history
<1>4. row[n] = "deleted" => row'[n] = "deleted"
  BY <1>1 DEF AnyStep, Outside, DataType, Next, Environment, EngineStep, FirstFailure,
         EditMethod, Crash, Restart, AssignFree, Rebalance, Receive, Construct, Send,
         PublishSent, Republish, Commit, vars
<1>5. attempts' = attempts \/ \E m \in Notifications : attempts' = [attempts EXCEPT ![m] = @ + 1]
  BY <1>2 DEF AnyStep, Outside, Next, Environment, EngineStep, FirstFailure, EditMethod,
         Crash, Restart, AssignFree, Rebalance, Receive, Construct, Send, PublishSent,
         Republish, Commit, vars, history
<1>6. attempts'[n] >= attempts[n] /\ attempts[n] \in Nat /\ attempts'[n] \in Nat
  BY <1>1, <1>5 DEF DataType
<1> QED
  BY <1>3, <1>4, <1>6, RetryAssumption DEF RetryAssumption, Done, Finished

\* What is recorded as sent stays so, and failures are not forgotten.
LEMMA RecordsStay ==
  [Next]_vars /\ faults \in Nat =>
    sentTopic \subseteq sentTopic' /\ (faults' = faults \/ faults' = faults + 1)
  BY DEF Next, Environment, EngineStep, FirstFailure, EditMethod, Crash, Restart, AssignFree,
         Rebalance, Receive, Construct, Send, PublishSent, Republish, Commit, vars, Fault

LEMMA OneReadStep == TInv /\ OneRead /\ AnyStep => OneRead'
<1> SUFFICES ASSUME PartitionType, LocalType, DataType, OneRead, AnyStep PROVE OneRead'
  BY Parts
<1> USE RetryAssumption, MessageIsNotNoMessage DEF RetryAssumption
<1>1. Len(queue) \in Nat /\ \A i \in 1 .. Len(queue) : queue[i] \in Messages
  BY LenProperties, ElementOfSeq DEF PartitionType
<1>2. ASSUME NEW m \in Messages, Publish(m), UNCHANGED <<position, owner, current>>
      PROVE  OneRead'
  <2>1. \A i \in 1 .. Len(queue) : queue'[i] = queue[i]
    BY <1>2, Published DEF PartitionType
  <2> QED
    BY <1>1, <1>2, <2>1 DEF OneRead, PartitionType
<1>3. ASSUME NEW s \in Seq(FirstMessages), Outside(s) PROVE OneRead'
  <2>1. \A i \in 1 .. Len(queue) : queue'[i] = queue[i]
    BY <1>3, Extended, FirstMessagesAre DEF PartitionType, Outside
  <2> QED
    BY <1>1, <1>3, <2>1 DEF OneRead, PartitionType, Outside, local
<1>4. ASSUME NEW e \in Engines, Crash(e) PROVE OneRead'
  BY <1>4 DEF OneRead, Crash, Release, LocalType, PartitionType
<1>5. ASSUME NEW e \in Engines, AssignFree(e) \/ Rebalance(e) PROVE OneRead'
  BY <1>5 DEF OneRead, AssignFree, Rebalance, Acquire
<1>6. ASSUME NEW e \in Engines, Receive(e) PROVE OneRead'
  BY <1>1, <1>6 DEF OneRead, Receive, HasNext, NextMessage, Advance, LocalType, PartitionType
<1>7. ASSUME NEW e \in Engines, Republish(e) PROVE OneRead'
  <2>1. current[e] \in Messages /\ MayRetry(current[e])
    BY <1>7 DEF Republish, LocalType
  <2>2. Retried(current[e]) \in Messages
    BY <2>1 DEF Retried, Messages, MayRetry
  <2> QED
    BY <1>2, <1>7, <2>2 DEF Republish
<1>8. ASSUME NEW e \in Engines, Commit(e) PROVE OneRead'
  BY <1>8 DEF OneRead, Commit, CommitRead, LocalType, PartitionType
<1>9. CASE UNCHANGED <<partition, current>>
  BY <1>9 DEF OneRead, partition
<1> QED
  BY <1>3, <1>4, <1>5, <1>6, <1>7, <1>8, <1>9, FirstFailureOutside
     DEF AnyStep, Next, Environment, EngineStep, EditMethod, Restart, Construct, Send, PublishSent, vars,
         local

LEMMA CountsStep == TInv /\ CountsTrue /\ AnyStep => CountsTrue'
<1> SUFFICES ASSUME PartitionType, LocalType, DataType, CountsTrue, AnyStep
             PROVE  CountsTrue'
  BY Parts
<1> USE RetryAssumption, MessageIsNotNoMessage DEF RetryAssumption
<1>1. Len(queue) \in Nat /\ \A i \in 1 .. Len(queue) : queue[i] \in Messages
  BY LenProperties, ElementOfSeq DEF PartitionType
<1>2. /\ \A m \in Messages : m.id \in Notifications /\ m.count \in Nat
      /\ \A n \in Notifications : attempts[n] \in Nat
  BY DEF Messages, DataType
<1>3. ASSUME NEW m \in Messages, Publish(m), m.count <= attempts[m.id],
             UNCHANGED <<current, attempts>>,
             \A e \in Engines : phase'[e] = "republish" => phase[e] = "republish"
      PROVE  CountsTrue'
  <2>1. /\ Len(queue') = Len(queue) + 1 /\ queue'[Len(queue) + 1] = m
        /\ \A i \in 1 .. Len(queue) : queue'[i] = queue[i]
    BY <1>3, Published DEF PartitionType
  <2> QED
    BY <1>1, <1>3, <2>1 DEF CountsTrue
<1>4. ASSUME NEW s \in Seq(FirstMessages), Outside(s) PROVE CountsTrue'
  <2>1. /\ Len(s) \in Nat /\ Len(queue') = Len(queue) + Len(s)
        /\ \A i \in 1 .. Len(queue) : queue'[i] = queue[i]
        /\ \A i \in 1 .. Len(s) :
             /\ queue'[Len(queue) + i] = s[i]
             /\ s[i] \in Messages /\ s[i].count = 0
    BY <1>4, Extended, FirstMessagesAre DEF PartitionType, Outside
  <2>2. UNCHANGED <<phase, current, attempts>>
    BY <1>4 DEF Outside, local
  <2>3. ASSUME NEW i \in 1 .. Len(queue') PROVE queue'[i].count <= attempts'[queue'[i].id]
    <3>1. CASE i <= Len(queue)
      BY <1>1, <2>1, <2>2, <3>1 DEF CountsTrue
    <3>2. CASE i > Len(queue)
      <4> DEFINE k == i - Len(queue)
      <4>1. k \in 1 .. Len(s) /\ i = Len(queue) + k
        BY <1>1, <2>1, <3>2
      <4>2. queue'[i] \in Messages /\ queue'[i].count = 0
        <5> HIDE DEF k
        <5> QED
          BY <2>1, <4>1
      <4>3. attempts'[queue'[i].id] \in Nat
        BY <1>2, <2>2, <4>2
      <4> QED
        BY <4>2, <4>3
    <3> QED
      BY <1>1, <2>1, <3>1, <3>2
  <2> QED
    BY <2>2, <2>3 DEF CountsTrue
<1>5. ASSUME NEW e \in Engines, Republish(e) PROVE CountsTrue'
  <2>1. current[e] \in Messages /\ MayRetry(current[e]) /\ current[e].count < attempts[current[e].id]
    BY <1>5 DEF Republish, LocalType, CountsTrue
  <2>2. /\ Retried(current[e]) \in Messages
        /\ Retried(current[e]).count <= attempts[Retried(current[e]).id]
    BY <1>2, <2>1 DEF Retried, Messages, MayRetry
  <2> QED
    BY <1>3, <1>5, <2>2 DEF Republish, Goto, LocalType, history
<1>6. ASSUME NEW e \in Engines, Receive(e) PROVE CountsTrue'
  <2>1. NextMessage \in Messages /\ NextMessage.count <= attempts[NextMessage.id]
    BY <1>1, <1>6 DEF Receive, HasNext, NextMessage, PartitionType, CountsTrue
  <2> QED
    BY <1>6, <2>1 DEF Receive, Advance, Goto, LocalType, CountsTrue, history
<1>7. ASSUME NEW e \in Engines, Send(e) PROVE CountsTrue'
  <2>1. current[e] \in Messages /\ UNCHANGED <<queue, current>>
    BY <1>7 DEF Send, LocalType, partition
  <2>2. CASE method[e] = "noPlugin"
    BY <1>7, <2>1, <2>2 DEF Send, Goto, LocalType, CountsTrue
  <2>3. CASE method[e] = "plugin"
    <3> attempts' = [attempts EXCEPT ![current[e].id] = @ + 1]
      BY <1>7, <2>3 DEF Send
    <3>1. /\ \A n \in Notifications : attempts'[n] \in Nat /\ attempts'[n] >= attempts[n]
          /\ attempts'[current[e].id] = attempts[current[e].id] + 1
      BY <1>2, <2>1, <2>3 DEF DataType
    <3>2. \A i \in 1 .. Len(queue') : queue'[i].count <= attempts'[queue'[i].id]
      BY <1>1, <1>2, <2>1, <3>1 DEF CountsTrue
    <3>3. \A x \in Engines : current'[x] # NoMessage => current'[x].count <= attempts'[current'[x].id]
      BY <1>2, <2>1, <3>1 DEF CountsTrue, LocalType
    <3>4. \A x \in Engines :
            phase'[x] = "republish" => current'[x].count < attempts'[current'[x].id]
      <4> SUFFICES ASSUME NEW x \in Engines, phase'[x] = "republish"
                   PROVE  current'[x].count < attempts'[current'[x].id]
        OBVIOUS
      <4>1. CASE x = e
        BY <1>2, <2>1, <3>1, <4>1 DEF CountsTrue
      <4>2. CASE x # e
        <5>1. phase[x] = "republish" /\ current[x] \in Messages
          BY <1>7, <4>2 DEF Send, Goto, LocalType
        <5> QED
          BY <1>2, <2>1, <3>1, <5>1 DEF CountsTrue
      <4> QED
        BY <4>1, <4>2
    <3> QED
      BY <3>2, <3>3, <3>4 DEF CountsTrue
  <2> QED
    BY <1>7, <2>2, <2>3 DEF Send
<1>8. ASSUME NEW e \in Engines, Commit(e) PROVE CountsTrue'
  <2>1. \A i \in 1 .. Len(queue') : \E k \in 1 .. Len(queue) : queue'[i] = queue[k]
    BY <1>8, Remaining DEF Commit, PartitionType
  <2> QED
    BY <1>8, <2>1 DEF Commit, Goto, LocalType, CountsTrue, history
<1>9. CASE /\ UNCHANGED <<queue, current, attempts>>
           /\ \A e \in Engines : phase'[e] = "republish" => phase[e] = "republish"
  BY <1>9 DEF CountsTrue
<1>10. ASSUME NEW e \in Engines, Crash(e) PROVE CountsTrue'
  BY <1>10 DEF Crash, Release, LocalType, CountsTrue, history
<1>11. ASSUME NEW e \in Engines,
              \/ Restart(e) \/ AssignFree(e) \/ Rebalance(e) \/ Construct(e) \/ PublishSent(e)
       PROVE  CountsTrue'
  <2>1. \A x \in Engines : phase'[x] = "republish" => phase[x] = "republish"
    BY <1>11 DEF Restart, AssignFree, Rebalance, Construct, PublishSent, Goto, LocalType, local
  <2> QED
    BY <1>9, <1>11, <2>1 DEF Restart, AssignFree, Rebalance, Construct, PublishSent, Acquire, local,
       history, partition
<1>12. ASSUME NEW n \in Notifications, NEW r \in Rows, EditMethod(n, r) PROVE CountsTrue'
  BY <1>9, <1>12 DEF EditMethod, partition, local, history
<1>13. CASE UNCHANGED vars
  BY <1>9, <1>13 DEF vars, partition, local, history
<1> QED
  BY <1>4, <1>5, <1>6, <1>7, <1>8, <1>10, <1>11, <1>12, <1>13,
     FirstFailureOutside DEF AnyStep, Next, Environment, EngineStep

LEMMA MayCommitStep == TInv /\ OneRead /\ CountsTrue /\ MayCommit /\ AnyStep => MayCommit'
<1> SUFFICES ASSUME TInv, OneRead, CountsTrue, MayCommit, AnyStep,
                    NEW e \in Engines, owner' = e, position' # 0, phase'[e] = "commit"
             PROVE  \/ Done(current[e].id)'
                    \/ \E i \in 2 .. Len(queue') : queue'[i].id = current'[e].id
  BY DEF MayCommit
<1> DEFINE Goal == \/ Done(current[e].id)'
                   \/ \E i \in 2 .. Len(queue') : queue'[i].id = current'[e].id
<1> USE RetryAssumption, MessageIsNotNoMessage DEF RetryAssumption
<1>0. PartitionType /\ LocalType /\ DataType
  BY Parts
<1>1. Len(queue) \in Nat /\ \A i \in 1 .. Len(queue) : queue[i] \in Messages
  BY <1>0, LenProperties, ElementOfSeq DEF PartitionType
<1>2. \A n \in Notifications : Done(n) => Done(n)'
  BY DoneStays
<1>3. ASSUME phase[e] = "commit", owner = e, position # 0, current'[e] = current[e],
             \A i \in 1 .. Len(queue) : queue'[i] = queue[i], Len(queue') \in Nat,
             Len(queue') >= Len(queue)
      PROVE  Goal
  <2>1. current[e].id \in Notifications
    BY <1>0, <1>3 DEF LocalType, Messages
  <2> QED
    BY <1>1, <1>2, <1>3, <2>1 DEF MayCommit
<1>4. ASSUME NEW s \in Seq(FirstMessages), Outside(s) PROVE Goal
  <2>1. /\ Len(s) \in Nat /\ Len(queue') = Len(queue) + Len(s)
        /\ \A i \in 1 .. Len(queue) : queue'[i] = queue[i]
    BY <1>0, <1>4, Extended, FirstMessagesAre DEF PartitionType, Outside
  <2>2. Len(queue') \in Nat /\ Len(queue') >= Len(queue)
    BY <1>1, <2>1
  <2> QED
    BY <1>3, <1>4, <2>1, <2>2 DEF Outside, local
<1>5. ASSUME NEW n \in Notifications, NEW r \in Rows, EditMethod(n, r) PROVE Goal
  BY <1>1, <1>3, <1>5 DEF EditMethod, partition, local
<1>6. ASSUME NEW x \in Engines, Crash(x) \/ Restart(x) PROVE Goal
  BY <1>0, <1>1, <1>3, <1>6 DEF Crash, Restart, Release, LocalType, partition
<1>7. ASSUME NEW x \in Engines, AssignFree(x) \/ Rebalance(x) \/ Receive(x) PROVE Goal
  BY <1>0, <1>7
     DEF AssignFree, Rebalance, Acquire, Receive, HasNext, Advance, Goto, LocalType
<1>8. ASSUME NEW x \in Engines, x # e,
             Construct(x) \/ Send(x) \/ PublishSent(x) \/ Commit(x)
      PROVE  Goal
  BY <1>0, <1>1, <1>3, <1>8
     DEF Construct, Send, PublishSent, Commit, CommitRead, Goto, LocalType, partition
<1>9. ASSUME Construct(e) PROVE Goal
  <2>1. current[e].id \in Notifications /\ UNCHANGED <<current, row>>
    BY <1>0, <1>9 DEF Construct, LocalType, Messages
  <2> QED
    BY <1>0, <1>9, <2>1 DEF Construct, Goto, LocalType, Done, Finished
<1>10. ASSUME Send(e) PROVE Goal
  <2>1. /\ current[e] \in Messages /\ current[e].id \in Notifications
        /\ current[e].count \in Nat /\ attempts[current[e].id] \in Nat
        /\ current[e].count <= attempts[current[e].id] /\ UNCHANGED current
    BY <1>0, <1>10 DEF Send, LocalType, DataType, CountsTrue, Messages
  <2>2. CASE method[e] = "noPlugin"
    BY <1>10, <2>1, <2>2 DEF Send, Done, Finished
  <2>3. CASE method[e] = "plugin"
    <3>1. ~MayRetry(current[e])
      BY <1>0, <1>10, <2>3 DEF Send, Goto, LocalType
    <3>2. attempts'[current[e].id] = attempts[current[e].id] + 1
      BY <1>0, <1>10, <2>1, <2>3 DEF Send, DataType
    <3> QED
      BY <2>1, <3>1, <3>2 DEF MayRetry, Done, Finished
  <2> QED
    BY <1>10, <2>2, <2>3 DEF Send
<1>11. ASSUME PublishSent(e) PROVE Goal
  BY <1>0, <1>11 DEF PublishSent, LocalType, Messages, Done, Finished
<1>12. ASSUME NEW x \in Engines, Republish(x) PROVE Goal
  <2>1. current[x] \in Messages /\ MayRetry(current[x])
    BY <1>0, <1>12 DEF Republish, LocalType
  <2>2. Retried(current[x]) \in Messages /\ Retried(current[x]).id = current[x].id
    BY <2>1 DEF Retried, Messages, MayRetry
  <2>3. /\ Len(queue') = Len(queue) + 1 /\ queue'[Len(queue) + 1] = Retried(current[x])
        /\ \A i \in 1 .. Len(queue) : queue'[i] = queue[i]
    BY <1>0, <1>12, <2>2, Published DEF Republish, PartitionType
  <2>4. CASE x = e
    <3>1. 1 <= Len(queue) /\ current'[e] = current[e]
      BY <1>0, <1>1, <1>12 DEF Republish, PartitionType
    <3>2. Len(queue') \in 2 .. Len(queue') /\ queue'[Len(queue')].id = current'[e].id
      BY <1>1, <2>2, <2>3, <2>4, <3>1
    <3> QED
      BY <3>2
  <2>5. CASE x # e
    BY <1>0, <1>1, <1>3, <1>12, <2>3, <2>5 DEF Republish, Goto, LocalType
  <2> QED
    BY <2>4, <2>5
<1>13. ASSUME Commit(e) PROVE Goal
  BY <1>0, <1>13 DEF Commit, Goto, LocalType
<1>14. CASE UNCHANGED vars
  BY <1>1, <1>3, <1>14 DEF vars, partition, local
<1> QED
  BY <1>4, <1>5, <1>6, <1>7, <1>8, <1>9, <1>10, <1>11, <1>12, <1>13, <1>14,
     <1>0, FirstFailureOutside DEF AnyStep, Next, Environment, EngineStep

LEMMA KeptStep == KInv /\ AnyStep => NotDroppedEarly'
<1> HAVE KInv /\ AnyStep
<1> SUFFICES ASSUME NEW n \in Notifications, n \in enqueued'
             PROVE  Holds(n)' \/ Done(n)'
  <2>1. enqueued' \subseteq Notifications
    BY TypeStep DEF KInv, TInv, TypeOK
  <2> QED
    BY <2>1 DEF NotDroppedEarly, Done
<1> USE RetryAssumption, MessageIsNotNoMessage DEF RetryAssumption
<1>0. TInv /\ PartitionType /\ LocalType /\ DataType /\ OneRead /\ MayCommit /\ NotDroppedEarly
  BY Parts DEF KInv
<1>1. Len(queue) \in Nat /\ \A i \in 1 .. Len(queue) : queue[i] \in Messages
  BY <1>0, LenProperties, ElementOfSeq DEF PartitionType
<1>2. Done(n) => Done(n)'
  BY <1>0, DoneStays
<1>3. ASSUME NEW m \in Messages, Publish(m) PROVE m.id = n \/ Holds(n) => Holds(n)'
  <2>1. /\ Len(queue') = Len(queue) + 1 /\ queue'[Len(queue) + 1] = m
        /\ \A i \in 1 .. Len(queue) : queue'[i] = queue[i]
    BY <1>0, <1>3, Published DEF PartitionType
  <2>2. Len(queue') \in 1 .. Len(queue')
    BY <1>1, <2>1
  <2> QED
    BY <1>1, <2>1, <2>2 DEF Holds
<1>4. ASSUME n \in enqueued, Holds(n) => Holds(n)' \/ Done(n)' PROVE Holds(n)' \/ Done(n)'
  BY <1>0, <1>2, <1>4 DEF NotDroppedEarly, Done
<1>5. ASSUME NEW s \in Seq(FirstMessages), Outside(s) PROVE Holds(n)' \/ Done(n)'
  <2>1. /\ Len(s) \in Nat /\ Len(queue') = Len(queue) + Len(s)
        /\ \A i \in 1 .. Len(queue) : queue'[i] = queue[i]
        /\ \A i \in 1 .. Len(s) : queue'[Len(queue) + i] = s[i]
    BY <1>0, <1>5, Extended, FirstMessagesAre DEF PartitionType, Outside
  <2>2. Holds(n) => Holds(n)'
    BY <1>1, <2>1 DEF Holds
  <2>3. CASE n \in enqueued
    BY <1>4, <2>2, <2>3
  <2>4. ASSUME NEW i \in 1 .. Len(s), s[i].id = n PROVE Holds(n)'
    <3>1. Len(queue) + i \in 1 .. Len(queue') /\ queue'[Len(queue) + i].id = n
      BY <1>1, <2>1, <2>4
    <3> QED
      BY <3>1 DEF Holds
  <2> QED
    BY <1>5, <2>3, <2>4 DEF Outside
<1>6. ASSUME NEW e \in Engines, Republish(e) PROVE Holds(n)' \/ Done(n)'
  <2>1. current[e] \in Messages /\ MayRetry(current[e])
    BY <1>0, <1>6 DEF Republish, LocalType
  <2>2. Retried(current[e]) \in Messages
    BY <2>1 DEF Retried, Messages, MayRetry
  <2> QED
    BY <1>3, <1>4, <1>6, <2>2 DEF Republish, history
<1>7. ASSUME NEW e \in Engines, Commit(e) PROVE Holds(n)' \/ Done(n)'
  <2>1. ASSUME Holds(n), owner = e PROVE Holds(n)' \/ Done(n)'
    <3>1. PICK i \in 1 .. Len(queue) : queue[i].id = n
      BY <2>1 DEF Holds
    <3>2. /\ position \in 0 .. Len(queue) /\ Len(queue') = Len(queue) - position
          /\ \A k \in 1 .. Len(queue') : queue'[k] = queue[k + position]
      BY <1>0, <1>7, <2>1, Committed DEF Commit, PartitionType
    <3>3. ASSUME NEW k \in position + 1 .. Len(queue), queue[k].id = n PROVE Holds(n)'
      <4>1. k - position \in 1 .. Len(queue') /\ queue'[k - position] = queue[k]
        BY <1>1, <3>2
      <4> QED
        BY <3>3, <4>1 DEF Holds
    <3>4. CASE i > position
      BY <1>1, <3>1, <3>2, <3>3, <3>4
    <3>5. CASE i <= position
      <4>1. position = 1 /\ i = 1 /\ current[e] = queue[1]
        BY <1>0, <1>1, <2>1, <3>1, <3>2, <3>5 DEF OneRead
      <4>2. Done(n) \/ \E k \in 2 .. Len(queue) : queue[k].id = n
        BY <1>0, <1>7, <2>1, <3>1, <4>1 DEF MayCommit, Commit
      <4> QED
        BY <1>1, <1>2, <3>3, <4>1, <4>2
    <3> QED
      BY <1>1, <3>1, <3>2, <3>4, <3>5
  <2>2. owner # e => UNCHANGED queue
    BY <1>7 DEF Commit, CommitRead
  <2> QED
    BY <1>4, <1>7, <2>1, <2>2 DEF Commit, Holds, history
<1>8. CASE UNCHANGED <<queue, enqueued>>
  BY <1>4, <1>8 DEF Holds
<1> QED
  BY <1>0, <1>5, <1>6, <1>7, <1>8, FirstFailureOutside
     DEF AnyStep, Next, Environment, EngineStep, EditMethod, Crash, Release, Restart, AssignFree, Rebalance,
         Acquire, Receive, Advance, Construct, Send, PublishSent, vars, partition, history

\* Every message was published by NotificationEngine once.
KnownMessages ==
  /\ \A i \in 1 .. Len(queue) : queue[i].id \in enqueued
  /\ \A e \in Engines : current[e] # NoMessage => current[e].id \in enqueued

LEMMA KnownStep == TInv /\ KnownMessages /\ AnyStep => KnownMessages'
<1> SUFFICES ASSUME PartitionType, LocalType, DataType, KnownMessages, AnyStep
             PROVE  KnownMessages'
  BY Parts
<1> USE RetryAssumption, MessageIsNotNoMessage DEF RetryAssumption
<1>1. Len(queue) \in Nat /\ \A i \in 1 .. Len(queue) : queue[i] \in Messages
  BY LenProperties, ElementOfSeq DEF PartitionType
<1>2. ASSUME NEW s \in Seq(FirstMessages), Outside(s) PROVE KnownMessages'
  <2>1. /\ Len(s) \in Nat /\ Len(queue') = Len(queue) + Len(s)
        /\ \A i \in 1 .. Len(queue) : queue'[i] = queue[i]
        /\ \A i \in 1 .. Len(s) : queue'[Len(queue) + i] = s[i]
    BY <1>2, Extended, FirstMessagesAre DEF PartitionType, Outside
  <2>2. enqueued \subseteq enqueued' /\ current' = current
    BY <1>2 DEF Outside, local
  <2>3. \A i \in 1 .. Len(s) : s[i].id \in enqueued'
    BY <1>2 DEF Outside
  <2>4. ASSUME NEW i \in 1 .. Len(queue') PROVE queue'[i].id \in enqueued'
    <3>1. CASE i <= Len(queue)
      BY <1>1, <2>1, <2>2, <3>1 DEF KnownMessages
    <3>2. CASE i > Len(queue)
      <4> DEFINE k == i - Len(queue)
      <4>1. k \in 1 .. Len(s) /\ i = Len(queue) + k
        BY <1>1, <2>1, <3>2
      <4> HIDE DEF k
      <4> QED
        BY <2>1, <2>3, <4>1
    <3> QED
      BY <1>1, <2>1, <3>1, <3>2
  <2> QED
    BY <2>2, <2>4 DEF KnownMessages
<1>3. ASSUME NEW e \in Engines, Receive(e) PROVE KnownMessages'
  <2>1. NextMessage.id \in enqueued
    BY <1>1, <1>3 DEF Receive, HasNext, NextMessage, PartitionType, KnownMessages
  <2> QED
    BY <1>3, <2>1 DEF Receive, Advance, LocalType, KnownMessages, history
<1>4. ASSUME NEW e \in Engines, Republish(e) PROVE KnownMessages'
  <2>1. current[e] \in Messages /\ MayRetry(current[e]) /\ current[e].id \in enqueued
    BY <1>4 DEF Republish, LocalType, KnownMessages
  <2>2. Retried(current[e]) \in Messages /\ Retried(current[e]).id = current[e].id
    BY <2>1 DEF Retried, Messages, MayRetry
  <2>3. /\ Len(queue') = Len(queue) + 1 /\ queue'[Len(queue) + 1] = Retried(current[e])
        /\ \A i \in 1 .. Len(queue) : queue'[i] = queue[i]
    BY <1>4, <2>2, Published DEF Republish, PartitionType
  <2>4. UNCHANGED <<current, enqueued>>
    BY <1>4 DEF Republish, history
  <2> QED
    BY <1>1, <2>1, <2>2, <2>3, <2>4 DEF KnownMessages
<1>5. ASSUME NEW e \in Engines, Commit(e) PROVE KnownMessages'
  <2>1. \A i \in 1 .. Len(queue') : \E k \in 1 .. Len(queue) : queue'[i] = queue[k]
    BY <1>5, Remaining DEF Commit, PartitionType
  <2> QED
    BY <1>5, <2>1 DEF Commit, LocalType, KnownMessages, history
<1>6. ASSUME NEW e \in Engines, Crash(e) PROVE KnownMessages'
  BY <1>6 DEF Crash, Release, LocalType, KnownMessages, history
<1>7. CASE UNCHANGED <<queue, current, enqueued>>
  BY <1>7 DEF KnownMessages
<1> QED
  BY <1>2, <1>3, <1>4, <1>5, <1>6, <1>7, FirstFailureOutside
     DEF AnyStep, Next, Environment, EngineStep, EditMethod, Restart, AssignFree, Rebalance,
         Acquire, Construct, Send, PublishSent, vars, partition, local, history

LEMMA KInvStep == KInv /\ AnyStep => KInv'
  BY TypeStep, OneReadStep, CountsStep, MayCommitStep, KeptStep DEF KInv

LEMMA KeptInit == Init => KInv
<1> SUFFICES ASSUME Init PROVE KInv
  OBVIOUS
<1>1. TInv /\ queue = <<>> /\ position = 0 /\ enqueued = {}
  BY TypeInit DEF Init, PartitionInit
<1> QED
  BY <1>1, EmptySeq DEF Init, KInv, OneRead, CountsTrue, MayCommit, NotDroppedEarly

\* A notification leaves the retry topic only when it was sent, cannot be sent, has
\* had all its attempts, or could not be rebuilt: no crash and no rebalance, and no
\* other notification, ever drops it.
THEOREM NeverDroppedEarly == Spec => []NotDroppedEarly
<1>1. KInv => NotDroppedEarly
  BY DEF KInv
<1> QED
  BY KeptInit, KInvStep, <1>1, PTL DEF Spec, AnyStep

-----------------------------------------------------------------------------
(* The load of a notification.  A message on the topic that is left to     *)
(* read has the tickets that w gives to its retry_count, and so has the    *)
(* message that an engine is going to send or to republish: a later try    *)
(* has no more of them than an earlier one.  Their number only grows when  *)
(* a first failure is published, or something fails, and then by those of  *)
(* one message at most.                                                    *)

\* w is such a weight, with at most `most` tickets for a message.
Weight(w, most) ==
  /\ most \in Nat
  /\ w \in [Nat -> SUBSET Nat]
  /\ \A k \in Nat : /\ IsFiniteSet(w[k]) /\ Cardinality(w[k]) <= most
                    /\ Cardinality(w[k + 1]) <= Cardinality(w[k])

Share(w, n) == [m \in Messages |-> IF m.id = n THEN w[m.count] ELSE {}]

\* The tickets of a message m that an engine has in its hands at this place in run.
Hand(w, n, place, m) ==
  IF place \in {"received", "send"} /\ m.id = n THEN w[m.count]
  ELSE IF place = "republish" /\ m.id = n THEN w[m.count + 1]
  ELSE {}
InHand(w, n) == [e \in Engines |-> Hand(w, n, phase[e], current[e])]
Held(w, n) == Cardinality(Tickets(Engines, InHand(w, n)))

LoadFinite(w, n) ==
  AheadFinite(Share(w, n)) /\ IsFiniteSet(Tickets(Engines, InHand(w, n)))
Load(w, n) == Coming(Share(w, n)) + Held(w, n)

LEMMA MessageCounts ==
  \A m \in Messages : m.id \in Notifications /\ m.count \in Nat /\ m.count + 1 \in Nat
  BY RetryAssumption DEF RetryAssumption, Messages

LEMMA WeightSize ==
  ASSUME NEW w, NEW most, Weight(w, most), NEW k \in Nat
  PROVE  /\ w[k] \in SUBSET Nat /\ IsFiniteSet(w[k])
         /\ Cardinality(w[k]) \in Nat /\ Cardinality(w[k + 1]) \in Nat
         /\ Cardinality(w[k]) <= most /\ Cardinality(w[k + 1]) <= Cardinality(w[k])
<1>1. k + 1 \in Nat
  OBVIOUS
<1> QED
  BY <1>1, FS_CardinalityType DEF Weight

LEMMA ShareWeighs ==
  ASSUME NEW w, NEW most, Weight(w, most), NEW n
  PROVE  /\ Weighs(Messages, Share(w, n))
         /\ \A m \in Messages :
              /\ Share(w, n)[m] = IF m.id = n THEN w[m.count] ELSE {}
              /\ Cardinality(Share(w, n)[m]) <= most
<1>1. ASSUME NEW m \in Messages
      PROVE  /\ Share(w, n)[m] \in SUBSET Nat /\ IsFiniteSet(Share(w, n)[m])
             /\ Cardinality(Share(w, n)[m]) <= most
  <2>1. m.count \in Nat /\ most \in Nat
    BY MessageCounts DEF Weight
  <2> QED
    BY <2>1, WeightSize, FS_EmptySet DEF Share
<1> QED
  BY <1>1 DEF Weighs, Share

LEMMA HandSize ==
  ASSUME NEW w, NEW most, Weight(w, most), NEW n, NEW place, NEW m,
         place \in {"received", "send", "republish"} => m \in Messages
  PROVE  /\ Hand(w, n, place, m) \in SUBSET Nat /\ IsFiniteSet(Hand(w, n, place, m))
         /\ Cardinality(Hand(w, n, place, m)) \in Nat
         /\ Cardinality(Hand(w, n, place, m)) =
              IF place \in {"received", "send"} /\ m.id = n THEN Cardinality(w[m.count])
              ELSE IF place = "republish" /\ m.id = n THEN Cardinality(w[m.count + 1])
              ELSE 0
<1>1. m \in Messages => m.count \in Nat /\ m.count + 1 \in Nat
  BY MessageCounts
<1> QED
  BY <1>1, WeightSize, FS_EmptySet, FS_CardinalityType DEF Hand

\* A step of e changes what is in its hand alone.
LEMMA HandChange ==
  ASSUME LocalType, LocalType', NEW w, NEW most, Weight(w, most), NEW n,
         IsFiniteSet(Tickets(Engines, InHand(w, n))),
         NEW e \in Engines,
         \A x \in Engines \ {e} : phase'[x] = phase[x] /\ current'[x] = current[x]
  PROVE  /\ IsFiniteSet(Tickets(Engines, InHand(w, n)'))
         /\ Held(w, n) \in Nat /\ Held(w, n)' \in Nat
         /\ Held(w, n)' + Cardinality(Hand(w, n, phase[e], current[e]))
              = Held(w, n) + Cardinality(Hand(w, n, phase'[e], current'[e]))
<1> DEFINE g == InHand(w, n)
           h == InHand(w, n)'
<1>1. \A x \in Engines :
        /\ phase[x] \in {"received", "send", "republish"} => current[x] \in Messages
        /\ phase'[x] \in {"received", "send", "republish"} => current'[x] \in Messages
  BY DEF LocalType
<1>2. /\ g \in [Engines -> SUBSET Nat] /\ h \in [Engines -> SUBSET Nat]
      /\ IsFiniteSet(h[e]) /\ \A x \in Engines \ {e} : h[x] = g[x]
  BY <1>1, HandSize DEF InHand
<1>3. /\ g[e] = Hand(w, n, phase[e], current[e]) /\ h[e] = Hand(w, n, phase'[e], current'[e])
      /\ IsFiniteSet(Tickets(Engines, g))
  BY DEF InHand
<1>4. /\ IsFiniteSet(Tickets(Engines, h))
      /\ Cardinality(Tickets(Engines, g)) \in Nat /\ Cardinality(Tickets(Engines, h)) \in Nat
      /\ Cardinality(Tickets(Engines, h)) + Cardinality(g[e])
           = Cardinality(Tickets(Engines, g)) + Cardinality(h[e])
  <2>1. IsFiniteSet(Tickets(Engines, g))
    BY <1>3
  <2> HIDE DEF g, h
  <2> QED
    BY <1>2, <2>1, TicketsChange
<1> QED
  BY <1>3, <1>4 DEF Held

LEMMA LoadType ==
  ASSUME NEW w, NEW n, LoadFinite(w, n)
  PROVE  Coming(Share(w, n)) \in Nat /\ Held(w, n) \in Nat /\ Load(w, n) \in Nat
  BY FS_CardinalityType DEF LoadFinite, AheadFinite, Coming, Held, Load

\* First failures add the tickets of one message to the load of each of them.
LEMMA OutsideLoad ==
  ASSUME PartitionType, NEW w, NEW most, Weight(w, most), NEW n, LoadFinite(w, n),
         NEW s \in Seq(FirstMessages), Outside(s),
         \A i, j \in 1 .. Len(s) : s[i].id = s[j].id => i = j
  PROVE  /\ LoadFinite(w, n)'
         /\ Load(w, n)' = Load(w, n) + (IF \E i \in 1 .. Len(s) : s[i].id = n
                                          THEN Cardinality(w[0]) ELSE 0)
<1> DEFINE F == Share(w, n)
<1>1. /\ queue \in Seq(Messages) /\ position \in 0 .. Len(queue) /\ s \in Seq(Messages)
      /\ queue' = queue \o s /\ UNCHANGED <<position, owner, phase, current>>
      /\ \A i \in 1 .. Len(s) : s[i] \in Messages /\ s[i].count = 0
  BY FirstMessagesAre DEF PartitionType, Outside, local
<1>2. Weighs(Messages, F) /\ AheadFinite(F)
  BY ShareWeighs DEF LoadFinite
<1>3. \A i \in 1 .. Len(s) : F[s[i]] = IF s[i].id = n THEN w[0] ELSE {}
  BY <1>1 DEF Share
<1>4. InHand(w, n)' = InHand(w, n)
  BY <1>1 DEF InHand
<1>5. IsFiniteSet(Tickets(Engines, InHand(w, n)')) /\ Held(w, n)' = Held(w, n)
  BY <1>4 DEF Held, LoadFinite
<1>6. Coming(F) \in Nat /\ Held(w, n) \in Nat
  BY LoadType
<1>7. CASE \E i \in 1 .. Len(s) : s[i].id = n
  <2>1. PICK k \in 1 .. Len(s) : s[k].id = n
    BY <1>7
  <2>2. F[s[k]] = w[0] /\ \A i \in 1 .. Len(s) : i # k => F[s[i]] = {}
    BY <1>3, <2>1
  <2>3. AheadFinite(F)' /\ Coming(F)' = Coming(F) + Cardinality(F[s[k]])
    <3>1. OnlyOne(F, s, k)
      BY <2>2 DEF OnlyOne
    <3>2. Appends(Messages, s)
      BY <1>1 DEF Appends
    <3> HIDE DEF F
    <3> QED
      BY <1>2, <3>1, <3>2, ExtendAhead
  <2>4. Cardinality(w[0]) \in Nat
    BY WeightSize
  <2> HIDE DEF F
  <2>5. Coming(F)' = Coming(F) + Cardinality(w[0])
    BY <2>2, <2>3
  <2> QED
    BY <1>5, <1>6, <1>7, <2>3, <2>4, <2>5 DEF LoadFinite, Load, F
<1>8. CASE ~\E i \in 1 .. Len(s) : s[i].id = n
  <2>1. \A i \in 1 .. Len(s) : F[s[i]] = {}
    BY <1>3, <1>8
  <2>2. AheadFinite(F)' /\ Coming(F)' = Coming(F)
    <3>1. Appends(Messages, s)
      BY <1>1 DEF Appends
    <3> HIDE DEF F
    <3> QED
      BY <1>2, <2>1, <3>1, NothingAhead
  <2> QED
    BY <1>5, <1>6, <1>8, <2>2 DEF LoadFinite, Load
<1> QED
  BY <1>7, <1>8

\* The steps that neither publish a first failure nor try n.
Quiet(n) ==
  \/ \E k \in Notifications, r \in Rows : EditMethod(k, r)
  \/ \E e \in Engines :
       \/ Crash(e) \/ Restart(e) \/ AssignFree(e) \/ Rebalance(e)
       \/ Receive(e) \/ Construct(e) \/ PublishSent(e) \/ Republish(e) \/ Commit(e)
       \/ Send(e) /\ current[e].id # n
  \/ UNCHANGED vars

LEMMA StepKinds ==
  ASSUME NEW n, [Next]_vars
  PROVE  \/ \E k \in Notifications : FirstFailure(k)
         \/ Quiet(n)
         \/ \E e \in Engines : Send(e) /\ current[e].id = n
  BY DEF Next, Environment, EngineStep, Quiet

LEMMA QuietKeeps ==
  ASSUME DataType, NEW n \in Notifications, Quiet(n)
  PROVE  /\ enqueued' = enqueued /\ attempts'[n] = attempts[n]
         /\ faults' = faults \/ faults' = faults + 1
<1>1. ASSUME NEW e \in Engines, Send(e), current[e].id # n
      PROVE  enqueued' = enqueued /\ attempts'[n] = attempts[n] /\ faults' = faults
  <2>1. attempts' = attempts \/ attempts' = [attempts EXCEPT ![current[e].id] = @ + 1]
    BY <1>1 DEF Send
  <2> QED
    BY <1>1, <2>1 DEF Send, DataType
<1> QED
  BY <1>1 DEF Quiet, EditMethod, Crash, Restart, AssignFree, Rebalance, Receive, Construct,
              PublishSent, Republish, Commit, Fault, vars, history

LEMMA QuietLoad ==
  ASSUME TInv, OneRead, NEW w, NEW most, Weight(w, most), NEW n, LoadFinite(w, n), Quiet(n)
  PROVE  /\ LoadFinite(w, n)' /\ Load(w, n)' \in Nat
         /\ Load(w, n)' <= Load(w, n) + (IF faults' = faults THEN 0 ELSE most)
<1> DEFINE F == Share(w, n)
           Goal == /\ LoadFinite(w, n)' /\ Load(w, n)' \in Nat
                   /\ Load(w, n)' <= Load(w, n) + (IF faults' = faults THEN 0 ELSE most)
<1>0. /\ PartitionType /\ LocalType /\ DataType /\ LocalType' /\ most \in Nat
  <2>1. TInv'
    BY TypeStep, StepKinds DEF Quiet, AnyStep, Next, Environment, EngineStep
  <2> QED
    BY <2>1, Parts DEF TInv, TypeOK, LocalType, MayRetry, Weight
<1>1. /\ queue \in Seq(Messages) /\ position \in 0 .. Len(queue) /\ NoEngine \notin Engines
      /\ owner # NoEngine => position <= 1
  BY <1>0, LenProperties, RetryAssumption DEF PartitionType, OneRead, RetryAssumption
<1>2. /\ Weighs(Messages, F) /\ AheadFinite(F) /\ IsFiniteSet(Tickets(Engines, InHand(w, n)))
      /\ \A m \in Messages : /\ F[m] = IF m.id = n THEN w[m.count] ELSE {}
                             /\ Cardinality(F[m]) <= most
  BY ShareWeighs DEF LoadFinite
<1>3. Coming(F) \in Nat /\ Held(w, n) \in Nat
  BY LoadType
<1> HIDE DEF F
<1>4. ASSUME UNCHANGED partition PROVE AheadFinite(F)' /\ Coming(F)' = Coming(F)
  <2>1. Ahead(F)' = Ahead(F)
    BY <1>4 DEF Ahead, First, partition
  <2> QED
    BY <1>2, <2>1 DEF AheadFinite, Coming
<1>5. ASSUME UNCHANGED <<phase, current>>
      PROVE  IsFiniteSet(Tickets(Engines, InHand(w, n)')) /\ Held(w, n)' = Held(w, n)
  <2>1. InHand(w, n)' = InHand(w, n)
    BY <1>5 DEF InHand
  <2> QED
    BY <1>2, <2>1 DEF Held
<1>6. ASSUME NEW e \in Engines,
             \A x \in Engines \ {e} : phase'[x] = phase[x] /\ current'[x] = current[x]
      PROVE  /\ IsFiniteSet(Tickets(Engines, InHand(w, n)')) /\ Held(w, n)' \in Nat
             /\ Held(w, n)' + Cardinality(Hand(w, n, phase[e], current[e]))
                  = Held(w, n) + Cardinality(Hand(w, n, phase'[e], current'[e]))
  BY <1>0, <1>2, <1>6, HandChange
<1>7. ASSUME NEW place, NEW m, place \notin {"received", "send", "republish"}
      PROVE  Cardinality(Hand(w, n, place, m)) = 0
  BY <1>7, HandSize
<1>8. ASSUME NEW place, NEW m \in Messages
      PROVE  /\ Cardinality(Hand(w, n, place, m)) =
                  IF place \in {"received", "send"} /\ m.id = n THEN Cardinality(w[m.count])
                  ELSE IF place = "republish" /\ m.id = n THEN Cardinality(w[m.count + 1])
                  ELSE 0
             /\ m.count \in Nat
             /\ Cardinality(w[m.count]) \in Nat /\ Cardinality(w[m.count + 1]) \in Nat
  BY HandSize, MessageCounts, WeightSize
<1>9. ASSUME AheadFinite(F)', IsFiniteSet(Tickets(Engines, InHand(w, n)')),
             Coming(F)' \in Nat, Held(w, n)' \in Nat,
             Coming(F)' + Held(w, n)'
               <= Coming(F) + Held(w, n) + (IF faults' = faults THEN 0 ELSE most)
      PROVE  Goal
  BY <1>9 DEF LoadFinite, Load, F
<1> HIDE DEF Goal
<1>10. ASSUME UNCHANGED <<partition, phase, current>> PROVE Goal
  BY <1>0, <1>3, <1>4, <1>5, <1>9, <1>10
<1>11. ASSUME NEW e \in Engines, Acquire(e) \/ Release(e)
       PROVE  /\ AheadFinite(F)' /\ Coming(F)' \in Nat
              /\ Coming(F)' <= Coming(F) + most
              /\ owner = NoEngine => Coming(F)' = Coming(F)
  <2>1. AheadFinite(F)' /\ Coming(F)' \in Nat /\ Coming(F)' <= Coming(F) + most
    <3>1. \A m \in Messages : Cardinality(F[m]) <= most
      BY <1>2
    <3>2. Weighs(Messages, F) /\ AheadFinite(F)
      BY <1>2
    <3> QED
      BY <1>0, <1>1, <1>11, <3>1, <3>2, RewindAhead
  <2>2. owner = NoEngine => Ahead(F)' = Ahead(F)
    BY <1>11 DEF Acquire, Release, Ahead, First
  <2> QED
    BY <2>1, <2>2 DEF Coming
<1>12. ASSUME NEW e \in Engines, AssignFree(e) PROVE Goal
  <2>1. owner = NoEngine /\ Acquire(e) /\ UNCHANGED <<phase, current>>
    BY <1>12 DEF AssignFree, local
  <2> QED
    BY <1>0, <1>3, <1>5, <1>9, <1>11, <2>1
<1>13. ASSUME NEW e \in Engines, Rebalance(e) PROVE Goal
  <2>1. Acquire(e) /\ UNCHANGED <<phase, current>> /\ faults' # faults
    BY <1>0, <1>13 DEF Rebalance, Fault, local, DataType
  <2> QED
    BY <1>0, <1>3, <1>5, <1>9, <1>11, <2>1
<1>14. ASSUME NEW e \in Engines, Crash(e) PROVE Goal
  <2>1. /\ Release(e) /\ faults' # faults /\ phase'[e] = "down"
        /\ \A x \in Engines \ {e} : phase'[x] = phase[x] /\ current'[x] = current[x]
    BY <1>0, <1>14 DEF Crash, Fault, LocalType, DataType
  <2>2. Cardinality(Hand(w, n, phase[e], current[e])) \in Nat
    BY <1>0, HandSize DEF LocalType
  <2>3. /\ IsFiniteSet(Tickets(Engines, InHand(w, n)')) /\ Held(w, n)' \in Nat
        /\ Held(w, n)' + Cardinality(Hand(w, n, phase[e], current[e])) = Held(w, n)
    BY <1>3, <1>6, <1>7, <2>1
  <2>4. AheadFinite(F)' /\ Coming(F)' \in Nat /\ Coming(F)' <= Coming(F) + most
    BY <1>11, <2>1
  <2> QED
    BY <1>0, <1>3, <1>9, <2>1, <2>2, <2>3, <2>4
<1>15. ASSUME NEW e \in Engines, Restart(e) \/ PublishSent(e) PROVE Goal
  <2>1. /\ phase'[e] \in {"poll", "commit"} /\ phase[e] \in {"down", "publishSent"}
        /\ UNCHANGED <<partition, faults>>
        /\ \A x \in Engines \ {e} : phase'[x] = phase[x] /\ current'[x] = current[x]
    BY <1>0, <1>15 DEF Restart, PublishSent, Goto, LocalType
  <2>2. IsFiniteSet(Tickets(Engines, InHand(w, n)')) /\ Held(w, n)' = Held(w, n)
    BY <1>3, <1>6, <1>7, <2>1
  <2> QED
    BY <1>0, <1>3, <1>4, <1>9, <2>1, <2>2
<1>16. ASSUME NEW e \in Engines, Receive(e) PROVE Goal
  <2>1. /\ HasNext(e) /\ Advance /\ faults' = faults
        /\ phase[e] = "poll" /\ phase'[e] = "received" /\ current'[e] = NextMessage
        /\ \A x \in Engines \ {e} : phase'[x] = phase[x] /\ current'[x] = current[x]
    BY <1>0, <1>16 DEF Receive, Goto, LocalType
  <2>2. NextMessage \in Messages
    BY <1>1, <2>1, LenProperties, ElementOfSeq DEF HasNext, NextMessage
  <2>3. /\ AheadFinite(F)' /\ Coming(F)' \in Nat
        /\ Coming(F)' + Cardinality(F[NextMessage]) = Coming(F)
    BY <1>1, <1>2, <2>1, ReceiveAhead
  <2>4. /\ Cardinality(Hand(w, n, phase'[e], current'[e])) = Cardinality(F[NextMessage])
        /\ Cardinality(F[NextMessage]) \in Nat
    BY <1>2, <1>8, <2>1, <2>2, FS_EmptySet
  <2>5. /\ IsFiniteSet(Tickets(Engines, InHand(w, n)')) /\ Held(w, n)' \in Nat
        /\ Held(w, n)' = Held(w, n) + Cardinality(F[NextMessage])
    BY <1>3, <1>6, <1>7, <2>1, <2>4
  <2> QED
    BY <1>3, <1>9, <2>1, <2>3, <2>4, <2>5
<1>17. ASSUME NEW e \in Engines, Construct(e) PROVE Goal
  <2>1. /\ UNCHANGED partition /\ current'[e] = current[e]
        /\ current[e] \in Messages /\ phase[e] = "received" /\ phase'[e] \in {"send", "commit"}
        /\ \A x \in Engines \ {e} : phase'[x] = phase[x] /\ current'[x] = current[x]
    BY <1>0, <1>17 DEF Construct, Goto, LocalType
  <2>2. /\ IsFiniteSet(Tickets(Engines, InHand(w, n)'))
        /\ Held(w, n)' \in Nat /\ Held(w, n)' <= Held(w, n)
    BY <1>3, <1>6, <1>7, <1>8, <2>1
  <2> QED
    BY <1>0, <1>3, <1>4, <1>9, <2>1, <2>2
<1>18. ASSUME NEW e \in Engines, Send(e), current[e].id # n PROVE Goal
  <2>1. /\ UNCHANGED <<partition, faults>> /\ current'[e] = current[e]
        /\ current[e] \in Messages /\ phase[e] = "send"
        /\ \A x \in Engines \ {e} : phase'[x] = phase[x] /\ current'[x] = current[x]
    BY <1>0, <1>18 DEF Send, Goto, LocalType
  <2>2. IsFiniteSet(Tickets(Engines, InHand(w, n)')) /\ Held(w, n)' = Held(w, n)
    BY <1>3, <1>6, <1>8, <1>18, <2>1
  <2> QED
    BY <1>0, <1>3, <1>4, <1>9, <2>1, <2>2
<1>19. ASSUME NEW e \in Engines, Republish(e) PROVE Goal
  <2> DEFINE m == Retried(current[e])
  <2>1. /\ faults' = faults /\ current'[e] = current[e]
        /\ current[e] \in Messages /\ MayRetry(current[e])
        /\ phase[e] = "republish" /\ phase'[e] = "commit"
        /\ \A x \in Engines \ {e} : phase'[x] = phase[x] /\ current'[x] = current[x]
    BY <1>0, <1>19 DEF Republish, Goto, LocalType
  <2>2. m \in Messages /\ m.id = current[e].id /\ m.count = current[e].count + 1
    BY <2>1, RetryAssumption DEF RetryAssumption, Retried, Messages, MayRetry
  <2>3. AheadFinite(F)' /\ Coming(F)' \in Nat /\ Coming(F)' = Coming(F) + Cardinality(F[m])
    <3>1. Publish(m) /\ UNCHANGED <<position, owner>>
      BY <1>19 DEF Republish
    <3> HIDE DEF m
    <3> QED
      BY <1>1, <1>2, <2>2, <3>1, PublishAhead
  <2>4. /\ Cardinality(Hand(w, n, phase[e], current[e])) = Cardinality(F[m])
        /\ Cardinality(F[m]) \in Nat
    BY <1>2, <1>8, <2>1, <2>2, FS_EmptySet
  <2>5. /\ IsFiniteSet(Tickets(Engines, InHand(w, n)')) /\ Held(w, n)' \in Nat
        /\ Held(w, n)' + Cardinality(F[m]) = Held(w, n)
    BY <1>3, <1>6, <1>7, <2>1, <2>4
  <2> HIDE DEF m
  <2> QED
    BY <1>3, <1>9, <2>1, <2>3, <2>4, <2>5
<1>20. ASSUME NEW e \in Engines, Commit(e) PROVE Goal
  <2>1. /\ CommitRead(e) /\ faults' = faults
        /\ phase[e] = "commit" /\ phase'[e] = "poll"
        /\ \A x \in Engines \ {e} : phase'[x] = phase[x] /\ current'[x] = current[x]
    BY <1>0, <1>20 DEF Commit, Goto, LocalType
  <2>2. AheadFinite(F)' /\ Coming(F)' \in Nat /\ Coming(F)' <= Coming(F)
    BY <1>1, <1>2, <2>1, CommitAhead
  <2>3. IsFiniteSet(Tickets(Engines, InHand(w, n)')) /\ Held(w, n)' = Held(w, n)
    BY <1>3, <1>6, <1>7, <2>1
  <2> QED
    BY <1>3, <1>9, <2>1, <2>2, <2>3
<1>21. ASSUME NEW k \in Notifications, NEW r \in Rows, EditMethod(k, r) PROVE Goal
  BY <1>10, <1>21 DEF EditMethod, local
<1>22. ASSUME UNCHANGED vars PROVE Goal
  BY <1>10, <1>22 DEF vars, local
<1> QED
  <2>1. Goal
    BY <1>12, <1>13, <1>14, <1>15, <1>16, <1>17, <1>18, <1>19, <1>20, <1>21, <1>22 DEF Quiet
  <2> QED
    BY <2>1 DEF Goal

\* An engine that tries n uses up what its message had for this try.
LEMMA SendLoad ==
  ASSUME LocalType, LocalType', NEW w, NEW most, Weight(w, most), NEW n, LoadFinite(w, n),
         NEW e \in Engines, Send(e), current[e].id = n
  PROVE  /\ LoadFinite(w, n)' /\ Load(w, n) \in Nat /\ Load(w, n)' \in Nat
         /\ current[e].count \in Nat
         /\ Load(w, n)' + Cardinality(w[current[e].count]) =
              Load(w, n) + (IF phase'[e] = "republish"
                              THEN Cardinality(w[current[e].count + 1]) ELSE 0)
<1>1. /\ UNCHANGED partition /\ current'[e] = current[e]
      /\ current[e] \in Messages /\ phase[e] = "send"
      /\ phase'[e] \in {"publishSent", "republish", "commit"}
      /\ \A x \in Engines \ {e} : phase'[x] = phase[x] /\ current'[x] = current[x]
  BY DEF Send, Goto, LocalType
<1>2. AheadFinite(Share(w, n))' /\ Coming(Share(w, n))' = Coming(Share(w, n))
  <2>1. Ahead(Share(w, n))' = Ahead(Share(w, n))
    BY <1>1 DEF Ahead, First, partition
  <2> QED
    BY <2>1 DEF AheadFinite, Coming, LoadFinite
<1>3. /\ current[e].count \in Nat
      /\ Cardinality(w[current[e].count]) \in Nat /\ Cardinality(w[current[e].count + 1]) \in Nat
      /\ Cardinality(Hand(w, n, phase[e], current[e])) = Cardinality(w[current[e].count])
      /\ Cardinality(Hand(w, n, phase'[e], current'[e])) =
           IF phase'[e] = "republish" THEN Cardinality(w[current[e].count + 1]) ELSE 0
  <2>1. current[e].count \in Nat
    BY <1>1, MessageCounts
  <2>2. /\ Cardinality(w[current[e].count]) \in Nat
        /\ Cardinality(w[current[e].count + 1]) \in Nat
    BY <2>1, WeightSize
  <2>3. /\ Cardinality(Hand(w, n, phase[e], current[e])) = Cardinality(w[current[e].count])
        /\ Cardinality(Hand(w, n, phase'[e], current[e])) =
             IF phase'[e] = "republish" THEN Cardinality(w[current[e].count + 1]) ELSE 0
    BY <1>1, HandSize
  <2> QED
    BY <1>1, <2>1, <2>2, <2>3
<1>4. /\ IsFiniteSet(Tickets(Engines, InHand(w, n)'))
      /\ Held(w, n) \in Nat /\ Held(w, n)' \in Nat
      /\ Held(w, n)' + Cardinality(Hand(w, n, phase[e], current[e]))
           = Held(w, n) + Cardinality(Hand(w, n, phase'[e], current'[e]))
  BY <1>1, HandChange DEF LoadFinite
<1>5. Coming(Share(w, n)) \in Nat
  BY LoadType
<1> QED
  BY <1>2, <1>3, <1>4, <1>5 DEF LoadFinite, Load

LEMMA LoadInit == \A w, n : Init => LoadFinite(w, n) /\ Load(w, n) = 0
<1> SUFFICES ASSUME NEW w, NEW n, Init PROVE LoadFinite(w, n) /\ Load(w, n) = 0
  OBVIOUS
<1>1. queue = <<>> /\ Len(queue) = 0 /\ First = 0
  BY EmptySeq DEF Init, PartitionInit, First
<1>2. Tickets(Nat, Ahead(Share(w, n))) = {}
  BY <1>1 DEF Tickets, Ahead, Left
<1>3. Tickets(Engines, InHand(w, n)) = {}
  BY DEF Init, Tickets, InHand, Hand
<1>4. AheadFinite(Share(w, n)) /\ Coming(Share(w, n)) = 0
  BY <1>2, FS_EmptySet DEF AheadFinite, Coming
<1>5. IsFiniteSet(Tickets(Engines, InHand(w, n))) /\ Held(w, n) = 0
  BY <1>3, FS_EmptySet DEF Held
<1> QED
  BY <1>4, <1>5 DEF LoadFinite, Load

-----------------------------------------------------------------------------
(* The limit.  A message is good for the attempts from its retry_count up  *)
(* to the limit.  Publishing a notification for the first time adds a      *)
(* whole run of attempts, and so does a failure; every attempt takes one   *)
(* away.                                                                   *)

\* The attempts from the count k on.
Chances == [k \in Nat |-> k .. Tries - 1]
Rest(k) == IF k < Tries THEN Tries - k ELSE 0

Bound(n) == Tries * ((IF n \in enqueued THEN 1 ELSE 0) + faults)

Paid(n) == LoadFinite(Chances, n) /\ attempts[n] + Load(Chances, n) <= Bound(n)

BelowLimit ==
  \A e \in Engines :
    current[e] # NoMessage /\ current[e].count > 0 => current[e].count < MaxAttempts

AInv == KInv /\ BelowLimit /\ \A n \in Notifications : Paid(n)

LEMMA TriesType == Tries \in Nat \ {0}
  BY RetryAssumption DEF RetryAssumption, Tries

LEMMA RestSize ==
  ASSUME NEW k \in Nat
  PROVE  /\ k .. Tries - 1 \in SUBSET Nat /\ IsFiniteSet(k .. Tries - 1)
         /\ Cardinality(k .. Tries - 1) = Rest(k) /\ Rest(k) \in 0 .. Tries
<1>1. k \in Int /\ Tries - 1 \in Int
  BY TriesType
<1>2. /\ IsFiniteSet(k .. Tries - 1)
      /\ Cardinality(k .. Tries - 1) = IF k > Tries - 1 THEN 0 ELSE Tries - 1 - k + 1
  BY <1>1, FS_Interval
<1> QED
  BY <1>2, TriesType DEF Rest

LEMMA ChancesWeigh ==
  /\ Weight(Chances, Tries)
  /\ \A k \in Nat : Cardinality(Chances[k]) = Rest(k) /\ Rest(k) \in Nat
<1>1. ASSUME NEW k \in Nat
      PROVE  /\ Chances[k] \in SUBSET Nat /\ IsFiniteSet(Chances[k])
             /\ Cardinality(Chances[k]) = Rest(k) /\ Rest(k) \in Nat /\ Rest(k) <= Tries
             /\ Cardinality(Chances[k + 1]) = Rest(k + 1) /\ Rest(k + 1) <= Rest(k)
  <2>1. k + 1 \in Nat /\ Tries \in Nat
    BY TriesType
  <2>2. /\ Chances[k] = k .. Tries - 1 /\ Chances[k + 1] = (k + 1) .. Tries - 1
    BY <2>1 DEF Chances
  <2>3. Rest(k + 1) <= Rest(k)
    BY <2>1 DEF Rest
  <2> QED
    BY <2>1, <2>2, <2>3, RestSize
<1>2. Chances \in [Nat -> SUBSET Nat] /\ Tries \in Nat
  BY <1>1, TriesType DEF Chances
<1> QED
  BY <1>1, <1>2 DEF Weight

LEMMA BelowLimitStep == TInv /\ BelowLimit /\ AnyStep => BelowLimit'
<1> SUFFICES ASSUME PartitionType, LocalType, DataType, BelowLimit, AnyStep PROVE BelowLimit'
  BY Parts
<1>1. ASSUME NEW e \in Engines, Receive(e) PROVE BelowLimit'
  <2>1. position + 1 \in 1 .. Len(queue) /\ current' = [current EXCEPT ![e] = queue[position + 1]]
    BY <1>1, LenProperties DEF Receive, HasNext, NextMessage, PartitionType
  <2> QED
    BY <2>1 DEF BelowLimit, PartitionType, LocalType
<1>2. ASSUME NEW e \in Engines, Crash(e) \/ Commit(e) PROVE BelowLimit'
  BY <1>2 DEF BelowLimit, Crash, Commit, LocalType
<1>3. CASE UNCHANGED current
  BY <1>3 DEF BelowLimit
<1> QED
  BY <1>1, <1>2, <1>3, FirstFailureOutside
     DEF AnyStep, Outside, Next, Environment, EngineStep, EditMethod, Restart, AssignFree,
         Rebalance, Construct, Send, PublishSent, Republish, vars, local

\* A try of n takes one chance away.
LEMMA SendChance ==
  ASSUME TInv, TInv', BelowLimit, NEW n \in Notifications, LoadFinite(Chances, n),
         NEW e \in Engines, Send(e), current[e].id = n
  PROVE  /\ LoadFinite(Chances, n)'
         /\ Load(Chances, n) \in Nat /\ Load(Chances, n)' \in Nat
         /\ Load(Chances, n)' + 1 <= Load(Chances, n)
<1>0. LocalType /\ LocalType'
  BY Parts DEF TInv, TypeOK, LocalType, MayRetry
<1> DEFINE c == current[e].count
<1>1. c \in Nat /\ Rest(c) \in Nat /\ Rest(c + 1) \in Nat /\ Rest(c) = Rest(c + 1) + 1
  <2>1. current[e] \in Messages
    BY <1>0 DEF Send, LocalType
  <2>2. c \in Nat /\ c < Tries
    BY <2>1, MessageCounts, MessageIsNotNoMessage, TriesType DEF BelowLimit, Tries
  <2> HIDE DEF c
  <2> QED
    BY <2>2, TriesType DEF Rest
<1>2. /\ Cardinality(Chances[c]) = Rest(c) /\ Cardinality(Chances[c + 1]) = Rest(c + 1)
  BY <1>1, ChancesWeigh
<1>3. /\ LoadFinite(Chances, n)' /\ Load(Chances, n) \in Nat /\ Load(Chances, n)' \in Nat
      /\ Load(Chances, n)' + Cardinality(Chances[c]) =
           Load(Chances, n) + (IF phase'[e] = "republish" THEN Cardinality(Chances[c + 1]) ELSE 0)
  BY <1>0, ChancesWeigh, SendLoad
<1> HIDE DEF c
<1> QED
  BY <1>1, <1>2, <1>3

\* A first failure adds a whole run of them.
LEMMA OutsideChances ==
  ASSUME PartitionType, NEW n, LoadFinite(Chances, n),
         NEW s \in Seq(FirstMessages), Outside(s),
         \A i, j \in 1 .. Len(s) : s[i].id = s[j].id => i = j
  PROVE  /\ LoadFinite(Chances, n)'
         /\ Load(Chances, n)' =
              Load(Chances, n) + (IF \E i \in 1 .. Len(s) : s[i].id = n THEN Tries ELSE 0)
<1>1. Cardinality(Chances[0]) = Tries
  BY ChancesWeigh, TriesType DEF Rest
<1>2. Weight(Chances, Tries)
  BY ChancesWeigh
<1> QED
  BY <1>1, <1>2, OutsideLoad

\* Multiples of a number keep the order.
LEMMA Multiples ==
  ASSUME NEW K \in Nat
  PROVE  \A x, y \in Nat : /\ K * x \in Nat
                           /\ x <= y => K * x <= K * y
                           /\ x + 1 <= y => K * x + K <= K * y
<1>1. SUFFICES ASSUME NEW x \in Nat, NEW y \in Nat
               PROVE  /\ K * x \in Nat
                      /\ x <= y => K * x <= K * y
                      /\ x + 1 <= y => K * x + K <= K * y
  OBVIOUS
<1>2. K * x \in Nat
  BY <1>1
<1>3. ASSUME NEW d \in Nat PROVE K * (x + d) = K * x + K * d /\ K * d \in Nat
  BY <1>1
<1>4. x <= y => y = x + (y - x) /\ y - x \in Nat
  OBVIOUS
<1>5. x <= y => K * x <= K * y
  BY <1>1, <1>2, <1>3, <1>4
<1>6. K * (x + 1) = K * x + K
  BY <1>1
<1>7. ASSUME x + 1 <= y PROVE K * (x + 1) <= K * y
  <2>1. y = (x + 1) + (y - (x + 1)) /\ y - (x + 1) \in Nat
    BY <1>7
  <2>2. \A d \in Nat : K * ((x + 1) + d) = K * (x + 1) + K * d /\ K * d \in Nat
    BY <1>1
  <2> QED
    BY <1>1, <2>1, <2>2
<1> QED
  BY <1>2, <1>5, <1>6, <1>7

LEMMA BoundStep ==
  ASSUME DataType, DataType', NEW n \in Notifications
  PROVE  /\ Bound(n) \in Nat /\ Bound(n)' \in Nat
         /\ enqueued \subseteq enqueued' /\ faults' = faults => Bound(n)' >= Bound(n)
         /\ enqueued \subseteq enqueued' /\ faults' = faults + 1 => Bound(n)' >= Bound(n) + Tries
         /\ n \notin enqueued /\ n \in enqueued' /\ faults' = faults => Bound(n)' >= Bound(n) + Tries
<1>1. Tries \in Nat /\ faults \in Nat /\ faults' \in Nat
  BY TriesType DEF DataType
<1>2. \A x, y \in Nat : /\ Tries * x \in Nat
                        /\ x <= y => Tries * x <= Tries * y
                        /\ x + 1 <= y => Tries * x + Tries <= Tries * y
  BY <1>1, Multiples
<1> DEFINE i == IF n \in enqueued THEN 1 ELSE 0
           j == IF n \in enqueued' THEN 1 ELSE 0
           b == i + faults
           c == j + faults'
<1>3. /\ i \in {0, 1} /\ j \in {0, 1}
      /\ i = 1 <=> n \in enqueued
      /\ j = 1 <=> n \in enqueued'
  OBVIOUS
<1>4. Bound(n) = Tries * b /\ Bound(n)' = Tries * c
  BY DEF Bound
<1> HIDE DEF i, j
<1>5. enqueued \subseteq enqueued' => i <= j
  BY <1>3
<1>6. n \notin enqueued /\ n \in enqueued' => i + 1 <= j
  BY <1>3
<1>7. i \in Nat /\ j \in Nat
  BY <1>3
<1>8. /\ b \in Nat /\ c \in Nat
      /\ enqueued \subseteq enqueued' /\ faults' = faults => b <= c
      /\ enqueued \subseteq enqueued' /\ faults' = faults + 1 => b + 1 <= c
      /\ n \notin enqueued /\ n \in enqueued' /\ faults' = faults => b + 1 <= c
  <2>1. b \in Nat /\ c \in Nat
    <3>1. \A k, l \in Nat : k + l \in Nat
      OBVIOUS
    <3> QED
      BY <1>1, <1>7, <3>1
  <2>2. ASSUME i <= j, faults' = faults PROVE b <= c
    BY <1>1, <1>7, <2>2
  <2>3. ASSUME i <= j, faults' = faults + 1 PROVE b + 1 <= c
    BY <1>1, <1>7, <2>3
  <2>4. ASSUME i + 1 <= j, faults' = faults PROVE b + 1 <= c
    BY <1>1, <1>7, <2>4
  <2> HIDE DEF b, c
  <2> QED
    BY <1>5, <1>6, <2>1, <2>2, <2>3, <2>4
<1> QED
  <2> HIDE DEF b, c
  <2> QED
    BY <1>2, <1>4, <1>8

LEMMA PaidStep ==
  ASSUME AInv, [Next]_vars, NEW n \in Notifications
  PROVE  Paid(n)'
<1>1. /\ TInv /\ OneRead /\ BelowLimit /\ LoadFinite(Chances, n) /\ TInv'
      /\ PartitionType /\ DataType /\ DataType'
  <2>1. TInv /\ TInv' /\ OneRead /\ BelowLimit /\ Paid(n)
    BY TypeStep DEF AInv, KInv, AnyStep
  <2> QED
    BY <2>1, Parts DEF TInv, TypeOK, DataType, Paid
<1>2. /\ Load(Chances, n) \in Nat /\ attempts[n] \in Nat /\ attempts'[n] \in Nat
      /\ faults \in Nat /\ Tries \in Nat /\ attempts[n] + Load(Chances, n) <= Bound(n)
  BY <1>1, LoadType, TriesType DEF DataType, AInv, Paid
<1>3. /\ Bound(n) \in Nat /\ Bound(n)' \in Nat
      /\ enqueued \subseteq enqueued' /\ faults' = faults => Bound(n)' >= Bound(n)
      /\ enqueued \subseteq enqueued' /\ faults' = faults + 1 => Bound(n)' >= Bound(n) + Tries
      /\ n \notin enqueued /\ n \in enqueued' /\ faults' = faults => Bound(n)' >= Bound(n) + Tries
  BY <1>1, BoundStep
<1>4. ASSUME NEW k \in Notifications, FirstFailure(k) PROVE Paid(n)'
  <2>1. PICK s \in Seq(FirstMessages) : Len(s) = 1 /\ s[1].id = k /\ Outside(s)
    BY <1>1, <1>4, FirstFailureOutside
  <2>2. /\ enqueued' = enqueued \cup {k} /\ attempts' = attempts
        /\ \/ k \notin enqueued /\ faults' = faults
           \/ faults' = faults + 1
    BY <1>4 DEF FirstFailure, Fault
  <2>3. \A i, j \in 1 .. Len(s) : s[i].id = s[j].id => i = j
    BY <2>1
  <2>4. (\E i \in 1 .. Len(s) : s[i].id = n) <=> n = k
    BY <2>1
  <2>5. /\ LoadFinite(Chances, n)'
        /\ Load(Chances, n)' = Load(Chances, n) + (IF n = k THEN Tries ELSE 0)
    BY <1>1, <2>1, <2>3, <2>4, OutsideChances
  <2>6. Bound(n)' >= Bound(n) + (IF n = k THEN Tries ELSE 0)
    BY <1>2, <1>3, <2>2
  <2> QED
    BY <1>2, <1>3, <2>2, <2>5, <2>6 DEF Paid
<1>5. ASSUME Quiet(n) PROVE Paid(n)'
  <2>1. /\ enqueued' = enqueued /\ attempts'[n] = attempts[n]
        /\ faults' = faults \/ faults' = faults + 1
    BY <1>1, <1>5, QuietKeeps
  <2>2. /\ LoadFinite(Chances, n)' /\ Load(Chances, n)' \in Nat
        /\ Load(Chances, n)' <= Load(Chances, n) + (IF faults' = faults THEN 0 ELSE Tries)
    BY <1>1, <1>5, ChancesWeigh, QuietLoad
  <2>3. Bound(n)' >= Bound(n) + (IF faults' = faults THEN 0 ELSE Tries)
    BY <1>2, <1>3, <2>1
  <2> QED
    BY <1>2, <1>3, <2>1, <2>2, <2>3 DEF Paid
<1>6. ASSUME NEW e \in Engines, Send(e), current[e].id = n PROVE Paid(n)'
  <2>1. UNCHANGED <<enqueued, faults>> /\ attempts'[n] <= attempts[n] + 1
    <3>1. attempts' = attempts \/ attempts' = [attempts EXCEPT ![n] = @ + 1]
      BY <1>6 DEF Send
    <3> QED
      BY <1>1, <1>2, <1>6, <3>1 DEF Send, DataType
  <2>2. /\ LoadFinite(Chances, n)' /\ Load(Chances, n)' \in Nat
        /\ Load(Chances, n)' + 1 <= Load(Chances, n)
    BY <1>1, <1>6, SendChance
  <2>3. Bound(n)' >= Bound(n)
    BY <1>3, <2>1
  <2> QED
    BY <1>2, <1>3, <2>1, <2>2, <2>3 DEF Paid
<1> QED
  BY <1>4, <1>5, <1>6, StepKinds

LEMMA PaidInit == Init => AInv
<1> SUFFICES ASSUME Init PROVE AInv
  OBVIOUS
<1>1. KInv /\ BelowLimit
  BY KeptInit DEF Init, BelowLimit
<1>2. ASSUME NEW n \in Notifications PROVE Paid(n)
  <2>1. enqueued = {} /\ faults = 0 /\ attempts[n] = 0
    BY DEF Init
  <2>2. Bound(n) = 0
    BY <2>1, TriesType DEF Bound
  <2>3. LoadFinite(Chances, n) /\ Load(Chances, n) = 0
    BY LoadInit
  <2> QED
    BY <2>1, <2>2, <2>3 DEF Paid
<1> QED
  BY <1>1, <1>2 DEF AInv

\* However many engines there are and however they fail, a notification is tried no
\* more often than the limit says, and that once more for every failure.
THEOREM AttemptsArePaidFor == Spec => []AttemptsPaidFor
<1>1. AInv /\ [Next]_vars => AInv'
  <2> SUFFICES ASSUME AInv, [Next]_vars PROVE AInv'
    OBVIOUS
  <2>1. KInv'
    BY KInvStep DEF AInv, AnyStep
  <2>2. BelowLimit'
    BY BelowLimitStep DEF AInv, KInv, AnyStep
  <2>3. \A n \in Notifications : Paid(n)'
    BY PaidStep
  <2> QED
    BY <2>1, <2>2, <2>3 DEF AInv
<1>2. AInv => AttemptsPaidFor
  <2> SUFFICES ASSUME AInv, NEW n \in Notifications PROVE attempts[n] <= Tries * (1 + faults)
    BY DEF AttemptsPaidFor
  <2>1. /\ Paid(n) /\ attempts[n] \in Nat /\ faults \in Nat /\ Tries \in Nat
        /\ Load(Chances, n) \in Nat
    BY TriesType, LoadType DEF AInv, KInv, TInv, TypeOK, Paid
  <2>2. attempts[n] <= Bound(n) /\ Bound(n) \in Nat
    BY <2>1 DEF Paid, Bound
  <2>3. Bound(n) <= Tries * (1 + faults)
    BY <2>1 DEF Bound
  <2> QED
    BY <2>1, <2>2, <2>3
<1> QED
  BY PaidInit, <1>1, <1>2, PTL DEF Spec

-----------------------------------------------------------------------------
(* Deleted methods.  When a method is deleted, the engines that are about  *)
(* to use it are the owner of the partition and those that have lost it in *)
(* the middle of their work; every one of these stands for a failure.      *)

Losers == {e \in Engines : current[e] # NoMessage /\ ~(owner = e /\ position # 0)}
Sending(n) ==
  {e \in Engines : phase[e] = "send" /\ method[e] = "plugin" /\ current[e].id = n}

LosersPaidFor == Cardinality(Losers) <= faults

Late(n) ==
  /\ row[n] # "deleted" => lateSends[n] = 0
  /\ row[n] = "deleted" => lateSends[n] + Cardinality(Sending(n)) <= 1 + faults

LInv == TInv /\ LosersPaidFor /\ \A n \in Notifications : Late(n)

LEMMA LosersFinite == IsFiniteSet(Losers) /\ \A n : IsFiniteSet(Sending(n))
<1>1. Losers \in SUBSET Engines /\ \A n : Sending(n) \in SUBSET Engines
  BY DEF Losers, Sending
<1> QED
  BY <1>1, FS_Subset, RetryAssumption DEF RetryAssumption

LEMMA FaultsGrow == faults \in Nat /\ [Next]_vars => faults' \in Nat /\ faults' >= faults
<1> SUFFICES ASSUME faults \in Nat, [Next]_vars PROVE faults' \in Nat /\ faults' >= faults
  OBVIOUS
<1>1. faults' = faults \/ faults' = faults + 1
  BY DEF Next, Environment, EngineStep, FirstFailure, EditMethod, Crash, Restart, AssignFree,
         Rebalance, Receive, Construct, Send, PublishSent, Republish, Commit, vars, Fault
<1> QED
  BY <1>1

LEMMA LosersStep == TInv /\ LosersPaidFor /\ [Next]_vars => LosersPaidFor'
<1> SUFFICES ASSUME TInv, LosersPaidFor, [Next]_vars PROVE LosersPaidFor'
  OBVIOUS
<1>0. /\ LocalType /\ IsFiniteSet(Losers) /\ faults \in Nat
      /\ NoEngine \notin Engines /\ NoMessage \notin Messages
  BY Parts, LosersFinite, RetryAssumption, MessageIsNotNoMessage DEF DataType, RetryAssumption
<1>1. ASSUME Losers' \subseteq Losers, faults' \in Nat, faults' >= faults PROVE LosersPaidFor'
  <2>1. /\ Cardinality(Losers') \in Nat /\ Cardinality(Losers) \in Nat
        /\ Cardinality(Losers') <= Cardinality(Losers)
    BY <1>0, <1>1, NoneMore
  <2> QED
    BY <1>0, <1>1, <2>1 DEF LosersPaidFor
<1>2. ASSUME NEW e \in Engines, Rebalance(e) PROVE LosersPaidFor'
  <2>1. Losers' \subseteq Losers \cup {owner} /\ faults' = faults + 1
    BY <1>2 DEF Rebalance, Fault, Acquire, Losers, local
  <2>2. /\ Cardinality(Losers') \in Nat /\ Cardinality(Losers) \in Nat
        /\ Cardinality(Losers') <= Cardinality(Losers) + 1
    BY <1>0, <2>1, OneMore
  <2> QED
    BY <1>0, <2>1, <2>2 DEF LosersPaidFor
<1>3. faults' \in Nat /\ faults' >= faults
  BY <1>0, FaultsGrow
<1>4. CASE UNCHANGED <<owner, position, current>>
  <2>1. Losers' \subseteq Losers
    BY <1>4 DEF Losers
  <2> QED
    BY <1>1, <1>3, <2>1
<1>5. ASSUME NEW e \in Engines, Crash(e) \/ AssignFree(e) \/ Receive(e) \/ Commit(e)
      PROVE  LosersPaidFor'
  <2>1. Losers' \subseteq Losers
    <3>1. CASE Crash(e)
      BY <1>0, <3>1 DEF Crash, Release, Losers, LocalType
    <3>2. CASE AssignFree(e)
      BY <1>0, <3>2 DEF AssignFree, Acquire, Losers, local
    <3>3. CASE Receive(e)
      BY <1>0, <3>3, Parts DEF Receive, HasNext, Advance, Losers, LocalType, PartitionType
    <3>4. CASE Commit(e)
      BY <1>0, <3>4 DEF Commit, CommitRead, Losers, LocalType
    <3> QED
      BY <1>5, <3>1, <3>2, <3>3, <3>4
  <2> QED
    BY <1>1, <1>3, <2>1
<1> QED
  BY <1>2, <1>4, <1>5
     DEF Next, Environment, EngineStep, FirstFailure, EditMethod, Restart, Construct, Send,
         PublishSent, Republish, vars, partition, local

LEMMA LateStep ==
  ASSUME LInv, [Next]_vars, NEW n \in Notifications
  PROVE  Late(n)'
<1>0. /\ LocalType /\ DataType /\ LosersPaidFor /\ Late(n)
      /\ IsFiniteSet(Losers) /\ IsFiniteSet(Sending(n)) /\ NoMessage \notin Messages
  BY Parts, LosersFinite, MessageIsNotNoMessage DEF LInv
<1>1. /\ lateSends[n] \in Nat /\ faults \in Nat /\ faults' \in Nat /\ faults' >= faults
      /\ Cardinality(Sending(n)) \in Nat /\ Cardinality(Losers) \in Nat
  BY <1>0, FaultsGrow, FS_CardinalityType DEF DataType
<1>2. ASSUME Sending(n)' \subseteq Sending(n), UNCHANGED lateSends, row'[n] = row[n]
      PROVE  Late(n)'
  <2>1. Cardinality(Sending(n)') \in Nat /\ Cardinality(Sending(n)') <= Cardinality(Sending(n))
    BY <1>0, <1>2, NoneMore
  <2> QED
    BY <1>0, <1>1, <1>2, <2>1 DEF Late
<1>3. ASSUME NEW k \in Notifications, NEW r \in Rows, EditMethod(k, r) PROVE Late(n)'
  <2>1. Sending(n)' = Sending(n) /\ UNCHANGED <<lateSends, faults>>
    BY <1>3 DEF EditMethod, Sending, local, history
  <2>2. CASE row'[n] = row[n]
    BY <1>2, <2>1, <2>2
  <2>3. CASE row'[n] # row[n]
    <3>1. lateSends[n] = 0
      BY <1>0, <1>3, <2>3 DEF EditMethod, DataType, Late
    <3>2. Sending(n) \subseteq Losers \cup {owner}
      BY <1>0 DEF Sending, Losers, LocalType
    <3>3. Cardinality(Sending(n)) <= Cardinality(Losers) + 1
      BY <1>0, <3>2, OneMore
    <3>4. Cardinality(Sending(n)) <= faults + 1
      BY <1>0, <1>1, <3>3 DEF LosersPaidFor
    <3> QED
      BY <1>1, <2>1, <3>1, <3>4 DEF Late
  <2> QED
    BY <2>2, <2>3
<1>4. ASSUME NEW e \in Engines, Construct(e) PROVE Late(n)'
  <2>1. UNCHANGED <<row, lateSends, current>> /\ phase[e] = "received"
    BY <1>4 DEF Construct
  <2>2. CASE row[n] # "deleted"
    BY <1>0, <2>1, <2>2 DEF Late
  <2>3. CASE row[n] = "deleted" /\ Sending(n)' \subseteq Sending(n)
    BY <1>2, <2>1, <2>3
  <2>4. CASE row[n] = "deleted" /\ ~(Sending(n)' \subseteq Sending(n))
    <3>1. Sending(n)' \subseteq Sending(n) \cup {e}
      BY <1>0, <1>4 DEF Construct, Goto, Sending, LocalType
    <3>2. current[e].id = n /\ phase'[e] = "send"
      BY <1>0, <1>4, <2>4, <3>1 DEF Construct, Goto, Sending, LocalType
    <3>3. faults' = faults + 1
      BY <1>0, <1>4, <2>4, <3>2 DEF Construct, Goto, Fault, LocalType
    <3>4. /\ Cardinality(Sending(n)') \in Nat
          /\ Cardinality(Sending(n)') <= Cardinality(Sending(n)) + 1
      BY <1>0, <3>1, OneMore
    <3> QED
      BY <1>0, <1>1, <2>1, <2>4, <3>3, <3>4 DEF Late
  <2> QED
    BY <2>2, <2>3, <2>4
<1>5. ASSUME NEW e \in Engines, Send(e) PROVE Late(n)'
  <2>1. /\ UNCHANGED <<row, current, method, faults>> /\ phase[e] = "send"
        /\ Sending(n)' \subseteq Sending(n) \ {e}
    BY <1>0, <1>5 DEF Send, Goto, Sending, LocalType
  <2>2. CASE lateSends'[n] = lateSends[n]
    <3>1. Cardinality(Sending(n)') \in Nat /\ Cardinality(Sending(n)') <= Cardinality(Sending(n))
      BY <1>0, <2>1, NoneMore
    <3> QED
      BY <1>0, <1>1, <2>1, <2>2, <3>1 DEF Late
  <2>3. CASE lateSends'[n] # lateSends[n]
    <3>1. /\ current[e].id = n /\ method[e] = "plugin" /\ row[n] = "deleted"
          /\ lateSends'[n] = lateSends[n] + 1
      BY <1>0, <1>5, <2>3 DEF Send, DataType
    <3>2. e \in Sending(n)
      BY <2>1, <3>1 DEF Sending
    <3>3. /\ Cardinality(Sending(n)') \in Nat
          /\ Cardinality(Sending(n)') + 1 <= Cardinality(Sending(n))
      BY <1>0, <2>1, <3>2, OneLess
    <3> QED
      BY <1>0, <1>1, <2>1, <3>1, <3>3 DEF Late
  <2> QED
    BY <2>2, <2>3
<1>6. ASSUME NEW e \in Engines,
             Crash(e) \/ Restart(e) \/ Receive(e) \/ PublishSent(e) \/ Republish(e) \/ Commit(e)
      PROVE  Late(n)'
  <2>1. /\ UNCHANGED <<row, lateSends, method>> /\ phase'[e] # "send"
        /\ \A x \in Engines \ {e} : phase'[x] = phase[x] /\ current'[x] = current[x]
    BY <1>0, <1>6 DEF Crash, Restart, Receive, PublishSent, Republish, Commit, Goto, LocalType,
                      history
  <2>2. Sending(n)' \subseteq Sending(n)
    BY <2>1 DEF Sending
  <2> QED
    BY <1>2, <2>1, <2>2
<1>7. CASE UNCHANGED <<row, lateSends, local>>
  <2>1. Sending(n)' \subseteq Sending(n)
    BY <1>7 DEF Sending, local
  <2> QED
    BY <1>2, <1>7, <2>1
<1> QED
  BY <1>3, <1>4, <1>5, <1>6, <1>7
     DEF Next, Environment, EngineStep, FirstFailure, AssignFree, Rebalance, vars, history

\* A method that is deleted is used once more, by the engine that has looked it up
\* before, and again only after a failure, for any number of engines.
THEOREM LateSendsArePaidFor == Spec => []LateSendsPaidFor
<1>1. Init => LInv
  <2> SUFFICES ASSUME Init PROVE LInv
    OBVIOUS
  <2>1. Losers = {} /\ faults = 0
    BY DEF Init, Losers
  <2>2. \A n \in Notifications : row[n] # "deleted" /\ lateSends[n] = 0
    BY DEF Init
  <2> QED
    BY <2>1, <2>2, TypeInit, FS_EmptySet DEF LInv, LosersPaidFor, Late
<1>2. LInv /\ [Next]_vars => LInv'
  BY TypeStep, LosersStep, LateStep DEF LInv, AnyStep
<1>3. LInv => LateSendsPaidFor
  <2> SUFFICES ASSUME LInv, NEW n \in Notifications PROVE lateSends[n] <= 1 + faults
    BY DEF LateSendsPaidFor
  <2>1. /\ Late(n) /\ lateSends[n] \in Nat /\ faults \in Nat /\ Cardinality(Sending(n)) \in Nat
    BY LosersFinite, FS_CardinalityType DEF LInv, TInv, TypeOK
  <2> QED
    BY <2>1 DEF Late
<1> QED
  BY <1>1, <1>2, <1>3, PTL DEF Spec
=============================================================================
