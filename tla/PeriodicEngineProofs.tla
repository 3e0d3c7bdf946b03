------------------------- MODULE PeriodicEngineProofs -------------------------
(***************************************************************************)
(* What PeriodicEngine guarantees for any number of engines,               *)
(* notifications, state changes and failures.                              *)
(***************************************************************************)
EXTENDS PeriodicEngine, TopicPartitionProofs

-----------------------------------------------------------------------------
(* Type correctness.                                                       *)

PartitionType ==
  /\ queue \in Seq(Messages)
  /\ position \in 0 .. Len(queue)
  /\ owner \in Engines \cup {NoEngine}

LocalType ==
  /\ phase \in [Engines -> Phases]
  /\ current \in [Engines -> Messages \cup {NoMessage}]
  /\ method \in [Engines -> Rows \ {"deleted"}]
  /\ \A e \in Engines : current[e] = NoMessage <=> phase[e] \in {"poll", "down"}

DataType ==
  /\ row \in [Notifications -> Rows]
  /\ alarm \in [Notifications -> AlarmStates]
  /\ due \in [Notifications -> Nat]
  /\ starts \in [Notifications -> Nat]
  /\ unbroken \in [Notifications -> BOOLEAN]
  /\ departures \in [Notifications -> Nat]
  /\ lateSends \in [Notifications -> Nat]
  /\ faults \in Nat

LEMMA Parts == TypeOK <=> PartitionType /\ LocalType /\ DataType
  BY DEF TypeOK, PartitionType, LocalType, DataType

LEMMA MessageIsNotNoMessage == NoMessage \notin Messages
  BY PeriodicAssumption DEF PeriodicAssumption, Messages

LEMMA PublishType ==
  ASSUME PartitionType, NEW m \in Messages, Publish(m), UNCHANGED <<position, owner>>
  PROVE  PartitionType'
  BY Published DEF PartitionType

LEMMA CommitType ==
  ASSUME PartitionType, NEW e \in Engines, CommitRead(e)
  PROVE  PartitionType'
<1>1. CASE owner = e
  <2>1. /\ queue' \in Seq(Messages) /\ Len(queue) \in Nat /\ Len(queue') = Len(queue) - position
        /\ position' = 0 /\ owner' = owner
    BY <1>1, Committed DEF PartitionType
  <2> QED
    BY <2>1 DEF PartitionType
<1>2. CASE owner # e
  BY <1>2 DEF PartitionType, CommitRead
<1> QED
  BY <1>1, <1>2

LEMMA MoveType ==
  ASSUME PartitionType, NEW e \in Engines,
         Acquire(e) \/ Release(e) \/ (Advance /\ HasNext(e)) \/ UNCHANGED partition
  PROVE  PartitionType'
  BY LenProperties DEF PartitionType, Acquire, Release, Advance, HasNext, partition

LEMMA TypeStep == TypeOK /\ [Next]_vars => TypeOK'
<1> SUFFICES ASSUME PartitionType, LocalType, DataType, [Next]_vars
             PROVE  PartitionType' /\ LocalType' /\ DataType'
  BY Parts DEF PartitionType, LocalType, DataType, TypeOK, Messages
<1> USE PeriodicAssumption, MessageIsNotNoMessage DEF PeriodicAssumption
<1>1. ASSUME NEW n \in Notifications, Enter(n) \/ \E state \in {"changed", "deleted"} : Leave(n, state)
      PROVE  PartitionType' /\ LocalType' /\ DataType'
  <2>1. PartitionType' /\ LocalType'
    BY <1>1 DEF Enter, Leave, PartitionType, LocalType, partition, local
  <2>2. /\ alarm' \in [Notifications -> AlarmStates] /\ due' \in [Notifications -> Nat]
        /\ departures' \in [Notifications -> Nat]
    BY <1>1 DEF Enter, Leave, DataType, AlarmStates, history
  <2>3. unbroken' \in [Notifications -> BOOLEAN]
    BY <1>1 DEF Enter, Leave, DataType
  <2>4. UNCHANGED <<row, starts, lateSends, faults>>
    BY <1>1 DEF Enter, Leave, history
  <2> QED
    BY <2>1, <2>2, <2>3, <2>4 DEF DataType
<1>2. ASSUME NEW n \in Notifications, NEW r \in Rows, EditMethod(n, r)
      PROVE  PartitionType' /\ LocalType' /\ DataType'
  <2>1. PartitionType' /\ LocalType'
    BY <1>2 DEF EditMethod, PartitionType, LocalType, partition, local
  <2>2. DataType'
    BY <1>2 DEF EditMethod, DataType, history
  <2> QED
    BY <2>1, <2>2
<1>3. ASSUME NEW n \in Notifications, Start(n)
      PROVE  PartitionType' /\ LocalType' /\ DataType'
  <2>1. [id |-> n] \in Messages
    BY DEF Messages
  <2>2. PartitionType'
    <3>1. CASE Publish([id |-> n])
      BY <1>3, <2>1, <3>1, PublishType DEF Start
    <3>2. CASE UNCHANGED queue
      BY <1>3, <3>2 DEF Start, PartitionType
    <3> QED
      BY <1>3, <3>1, <3>2 DEF Start
  <2>3. LocalType'
    BY <1>3 DEF Start, LocalType, local
  <2>4. starts' \in [Notifications -> Nat] /\ due' \in [Notifications -> Nat] /\ faults' \in Nat
    BY <1>3 DEF Start, Fault, DataType
  <2>5. unbroken' \in [Notifications -> BOOLEAN]
    BY <1>3 DEF Start, DataType
  <2> QED
    BY <1>3, <2>2, <2>3, <2>4, <2>5 DEF Start, DataType, database
<1>4. ASSUME NEW e \in Engines, Crash(e)
      PROVE  PartitionType' /\ LocalType' /\ DataType'
  <2>1. PartitionType'
    BY <1>4, MoveType DEF Crash, Die
  <2> QED
    BY <1>4, <2>1 DEF Crash, Die, Fault, LocalType, DataType, Phases, database, history
<1>5. ASSUME NEW e \in Engines, Restart(e)
      PROVE  PartitionType' /\ LocalType' /\ DataType'
  <2>1. PartitionType'
    BY <1>5, MoveType DEF Restart
  <2> QED
    BY <1>5, <2>1 DEF Restart, LocalType, DataType, Phases, database, history
<1>6. ASSUME NEW e \in Engines, AssignFree(e) \/ Rebalance(e)
      PROVE  PartitionType' /\ LocalType' /\ DataType'
  <2>1. PartitionType'
    BY <1>6, MoveType DEF AssignFree, Rebalance
  <2> QED
    BY <1>6, <2>1 DEF AssignFree, Rebalance, Fault, LocalType, DataType, database, local, history
<1>7. ASSUME NEW e \in Engines, Receive(e)
      PROVE  PartitionType' /\ LocalType' /\ DataType'
  <2>1. PartitionType'
    BY <1>7, MoveType DEF Receive
  <2>2. NextMessage \in Messages
    BY <1>7, ElementOfSeq, LenProperties DEF Receive, HasNext, NextMessage, PartitionType
  <2> QED
    BY <1>7, <2>1, <2>2 DEF Receive, Goto, LocalType, DataType, Phases, database, history
<1>8. ASSUME NEW e \in Engines, Construct(e)
      PROVE  PartitionType' /\ LocalType' /\ DataType'
  <2>1. PartitionType'
    BY <1>8, MoveType DEF Construct
  <2>2. current[e] \in Messages /\ current[e].id \in Notifications
    BY <1>8 DEF Construct, LocalType, Messages
  <2>3. LocalType'
    BY <1>8, <2>2 DEF Construct, Goto, LocalType, DataType, Phases, Rows, OfThisPeriod
  <2>4. unbroken' \in [Notifications -> BOOLEAN]
    BY <1>8 DEF Construct, DataType
  <2> QED
    BY <1>8, <2>1, <2>3, <2>4 DEF Construct, Fault, DataType, database, history
<1>9. ASSUME NEW e \in Engines, KeepSending(e)
      PROVE  PartitionType' /\ LocalType' /\ DataType'
  <2>1. PartitionType'
    BY <1>9, MoveType DEF KeepSending, Die
  <2>2. LocalType'
    BY <1>9 DEF KeepSending, Die, Goto, LocalType, Phases
  <2> QED
    BY <1>9, <2>1, <2>2 DEF KeepSending, Fault, DataType, database, history
<1>10. ASSUME NEW e \in Engines, Send(e)
       PROVE  PartitionType' /\ LocalType' /\ DataType'
  <2>1. PartitionType'
    BY <1>10, MoveType DEF Send
  <2>2. LocalType'
    BY <1>10 DEF Send, Goto, LocalType, Phases
  <2>3. \/ lateSends' = lateSends
        \/ lateSends' = [lateSends EXCEPT ![current[e].id] = @ + 1]
    BY <1>10 DEF Send, DataType
  <2>4. lateSends' \in [Notifications -> Nat]
    BY <2>3 DEF DataType
  <2> QED
    BY <1>10, <2>1, <2>2, <2>4 DEF Send, DataType, database
<1>11. ASSUME NEW e \in Engines, Republish(e)
       PROVE  PartitionType' /\ LocalType' /\ DataType'
  <2>1. current[e] \in Messages
    BY <1>11 DEF Republish, LocalType
  <2>2. PartitionType'
    BY <1>11, <2>1, PublishType DEF Republish
  <2> QED
    BY <1>11, <2>2 DEF Republish, Goto, LocalType, DataType, Phases, database, history
<1>12. ASSUME NEW e \in Engines, Commit(e)
       PROVE  PartitionType' /\ LocalType' /\ DataType'
  <2>1. PartitionType'
    BY <1>12, CommitType DEF Commit
  <2> QED
    BY <1>12, <2>1 DEF Commit, Goto, LocalType, DataType, Phases, database, history
<1>13. CASE UNCHANGED vars
  BY <1>13 DEF vars, partition, database, local, history, PartitionType, LocalType, DataType
<1> QED
  BY <1>1, <1>2, <1>3, <1>4, <1>5, <1>6, <1>7, <1>8, <1>9, <1>10, <1>11, <1>12, <1>13
     DEF Next, Environment, EngineStep

LEMMA TypeInit == Init => TypeOK
  BY PeriodicAssumption, MessageIsNotNoMessage, EmptySeq
     DEF PeriodicAssumption, Init, PartitionInit, TypeOK, Phases, Rows, AlarmStates

\* The engines keep their types, and hold a message exactly while they work on one.
THEOREM TypeCorrect == Spec => []TypeOK
  BY TypeInit, TypeStep, PTL DEF Spec

-----------------------------------------------------------------------------
(* The stream is kept.  A commit drops the message that the engine works   *)
(* on and no other, so what matters is what is known of that one when the  *)
(* engine decides to commit it.                                            *)

\* The owner has read the first message at most, and works on it.
OneRead ==
  owner # NoEngine /\ position # 0 => position = 1 /\ current[owner] = queue[1]

\* Nothing has ended the period of an unbroken stream.
StillDue == \A n \in Notifications : unbroken[n] => alarm[n] = "same" /\ row[n] \in OfThisPeriod

\* e will commit its message, or has published it again already.
WillCommit(e) == phase[e] = "commit" \/ (phase[e] = "check" /\ method[e] \notin OfThisPeriod)

\* What the owner is about to commit is not due any more, or is back on the topic.
MayCommit ==
  \A e \in Engines :
    owner = e /\ position # 0 /\ WillCommit(e) /\ unbroken[current[e].id] =>
      \E i \in 2 .. Len(queue) : queue[i].id = current[e].id

KInv == TypeOK /\ OneRead /\ StillDue /\ MayCommit /\ StreamKept

LEMMA OneReadStep == TypeOK /\ OneRead /\ [Next]_vars => OneRead'
<1> SUFFICES ASSUME PartitionType, LocalType, OneRead, [Next]_vars PROVE OneRead'
  BY Parts
<1> USE PeriodicAssumption, MessageIsNotNoMessage DEF PeriodicAssumption
<1>1. Len(queue) \in Nat /\ \A i \in 1 .. Len(queue) : queue[i] \in Messages
  BY LenProperties, ElementOfSeq DEF PartitionType
<1>2. ASSUME NEW m \in Messages, Publish(m), UNCHANGED <<position, owner, current>>
      PROVE  OneRead'
  <2>1. \A i \in 1 .. Len(queue) : queue'[i] = queue[i]
    BY <1>2, Published DEF PartitionType
  <2> QED
    BY <1>1, <1>2, <2>1 DEF OneRead, PartitionType
<1>3. CASE UNCHANGED <<partition, current>>
  BY <1>3 DEF OneRead, partition
<1>4. ASSUME NEW n \in Notifications, Start(n) PROVE OneRead'
  <2>1. [id |-> n] \in Messages
    BY DEF Messages
  <2> QED
    BY <1>2, <1>3, <1>4, <2>1 DEF Start, local, partition
<1>5. ASSUME NEW e \in Engines, Die(e) PROVE OneRead'
  BY <1>5 DEF OneRead, Die, Release, LocalType, PartitionType
<1>6. ASSUME NEW e \in Engines, AssignFree(e) \/ Rebalance(e) PROVE OneRead'
  BY <1>6 DEF OneRead, AssignFree, Rebalance, Acquire
<1>7. ASSUME NEW e \in Engines, Receive(e) PROVE OneRead'
  BY <1>1, <1>7 DEF OneRead, Receive, HasNext, NextMessage, Advance, LocalType, PartitionType
<1>8. ASSUME NEW e \in Engines, KeepSending(e) PROVE OneRead'
  BY <1>3, <1>5, <1>8 DEF KeepSending
<1>9. ASSUME NEW e \in Engines, Republish(e) PROVE OneRead'
  BY <1>2, <1>9 DEF Republish, LocalType
<1>10. ASSUME NEW e \in Engines, Commit(e) PROVE OneRead'
  BY <1>10 DEF OneRead, Commit, CommitRead, LocalType, PartitionType
<1> QED
  BY <1>3, <1>4, <1>5, <1>6, <1>7, <1>8, <1>9, <1>10
     DEF Next, Environment, EngineStep, Enter, Leave, EditMethod, Crash, Restart, Construct, Send,
         vars, local

\* A stream becomes unbroken by a message for it, and only if it is due.
LEMMA UnbrokenStep ==
  ASSUME TypeOK, [Next]_vars, NEW n \in Notifications, unbroken'[n]
  PROVE  unbroken[n] \/ (Start(n) /\ row[n] \in OfThisPeriod /\ alarm[n] = "same")
<1> DataType /\ LocalType
  BY Parts
<1>1. CASE Start(n)
  BY <1>1 DEF Start, DataType
<1>2. ASSUME NEW k \in Notifications, k # n, Start(k) PROVE unbroken[n]
  BY <1>2 DEF Start, DataType
<1>3. ASSUME NEW k \in Notifications, NEW state \in {"changed", "deleted"}, Leave(k, state)
      PROVE  unbroken[n]
  BY <1>3 DEF Leave, DataType
<1>4. ASSUME NEW k \in Notifications, NEW r \in Rows, EditMethod(k, r) PROVE unbroken[n]
  BY <1>4 DEF EditMethod, DataType
<1>5. ASSUME NEW e \in Engines, Construct(e) PROVE unbroken[n]
  BY <1>5 DEF Construct, DataType
<1>6. CASE UNCHANGED unbroken
  BY <1>6
<1> QED
  BY <1>1, <1>2, <1>3, <1>4, <1>5, <1>6
     DEF Next, Environment, EngineStep, Enter, Crash, Restart, AssignFree, Rebalance, Receive,
         KeepSending, Send, Republish, Commit, vars

LEMMA StillDueStep == TypeOK /\ StillDue /\ [Next]_vars => StillDue'
<1> SUFFICES ASSUME TypeOK, StillDue, [Next]_vars, NEW n \in Notifications, unbroken'[n]
             PROVE  alarm'[n] = "same" /\ row'[n] \in OfThisPeriod
  BY DEF StillDue
<1>0. DataType
  BY Parts
<1>1. alarm[n] = "same" /\ row[n] \in OfThisPeriod
  BY UnbrokenStep DEF StillDue
<1>2. ASSUME NEW k \in Notifications, Enter(k)
      PROVE  alarm'[n] = "same" /\ row'[n] \in OfThisPeriod
  BY <1>0, <1>1, <1>2 DEF Enter, DataType
<1>3. ASSUME NEW k \in Notifications, NEW state \in {"changed", "deleted"}, Leave(k, state)
      PROVE  alarm'[n] = "same" /\ row'[n] \in OfThisPeriod
  BY <1>0, <1>1, <1>3 DEF Leave, DataType
<1>4. ASSUME NEW k \in Notifications, NEW r \in Rows, EditMethod(k, r)
      PROVE  alarm'[n] = "same" /\ row'[n] \in OfThisPeriod
  BY <1>0, <1>1, <1>4 DEF EditMethod, DataType
<1>5. CASE UNCHANGED database
  BY <1>1, <1>5 DEF database
<1> QED
  BY <1>2, <1>3, <1>4, <1>5
     DEF Next, Environment, EngineStep, Start, Crash, Restart, AssignFree, Rebalance, Receive,
         Construct, KeepSending, Send, Republish, Commit, vars

LEMMA MayCommitStep == TypeOK /\ OneRead /\ StillDue /\ MayCommit /\ [Next]_vars => MayCommit'
<1> SUFFICES ASSUME TypeOK, OneRead, StillDue, MayCommit, [Next]_vars,
                    NEW e \in Engines, owner' = e, position' # 0, WillCommit(e)',
                    unbroken'[current'[e].id]
             PROVE  \E i \in 2 .. Len(queue') : queue'[i].id = current'[e].id
  BY DEF MayCommit
<1> DEFINE Goal == \E i \in 2 .. Len(queue') : queue'[i].id = current'[e].id
<1> USE PeriodicAssumption, MessageIsNotNoMessage DEF PeriodicAssumption
<1>0. PartitionType /\ LocalType /\ DataType
  BY Parts
<1>1. Len(queue) \in Nat /\ \A i \in 1 .. Len(queue) : queue[i] \in Messages
  BY <1>0, LenProperties, ElementOfSeq DEF PartitionType
<1>2. current'[e] \in Messages /\ current'[e].id \in Notifications
  BY TypeStep DEF TypeOK, WillCommit, Messages
<1>3. \/ unbroken[current'[e].id]
      \/ /\ Start(current'[e].id) /\ row[current'[e].id] \in OfThisPeriod
         /\ alarm[current'[e].id] = "same"
  BY <1>2, UnbrokenStep
<1>4. ASSUME WillCommit(e), owner = e, position # 0, current'[e] = current[e],
             unbroken[current[e].id],
             \A i \in 1 .. Len(queue) : queue'[i] = queue[i], Len(queue') \in Nat,
             Len(queue') >= Len(queue)
      PROVE  Goal
  BY <1>1, <1>4 DEF MayCommit
<1>5. ASSUME NEW m \in Messages, Publish(m), m.id = current'[e].id, position # 0 PROVE Goal
  <2>1. Len(queue') = Len(queue) + 1 /\ queue'[Len(queue) + 1] = m
    BY <1>0, <1>5, Published DEF PartitionType
  <2>2. Len(queue') \in 2 .. Len(queue') /\ queue'[Len(queue')].id = current'[e].id
    BY <1>0, <1>1, <1>5, <2>1 DEF PartitionType
  <2> QED
    BY <2>2
<1>6. ASSUME NEW n \in Notifications, Start(n) PROVE Goal
  <2>1. [id |-> n] \in Messages /\ [id |-> n].id = n
    BY DEF Messages
  <2>2. CASE row[n] \in OfThisPeriod
    <3>1. Publish([id |-> n]) /\ UNCHANGED <<position, owner, local>>
      BY <1>6, <2>2 DEF Start
    <3>2. CASE n = current'[e].id
      <4>1. position # 0 /\ [id |-> n].id = current'[e].id
        BY <3>1, <3>2
      <4> HIDE DEF Goal
      <4> QED
        BY <1>5, <2>1, <3>1, <4>1
    <3>3. CASE n # current'[e].id
      <4>0. \A k \in Notifications \ {n} : unbroken'[k] = unbroken[k]
        BY <1>0, <1>6, <2>2 DEF Start, DataType
      <4>1. unbroken'[current'[e].id] = unbroken[current'[e].id]
        BY <1>2, <3>3, <4>0
      <4>2. Len(queue') = Len(queue) + 1 /\ \A i \in 1 .. Len(queue) : queue'[i] = queue[i]
        BY <1>0, <2>1, <3>1, Published DEF PartitionType
      <4> QED
        BY <1>1, <1>4, <3>1, <4>1, <4>2 DEF local, WillCommit
    <3> QED
      BY <3>2, <3>3
  <2>3. CASE row[n] \notin OfThisPeriod
    BY <1>1, <1>4, <1>6, <2>3 DEF Start, local, WillCommit
  <2> QED
    BY <2>2, <2>3
<1>7. ASSUME unbroken[current'[e].id],
             UNCHANGED partition, UNCHANGED local
      PROVE  Goal
  BY <1>1, <1>4, <1>7 DEF partition, local, WillCommit
<1>8. ASSUME NEW x \in Engines, Die(x), UNCHANGED method, unbroken[current'[e].id] PROVE Goal
  BY <1>0, <1>1, <1>4, <1>8 DEF Die, Release, LocalType, WillCommit
<1>9. ASSUME NEW x \in Engines, Restart(x), unbroken[current'[e].id] PROVE Goal
  BY <1>0, <1>1, <1>4, <1>9 DEF Restart, LocalType, WillCommit, partition
<1>10. ASSUME NEW x \in Engines, AssignFree(x) \/ Rebalance(x) \/ Receive(x) PROVE Goal
  BY <1>0, <1>10
     DEF AssignFree, Rebalance, Acquire, Receive, HasNext, Advance, Goto, LocalType, WillCommit
<1>11. ASSUME NEW x \in Engines, x # e, unbroken[current'[e].id],
              \/ Construct(x) \/ Send(x) \/ Commit(x)
              \/ (KeepSending(x) /\ Goto(x, IF IsDue(x, current[x].id) THEN "send" ELSE "commit")
                  /\ UNCHANGED <<partition, current, faults>>)
       PROVE  Goal
  <2>1. WillCommit(e) /\ UNCHANGED partition /\ current'[e] = current[e]
    <3>1. CASE Construct(x)
      BY <1>0, <1>11, <3>1 DEF Construct, Goto, LocalType, WillCommit
    <3>2. CASE Send(x)
      BY <1>0, <1>11, <3>2 DEF Send, Goto, LocalType, WillCommit
    <3>3. CASE Commit(x)
      BY <1>0, <1>11, <3>3 DEF Commit, CommitRead, Goto, LocalType, partition, WillCommit
    <3>4. CASE /\ KeepSending(x) /\ UNCHANGED <<partition, current, faults>>
               /\ Goto(x, IF IsDue(x, current[x].id) THEN "send" ELSE "commit")
      BY <1>0, <1>11, <3>4 DEF KeepSending, Goto, LocalType, WillCommit
    <3> QED
      BY <1>11, <3>1, <3>2, <3>3, <3>4
  <2> QED
    BY <1>1, <1>4, <1>11, <2>1 DEF partition
<1>12. ASSUME Construct(e), unbroken[current'[e].id] PROVE Goal
  <2>1. current[e].id \in Notifications /\ UNCHANGED <<current, row>>
    BY <1>0, <1>12 DEF Construct, LocalType, Messages, database
  <2>2. row[current[e].id] \in OfThisPeriod
    BY <1>12, <2>1 DEF StillDue
  <2>3. row[current[e].id] # "deleted"
    BY <2>2 DEF OfThisPeriod
  <2>4. phase'[e] = "commit" => unbroken'[current[e].id] = FALSE
    BY <1>0, <1>12, <2>1, <2>3 DEF Construct, Goto, LocalType, DataType
  <2>5. phase'[e] = "check" => method'[e] \in OfThisPeriod
    BY <1>0, <1>12, <2>1, <2>2 DEF Construct, Goto, LocalType
  <2> QED
    BY <2>1, <2>4, <2>5 DEF WillCommit
<1>13. ASSUME KeepSending(e), unbroken[current'[e].id],
              Goto(e, IF IsDue(e, current[e].id) THEN "send" ELSE "commit"),
              UNCHANGED <<partition, current, faults>>
       PROVE  Goal
  <2>1. alarm[current[e].id] = "same" /\ UNCHANGED method /\ phase[e] = "check"
    BY <1>2, <1>13 DEF StillDue, KeepSending
  <2>2. method[e] \notin OfThisPeriod
    BY <1>0, <1>13, <2>1 DEF Goto, IsDue, LocalType, WillCommit
  <2> QED
    BY <1>1, <1>4, <1>13, <2>1, <2>2 DEF partition, WillCommit
<1>14. ASSUME Send(e) \/ Commit(e) PROVE Goal
  BY <1>0, <1>14 DEF Send, Commit, Goto, LocalType, WillCommit
<1>15. ASSUME NEW x \in Engines, Republish(x), unbroken[current'[e].id] PROVE Goal
  <2>1. /\ current[x] \in Messages /\ Publish(current[x])
        /\ UNCHANGED <<position, owner, current, method>>
    BY <1>0, <1>15 DEF Republish, LocalType
  <2>2. CASE x = e
    BY <1>5, <2>1, <2>2
  <2>3. CASE x # e
    <3>1. Len(queue') = Len(queue) + 1 /\ \A i \in 1 .. Len(queue) : queue'[i] = queue[i]
      BY <1>0, <2>1, Published DEF PartitionType
    <3>2. WillCommit(e)
      BY <1>0, <1>15, <2>1, <2>3 DEF Republish, Goto, LocalType, WillCommit
    <3> QED
      BY <1>1, <1>4, <1>15, <2>1, <3>1, <3>2
  <2> QED
    BY <2>2, <2>3
<1>16. ASSUME NEW n \in Notifications, unbroken[current'[e].id],
              \/ Enter(n) \/ \E state \in {"changed", "deleted"} : Leave(n, state)
              \/ \E r \in Rows : EditMethod(n, r)
       PROVE  Goal
  BY <1>7, <1>16 DEF Enter, Leave, EditMethod
<1>17. CASE UNCHANGED vars
  BY <1>3, <1>6, <1>7, <1>17, <1>2 DEF vars
<1>19. CASE unbroken[current'[e].id]
  <2>1. ASSUME NEW x \in Engines, Crash(x) PROVE Goal
    BY <1>8, <1>19, <2>1 DEF Crash
  <2>2. ASSUME NEW x \in Engines, KeepSending(x) PROVE Goal
    BY <1>8, <1>11, <1>13, <1>19, <2>2 DEF KeepSending
  <2> QED
    BY <1>6, <1>9, <1>10, <1>11, <1>12, <1>14, <1>15, <1>16, <1>17, <1>19, <2>1, <2>2
       DEF Next, Environment, EngineStep
<1> QED
  BY <1>2, <1>3, <1>6, <1>19

LEMMA KeptStep == KInv /\ [Next]_vars => StreamKept'
<1> HAVE KInv /\ [Next]_vars
<1> SUFFICES ASSUME NEW n \in Notifications, unbroken'[n] PROVE Holds(n)'
  BY DEF StreamKept
<1>0. TypeOK /\ PartitionType /\ LocalType /\ OneRead /\ MayCommit
  BY Parts DEF KInv
<1>1. Len(queue) \in Nat /\ \A i \in 1 .. Len(queue) : queue[i] \in Messages
  BY <1>0, LenProperties, ElementOfSeq DEF PartitionType
<1>2. \/ unbroken[n] /\ Holds(n)
      \/ Start(n) /\ row[n] \in OfThisPeriod
  BY <1>0, UnbrokenStep DEF KInv, StreamKept
<1>3. ASSUME NEW m \in Messages, Publish(m) PROVE m.id = n \/ Holds(n) => Holds(n)'
  <2>1. /\ Len(queue') = Len(queue) + 1 /\ queue'[Len(queue) + 1] = m
        /\ \A i \in 1 .. Len(queue) : queue'[i] = queue[i]
    BY <1>0, <1>3, Published DEF PartitionType
  <2>2. Len(queue') \in 1 .. Len(queue')
    BY <1>1, <2>1
  <2> QED
    BY <1>1, <2>1, <2>2 DEF Holds
<1>4. \A k \in Notifications : [id |-> k] \in Messages /\ [id |-> k].id = k
  BY DEF Messages
<1>5. CASE UNCHANGED queue /\ Holds(n)
  BY <1>5 DEF Holds
<1>6. ASSUME NEW k \in Notifications, Start(k), Holds(n) PROVE Holds(n)'
  <2>1. Publish([id |-> k]) \/ UNCHANGED queue
    BY <1>6 DEF Start
  <2> QED
    BY <1>3, <1>4, <1>5, <1>6, <2>1
<1>7. ASSUME NEW e \in Engines, Republish(e), Holds(n) PROVE Holds(n)'
  BY <1>0, <1>3, <1>7 DEF Republish, LocalType
<1>8. ASSUME NEW e \in Engines, Commit(e), unbroken[n], Holds(n) PROVE Holds(n)'
  <2>1. CASE owner = e
    <3>1. PICK i \in 1 .. Len(queue) : queue[i].id = n
      BY <1>8 DEF Holds
    <3>2. /\ position \in 0 .. Len(queue) /\ Len(queue') = Len(queue) - position
          /\ \A k \in 1 .. Len(queue') : queue'[k] = queue[k + position]
      BY <1>0, <1>8, <2>1, Committed DEF Commit, PartitionType
    <3>3. ASSUME NEW k \in position + 1 .. Len(queue), queue[k].id = n PROVE Holds(n)'
      <4>1. k - position \in 1 .. Len(queue') /\ queue'[k - position] = queue[k]
        BY <1>1, <3>2
      <4> QED
        BY <3>3, <4>1 DEF Holds
    <3>4. CASE i > position
      BY <1>1, <3>1, <3>2, <3>3, <3>4
    <3>5. CASE i <= position
      <4>1. position = 1 /\ i = 1 /\ current[e] = queue[1]
        <5>1. owner # NoEngine /\ position # 0
          BY <1>1, <2>1, <3>1, <3>2, <3>5, PeriodicAssumption DEF PeriodicAssumption
        <5> QED
          BY <1>0, <1>1, <2>1, <3>1, <3>5, <5>1 DEF OneRead
      <4>2. \E k \in 2 .. Len(queue) : queue[k].id = n
        BY <1>0, <1>8, <2>1, <3>1, <4>1 DEF MayCommit, WillCommit, Commit
      <4> QED
        BY <1>1, <3>3, <4>1, <4>2
    <3> QED
      BY <1>1, <3>1, <3>2, <3>4, <3>5
  <2>2. CASE owner # e
    BY <1>5, <1>8, <2>2 DEF Commit, CommitRead
  <2> QED
    BY <2>1, <2>2
<1>9. CASE unbroken[n] /\ Holds(n)
  BY <1>5, <1>6, <1>7, <1>8, <1>9
     DEF Next, Environment, EngineStep, Enter, Leave, EditMethod, Crash, Die, Release, Restart,
         AssignFree, Rebalance, Acquire, Receive, Advance, Construct, KeepSending, Send, vars,
         partition
<1>10. CASE Start(n) /\ row[n] \in OfThisPeriod
  BY <1>3, <1>4, <1>10 DEF Start
<1> QED
  BY <1>2, <1>9, <1>10

\* A periodic notification that is due never falls silent: no crash and no rebalance,
\* and no other notification, takes its last message from the topic.
THEOREM StreamIsKept == Spec => []StreamKept
<1>1. Init => KInv
  <2> SUFFICES ASSUME Init PROVE KInv
    OBVIOUS
  <2>1. TypeOK /\ queue = <<>> /\ position = 0
    BY TypeInit DEF Init, PartitionInit
  <2>2. \A n \in Notifications : ~unbroken[n]
    BY DEF Init
  <2> QED
    BY <2>1, <2>2 DEF KInv, OneRead, StillDue, MayCommit, StreamKept
<1>2. KInv /\ [Next]_vars => KInv'
  BY TypeStep, OneReadStep, StillDueStep, MayCommitStep, KeptStep DEF KInv
<1>3. KInv => StreamKept
  BY DEF KInv
<1> QED
  BY <1>1, <1>2, <1>3, PTL DEF Spec

-----------------------------------------------------------------------------
(* Late sends.  When the alarm of a notification leaves the state, the     *)
(* engines that may still send are the owner, which has looked before, and *)
(* those that have lost the partition in the middle of their work.  Every  *)
(* one of these stands for a failure, and sends once.                      *)

Astray ==
  {e \in Engines : phase[e] \in {"received", "check", "send"} /\ ~(owner = e /\ position # 0)}
Sending(n) ==
  {e \in Engines : phase[e] = "send" /\ method[e] = "plugin" /\ current[e].id = n}

\* Those that may still send n late.
MayBeLate(n) == IF alarm[n] = "same" THEN Astray ELSE Astray \cup Sending(n)

Late(n) == lateSends[n] + Cardinality(MayBeLate(n)) <= departures[n] + faults

LInv == TypeOK /\ \A n \in Notifications : Late(n)

LEMMA LateFinite ==
  ASSUME NEW n
  PROVE  IsFiniteSet(MayBeLate(n)) /\ Cardinality(MayBeLate(n)) \in Nat
<1>1. MayBeLate(n) \in SUBSET Engines
  BY DEF MayBeLate, Astray, Sending
<1> QED
  BY <1>1, FS_Subset, FS_CardinalityType, PeriodicAssumption DEF PeriodicAssumption

LEMMA FaultsGrow == faults \in Nat /\ [Next]_vars => faults' \in Nat /\ faults' >= faults
<1> SUFFICES ASSUME faults \in Nat, [Next]_vars PROVE faults' \in Nat /\ faults' >= faults
  OBVIOUS
<1>1. faults' = faults \/ faults' = faults + 1
  BY DEF Next, Environment, EngineStep, Enter, Leave, EditMethod, Start, Crash, Restart,
         AssignFree, Rebalance, Receive, Construct, KeepSending, Send, Republish, Commit, vars,
         Fault
<1> QED
  BY <1>1

LEMMA LateStep ==
  ASSUME LInv, [Next]_vars, NEW n \in Notifications
  PROVE  Late(n)'
<1>0. /\ LocalType /\ DataType /\ PartitionType /\ Late(n)
      /\ NoEngine \notin Engines /\ NoMessage \notin Messages
  BY Parts, MessageIsNotNoMessage, PeriodicAssumption DEF LInv, PeriodicAssumption
<1>1. /\ IsFiniteSet(MayBeLate(n)) /\ Cardinality(MayBeLate(n)) \in Nat
      /\ lateSends[n] \in Nat /\ departures[n] \in Nat
      /\ faults \in Nat /\ faults' \in Nat /\ faults' >= faults
  BY <1>0, LateFinite, FaultsGrow DEF DataType
<1>2. ASSUME MayBeLate(n)' \subseteq MayBeLate(n), lateSends'[n] = lateSends[n],
             departures'[n] = departures[n]
      PROVE  Late(n)'
  <2>1. /\ Cardinality(MayBeLate(n)') \in Nat
        /\ Cardinality(MayBeLate(n)') <= Cardinality(MayBeLate(n))
    BY <1>1, <1>2, NoneMore
  <2> QED
    BY <1>0, <1>1, <1>2, <2>1 DEF Late
<1>3. ASSUME NEW x, MayBeLate(n)' \subseteq MayBeLate(n) \cup {x}, lateSends'[n] = lateSends[n],
             departures'[n] + faults' = departures[n] + faults + 1
      PROVE  Late(n)'
  <2>1. /\ Cardinality(MayBeLate(n)') \in Nat
        /\ Cardinality(MayBeLate(n)') <= Cardinality(MayBeLate(n)) + 1
    BY <1>1, <1>3, OneMore
  <2> QED
    BY <1>0, <1>1, <1>3, <2>1 DEF Late
<1>4. ASSUME NEW k \in Notifications, Enter(k) PROVE Late(n)'
  <2>1. /\ UNCHANGED <<owner, position, phase, current, method, lateSends, departures>>
        /\ alarm'[n] = "same" \/ alarm'[n] = alarm[n]
    BY <1>0, <1>4 DEF Enter, DataType, partition, local, history
  <2>2. MayBeLate(n)' \subseteq MayBeLate(n)
    BY <2>1 DEF MayBeLate, Astray, Sending
  <2> QED
    BY <1>2, <2>1, <2>2
<1>5. ASSUME NEW k \in Notifications, NEW state \in {"changed", "deleted"}, Leave(k, state)
      PROVE  Late(n)'
  <2>1. UNCHANGED <<owner, position, phase, current, method, lateSends, faults>>
    BY <1>5 DEF Leave, partition, local
  <2>2. CASE k = n
    <3>1. departures'[n] = departures[n] + 1 /\ alarm[n] = "same"
      BY <1>0, <1>5, <2>2 DEF Leave, DataType
    <3>2. MayBeLate(n)' \subseteq MayBeLate(n) \cup {owner}
      BY <1>0, <2>1, <3>1 DEF MayBeLate, Astray, Sending
    <3> QED
      BY <1>1, <1>3, <2>1, <3>1, <3>2
  <2>3. CASE k # n
    <3>1. departures'[n] = departures[n] /\ alarm'[n] = alarm[n]
      BY <1>0, <1>5, <2>3 DEF Leave, DataType
    <3>2. MayBeLate(n)' \subseteq MayBeLate(n)
      BY <2>1, <3>1 DEF MayBeLate, Astray, Sending
    <3> QED
      BY <1>2, <2>1, <3>1, <3>2
  <2> QED
    BY <2>2, <2>3
<1>6. CASE UNCHANGED <<owner, position, alarm, local, lateSends, departures>>
  <2>1. MayBeLate(n)' = MayBeLate(n)
    BY <1>6 DEF MayBeLate, Astray, Sending, local
  <2> QED
    BY <1>2, <1>6, <2>1
<1>7. ASSUME NEW e \in Engines, Rebalance(e) PROVE Late(n)'
  <2>1. /\ UNCHANGED <<alarm, phase, current, method, lateSends, departures>>
        /\ owner' = e /\ position' = 0 /\ faults' = faults + 1
    BY <1>7 DEF Rebalance, Acquire, Fault, database, local, history
  <2>2. MayBeLate(n)' \subseteq MayBeLate(n) \cup {owner}
    BY <2>1 DEF MayBeLate, Astray, Sending
  <2> QED
    BY <1>1, <1>3, <2>1, <2>2
<1>8. ASSUME NEW e \in Engines, AssignFree(e) PROVE Late(n)'
  <2>1. /\ UNCHANGED <<alarm, phase, current, method, lateSends, departures>>
        /\ owner' = e /\ position' = 0 /\ owner = NoEngine
    BY <1>8 DEF AssignFree, Acquire, database, local, history
  <2>2. MayBeLate(n)' \subseteq MayBeLate(n)
    BY <1>0, <2>1 DEF MayBeLate, Astray, Sending
  <2> QED
    BY <1>2, <2>1, <2>2
<1>9. ASSUME NEW e \in Engines, UNCHANGED <<alarm, lateSends, departures>>,
             \A x \in Engines \ {e} :
               /\ phase'[x] = phase[x] /\ current'[x] = current[x] /\ method'[x] = method[x]
               /\ owner = x /\ position # 0 => owner' = x /\ position' # 0,
             \/ phase'[e] \notin {"received", "check", "send"}
             \/ owner' = e /\ position' # 0 /\ phase'[e] # "send"
      PROVE  Late(n)'
  <2>1. MayBeLate(n)' \subseteq MayBeLate(n)
    BY <1>9 DEF MayBeLate, Astray, Sending
  <2> QED
    BY <1>2, <1>9, <2>1
<1>10. ASSUME NEW e \in Engines, Crash(e) \/ Restart(e) \/ Receive(e) \/ Republish(e) \/ Commit(e)
       PROVE  Late(n)'
  <2>1. CASE Crash(e)
    BY <1>0, <1>9, <2>1 DEF Crash, Die, Release, LocalType, database, history
  <2>2. CASE Restart(e)
    BY <1>0, <1>9, <2>2 DEF Restart, LocalType, partition, database, history
  <2>3. CASE Receive(e)
    BY <1>0, <1>9, <2>3
       DEF Receive, HasNext, Advance, Goto, LocalType, PartitionType, database, history
  <2>4. CASE Republish(e)
    BY <1>0, <1>9, <2>4 DEF Republish, Goto, LocalType, database, history
  <2>5. CASE Commit(e)
    BY <1>0, <1>9, <2>5 DEF Commit, CommitRead, Goto, LocalType, database, history
  <2> QED
    BY <1>10, <2>1, <2>2, <2>3, <2>4, <2>5
<1>11. ASSUME NEW e \in Engines, Construct(e) PROVE Late(n)'
  <2>1. /\ UNCHANGED <<owner, position, alarm, current, lateSends, departures>>
        /\ phase[e] = "received" /\ phase'[e] \in {"check", "commit"}
        /\ \A x \in Engines \ {e} : phase'[x] = phase[x] /\ method'[x] = method[x]
    BY <1>0, <1>11 DEF Construct, Goto, LocalType, partition, database, history
  <2>2. MayBeLate(n)' \subseteq MayBeLate(n)
    BY <2>1 DEF MayBeLate, Astray, Sending
  <2> QED
    BY <1>2, <2>1, <2>2
<1>12. ASSUME NEW e \in Engines, KeepSending(e) PROVE Late(n)'
  <2>1. CASE Die(e)
    BY <1>0, <1>9, <1>12, <2>1 DEF KeepSending, Die, Release, LocalType, database, history
  <2>2. CASE ~Die(e)
    <3>1. /\ UNCHANGED <<owner, position, alarm, current, method, lateSends, departures>>
          /\ phase[e] = "check" /\ phase'[e] \in {"send", "commit"}
          /\ phase'[e] = "send" => alarm[current[e].id] = "same"
          /\ \A x \in Engines \ {e} : phase'[x] = phase[x]
      BY <1>0, <1>12, <2>2 DEF KeepSending, Goto, IsDue, LocalType, partition, database, history
    <3>2. MayBeLate(n)' \subseteq MayBeLate(n)
      BY <3>1 DEF MayBeLate, Astray, Sending
    <3> QED
      BY <1>2, <3>1, <3>2
  <2> QED
    BY <2>1, <2>2
<1>13. ASSUME NEW e \in Engines, Send(e) PROVE Late(n)'
  <2>1. /\ UNCHANGED <<owner, position, alarm, current, method, departures, faults>>
        /\ phase[e] = "send" /\ phase'[e] = "publish"
        /\ \A x \in Engines \ {e} : phase'[x] = phase[x]
    BY <1>0, <1>13 DEF Send, Goto, LocalType, partition, database
  <2>2. MayBeLate(n)' \subseteq MayBeLate(n) \ {e}
    BY <2>1 DEF MayBeLate, Astray, Sending
  <2>3. CASE lateSends'[n] = lateSends[n]
    BY <1>2, <2>1, <2>2, <2>3
  <2>4. CASE lateSends'[n] # lateSends[n]
    <3>1. /\ current[e].id = n /\ method[e] = "plugin" /\ alarm[n] # "same"
          /\ lateSends'[n] = lateSends[n] + 1
      BY <1>0, <1>13, <2>4 DEF Send, DataType
    <3>2. e \in MayBeLate(n)
      BY <2>1, <3>1 DEF MayBeLate, Sending
    <3>3. /\ Cardinality(MayBeLate(n)') \in Nat
          /\ Cardinality(MayBeLate(n)') + 1 <= Cardinality(MayBeLate(n))
      BY <1>1, <2>2, <3>2, OneLess
    <3> QED
      BY <1>0, <1>1, <2>1, <3>1, <3>3 DEF Late
  <2> QED
    BY <2>3, <2>4
<1>14. ASSUME NEW k \in Notifications, Start(k) \/ \E r \in Rows : EditMethod(k, r)
       PROVE  Late(n)'
  BY <1>6, <1>14 DEF Start, EditMethod, partition, database, history
<1>15. CASE UNCHANGED vars
  BY <1>6, <1>15 DEF vars, partition, database, history
<1> QED
  BY <1>4, <1>5, <1>7, <1>8, <1>10, <1>11, <1>12, <1>13, <1>14, <1>15
     DEF Next, Environment, EngineStep

\* After its alarm has left the state a notification is sent once more at most, and
\* once for every failure besides, for any number of engines and state changes.
THEOREM LateSendsArePaidFor == Spec => []LateSendsPaidFor
<1>1. Init => LInv
  <2> SUFFICES ASSUME Init, NEW n \in Notifications PROVE Late(n)
    BY TypeInit DEF LInv
  <2>1. MayBeLate(n) = {} /\ faults = 0 /\ lateSends[n] = 0 /\ departures[n] = 0
    BY DEF Init, MayBeLate, Astray, Sending
  <2> QED
    BY <2>1, FS_EmptySet DEF Late
<1>2. LInv /\ [Next]_vars => LInv'
  BY TypeStep, LateStep DEF LInv
<1>3. LInv => LateSendsPaidFor
  <2> SUFFICES ASSUME LInv, NEW n \in Notifications
               PROVE  lateSends[n] <= departures[n] + faults
    BY DEF LateSendsPaidFor
  <2>1. /\ Late(n) /\ lateSends[n] \in Nat /\ departures[n] \in Nat /\ faults \in Nat
        /\ Cardinality(MayBeLate(n)) \in Nat
    BY LateFinite DEF LInv, TypeOK
  <2> QED
    BY <2>1 DEF Late
<1> QED
  BY <1>1, <1>2, <1>3, PTL DEF Spec

-----------------------------------------------------------------------------
(* The number of streams.  Every message that is left to read is a stream, *)
(* and so is the message that an engine has yet to publish again.  A start *)
(* adds one, and so does a failure, which puts at most one message that    *)
(* was read before the others again.                                       *)

One(n) == [m \in Messages |-> IF m.id = n THEN {0} ELSE {}]

Unpublished == {"received", "check", "send", "publish"}
Working(n) == {e \in Engines : phase[e] \in Unpublished /\ current[e].id = n}

Streams(n) ==
  /\ AheadFinite(One(n))
  /\ Coming(One(n)) + Cardinality(Working(n)) <= starts[n] + faults

SInv == TypeOK /\ OneRead /\ \A n \in Notifications : Streams(n)

LEMMA OneWeighs ==
  ASSUME NEW n
  PROVE  /\ Weighs(Messages, One(n))
         /\ \A m \in Messages :
              /\ Cardinality(One(n)[m]) = IF m.id = n THEN 1 ELSE 0
              /\ Cardinality(One(n)[m]) <= 1
<1>1. IsFiniteSet({0}) /\ Cardinality({0}) = 1
  BY FS_Singleton
<1>2. IsFiniteSet({}) /\ Cardinality({}) = 0
  BY FS_EmptySet
<1> QED
  BY <1>1, <1>2 DEF Weighs, One

LEMMA WorkingFinite ==
  ASSUME NEW n
  PROVE  IsFiniteSet(Working(n)) /\ Cardinality(Working(n)) \in Nat
<1>1. Working(n) \in SUBSET Engines
  BY DEF Working
<1> QED
  BY <1>1, FS_Subset, FS_CardinalityType, PeriodicAssumption DEF PeriodicAssumption

LEMMA StreamsStep ==
  ASSUME SInv, [Next]_vars, NEW n \in Notifications
  PROVE  Streams(n)'
<1> DEFINE F == One(n)
           W == Working(n)
<1>0. /\ LocalType /\ DataType /\ queue \in Seq(Messages) /\ position \in 0 .. Len(queue)
      /\ NoEngine \notin Engines /\ NoMessage \notin Messages /\ Streams(n)
      /\ owner # NoEngine => position <= 1
  BY Parts, MessageIsNotNoMessage, PeriodicAssumption
     DEF SInv, PartitionType, PeriodicAssumption, OneRead
<1>1. /\ Weighs(Messages, F) /\ AheadFinite(F)
      /\ \A m \in Messages : Cardinality(F[m]) = IF m.id = n THEN 1 ELSE 0
      /\ \A m \in Messages : Cardinality(F[m]) <= 1
  BY <1>0, OneWeighs DEF Streams
<1>2. /\ IsFiniteSet(W) /\ Cardinality(W) \in Nat /\ Coming(F) \in Nat
      /\ starts[n] \in Nat /\ faults \in Nat
      /\ Coming(F) + Cardinality(W) <= starts[n] + faults
  BY <1>0, <1>1, WorkingFinite, FS_CardinalityType DEF Streams, DataType, AheadFinite, Coming
<1>3. ASSUME AheadFinite(F)',
             Coming(F)' + Cardinality(W') <= starts'[n] + faults'
      PROVE  Streams(n)'
  BY <1>3 DEF Streams, One
<1>4. faults' \in Nat /\ faults' >= faults
  BY <1>2, FaultsGrow
<1>5. UNCHANGED <<queue, position, owner>> => AheadFinite(F)' /\ Coming(F)' = Coming(F)
  <2> SUFFICES ASSUME UNCHANGED <<queue, position, owner>> PROVE Ahead(F)' = Ahead(F)
    BY <1>1 DEF AheadFinite, Coming
  <2> QED
    BY DEF Ahead, First, Left, One
<1>6. ASSUME UNCHANGED <<queue, position, owner>>, starts'[n] = starts[n], W' \subseteq W
      PROVE  Streams(n)'
  <2>1. Cardinality(W') \in Nat /\ Cardinality(W') <= Cardinality(W)
    BY <1>2, <1>6, NoneMore
  <2> HIDE DEF W, F
  <2>2. AheadFinite(F)' /\ Coming(F)' = Coming(F)
    BY <1>5, <1>6
  <2>3. Coming(F)' + Cardinality(W') <= starts'[n] + faults'
    BY <1>2, <1>4, <1>6, <2>1, <2>2
  <2> QED
    BY <1>3, <2>2, <2>3
<1>7. ASSUME NEW e \in Engines, Acquire(e) \/ Release(e), faults' = faults + 1,
             starts'[n] = starts[n], W' \subseteq W
      PROVE  Streams(n)'
  <2>1. Cardinality(W') \in Nat /\ Cardinality(W') <= Cardinality(W)
    BY <1>2, <1>7, NoneMore
  <2> HIDE DEF W, F
  <2>2. AheadFinite(F)' /\ Coming(F)' \in Nat /\ Coming(F)' <= Coming(F) + 1
    BY <1>0, <1>1, <1>7, RewindAhead
  <2>3. Coming(F)' + Cardinality(W') <= starts'[n] + faults'
    BY <1>2, <1>7, <2>1, <2>2
  <2> QED
    BY <1>3, <2>2, <2>3
<1>8. ASSUME NEW k \in Notifications, Start(k) PROVE Streams(n)'
  <2>1. W' \subseteq W /\ UNCHANGED <<position, owner>>
    BY <1>8 DEF Start, Working, local
  <2>2. CASE row[k] \notin OfThisPeriod
    <3>1. UNCHANGED <<queue, position, owner, starts>>
      BY <1>8, <2>2 DEF Start
    <3> QED
      BY <1>6, <2>1, <3>1
  <2>3. CASE row[k] \in OfThisPeriod
    <3> DEFINE m == [id |-> k]
    <3>1. m \in Messages /\ m.id = k /\ Publish(m)
      BY <1>8, <2>3 DEF Start, Messages
    <3>2. starts'[n] = IF k = n THEN starts[n] + 1 ELSE starts[n]
      BY <1>0, <1>8, <2>3 DEF Start, DataType
    <3>3. Cardinality(W') \in Nat /\ Cardinality(W') <= Cardinality(W)
      BY <1>2, <2>1, NoneMore
    <3> HIDE DEF W, F, m
    <3>4. /\ AheadFinite(F)' /\ Coming(F)' \in Nat
          /\ Coming(F)' = Coming(F) + Cardinality(F[m])
      BY <1>0, <1>1, <2>1, <3>1, PublishAhead
    <3>5. Coming(F)' + Cardinality(W') <= starts'[n] + faults'
      BY <1>1, <1>2, <1>4, <3>1, <3>2, <3>3, <3>4
    <3> QED
      BY <1>3, <3>4, <3>5
  <2> QED
    BY <2>2, <2>3
<1>9. ASSUME NEW e \in Engines, Die(e), UNCHANGED starts, faults' = faults + 1
      PROVE  Streams(n)'
  <2>1. W' \subseteq W
    BY <1>0, <1>9 DEF Die, LocalType, Working, Unpublished
  <2> QED
    BY <1>7, <1>9, <2>1 DEF Die
<1>10. ASSUME NEW e \in Engines, Crash(e) PROVE Streams(n)'
  BY <1>9, <1>10 DEF Crash, Fault, history
<1>11. ASSUME NEW e \in Engines, Rebalance(e) PROVE Streams(n)'
  <2>1. W' \subseteq W
    BY <1>11 DEF Rebalance, Working, local
  <2> QED
    BY <1>7, <1>11, <2>1 DEF Rebalance, Fault, history
<1>12. ASSUME NEW e \in Engines, AssignFree(e) PROVE Streams(n)'
  <2>1. /\ W' \subseteq W /\ UNCHANGED <<queue, starts>>
        /\ owner = NoEngine /\ position' = 0 /\ owner' = e
    BY <1>12 DEF AssignFree, Acquire, Working, local, history
  <2>2. Cardinality(W') \in Nat /\ Cardinality(W') <= Cardinality(W)
    BY <1>2, <2>1, NoneMore
  <2>3. Ahead(F)' = Ahead(F)
    BY <1>0, <2>1 DEF Ahead, First, Left, One
  <2> HIDE DEF W, F
  <2>4. AheadFinite(F)' /\ Coming(F)' = Coming(F)
    BY <1>1, <2>3 DEF AheadFinite, Coming
  <2>5. Coming(F)' + Cardinality(W') <= starts'[n] + faults'
    BY <1>2, <1>4, <2>1, <2>2, <2>4
  <2> QED
    BY <1>3, <2>4, <2>5
<1>13. ASSUME NEW e \in Engines, Receive(e) PROVE Streams(n)'
  <2>1. /\ HasNext(e) /\ Advance /\ UNCHANGED <<starts, faults>>
        /\ current' = [current EXCEPT ![e] = NextMessage]
        /\ NextMessage \in Messages
    BY <1>0, <1>13, ElementOfSeq, LenProperties DEF Receive, HasNext, NextMessage, history
  <2>2. IF NextMessage.id = n THEN W' \subseteq W \cup {e} ELSE W' \subseteq W
    BY <1>0, <1>13, <2>1 DEF Receive, Goto, LocalType, Working, Unpublished
  <2>3. /\ Cardinality(W') \in Nat
        /\ Cardinality(W') <= Cardinality(W) + (IF NextMessage.id = n THEN 1 ELSE 0)
    <3>1. CASE NextMessage.id = n
      BY <1>2, <2>2, <3>1, OneMore
    <3>2. CASE NextMessage.id # n
      BY <1>2, <2>2, <3>2, NoneMore
    <3> QED
      BY <3>1, <3>2
  <2> HIDE DEF W, F
  <2>4. AheadFinite(F)' /\ Coming(F)' \in Nat /\ Coming(F)' + Cardinality(F[NextMessage]) = Coming(F)
    BY <1>0, <1>1, <2>1, ReceiveAhead
  <2>5. Cardinality(F[NextMessage]) = IF NextMessage.id = n THEN 1 ELSE 0
    BY <1>1, <2>1
  <2>6. Coming(F)' + Cardinality(W') <= starts'[n] + faults'
    BY <1>2, <2>1, <2>3, <2>4, <2>5
  <2> QED
    BY <1>3, <2>4, <2>6
<1>14. ASSUME NEW e \in Engines, KeepSending(e) PROVE Streams(n)'
  <2>1. CASE Die(e) /\ Fault
    BY <1>9, <1>14, <2>1 DEF KeepSending, Fault, history
  <2>2. CASE ~(Die(e) /\ Fault)
    <3>1. W' \subseteq W /\ UNCHANGED <<queue, position, owner, starts>>
      BY <1>0, <1>14, <2>2 DEF KeepSending, Goto, LocalType, Working, Unpublished, partition, history
    <3> QED
      BY <1>6, <3>1
  <2> QED
    BY <2>1, <2>2
<1>15. ASSUME NEW e \in Engines, Construct(e) \/ Send(e) PROVE Streams(n)'
  <2>1. W' \subseteq W /\ UNCHANGED <<queue, position, owner, starts>>
    BY <1>0, <1>15 DEF Construct, Send, Goto, LocalType, Working, Unpublished, partition, history
  <2> QED
    BY <1>6, <2>1
<1>16. ASSUME NEW e \in Engines, Republish(e) PROVE Streams(n)'
  <2> DEFINE m == current[e]
  <2>1. /\ m \in Messages /\ Publish(m) /\ UNCHANGED <<position, owner, starts, faults, current>>
        /\ phase[e] = "publish" /\ phase' = [phase EXCEPT ![e] = "commit"]
    BY <1>0, <1>16 DEF Republish, Goto, LocalType, history
  <2>2. /\ W' \subseteq W \ {e}
        /\ m.id = n => e \in W
    BY <1>0, <2>1 DEF LocalType, Working, Unpublished
  <2>3. /\ Cardinality(W') \in Nat
        /\ Cardinality(W') + (IF m.id = n THEN 1 ELSE 0) <= Cardinality(W)
    <3>1. CASE m.id = n
      BY <1>2, <2>2, <3>1, OneLess
    <3>2. CASE m.id # n
      BY <1>2, <2>2, <3>2, NoneMore
    <3> QED
      BY <3>1, <3>2
  <2> HIDE DEF W, F, m
  <2>4. AheadFinite(F)' /\ Coming(F)' \in Nat /\ Coming(F)' = Coming(F) + Cardinality(F[m])
    BY <1>0, <1>1, <2>1, PublishAhead
  <2>5. Cardinality(F[m]) = IF m.id = n THEN 1 ELSE 0
    BY <1>1, <2>1
  <2>6. Coming(F)' + Cardinality(W') <= starts'[n] + faults'
    BY <1>2, <2>1, <2>3, <2>4, <2>5
  <2> QED
    BY <1>3, <2>4, <2>6
<1>17. ASSUME NEW e \in Engines, Commit(e) PROVE Streams(n)'
  <2>1. W' \subseteq W /\ CommitRead(e) /\ UNCHANGED <<starts, faults>>
    BY <1>0, <1>17 DEF Commit, Goto, LocalType, Working, Unpublished, history
  <2>2. Cardinality(W') \in Nat /\ Cardinality(W') <= Cardinality(W)
    BY <1>2, <2>1, NoneMore
  <2> HIDE DEF W, F
  <2>3. AheadFinite(F)' /\ Coming(F)' \in Nat /\ Coming(F)' <= Coming(F)
    BY <1>0, <1>1, <2>1, CommitAhead
  <2>4. Coming(F)' + Cardinality(W') <= starts'[n] + faults'
    BY <1>2, <2>1, <2>2, <2>3
  <2> QED
    BY <1>3, <2>3, <2>4
<1>18. ASSUME UNCHANGED <<partition, local, starts>> PROVE Streams(n)'
  <2>1. W' \subseteq W
    BY <1>18 DEF Working, local
  <2> QED
    BY <1>6, <1>18, <2>1 DEF partition
<1>19. ASSUME NEW e \in Engines, Restart(e) PROVE Streams(n)'
  <2>1. W' \subseteq W
    BY <1>0, <1>19 DEF Restart, LocalType, Working, Unpublished
  <2> QED
    BY <1>6, <1>19, <2>1 DEF Restart, partition, history
<1> QED
  BY <1>8, <1>10, <1>11, <1>12, <1>13, <1>14, <1>15, <1>16, <1>17, <1>18, <1>19
     DEF Next, Environment, EngineStep, Enter, Leave, EditMethod, vars, history

LEMMA StreamsInit == Init => SInv
<1> SUFFICES ASSUME Init PROVE SInv
  OBVIOUS
<1>1. TypeOK /\ OneRead
  BY TypeInit DEF Init, PartitionInit, OneRead
<1>2. ASSUME NEW n \in Notifications PROVE Streams(n)
  <2>1. Len(queue) = 0 /\ First = 0
    BY EmptySeq DEF Init, PartitionInit, First
  <2>2. Tickets(Nat, Ahead(One(n))) = {}
    BY <2>1 DEF Tickets, Ahead, Left
  <2>3. Working(n) = {} /\ faults = 0 /\ starts[n] = 0
    BY DEF Init, Working, Unpublished
  <2> QED
    BY <2>2, <2>3, FS_EmptySet DEF Streams, AheadFinite, Coming
<1> QED
  BY <1>1, <1>2 DEF SInv

\* While no engine has a message both published again and not committed, the copies
\* on the topic are the streams.
LEMMA CopiesAreStreams ==
  ASSUME SInv, NEW n \in Notifications, \A e \in Engines : phase[e] # "commit"
  PROVE  /\ Cardinality(Copies(n)) \in Nat
         /\ Cardinality(Copies(n)) <= Coming(One(n)) + Cardinality(Working(n))
<1> DEFINE F == One(n)
           T == Tickets(Nat, Ahead(F))
           Unread == {i \in Copies(n) : i > First}
           ticket == [i \in Unread |-> <<i, 0>>]
<1>0. /\ LocalType /\ PartitionType /\ OneRead /\ IsFiniteSet(T) /\ Coming(F) = Cardinality(T)
      /\ NoEngine \notin Engines /\ NoMessage \notin Messages
  BY Parts, MessageIsNotNoMessage, PeriodicAssumption
     DEF SInv, Streams, AheadFinite, Coming, PeriodicAssumption
<1>1. Len(queue) \in Nat /\ \A i \in 1 .. Len(queue) : queue[i] \in Messages
  BY <1>0, LenProperties, ElementOfSeq DEF PartitionType
<1>2. \A i \in Unread : <<i, 0>> \in T
  BY <1>0, <1>1 DEF Copies, Tickets, Ahead, Left, One
<1>3. ticket \in Injection(Unread, T)
  BY <1>2 DEF Injection, IsInjective
<1>4. IsFiniteSet(Unread) /\ Cardinality(Unread) <= Cardinality(T)
  BY <1>0, <1>3, FS_Injection
<1>5. /\ Cardinality(T) \in Nat /\ Cardinality(Unread) \in Nat
      /\ IsFiniteSet(Working(n)) /\ Cardinality(Working(n)) \in Nat
  BY <1>0, <1>4, FS_CardinalityType, WorkingFinite
<1>6. CASE Copies(n) \subseteq Unread
  <2>1. Cardinality(Copies(n)) \in Nat /\ Cardinality(Copies(n)) <= Cardinality(Unread)
    BY <1>4, <1>6, NoneMore
  <2> QED
    BY <1>0, <1>4, <1>5, <2>1
<1>7. CASE ~(Copies(n) \subseteq Unread)
  <2>1. PICK i \in Copies(n) : i <= First
    BY <1>0, <1>1, <1>7 DEF Copies, First, PartitionType
  <2>2. /\ owner \in Engines /\ First = 1 /\ i = 1
        /\ current[owner] = queue[1] /\ queue[1].id = n /\ queue[1] \in Messages
    BY <1>0, <1>1, <2>1 DEF Copies, First, OneRead, PartitionType
  <2>3. owner \in Working(n)
    BY <1>0, <2>2 DEF Working, Unpublished, LocalType, Phases
  <2>4. Copies(n) \subseteq Unread \cup {1}
    BY <1>1, <2>2 DEF Copies
  <2>5. Cardinality(Copies(n)) \in Nat /\ Cardinality(Copies(n)) <= Cardinality(Unread) + 1
    BY <1>4, <2>4, OneMore
  <2>6. Cardinality({}) + 1 <= Cardinality(Working(n))
    BY <1>5, <2>3, OneLess
  <2> HIDE DEF Unread, T
  <2> QED
    BY <1>0, <1>4, <1>5, <2>5, <2>6, FS_EmptySet
<1> QED
  BY <1>6, <1>7

\* A periodic notification never goes out at more than the rate that its starts and
\* the failures account for, for any number of engines.
THEOREM StreamsArePaidFor == Spec => []StreamsPaidFor
<1>1. SInv /\ [Next]_vars => SInv'
  <2> SUFFICES ASSUME SInv, [Next]_vars PROVE SInv'
    OBVIOUS
  <2>1. TypeOK' /\ OneRead'
    BY TypeStep, OneReadStep DEF SInv
  <2>2. \A n \in Notifications : Streams(n)'
    BY StreamsStep
  <2> QED
    BY <2>1, <2>2 DEF SInv
<1>2. SInv => StreamsPaidFor
  <2> SUFFICES ASSUME SInv, \A e \in Engines : phase[e] # "commit", NEW n \in Notifications
               PROVE  Cardinality(Copies(n)) <= starts[n] + faults
    BY DEF StreamsPaidFor
  <2>1. /\ Cardinality(Copies(n)) \in Nat
        /\ Cardinality(Copies(n)) <= Coming(One(n)) + Cardinality(Working(n))
    BY CopiesAreStreams
  <2>2. /\ AheadFinite(One(n))
        /\ Coming(One(n)) + Cardinality(Working(n)) <= starts[n] + faults
        /\ starts[n] \in Nat /\ faults \in Nat
    BY DEF SInv, Streams, TypeOK
  <2>3. Coming(One(n)) \in Nat /\ Cardinality(Working(n)) \in Nat
    BY <2>2, FS_CardinalityType, WorkingFinite DEF AheadFinite, Coming
  <2> QED
    BY <2>1, <2>2, <2>3
<1> QED
  BY StreamsInit, <1>1, <1>2, PTL DEF Spec
=============================================================================
