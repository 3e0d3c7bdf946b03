---------------------------- MODULE PipelineProofs ----------------------------
(***************************************************************************)
(* What the notification engines, alone and together with the retry        *)
(* engines, guarantee for every value of their constants: any number of    *)
(* engines of both kinds, partitions, alarms and methods, any retry limit, *)
(* and any number of crashes and rebalances.                               *)
(***************************************************************************)
EXTENDS Pipeline, SequenceTheorems, FiniteSetTheorems, TLAPS

-----------------------------------------------------------------------------
(* The inductive invariant.                                                *)

\* An engine works on an alarm that is committed already (it has lost the
\* partition and is too late) or on the first one that is not.
NeverAhead ==
  \A e \in Engines, p \in Partitions, o \in Offsets :
    current[e] = <<p, o>> => o <= committed[p]

\* The periodic notifications of a are published.
PeriodicDone(a) ==
  \A m \in Actions[a] : m \in Periodic => <<a, m>> \in periodicTopic

\* Every method of a is in one of e's lists, or has no plugin.
AllAccounted(a, e) ==
  \A m \in Actions[a] :
    m \in todo[e] \cup sent[e] \cup failed[e] \/ m \notin Configured

\* What e has done for its alarm, by the place in run that it has reached.
Progress(e) ==
  LET a == current[e] IN
  /\ phase[e] = "periodic" => Actions[a] \subseteq todo[e]
  /\ phase[e] \in {"send", "publishSent", "publishFailed"} =>
       PeriodicDone(a) /\ AllAccounted(a, e)
  /\ phase[e] \in {"publishSent", "publishFailed"} => todo[e] = {}
  /\ phase[e] = "publishFailed" =>
       \A m \in sent[e] : <<a, m>> \in notificationTopic
  /\ phase[e] = "commit" => Closed(a)

IInv ==
  /\ TypeOK
  /\ AtMostOneInFlight
  /\ NeverAhead
  /\ DeliveredInOrder
  /\ NoLoss
  /\ \A e \in Engines : Progress(e)

-----------------------------------------------------------------------------
(* Type correctness.                                                       *)

LEMMA DieType ==
  ASSUME TypeOK, NEW e \in Engines, Die(e),
         phase[e] # "down",
         UNCHANGED <<alarmTopic, expired>>,
         notificationTopic' \in SUBSET Notifications,
         retryTopic' \in SUBSET Notifications,
         periodicTopic' \in SUBSET Notifications,
         attempts' = attempts,
         faults' \in Nat
  PROVE  TypeOK'
  BY ConstantsAssumption DEF TypeOK, Die, Phases

LEMMA PublishedType ==
  ASSUME TypeOK, NEW e \in Engines, NEW all, NEW part, NEW next,
         phase[e] \in {"periodic", "publishSent", "publishFailed"},
         next \in {"send", "publishFailed", "commit"},
         Published(e, all, part, next),
         UNCHANGED <<alarmTopic, expired, attempts>>,
         notificationTopic' \in SUBSET Notifications,
         retryTopic' \in SUBSET Notifications,
         periodicTopic' \in SUBSET Notifications
  PROVE  TypeOK'
<1>1. CASE part = all
  BY <1>1, ConstantsAssumption
     DEF TypeOK, Published, Goto, group, Phases
<1>2. CASE part # all
  <2>1. Die(e) /\ faults' \in Nat
    BY <1>2, ConstantsAssumption DEF Published, Fault, TypeOK
  <2> QED
    BY <2>1, DieType
<1> QED
  BY <1>1, <1>2

LEMMA TypeStep == TypeOK /\ [Next]_vars => TypeOK'
<1> SUFFICES ASSUME TypeOK, [Next]_vars PROVE TypeOK'
  OBVIOUS
<1> USE ConstantsAssumption
<1>1. ASSUME NEW e \in Engines, Crash(e) PROVE TypeOK'
  <2>1. faults' \in Nat
    BY <1>1 DEF Crash, Fault, TypeOK
  <2> QED
    BY <1>1, <2>1, DieType DEF Crash, topics, TypeOK
<1>2. ASSUME NEW e \in Engines, Restart(e) PROVE TypeOK'
  BY <1>2 DEF Restart, TypeOK, Phases, group, topics
<1>3. ASSUME NEW a \in Alarms, Expire(a) PROVE TypeOK'
  BY <1>3 DEF Expire, TypeOK, group, local, topics
<1>4. ASSUME NEW p \in Partitions, NEW e \in Engines,
             AssignFree(p, e) \/ Rebalance(p, e)
      PROVE  TypeOK'
  <2>1. Assign(p, e) /\ faults' \in Nat
    BY <1>4 DEF AssignFree, Rebalance, Fault, TypeOK
  <2> QED
    BY <2>1 DEF Assign, TypeOK, local, topics
<1>5. ASSUME NEW e \in Engines, NEW p \in Partitions, Receive(e, p)
      PROVE  TypeOK'
  <2>1. <<p, position[p]>> \in Alarms /\ position[p] + 1 \in 0 .. NumAlarms
    BY <1>5 DEF Receive, TypeOK, Alarms, Offsets
  <2> QED
    BY <1>5, <2>1 DEF Receive, Goto, TypeOK, Phases, topics
<1>6. ASSUME NEW e \in Engines, ToNotification(e) PROVE TypeOK'
  <2>1. CASE Die(e)
    BY <1>6, <2>1, DieType DEF ToNotification, topics, TypeOK
  <2>2. CASE ~Die(e)
    <3>1. current[e] \in Alarms
      BY <1>6 DEF ToNotification, TypeOK
    <3>2. Actions[current[e]] \in SUBSET Methods
      BY <3>1
    <3> QED
      BY <1>6, <2>2, <3>2
         DEF ToNotification, Goto, TypeOK, Phases, group, topics
  <2> QED
    BY <2>1, <2>2
<1>7. ASSUME NEW e \in Engines, NEW part \in SUBSET Methods,
             AddPeriodic(e, part) \/ PublishSent(e, part) \/ PublishFailed(e, part)
      PROVE  TypeOK'
  <2>1. current[e] \in Alarms
    BY <1>7 DEF AddPeriodic, PublishSent, PublishFailed, TypeOK
  <2>2. {current[e]} \X part \in SUBSET Notifications
    BY <2>1 DEF Notifications
  <2>3. /\ notificationTopic' \in SUBSET Notifications
        /\ retryTopic' \in SUBSET Notifications
        /\ periodicTopic' \in SUBSET Notifications
    BY <1>7, <2>2 DEF AddPeriodic, PublishSent, PublishFailed, TypeOK
  <2>4. /\ UNCHANGED <<alarmTopic, expired, attempts>>
        /\ phase[e] \in {"periodic", "publishSent", "publishFailed"}
    BY <1>7 DEF AddPeriodic, PublishSent, PublishFailed
  <2>5. \/ Published(e, todo[e] \cap Periodic, part, "send")
        \/ Published(e, sent[e], part, "publishFailed")
        \/ Published(e, failed[e], part, "commit")
    BY <1>7 DEF AddPeriodic, PublishSent, PublishFailed
  <2> QED
    BY <2>3, <2>4, <2>5, PublishedType
<1>8. ASSUME NEW e \in Engines, NEW m \in Methods, Send(e, m) PROVE TypeOK'
  <2>1. attempts' \in [Notifications -> Nat]
    BY <1>8 DEF Send, TypeOK
  <2>2. /\ todo' \in [Engines -> SUBSET Methods]
        /\ sent' \in [Engines -> SUBSET Methods]
        /\ failed' \in [Engines -> SUBSET Methods]
    BY <1>8 DEF Send, TypeOK
  <2>3. /\ phase' \in [Engines -> Phases] /\ current' = current
        /\ \A x \in Engines : phase[x] = "poll" <=> phase'[x] = "poll"
        /\ \A x \in Engines : phase[x] = "down" <=> phase'[x] = "down"
    BY <1>8 DEF Send, Goto, TypeOK, Phases
  <2>4. UNCHANGED <<alarmTopic, expired, committed, position, owner, notificationTopic,
                    retryTopic, periodicTopic, faults>>
    BY <1>8 DEF Send, group, topics
  <2> QED
    BY <2>1, <2>2, <2>3, <2>4 DEF TypeOK
<1>9. ASSUME NEW e \in Engines, Commit(e) PROVE TypeOK'
  <2>1. committed' \in [Partitions -> 0 .. NumAlarms]
    BY <1>9 DEF Commit, TypeOK
  <2> QED
    BY <1>9, <2>1 DEF Commit, Goto, TypeOK, Phases, topics
<1>10. CASE UNCHANGED vars
  BY <1>10 DEF vars, TypeOK, group, local, topics
<1> QED
  BY <1>1, <1>2, <1>3, <1>4, <1>5, <1>6, <1>7, <1>8, <1>9, <1>10
     DEF Next, Environment, EngineStep

LEMMA TypeInit == Init => TypeOK
  BY ConstantsAssumption DEF Init, TypeOK, Phases, Notifications

\* The state keeps its types, whatever crashes and is rebalanced: no engine
\* waits for a message with an alarm in its hands, and no position passes the
\* end of its partition.
THEOREM TypeCorrect == Spec => []TypeOK
  BY TypeInit, TypeStep, PTL DEF Spec

-----------------------------------------------------------------------------
(* What is recorded stays recorded.                                        *)

\* The messages of the alarm topic stay, alarms only get older, and topics
\* only get longer.
Grow ==
  /\ alarmTopic' = alarmTopic
  /\ expired \subseteq expired'
  /\ notificationTopic \subseteq notificationTopic'
  /\ retryTopic \subseteq retryTopic'
  /\ periodicTopic \subseteq periodicTopic'

LEMMA StepsGrow == [Next]_vars => Grow
<1>1. ASSUME Environment PROVE Grow
  BY <1>1 DEF Environment, Crash, Restart, Expire, AssignFree, Rebalance, Assign, local, topics, Grow
<1>2. ASSUME NEW e \in Engines, EngineStep(e) PROVE Grow
  BY <1>2 DEF EngineStep, Receive, ToNotification, AddPeriodic, Send, PublishSent, PublishFailed,
              Commit, group, topics, Grow
<1>3. UNCHANGED vars => Grow
  BY DEF vars, topics, Grow
<1> QED
  BY <1>1, <1>2, <1>3 DEF Next

\* The failures are counted one by one.
LEMMA FaultSteps == [Next]_vars => faults' = faults \/ Fault
<1>1. ASSUME Environment PROVE faults' = faults \/ Fault
  BY <1>1 DEF Environment, Crash, Restart, Expire, AssignFree, Rebalance
<1>2. ASSUME NEW e \in Engines, EngineStep(e) PROVE faults' = faults \/ Fault
  BY <1>2 DEF EngineStep, Receive, ToNotification, AddPeriodic, PublishSent, PublishFailed,
              Published, Send, Commit
<1>3. UNCHANGED vars => faults' = faults
  BY DEF vars
<1> QED
  BY <1>1, <1>2, <1>3 DEF Next

LEMMA SettledGrows ==
  ASSUME Grow
  PROVE  Settled \subseteq Settled' /\ Waived \subseteq Waived'
  BY DEF Grow, Settled, Waived

LEMMA ClosedStays ==
  ASSUME Grow, NEW a, Closed(a)
  PROVE  Closed(a)'
  BY SettledGrows DEF Closed

\* The progress of an engine outlives the steps of the others.
LEMMA ProgressStays ==
  ASSUME Grow, NEW f \in Engines, Progress(f),
         phase'[f] = phase[f], current'[f] = current[f], todo'[f] = todo[f],
         sent'[f] = sent[f], failed'[f] = failed[f]
  PROVE  Progress(f)'
<1>1. Closed(current[f]) => Closed(current[f])'
  BY ClosedStays
<1> QED
  BY <1>1 DEF Progress, PeriodicDone, AllAccounted, Grow, Closed

LEMMA NoLossStays ==
  ASSUME Grow, NoLoss, committed' = committed
  PROVE  NoLoss'
  BY ClosedStays DEF NoLoss, Closed

-----------------------------------------------------------------------------
(* The invariant is inductive.                                             *)

\* An engine that dies leaves a state in which everything it had not committed
\* is read again.
LEMMA DieStep ==
  ASSUME IInv, NEW e \in Engines, Die(e), Grow, TypeOK', attempts' = attempts
  PROVE  IInv'
<1>1. AtMostOneInFlight'
  BY ConstantsAssumption DEF IInv, AtMostOneInFlight, Die, TypeOK
<1>2. NeverAhead'
  BY ConstantsAssumption DEF IInv, NeverAhead, Die, TypeOK, Alarms
<1>3. DeliveredInOrder' /\ NoLoss'
  BY NoLossStays DEF IInv, DeliveredInOrder, Die
<1>4. ASSUME NEW f \in Engines PROVE Progress(f)'
  <2>1. CASE f = e
    BY <2>1 DEF Progress, Die, IInv, TypeOK
  <2>2. CASE f # e
    BY <2>2, ProgressStays DEF Die, IInv, TypeOK
  <2> QED
    BY <2>1, <2>2
<1> QED
  BY <1>1, <1>2, <1>3, <1>4 DEF IInv

\* A publish call that gets through takes e to its next place; one that does not
\* is the end of e.
LEMMA PublishStep ==
  ASSUME IInv, NEW e \in Engines, NEW all, NEW part, NEW next,
         Published(e, all, part, next), Grow, TypeOK', attempts' = attempts,
         phase[e] # "down", next # "down",
         part = all /\ phase'[e] = next => Progress(e)'
  PROVE  IInv'
<1>1. CASE part # all
  BY <1>1, DieStep DEF Published
<1>2. CASE part = all
  <2>1. /\ UNCHANGED <<group, current, todo, sent, failed>>
        /\ phase' = [phase EXCEPT ![e] = next]
    BY <1>2 DEF Published, Goto
  <2>2. AtMostOneInFlight' /\ NeverAhead' /\ DeliveredInOrder'
    BY <2>1 DEF IInv, AtMostOneInFlight, NeverAhead, DeliveredInOrder, group
  <2>3. NoLoss'
    BY <2>1, NoLossStays DEF IInv, group
  <2>4. Progress(e)'
    BY <1>2, <2>1 DEF IInv, TypeOK
  <2>5. ASSUME NEW f \in Engines, f # e PROVE Progress(f)'
    BY <2>1, <2>5, ProgressStays DEF IInv, TypeOK
  <2> QED
    BY <2>2, <2>3, <2>4, <2>5 DEF IInv
<1> QED
  BY <1>1, <1>2

LEMMA ReceiveStep ==
  ASSUME IInv, NEW e \in Engines, NEW p \in Partitions, Receive(e, p), Grow, TypeOK'
  PROVE  IInv'
<1> DEFINE a == <<p, position[p]>>
<1>1. /\ phase[e] = "poll" /\ owner[p] = e /\ current[e] = NoAlarm
      /\ a \in Alarms /\ a # NoAlarm
  BY ConstantsAssumption DEF Receive, IInv, TypeOK, Alarms, Offsets
\* e held no alarm, so nothing of its partitions was in flight.
<1>2. \A q \in Partitions : owner[q] = e => position[q] = committed[q]
  <2> SUFFICES ASSUME NEW q \in Partitions, owner[q] = e, position[q] # committed[q] PROVE FALSE
    OBVIOUS
  <2>1. position[q] = committed[q] + 1 /\ current[e] = <<q, committed[q]>>
    BY ConstantsAssumption DEF IInv, AtMostOneInFlight
  <2>2. position[q] \in 0 .. NumAlarms /\ committed[q] \in 0 .. NumAlarms
    BY DEF IInv, TypeOK
  <2>3. committed[q] \in Offsets
    BY <2>1, <2>2, ConstantsAssumption DEF Offsets
  <2> QED
    BY <1>1, <2>1, <2>3, ConstantsAssumption DEF Alarms
<1>3. AtMostOneInFlight'
  <2>1. /\ position \in [Partitions -> 0 .. NumAlarms] /\ current' = [current EXCEPT ![e] = a]
        /\ position' = [position EXCEPT ![p] = @ + 1] /\ UNCHANGED <<committed, owner>>
        /\ current \in [Engines -> Alarms \cup {NoAlarm}] /\ AtMostOneInFlight
    BY DEF Receive, IInv, TypeOK
  <2>2. ASSUME NEW q \in Partitions, owner[q] = e
        PROVE  \/ position'[q] = committed[q]
               \/ position'[q] = committed[q] + 1 /\ current'[e] = <<q, committed[q]>>
    BY <1>2, <2>1, <2>2
  <2>3. ASSUME NEW q \in Partitions, owner[q] # e, owner[q] # NoEngine
        PROVE  position'[q] = position[q] /\ current'[owner[q]] = current[owner[q]]
    BY <1>1, <2>1, <2>3
  <2> QED
    BY <2>1, <2>2, <2>3 DEF AtMostOneInFlight
<1>4. NeverAhead'
  BY <1>1, <1>2 DEF IInv, NeverAhead, Receive, TypeOK
<1>5. DeliveredInOrder' /\ NoLoss'
  BY NoLossStays DEF IInv, DeliveredInOrder, Receive
<1>6. ASSUME NEW f \in Engines PROVE Progress(f)'
  <2>1. CASE f = e
    BY <2>1 DEF Progress, Receive, Goto, IInv, TypeOK
  <2>2. CASE f # e
    BY <2>2, ProgressStays DEF Receive, Goto, IInv, TypeOK
  <2> QED
    BY <2>1, <2>2
<1> QED
  BY <1>3, <1>4, <1>5, <1>6 DEF IInv

LEMMA ToNotificationStep ==
  ASSUME IInv, NEW e \in Engines, ToNotification(e), Grow, TypeOK'
  PROVE  IInv'
<1> DEFINE a == current[e]
<1>1. CASE Die(e)
  BY <1>1, DieStep DEF ToNotification
<1>2. CASE ~Die(e)
  <2>1. a \in Alarms
    BY DEF ToNotification, IInv, TypeOK
  <2>2. /\ UNCHANGED <<committed, owner, position, current, attempts>>
        /\ UNCHANGED <<alarmTopic, expired>>
        /\ \A f \in Engines : f # e =>
             /\ phase'[f] = phase[f] /\ current'[f] = current[f] /\ todo'[f] = todo[f]
             /\ sent'[f] = sent[f] /\ failed'[f] = failed[f]
    BY <1>2 DEF ToNotification, group, Goto, IInv, TypeOK
  <2>3. AtMostOneInFlight' /\ NeverAhead' /\ DeliveredInOrder'
    BY <2>2 DEF IInv, AtMostOneInFlight, NeverAhead, DeliveredInOrder
  <2>4. NoLoss'
    BY <2>2, NoLossStays DEF IInv
  <2>5. Progress(e)'
    <3>1. CASE ~Accepted(a) \/ Actions[a] = {}
      <4>1. Closed(a)
        BY <2>1, <3>1 DEF Closed, Accepted, Waived
      <4>2. Closed(current[e])'
        BY <2>2, <4>1, ClosedStays DEF Closed
      <4>3. phase'[e] = "commit"
        BY <1>2, <3>1 DEF ToNotification, Goto, IInv, TypeOK
      <4> QED
        BY <4>2, <4>3 DEF Progress
    <3>2. CASE Accepted(a) /\ Actions[a] # {}
      <4>1. phase'[e] = "periodic" /\ todo'[e] = Actions[a]
        BY <1>2, <3>2 DEF ToNotification, Goto, IInv, TypeOK
      <4> QED
        BY <2>2, <4>1 DEF Progress
    <3> QED
      BY <3>1, <3>2
  <2>6. ASSUME NEW f \in Engines, f # e PROVE Progress(f)'
    BY <2>2, <2>6, ProgressStays DEF IInv
  <2> QED
    BY <2>3, <2>4, <2>5, <2>6 DEF IInv
<1> QED
  BY <1>1, <1>2

LEMMA SendStep ==
  ASSUME IInv, NEW e \in Engines, NEW m \in Methods, Send(e, m), Grow, TypeOK'
  PROVE  IInv'
<1> DEFINE a == current[e]
<1>1. /\ UNCHANGED <<committed, owner, position, current>>
      /\ phase[e] = "send" /\ m \in todo[e] /\ a \in Alarms
      /\ todo' = [todo EXCEPT ![e] = @ \ {m}]
  BY DEF Send, group, IInv, TypeOK
<1>2. AtMostOneInFlight' /\ NeverAhead'
  BY <1>1 DEF IInv, AtMostOneInFlight, NeverAhead
<1>3. NoLoss'
  BY <1>1, NoLossStays DEF IInv
<1>4. DeliveredInOrder'
  <2>1. \A n \in Notifications : attempts'[n] = attempts[n] \/ n = <<a, m>>
    BY DEF Send, IInv, TypeOK
  <2>2. ASSUME NEW p \in Partitions, NEW o \in Offsets, NEW k \in Methods,
               attempts'[<<<<p, o>>, k>>] > 0
        PROVE  o <= committed'[p]
    <3>1. <<<<p, o>>, k>> \in Notifications
      BY DEF Notifications, Alarms
    <3>2. CASE attempts'[<<<<p, o>>, k>>] = attempts[<<<<p, o>>, k>>]
      BY <1>1, <2>2, <3>2 DEF IInv, DeliveredInOrder
    <3>3. CASE current[e] = <<p, o>>
      BY <1>1, <3>3 DEF IInv, NeverAhead
    <3> QED
      BY <2>1, <3>1, <3>2, <3>3
  <2> QED
    BY <2>2 DEF DeliveredInOrder
<1>5. Progress(e)'
  <2>1. /\ PeriodicDone(a) /\ AllAccounted(a, e)
    BY <1>1 DEF IInv, Progress
  <2>2. PeriodicDone(current[e])'
    BY <1>1, <2>1 DEF PeriodicDone, Grow
  <2>3. AllAccounted(current[e], e)'
    BY <1>1, <2>1 DEF AllAccounted, Send, IInv, TypeOK
  <2>4. /\ phase'[e] \in {"send", "publishSent"}
        /\ phase'[e] = "publishSent" => todo'[e] = {}
    BY <1>1 DEF Send, Goto, IInv, TypeOK
  <2> QED
    BY <2>2, <2>3, <2>4 DEF Progress
<1>6. ASSUME NEW f \in Engines, f # e PROVE Progress(f)'
  BY <1>1, <1>6, ProgressStays DEF Send, Goto, IInv, TypeOK
<1> QED
  BY <1>2, <1>3, <1>4, <1>5, <1>6 DEF IInv

\* A commit moves the offset of a partition only past the alarm that e has
\* just finished.
LEMMA CommitMoves ==
  ASSUME IInv, NEW e \in Engines, Commit(e), NEW p \in Partitions
  PROVE  \/ committed'[p] = committed[p]
         \/ /\ committed'[p] = committed[p] + 1
            /\ owner[p] = e
            /\ current[e] = <<p, committed[p]>>
            /\ Closed(current[e])
  BY ConstantsAssumption DEF Commit, IInv, AtMostOneInFlight, TypeOK, Progress

LEMMA CommitStep ==
  ASSUME IInv, NEW e \in Engines, Commit(e), Grow, TypeOK'
  PROVE  IInv'
<1>1. \A p \in Partitions : committed[p] <= committed'[p]
  BY CommitMoves DEF IInv, TypeOK
<1>2. AtMostOneInFlight'
  BY ConstantsAssumption DEF IInv, AtMostOneInFlight, Commit, TypeOK
<1>3. NeverAhead'
  <2>1. ASSUME NEW f \in Engines, NEW p \in Partitions, NEW o \in Offsets,
               current'[f] = <<p, o>>
        PROVE  current[f] = <<p, o>>
    <3>1. <<p, o>> # NoAlarm
      BY ConstantsAssumption DEF Alarms
    <3> QED
      BY <2>1, <3>1 DEF Commit, IInv, TypeOK
  <2> QED
    BY <1>1, <2>1 DEF IInv, NeverAhead, TypeOK, Offsets
<1>4. DeliveredInOrder'
  BY <1>1 DEF IInv, DeliveredInOrder, Commit, TypeOK, Offsets
<1>5. NoLoss'
  <2>1. ASSUME NEW p \in Partitions, NEW o \in Offsets, o < committed'[p]
        PROVE  Closed(<<p, o>>)
    <3>1. CASE o < committed[p]
      BY <3>1 DEF IInv, NoLoss
    <3>2. CASE ~(o < committed[p])
      <4>1. o = committed[p] /\ current[e] = <<p, committed[p]>> /\ Closed(current[e])
        BY <2>1, <3>2, CommitMoves DEF IInv, TypeOK, Offsets
      <4> QED
        BY <4>1
    <3> QED
      BY <3>1, <3>2
  <2>2. ASSUME NEW p \in Partitions, NEW o \in Offsets, o < committed'[p]
        PROVE  Closed(<<p, o>>)'
    BY <2>1, <2>2, ClosedStays DEF Closed
  <2> QED
    BY <2>2 DEF NoLoss, Closed
<1>6. ASSUME NEW f \in Engines PROVE Progress(f)'
  <2>1. CASE f = e
    BY <2>1 DEF Progress, Commit, Goto, IInv, TypeOK
  <2>2. CASE f # e
    BY <2>2, ProgressStays DEF Commit, Goto, IInv, TypeOK
  <2> QED
    BY <2>1, <2>2
<1> QED
  BY <1>2, <1>3, <1>4, <1>5, <1>6 DEF IInv

LEMMA AssignStep ==
  ASSUME IInv, NEW p \in Partitions, NEW e \in Engines, Assign(p, e), Grow, TypeOK'
  PROVE  IInv'
<1>1. AtMostOneInFlight'
  BY DEF Assign, local, IInv, AtMostOneInFlight, TypeOK
<1>2. NeverAhead' /\ DeliveredInOrder'
  BY DEF Assign, local, IInv, NeverAhead, DeliveredInOrder
<1>3. NoLoss'
  BY NoLossStays DEF Assign, IInv
<1>4. ASSUME NEW f \in Engines PROVE Progress(f)'
  BY ProgressStays DEF Assign, local, IInv
<1> QED
  BY <1>1, <1>2, <1>3, <1>4 DEF IInv

\* A step that touches neither the group nor what an engine has in its hands.
LEMMA OtherStep ==
  ASSUME IInv, Grow, TypeOK', UNCHANGED <<group, attempts, current, todo, sent, failed>>,
         \A f \in Engines : phase'[f] # phase[f] => phase'[f] = "poll"
  PROVE  IInv'
<1>1. AtMostOneInFlight' /\ NeverAhead' /\ DeliveredInOrder'
  BY DEF group, IInv, AtMostOneInFlight, NeverAhead, DeliveredInOrder
<1>2. NoLoss'
  BY NoLossStays DEF group, IInv
<1>3. ASSUME NEW f \in Engines PROVE Progress(f)'
  <2>1. CASE phase'[f] = phase[f]
    BY <2>1, ProgressStays DEF IInv
  <2>2. CASE phase'[f] = "poll"
    BY <2>2 DEF Progress
  <2> QED
    BY <2>1, <2>2
<1> QED
  BY <1>1, <1>2, <1>3 DEF IInv

LEMMA InitIInv == Init => IInv
<1> SUFFICES ASSUME Init PROVE IInv
  OBVIOUS
<1>1. TypeOK
  BY TypeInit
<1>2. AtMostOneInFlight /\ DeliveredInOrder
  BY DEF Init, AtMostOneInFlight, DeliveredInOrder, Notifications, Alarms
<1>3. NeverAhead
  BY ConstantsAssumption DEF Init, NeverAhead, Alarms
<1>4. NoLoss
  BY ConstantsAssumption DEF Init, NoLoss, Offsets
<1>5. \A e \in Engines : Progress(e)
  BY DEF Init, Progress
<1> QED
  BY <1>1, <1>2, <1>3, <1>4, <1>5 DEF IInv

LEMMA NextIInv == IInv /\ TypeOK' /\ [Next]_vars => IInv'
<1> SUFFICES ASSUME IInv, TypeOK', [Next]_vars PROVE IInv'
  OBVIOUS
<1>0. Grow
  BY StepsGrow
<1>1. ASSUME NEW e \in Engines, Crash(e) PROVE IInv'
  BY <1>0, <1>1, DieStep DEF Crash
<1>2. ASSUME NEW e \in Engines, Restart(e) PROVE IInv'
  BY <1>0, <1>2, OtherStep DEF Restart, IInv, TypeOK
<1>3. ASSUME NEW a \in Alarms, Expire(a) PROVE IInv'
  BY <1>0, <1>3, OtherStep DEF Expire, local
<1>4. ASSUME NEW p \in Partitions, NEW e \in Engines,
             AssignFree(p, e) \/ Rebalance(p, e)
      PROVE  IInv'
  BY <1>0, <1>4, AssignStep DEF AssignFree, Rebalance
<1>5. ASSUME NEW e \in Engines, NEW p \in Partitions, Receive(e, p) PROVE IInv'
  BY <1>0, <1>5, ReceiveStep
<1>6. ASSUME NEW e \in Engines, ToNotification(e) PROVE IInv'
  BY <1>0, <1>6, ToNotificationStep
<1>7. ASSUME NEW e \in Engines, NEW part \in SUBSET Methods, AddPeriodic(e, part)
      PROVE  IInv'
  <2> DEFINE all == todo[e] \cap Periodic
  <2>1. Published(e, all, part, "send") /\ phase[e] = "periodic" /\ attempts' = attempts
    BY <1>7 DEF AddPeriodic
  <2>2. ASSUME part = all, phase'[e] = "send" PROVE Progress(e)'
    <3>1. current'[e] = current[e] /\ todo'[e] = todo[e] /\ sent'[e] = sent[e]
             /\ failed'[e] = failed[e] /\ Actions[current[e]] \subseteq todo[e]
      BY <2>1, <2>2 DEF Published, IInv, Progress
    <3>2. PeriodicDone(current[e])'
      BY <1>7, <2>2, <3>1 DEF PeriodicDone, AddPeriodic
    <3>3. AllAccounted(current[e], e)'
      BY <3>1 DEF AllAccounted
    <3> QED
      BY <2>2, <3>2, <3>3 DEF Progress
  <2> QED
    BY <1>0, <2>1, <2>2, PublishStep
<1>8. ASSUME NEW e \in Engines, NEW part \in SUBSET Methods, PublishSent(e, part)
      PROVE  IInv'
  <2>1. Published(e, sent[e], part, "publishFailed") /\ phase[e] = "publishSent"
           /\ attempts' = attempts
    BY <1>8 DEF PublishSent
  <2>2. ASSUME part = sent[e], phase'[e] = "publishFailed" PROVE Progress(e)'
    <3>1. current'[e] = current[e] /\ todo'[e] = todo[e] /\ sent'[e] = sent[e]
             /\ failed'[e] = failed[e]
      BY <2>1, <2>2 DEF Published
    <3>2. PeriodicDone(current[e]) /\ AllAccounted(current[e], e) /\ todo[e] = {}
      BY <2>1 DEF IInv, Progress
    <3>3. (PeriodicDone(current[e]) /\ AllAccounted(current[e], e) /\ todo[e] = {})'
      BY <1>0, <3>1, <3>2 DEF PeriodicDone, AllAccounted, Grow
    <3>4. \A m \in sent'[e] : <<current'[e], m>> \in notificationTopic'
      BY <1>8, <2>2, <3>1 DEF PublishSent
    <3> QED
      BY <2>2, <3>3, <3>4 DEF Progress
  <2> QED
    BY <1>0, <2>1, <2>2, PublishStep
<1>9. ASSUME NEW e \in Engines, NEW part \in SUBSET Methods, PublishFailed(e, part)
      PROVE  IInv'
  <2> DEFINE a == current[e]
  <2>1. /\ Published(e, failed[e], part, "commit") /\ phase[e] = "publishFailed"
        /\ attempts' = attempts /\ a \in Alarms
    BY <1>9 DEF PublishFailed, IInv, TypeOK
  <2>2. ASSUME part = failed[e], phase'[e] = "commit" PROVE Progress(e)'
    <3>1. a' = a
      BY <2>1, <2>2 DEF Published
    <3>2. /\ PeriodicDone(a) /\ AllAccounted(a, e) /\ todo[e] = {}
          /\ \A m \in sent[e] : <<a, m>> \in notificationTopic
      BY <2>1 DEF IInv, Progress
    <3>3. \A m \in failed[e] : <<a, m>> \in retryTopic'
      BY <1>9, <2>2 DEF PublishFailed
    <3>4. ASSUME NEW m \in Actions[a] PROVE <<a, m>> \in Settled'
      <4>1. <<a, m>> \in Notifications
        BY <2>1, ConstantsAssumption DEF Notifications
      <4>2. m \in Configured => <<a, m>> \in notificationTopic' \cup retryTopic'
        BY <1>0, <3>2, <3>3 DEF AllAccounted, Grow
      <4>3. m \in Periodic => <<a, m>> \in periodicTopic'
        BY <1>0, <3>2 DEF PeriodicDone, Grow
      <4> QED
        BY <4>1, <4>2, <4>3 DEF Settled
    <3>5. Closed(a)'
      BY <3>1, <3>4 DEF Closed
    <3> QED
      BY <2>2, <3>5 DEF Progress
  <2> QED
    BY <1>0, <2>1, <2>2, PublishStep
<1>10. ASSUME NEW e \in Engines, NEW m \in Methods, Send(e, m) PROVE IInv'
  BY <1>0, <1>10, SendStep
<1>11. ASSUME NEW e \in Engines, Commit(e) PROVE IInv'
  BY <1>0, <1>11, CommitStep
<1>12. CASE UNCHANGED vars
  BY <1>0, <1>12, OtherStep DEF vars, local
<1> QED
  BY <1>1, <1>2, <1>3, <1>4, <1>5, <1>6, <1>7, <1>8, <1>9, <1>10, <1>11, <1>12
     DEF Next, Environment, EngineStep

LEMMA IInvStep == IInv /\ [Next]_vars => IInv' /\ TypeOK'
  BY TypeStep, NextIInv DEF IInv

LEMMA Invariance == Spec => []IInv
  BY InitIInv, IInvStep, PTL DEF Spec

-----------------------------------------------------------------------------
(* The safety properties.                                                  *)

\* "Better to send a notification twice than not at all" (README.rst): no crash
\* and no rebalance makes the group skip an alarm of which a notification was
\* neither sent nor saved for a retry nor put on its periodic topic.
THEOREM NothingLost == Spec => []NoLoss
<1>1. IInv => NoLoss
  BY DEF IInv
<1> QED
  BY <1>1, Invariance, PTL

\* run commits after every alarm: a partition that changes hands is read again
\* from the one alarm that its owner was working on, or from the next one.
THEOREM OneInFlight == Spec => []AtMostOneInFlight
<1>1. IInv => AtMostOneInFlight
  BY DEF IInv
<1> QED
  BY <1>1, Invariance, PTL

\* Even an engine that has lost its partition sends nothing of an alarm while an
\* earlier alarm of the partition is uncommitted.
THEOREM InOrder == Spec => []DeliveredInOrder
<1>1. IInv => DeliveredInOrder
  BY DEF IInv
<1> QED
  BY <1>1, Invariance, PTL

-----------------------------------------------------------------------------
(* The engines implement AlarmDelivery.                                    *)

LEMMA CommitAdvances ==
  ASSUME IInv, NEW e \in Engines, Commit(e), Grow, TypeOK'
  PROVE  \/ \E p \in Partitions : Delivery!Advance(p)
         \/ UNCHANGED <<committed, Settled, Waived>>
<1>1. Settled' = Settled /\ Waived' = Waived
  BY DEF Commit, topics, Settled, Waived
<1>2. CASE \A p \in Partitions : committed'[p] = committed[p]
  BY <1>1, <1>2 DEF IInv, TypeOK
<1>3. ASSUME NEW p \in Partitions, committed'[p] # committed[p]
      PROVE  Delivery!Advance(p)
  <2> DEFINE a == <<p, committed[p]>>
  <2>1. committed'[p] = committed[p] + 1 /\ current[e] = a /\ Closed(a)
    BY <1>3, CommitMoves
  <2>2. \A q \in Partitions : q # p => committed'[q] = committed[q]
    BY <2>1, CommitMoves
  <2>3. committed' = [committed EXCEPT ![p] = @ + 1]
    BY <2>1, <2>2 DEF IInv, TypeOK
  <2>4. committed[p] < NumAlarms
    BY <2>1, ConstantsAssumption DEF IInv, TypeOK
  <2>5. a \in Waived \/ Delivery!NotificationsOf(a) \subseteq Settled
    BY <2>1 DEF Closed, Delivery!NotificationsOf
  <2> QED
    BY <1>1, <2>3, <2>4, <2>5 DEF Delivery!Advance
<1> QED
  BY <1>2, <1>3

LEMMA OthersSettle ==
  ASSUME Grow, TypeOK', committed' = committed
  PROVE  Delivery!Settle
<1>1. Settled' \in SUBSET Delivery!Notifications
  BY DEF Settled, Notifications, Alarms, Offsets, Delivery!Notifications, Delivery!Alarms
<1>2. Waived' \in SUBSET Delivery!Alarms
  BY DEF TypeOK, Waived, Alarms, Offsets, Delivery!Alarms
<1> QED
  BY <1>1, <1>2, SettledGrows DEF Delivery!Settle

LEMMA DeliveryStep ==
  IInv /\ TypeOK' /\ [Next]_vars => [Delivery!Next]_(Delivery!abstractVars)
<1> SUFFICES ASSUME IInv, TypeOK', [Next]_vars
             PROVE  [Delivery!Next]_(Delivery!abstractVars)
  OBVIOUS
<1>1. Grow
  BY StepsGrow
<1>2. CASE \E e \in Engines : Commit(e)
  BY <1>1, <1>2, CommitAdvances DEF Delivery!Next, Delivery!abstractVars
<1>3. CASE ~\E e \in Engines : Commit(e)
  <2>1. committed' = committed
    <3>1. ASSUME Environment PROVE committed' = committed
      BY <3>1 DEF Environment, Crash, Restart, Expire, AssignFree, Rebalance, Assign, Die, group
    <3>2. ASSUME NEW e \in Engines, EngineStep(e) PROVE committed' = committed
      BY <1>3, <3>2 DEF EngineStep, Receive, ToNotification, AddPeriodic, Send, PublishSent,
                        PublishFailed, Published, Die, group
    <3>3. UNCHANGED vars => committed' = committed
      BY DEF vars, group
    <3> QED
      BY <3>1, <3>2, <3>3 DEF Next
  <2> QED
    BY <1>1, <2>1, OthersSettle DEF Delivery!Next
<1> QED
  BY <1>2, <1>3

LEMMA DeliveryInit == Init => Delivery!Init
  BY DEF Init, Delivery!Init, Settled, Waived, Notifications, Alarms, Offsets,
         Delivery!Notifications, Delivery!Alarms

\* Spec implements the abstract delivery: the committed offset is a record of
\* closed alarms, moved on by one alarm at a time, and nothing is ever reopened.
THEOREM KeepsPromise == Spec => DeliveryPromise
  BY DeliveryInit, DeliveryStep, Invariance, TypeCorrect, PTL
     DEF Spec, DeliveryPromise, Delivery!Spec

-----------------------------------------------------------------------------
(* Every repeated delivery is paid for by a failure.                       *)

\* Where p is read next: by its owner, or by the engine that it will be given to.
NextRead(p) == IF owner[p] = NoEngine THEN committed[p] ELSE position[p]

\* The engines that have the alarm of n in their hands and n before them.
ToSend(n) ==
  {e \in Engines :
     /\ current[e] = n[1]
     /\ \/ phase[e] \in {"received", "periodic"}
        \/ phase[e] = "send" /\ n[2] \in todo[e]}

\* The alarm of n is going to be read once more.
Unread(n) == IF NextRead(n[1][1]) <= n[1][2] THEN 1 ELSE 0

\* How often n is going to be tried if nothing fails.
Reading(n) == Cardinality(ToSend(n)) + Unread(n)

\* The deliveries of n so far and those that are under way never add up to more
\* than one and one for each failure.
Budget(n) == attempts[n] + Reading(n) <= 1 + faults

\* A step does not try n, and only by a failure brings a further try.
Untried(n) ==
  /\ attempts'[n] = attempts[n]
  /\ faults' = faults \/ faults' = faults + 1
  /\ Reading(n)' + faults <= Reading(n) + faults'

LEMMA ToSendFinite ==
  ASSUME NEW n
  PROVE  /\ IsFiniteSet(ToSend(n)) /\ IsFiniteSet(ToSend(n)')
         /\ Cardinality(ToSend(n)) \in Nat /\ Cardinality(ToSend(n)') \in Nat
<1>1. ToSend(n) \subseteq Engines /\ ToSend(n)' \subseteq Engines
  BY DEF ToSend
<1>2. IsFiniteSet(ToSend(n)) /\ IsFiniteSet(ToSend(n)')
  BY <1>1, ConstantsAssumption, FS_Subset
<1> QED
  BY <1>2, FS_CardinalityType

LEMMA NotificationParts ==
  ASSUME TypeOK, NEW n \in Notifications
  PROVE  /\ n[1] \in Alarms /\ n[2] \in Methods
         /\ n[1][1] \in Partitions /\ n[1][2] \in Offsets
         /\ n = <<n[1], n[2]>> /\ n[1] = <<n[1][1], n[1][2]>>
         /\ attempts[n] \in Nat
         /\ NextRead(n[1][1]) \in 0 .. NumAlarms
         /\ Unread(n) \in {0, 1}
  BY DEF Notifications, Alarms, TypeOK, NextRead, Unread

LEMMA ReadingType ==
  ASSUME TypeOK, TypeOK', NEW n \in Notifications
  PROVE  Reading(n) \in Nat /\ Reading(n)' \in Nat
<1>1. Unread(n) \in {0, 1} /\ Unread(n)' \in {0, 1}
  BY DEF Unread
<1> QED
  BY <1>1, ToSendFinite DEF Reading

\* A failure pays for one more reading of an alarm.
LEMMA FaultReading ==
  ASSUME TypeOK, TypeOK', NEW n \in Notifications, faults' = faults + 1,
         attempts' = attempts, ToSend(n)' \subseteq ToSend(n)
  PROVE  Untried(n)
<1>1. Cardinality(ToSend(n)') <= Cardinality(ToSend(n))
  BY ToSendFinite, FS_Subset
<1>2. Unread(n)' \in {0, 1} /\ Unread(n) \in {0, 1}
  BY DEF Unread
<1> QED
  BY <1>1, <1>2, ToSendFinite, NotificationParts DEF Untried, Reading, TypeOK

\* A step that neither sends n nor has its alarm read again keeps the budget.
LEMMA QuietReading ==
  ASSUME TypeOK, TypeOK', NEW n \in Notifications, faults' = faults,
         attempts'[n] = attempts[n], ToSend(n)' \subseteq ToSend(n),
         Unread(n)' <= Unread(n)
  PROVE  Untried(n)
<1>1. Cardinality(ToSend(n)') <= Cardinality(ToSend(n))
  BY ToSendFinite, FS_Subset
<1>2. Unread(n)' \in {0, 1} /\ Unread(n) \in {0, 1}
  BY DEF Unread
<1> QED
  BY <1>1, <1>2, ToSendFinite, NotificationParts DEF Untried, Reading, TypeOK

LEMMA DieToSend ==
  ASSUME TypeOK, NEW e \in Engines, Die(e), NEW n
  PROVE  ToSend(n)' = ToSend(n) \ {e}
  BY DEF Die, ToSend, TypeOK

\* An alarm that kills its engine without a failure (it is "incomplete") does so
\* before any of its notifications is sent.
LEMMA FatalAlarmReading ==
  ASSUME IInv, TypeOK', NEW n \in Notifications,
         NEW e \in Engines, phase[e] = "received", Die(e),
         faults' = faults, attempts' = attempts
  PROVE  Untried(n)
<1> DEFINE p == n[1][1]
           o == n[1][2]
<1>1. TypeOK /\ ToSend(n)' = ToSend(n) \ {e}
  BY DieToSend DEF IInv
<1>2. CASE current[e] = n[1]
  <2>1. e \in ToSend(n)
    BY <1>2 DEF ToSend
  <2>2. Cardinality(ToSend(n)') = Cardinality(ToSend(n)) - 1
    BY <1>1, <2>1, ToSendFinite, FS_RemoveElement
  <2>3. Unread(n)' \in {0, 1} /\ Unread(n) \in {0, 1}
    BY DEF Unread
  <2> QED
    BY <1>1, <2>2, <2>3, ToSendFinite, NotificationParts DEF Untried, Reading, TypeOK
<1>3. CASE current[e] # n[1]
  <2>1. p \in Partitions /\ o \in Offsets /\ n[1] = <<p, o>>
    BY <1>1, NotificationParts
  <2>2. /\ NextRead(p)' = IF owner[p] = e THEN committed[p] ELSE NextRead(p)
        /\ owner[p] = e => NextRead(p) = position[p]
    BY <1>1, <2>1, ConstantsAssumption DEF NextRead, Die, TypeOK
  <2>3. owner[p] = e =>
          \/ position[p] = committed[p]
          \/ position[p] = committed[p] + 1 /\ o # committed[p]
    BY <1>3, <2>1, ConstantsAssumption DEF IInv, AtMostOneInFlight
  <2>4. (NextRead(p)' <= o) => (NextRead(p) <= o)
    BY <1>1, <2>1, <2>2, <2>3 DEF TypeOK, Offsets
  <2>5. Unread(n)' <= Unread(n)
    BY <2>4 DEF Unread
  <2> QED
    BY <1>1, <2>5, QuietReading
<1> QED
  BY <1>2, <1>3

LEMMA PublishReading ==
  ASSUME IInv, TypeOK', NEW n \in Notifications,
         NEW e \in Engines, NEW all, NEW part, NEW next,
         phase[e] \in {"periodic", "publishSent", "publishFailed"},
         next = "send" => phase[e] = "periodic",
         next \in {"send", "publishFailed", "commit"},
         Published(e, all, part, next), attempts' = attempts
  PROVE  Untried(n)
<1>1. TypeOK
  BY DEF IInv
<1>2. CASE part # all
  BY <1>1, <1>2, DieToSend, FaultReading DEF Published, Fault
<1>3. CASE part = all
  <2>1. ToSend(n)' \subseteq ToSend(n)
    BY <1>1, <1>3 DEF Published, Goto, ToSend, TypeOK
  <2>2. Unread(n)' = Unread(n)
    BY <1>3 DEF Published, group, Unread, NextRead
  <2>3. Unread(n)' <= Unread(n)
    BY <2>2 DEF Unread
  <2> QED
    BY <1>1, <1>3, <2>1, <2>3, QuietReading DEF Published
<1> QED
  BY <1>2, <1>3

LEMMA ReceiveReading ==
  ASSUME IInv, TypeOK', NEW n \in Notifications,
         NEW e \in Engines, NEW p \in Partitions, Receive(e, p)
  PROVE  Untried(n)
<1> DEFINE a == <<p, position[p]>>
<1>1. /\ TypeOK /\ e \notin ToSend(n) /\ owner[p] = e /\ e # NoEngine
      /\ attempts' = attempts /\ faults' = faults
  BY ConstantsAssumption DEF IInv, Receive, ToSend
<1>2. /\ n[1][1] \in Partitions /\ n[1][2] \in Offsets
      /\ n[1] = <<n[1][1], n[1][2]>>
  BY <1>1, NotificationParts
<1>3. CASE n[1] = a
  <2>1. ToSend(n)' = ToSend(n) \cup {e}
    BY <1>1, <1>3 DEF Receive, Goto, ToSend, TypeOK
  <2>2. Cardinality(ToSend(n)') = Cardinality(ToSend(n)) + 1
    BY <1>1, <2>1, ToSendFinite, FS_AddElement
  <2>3. NextRead(p) = position[p] /\ NextRead(p)' = position[p] + 1
    BY <1>1 DEF NextRead, Receive, TypeOK
  <2>4. Unread(n) = 1 /\ Unread(n)' = 0
    BY <1>1, <1>2, <1>3, <2>3 DEF Unread, TypeOK, Offsets
  <2> QED
    BY <1>1, <2>2, <2>4, ToSendFinite, NotificationParts DEF Untried, Reading, TypeOK
<1>4. CASE n[1] # a
  <2>1. ToSend(n)' \subseteq ToSend(n)
    BY <1>1, <1>4 DEF Receive, Goto, ToSend, TypeOK
  <2>2. NextRead(n[1][1]) <= NextRead(n[1][1])'
    BY <1>1, <1>2 DEF NextRead, Receive, TypeOK
  <2>3. Unread(n)' <= Unread(n)
    BY <1>1, <1>2, <2>2 DEF Unread, NextRead, TypeOK, Offsets
  <2> QED
    BY <1>1, <2>1, <2>3, QuietReading
<1> QED
  BY <1>3, <1>4

LEMMA SendReading ==
  ASSUME IInv, TypeOK', NEW n \in Notifications,
         NEW e \in Engines, NEW m \in Methods, Send(e, m)
  PROVE  \/ Untried(n)
         \/ /\ n = <<current[e], m>> /\ faults' = faults
            /\ attempts'[n] <= attempts[n] + 1 /\ Reading(n)' + 1 <= Reading(n)
<1>1. /\ TypeOK /\ faults' = faults
      /\ phase[e] = "send" /\ m \in todo[e]
      /\ todo' = [todo EXCEPT ![e] = @ \ {m}] /\ current' = current
      /\ \A f \in Engines : phase'[f] = phase[f] \/ (f = e /\ phase'[f] = "publishSent")
  BY DEF IInv, Send, Goto, TypeOK
<1>2. Unread(n)' = Unread(n) /\ Unread(n) \in {0, 1}
  BY DEF Send, group, Unread, NextRead
<1>3. ToSend(n)' \subseteq ToSend(n)
  BY <1>1 DEF ToSend, TypeOK
<1>4. CASE n = <<current[e], m>>
  <2>1. e \in ToSend(n)
    BY <1>1, <1>4 DEF ToSend
  <2>2. ToSend(n)' \subseteq ToSend(n) \ {e}
    BY <1>1, <1>3, <1>4 DEF ToSend, TypeOK
  <2>3. Cardinality(ToSend(n)') <= Cardinality(ToSend(n)) - 1
    <3>1. /\ IsFiniteSet(ToSend(n) \ {e})
          /\ Cardinality(ToSend(n) \ {e}) = Cardinality(ToSend(n)) - 1
      BY <2>1, ToSendFinite, FS_RemoveElement
    <3> QED
      BY <2>2, <3>1, FS_Subset
  <2>4. attempts'[n] <= attempts[n] + 1
    BY <1>1, <1>4, NotificationParts DEF Send, TypeOK
  <2>5. Reading(n)' + 1 <= Reading(n)
    BY <1>2, <2>3, ToSendFinite DEF Reading
  <2> QED
    BY <1>1, <1>4, <2>4, <2>5
<1>5. CASE n # <<current[e], m>>
  <2>1. attempts'[n] = attempts[n]
    BY <1>5 DEF Send, IInv, TypeOK
  <2> QED
    BY <1>1, <1>2, <1>3, <2>1, QuietReading
<1> QED
  BY <1>4, <1>5

\* The engines that a partition moves between have no say in what it owes.
LEMMA AssignReading ==
  ASSUME TypeOK, TypeOK', NEW n \in Notifications,
         NEW p \in Partitions, NEW e \in Engines,
         AssignFree(p, e) \/ Rebalance(p, e)
  PROVE  Untried(n)
<1>1. ToSend(n)' = ToSend(n) /\ attempts' = attempts
  BY DEF AssignFree, Rebalance, Assign, local, ToSend
<1>2. CASE AssignFree(p, e)
  <2>1. n[1][1] \in Partitions
    BY NotificationParts
  <2>2. NextRead(n[1][1])' = NextRead(n[1][1])
    BY <1>2, <2>1, ConstantsAssumption DEF AssignFree, Assign, NextRead, TypeOK
  <2>3. Unread(n)' <= Unread(n)
    BY <2>2 DEF Unread
  <2> QED
    BY <1>1, <1>2, <2>3, QuietReading DEF AssignFree
<1>3. CASE Rebalance(p, e)
  BY <1>1, <1>3, FaultReading DEF Rebalance, Fault
<1> QED
  BY <1>2, <1>3

LEMMA OtherReading ==
  ASSUME TypeOK, TypeOK', NEW n \in Notifications,
         UNCHANGED <<owner, committed, position, attempts, faults>>,
         ToSend(n)' \subseteq ToSend(n)
  PROVE  Untried(n)
<1>1. Unread(n)' <= Unread(n)
  BY DEF Unread, NextRead
<1> QED
  BY <1>1, QuietReading

LEMMA CommitReading ==
  ASSUME TypeOK, TypeOK', NEW n \in Notifications,
         NEW e \in Engines, Commit(e)
  PROVE  Untried(n)
<1>1. n[1][1] \in Partitions
  BY NotificationParts
<1>2. NextRead(n[1][1])' = NextRead(n[1][1])
  BY <1>1, ConstantsAssumption DEF Commit, NextRead, TypeOK
<1>3. Unread(n)' <= Unread(n)
  BY <1>2 DEF Unread
<1>4. ToSend(n)' \subseteq ToSend(n)
  BY DEF Commit, Goto, ToSend, TypeOK
<1> QED
  BY <1>3, <1>4, QuietReading DEF Commit

\* Every step of a notification engine leaves n alone, or is a try of n.
LEMMA ReadingStep ==
  ASSUME IInv, TypeOK', [Next]_vars, NEW n \in Notifications
  PROVE  \/ Untried(n)
         \/ /\ \E e \in Engines, m \in Methods : Send(e, m) /\ n = <<current[e], m>>
            /\ faults' = faults
            /\ attempts'[n] <= attempts[n] + 1 /\ Reading(n)' + 1 <= Reading(n)
<1>0. TypeOK
  BY DEF IInv
<1>1. ASSUME NEW e \in Engines, Crash(e) PROVE Untried(n)
  BY <1>0, <1>1, DieToSend, FaultReading DEF Crash, Fault
<1>2. ASSUME NEW e \in Engines, Restart(e) PROVE Untried(n)
  BY <1>0, <1>2, OtherReading DEF Restart, group, ToSend, TypeOK
<1>3. ASSUME NEW a \in Alarms, Expire(a) PROVE Untried(n)
  BY <1>0, <1>3, OtherReading DEF Expire, group, local, ToSend
<1>4. ASSUME NEW p \in Partitions, NEW e \in Engines,
             AssignFree(p, e) \/ Rebalance(p, e)
      PROVE  Untried(n)
  BY <1>0, <1>4, AssignReading
<1>5. ASSUME NEW e \in Engines, NEW p \in Partitions, Receive(e, p) PROVE Untried(n)
  BY <1>5, ReceiveReading
<1>6. ASSUME NEW e \in Engines, ToNotification(e) PROVE Untried(n)
  <2>1. CASE Die(e)
    BY <1>6, <2>1, FatalAlarmReading DEF ToNotification
  <2>2. CASE ~Die(e)
    <3>1. ToSend(n)' \subseteq ToSend(n)
      BY <1>0, <1>6, <2>2 DEF ToNotification, Goto, ToSend, TypeOK
    <3> QED
      BY <1>0, <1>6, <2>2, <3>1, OtherReading DEF ToNotification, group
  <2> QED
    BY <2>1, <2>2
<1>7. ASSUME NEW e \in Engines, NEW part \in SUBSET Methods,
             AddPeriodic(e, part) \/ PublishSent(e, part) \/ PublishFailed(e, part)
      PROVE  Untried(n)
  <2>1. CASE AddPeriodic(e, part)
    BY <2>1, PublishReading DEF AddPeriodic
  <2>2. CASE PublishSent(e, part)
    BY <2>2, PublishReading DEF PublishSent
  <2>3. CASE PublishFailed(e, part)
    BY <2>3, PublishReading DEF PublishFailed
  <2> QED
    BY <1>7, <2>1, <2>2, <2>3
<1>8. ASSUME NEW e \in Engines, NEW m \in Methods, Send(e, m)
      PROVE  \/ Untried(n)
             \/ /\ n = <<current[e], m>> /\ faults' = faults
                /\ attempts'[n] <= attempts[n] + 1 /\ Reading(n)' + 1 <= Reading(n)
  BY <1>8, SendReading
<1>9. ASSUME NEW e \in Engines, Commit(e) PROVE Untried(n)
  BY <1>0, <1>9, CommitReading
<1>10. CASE UNCHANGED vars
  BY <1>0, <1>10, OtherReading DEF vars, group, local, ToSend
<1> QED
  BY <1>1, <1>2, <1>3, <1>4, <1>5, <1>6, <1>7, <1>8, <1>9, <1>10
     DEF Next, Environment, EngineStep

\* A notification reaches its plugin once, and once more at most for every crash
\* and every rebalance there has been.
THEOREM RepeatsPaidFor == Spec => []AttemptsPaidFor
<1> DEFINE AllBudgets == \A n \in Notifications : Budget(n)
<1>1. Init => AllBudgets
  <2> SUFFICES ASSUME Init, NEW n \in Notifications PROVE Budget(n)
    OBVIOUS
  <2>1. ToSend(n) = {}
    BY DEF Init, ToSend
  <2>2. Cardinality(ToSend(n)) = 0
    BY <2>1, FS_EmptySet
  <2>3. attempts[n] = 0 /\ faults = 0 /\ Unread(n) \in {0, 1}
    BY DEF Init, Unread
  <2> QED
    BY <2>2, <2>3 DEF Budget, Reading
<1>2. IInv /\ TypeOK' /\ [Next]_vars /\ AllBudgets => AllBudgets'
  <2> SUFFICES ASSUME IInv, TypeOK', [Next]_vars, NEW n \in Notifications, Budget(n)
               PROVE  Budget(n)'
    OBVIOUS
  <2>1. /\ TypeOK /\ faults \in Nat /\ faults' \in Nat
        /\ attempts[n] \in Nat /\ attempts'[n] \in Nat
    BY DEF IInv, TypeOK
  <2>2. Reading(n) \in Nat /\ Reading(n)' \in Nat
    BY <2>1, ReadingType
  <2> QED
    BY <2>1, <2>2, ReadingStep DEF Budget, Untried
<1>3. IInv /\ AllBudgets => AttemptsPaidFor
  <2> SUFFICES ASSUME TypeOK, NEW n \in Notifications, Budget(n)
               PROVE  attempts[n] <= 1 + faults
    BY DEF IInv, AttemptsPaidFor
  <2> QED
    BY ToSendFinite, NotificationParts DEF Budget, Reading, TypeOK
<1> QED
  BY <1>1, <1>2, <1>3, Invariance, TypeCorrect, PTL DEF Spec

-----------------------------------------------------------------------------
(* The TTL drops an alarm as a whole.                                      *)

\* Without a failure an engine that works on an alarm owns its partition, and the
\* alarm is the first one that is not committed, and the last one that was read.
Single(e, p, o) == owner[p] = e /\ o = committed[p] /\ position[p] = o + 1

Alone ==
  faults = 0 =>
    \A e \in Engines, p \in Partitions, o \in Offsets :
      current[e] = <<p, o>> => Single(e, p, o)

LEMMA AloneStep ==
  ASSUME IInv, TypeOK', Alone, [Next]_vars
  PROVE  Alone'
<1> SUFFICES ASSUME faults' = 0, NEW f \in Engines, NEW p \in Partitions, NEW o \in Offsets,
                    current'[f] = <<p, o>>
             PROVE  Single(f, p, o)'
  BY DEF Alone
<1>0. /\ TypeOK /\ AtMostOneInFlight /\ NoEngine \notin Engines /\ NoAlarm \notin Alarms
      /\ <<p, o>> \in Alarms /\ <<p, o>> # NoAlarm
      /\ faults \in Nat /\ owner \in [Partitions -> Engines \cup {NoEngine}]
  BY ConstantsAssumption DEF IInv, Alarms, TypeOK
<1>1. ~Fault
  BY <1>0 DEF Fault
<1>2. faults = 0 /\ \A e \in Engines : current[e] = <<p, o>> => Single(e, p, o)
  <2>1. faults' = faults
    BY <1>1, FaultSteps
  <2> QED
    BY <2>1 DEF Alone
<1>3. ASSUME NEW e \in Engines, Die(e) PROVE Single(f, p, o)'
  BY <1>0, <1>2, <1>3 DEF Die, TypeOK, Single
<1>4. ASSUME UNCHANGED <<current, group>> PROVE Single(f, p, o)'
  BY <1>2, <1>4 DEF group, Single
<1>5. ASSUME NEW e \in Engines, NEW q \in Partitions, AssignFree(q, e)
      PROVE  Single(f, p, o)'
  <2>1. /\ UNCHANGED <<current, committed>> /\ owner[q] = NoEngine
        /\ owner' = [owner EXCEPT ![q] = e]
        /\ position' = [position EXCEPT ![q] = committed[q]]
    BY <1>5 DEF AssignFree, Assign, local
  <2> QED
    BY <1>0, <1>2, <2>1 DEF Single
<1>6. ASSUME NEW e \in Engines, NEW q \in Partitions, Receive(e, q)
      PROVE  Single(f, p, o)'
  <2>1. CASE f = e
    <3>1. /\ p = q /\ o = position[q] /\ owner[q] = e /\ UNCHANGED <<owner, committed>>
          /\ position'[p] = o + 1
      BY <1>0, <1>6, <2>1 DEF Receive, TypeOK
    <3>2. current[e] = NoAlarm
      BY <1>0, <1>6 DEF Receive, TypeOK
    <3>3. \/ position[q] = committed[q]
          \/ position[q] = committed[q] + 1 /\ current[e] = <<q, committed[q]>>
      BY <1>0, <3>1 DEF AtMostOneInFlight
    <3>4. position[q] = committed[q] + 1 => <<q, committed[q]>> \in Alarms
      BY <1>0, <1>6, ConstantsAssumption DEF TypeOK, Receive, Alarms, Offsets
    <3> QED
      BY <1>0, <2>1, <3>1, <3>2, <3>3, <3>4 DEF Single
  <2>2. CASE f # e
    <3>1. current[f] = <<p, o>> /\ p # q
      BY <1>0, <1>2, <1>6, <2>2 DEF Receive, TypeOK, Single
    <3> QED
      BY <1>0, <1>2, <1>6, <2>2, <3>1 DEF Receive, TypeOK, Single
  <2> QED
    BY <2>1, <2>2
<1>7. ASSUME NEW e \in Engines, Commit(e) PROVE Single(f, p, o)'
  <2>1. f # e /\ current[f] = <<p, o>>
    BY <1>0, <1>7 DEF Commit, TypeOK
  <2> QED
    BY <1>0, <1>2, <1>7, <2>1 DEF Commit, Single, TypeOK
<1>8. ASSUME NEW e \in Engines, NEW all, NEW part, NEW next, Published(e, all, part, next)
      PROVE  Single(f, p, o)'
  BY <1>1, <1>4, <1>8 DEF Published
<1>9. ASSUME NEW e \in Engines, ToNotification(e) PROVE Single(f, p, o)'
  BY <1>3, <1>4, <1>9 DEF ToNotification
<1>10. ASSUME NEW e \in Engines, NEW part \in SUBSET Methods,
              AddPeriodic(e, part) \/ PublishSent(e, part) \/ PublishFailed(e, part)
       PROVE  Single(f, p, o)'
  BY <1>8, <1>10 DEF AddPeriodic, PublishSent, PublishFailed
<1> QED
  BY <1>1, <1>4, <1>5, <1>6, <1>7, <1>9, <1>10
     DEF Next, Environment, EngineStep, Crash, Rebalance, Restart, Expire, Send, vars, local

\* An alarm that is ahead of the engines is unheard of.
NotYet ==
  \A p \in Partitions, o \in Offsets :
    o >= committed[p] /\ (\A e \in Engines : current[e] # <<p, o>>) => Unheard(<<p, o>>)

\* So is one that has just been received; one that is ready to be committed is dealt with.
Handled(e) ==
  /\ phase[e] = "received" => Unheard(current[e])
  /\ phase[e] = "commit" => Whole(current[e]) \/ Unheard(current[e])

Expiring == ExpiresWhole /\ (faults = 0 => NotYet /\ \A e \in Engines : Handled(e))

LEMMA WholeStays ==
  ASSUME Grow, NEW a, Whole(a)
  PROVE  Whole(a)'
  BY SettledGrows DEF Whole

\* Only who sends for an alarm, or publishes its periodic notifications, makes it known.
LEMMA UnheardStays ==
  ASSUME TypeOK, [Next]_vars, NEW a \in Alarms, Unheard(a),
         \A e \in Engines : current[e] = a => phase[e] \notin {"periodic", "send"}
  PROVE  Unheard(a)'
<1>1. ASSUME UNCHANGED <<attempts, periodicTopic>> PROVE Unheard(a)'
  BY <1>1 DEF Unheard
<1>2. ASSUME NEW e \in Engines, NEW part \in SUBSET Methods, AddPeriodic(e, part)
      PROVE  Unheard(a)'
  <2>1. current[e] # a
    BY <1>2 DEF AddPeriodic
  <2> QED
    BY <1>2, <2>1 DEF AddPeriodic, Unheard
<1>3. ASSUME NEW e \in Engines, NEW m \in Methods, Send(e, m) PROVE Unheard(a)'
  <2>1. current[e] # a /\ UNCHANGED periodicTopic
    BY <1>3 DEF Send, topics
  <2>2. attempts' = attempts \/ attempts' = [attempts EXCEPT ![<<current[e], m>>] = @ + 1]
    BY <1>3 DEF Send
  <2>3. ASSUME NEW x \in Methods PROVE attempts'[<<a, x>>] = attempts[<<a, x>>]
    BY <2>1, <2>2 DEF TypeOK, Notifications
  <2> QED
    BY <2>1, <2>3 DEF Unheard
<1>4. ASSUME NEW e \in Engines, NEW part \in SUBSET Methods,
             PublishSent(e, part) \/ PublishFailed(e, part)
      PROVE  Unheard(a)'
  BY <1>1, <1>4 DEF PublishSent, PublishFailed
<1>5. ASSUME NEW e \in Engines,
             (\E p \in Partitions : Receive(e, p)) \/ ToNotification(e) \/ Commit(e)
      PROVE  Unheard(a)'
  BY <1>1, <1>5 DEF Receive, ToNotification, Commit, topics
<1>6. CASE Environment
  BY <1>1, <1>6 DEF Environment, Crash, Restart, Expire, AssignFree, Rebalance, Assign, topics
<1>7. CASE UNCHANGED vars
  BY <1>1, <1>7 DEF vars, topics
<1> QED
  BY <1>2, <1>3, <1>4, <1>5, <1>6, <1>7 DEF Next, EngineStep

LEMMA StaysUnheard ==
  ASSUME TypeOK, [Next]_vars, NEW p \in Partitions, NEW o \in Offsets, Unheard(<<p, o>>),
         \A e \in Engines : current[e] = <<p, o>> => phase[e] \notin {"periodic", "send"}
  PROVE  Unheard(<<p, o>>)'
<1> DEFINE a == <<p, o>>
<1>1. /\ a \in Alarms /\ Unheard(a)
      /\ \A e \in Engines : current[e] = a => phase[e] \notin {"periodic", "send"}
  BY DEF Alarms
<1> HIDE DEF a
<1>2. Unheard(a)'
  BY <1>1, UnheardStays
<1> QED
  BY <1>2 DEF a, Unheard

\* Two engines never work on one alarm, so that the others leave the alarm of f alone.
LEMMA HandledStays ==
  ASSUME TypeOK, Alone, faults = 0, [Next]_vars, NEW f \in Engines, Handled(f),
         phase'[f] = phase[f], current'[f] = current[f]
  PROVE  Handled(f)'
<1> SUFFICES ASSUME phase[f] \in {"received", "commit"}
             PROVE  Handled(f)'
  BY DEF Handled
<1>1. current[f] \in Alarms
  BY DEF TypeOK
<1>2. PICK p \in Partitions, o \in Offsets : current[f] = <<p, o>>
  BY <1>1 DEF Alarms
<1>3. \A e \in Engines : current[e] = current[f] => e = f
  BY <1>2 DEF Alone, Single
<1>4. Unheard(current[f]) => Unheard(current[f])'
  <2> DEFINE a == current[f]
  <2> SUFFICES ASSUME Unheard(a) PROVE Unheard(a)'
    BY DEF Unheard
  <2>1. a' = a
    OBVIOUS
  <2>2. \A e \in Engines : current[e] = a => phase[e] \notin {"periodic", "send"}
    BY <1>3
  <2> QED
    BY <1>1, <2>1, <2>2, UnheardStays DEF Unheard
<1>5. Whole(current[f]) => Whole(current[f])'
  BY StepsGrow, WholeStays DEF Whole
<1> QED
  BY <1>4, <1>5 DEF Handled

\* Only a commit moves the offset of a partition.
LEMMA CommitOnly ==
  [Next]_vars => UNCHANGED committed \/ \E e \in Engines : Commit(e)
<1>1. Environment => UNCHANGED committed
  BY DEF Environment, Crash, Die, Restart, Expire, AssignFree, Rebalance, Assign, group
<1>2. ASSUME NEW e \in Engines, EngineStep(e), ~Commit(e) PROVE UNCHANGED committed
  BY <1>2 DEF EngineStep, Receive, ToNotification, AddPeriodic, PublishSent, PublishFailed,
              Published, Die, Send, group
<1>3. UNCHANGED vars => UNCHANGED committed
  BY DEF vars, group
<1> QED
  BY <1>1, <1>2, <1>3 DEF Next

\* The ways into the two phases that Handled is about.
LEMMA EngineMoves ==
  ASSUME TypeOK, [Next]_vars, ~Fault, NEW e \in Engines
  PROVE  \/ phase'[e] = phase[e] /\ current'[e] = current[e]
         \/ phase'[e] \notin {"received", "commit"}
         \/ \E p \in Partitions : Receive(e, p)
         \/ ToNotification(e)
         \/ \E part \in SUBSET Methods : PublishFailed(e, part) /\ part = failed[e]
<1>1. CASE Environment
  BY <1>1 DEF Environment, Crash, Restart, Expire, AssignFree, Rebalance, Assign, local, TypeOK
<1>2. ASSUME NEW f \in Engines, EngineStep(f), f # e
      PROVE  phase'[e] = phase[e] /\ current'[e] = current[e]
  BY <1>2 DEF EngineStep, Receive, ToNotification, AddPeriodic, PublishSent, PublishFailed,
                Published, Die, Goto, Send, Commit, TypeOK
<1>3. ASSUME EngineStep(e)
      PROVE  \/ phase'[e] = phase[e] /\ current'[e] = current[e]
             \/ phase'[e] \notin {"received", "commit"}
             \/ \E p \in Partitions : Receive(e, p)
             \/ ToNotification(e)
             \/ \E part \in SUBSET Methods : PublishFailed(e, part) /\ part = failed[e]
  BY <1>3 DEF EngineStep, AddPeriodic, PublishSent, PublishFailed, Published, Die, Goto, Send,
              Commit, TypeOK
<1>4. CASE UNCHANGED vars
  BY <1>4 DEF vars, local
<1> QED
  BY <1>1, <1>2, <1>3, <1>4 DEF Next

\* What one step does to the alarms that engines let go of.
LEMMA LetGo ==
  ASSUME IInv, TypeOK', Alone, faults = 0, faults' = 0, [Next]_vars,
         NEW e \in Engines, NEW p \in Partitions, NEW o \in Offsets,
         current[e] = <<p, o>>, current'[e] # current[e]
  PROVE  phase[e] = "received" \/ (Commit(e) /\ committed'[p] = o + 1)
<1> USE ConstantsAssumption
<1>0. /\ TypeOK /\ ~Fault /\ current[e] \in Alarms
      /\ current[e] # NoAlarm /\ Single(e, p, o)
  BY DEF IInv, Fault, Alone, Alarms
<1>1. phase[e] \notin {"poll", "down"}
  BY <1>0 DEF TypeOK
<1>2. CASE Environment
  BY <1>0, <1>2 DEF Environment, Crash, Restart, Expire, AssignFree, Rebalance, Assign, local
<1>3. ASSUME NEW f \in Engines, EngineStep(f), phase[e] # "received" PROVE Commit(e)
  <2>1. ASSUME NEW q \in Partitions, Receive(f, q) PROVE FALSE
    BY <1>0, <1>1, <2>1 DEF Receive, TypeOK
  <2>2. CASE ToNotification(f)
    BY <1>0, <1>3, <2>2 DEF ToNotification, Die, TypeOK
  <2>3. ASSUME NEW part \in SUBSET Methods,
               AddPeriodic(f, part) \/ PublishSent(f, part) \/ PublishFailed(f, part)
        PROVE  FALSE
    BY <1>0, <2>3 DEF AddPeriodic, PublishSent, PublishFailed, Published
  <2>4. ASSUME NEW m \in Methods, Send(f, m) PROVE FALSE
    BY <2>4 DEF Send
  <2>5. Commit(f) => Commit(e)
    <3>1. f = e => (Commit(f) => Commit(e))
      OBVIOUS
    <3>2. f # e /\ Commit(f) => current'[e] = current[e]
      BY <1>0 DEF Commit, TypeOK
    <3> QED
      BY <3>1, <3>2
  <2> QED
    BY <1>3, <2>1, <2>2, <2>3, <2>4, <2>5 DEF EngineStep
<1>4. Commit(e) => committed'[p] = o + 1
  BY <1>0 DEF Commit, Single
<1>5. ~UNCHANGED vars
  BY DEF vars, local
<1> QED
  BY <1>2, <1>3, <1>4, <1>5 DEF Next

LEMMA ExpiringStep ==
  ASSUME IInv, TypeOK', Alone, Expiring, [Next]_vars
  PROVE  Expiring'
<1> SUFFICES ASSUME faults' = 0
             PROVE  /\ \A p \in Partitions, o \in Offsets :
                         o < committed'[p] => Whole(<<p, o>>)' \/ Unheard(<<p, o>>)'
                    /\ NotYet' /\ \A e \in Engines : Handled(e)'
  BY DEF Expiring, ExpiresWhole, TypeOK
<1>0. /\ TypeOK /\ AtMostOneInFlight /\ ~Fault /\ faults = 0 /\ NotYet
      /\ \A e \in Engines : Handled(e)
      /\ committed \in [Partitions -> 0 .. NumAlarms]
  <2>1. TypeOK /\ ~Fault
    BY DEF IInv, Fault, TypeOK
  <2>2. faults = 0
    BY <2>1, FaultSteps
  <2> QED
    BY <2>1, <2>2 DEF IInv, Expiring, TypeOK
<1>1. Grow
  BY StepsGrow
<1>2. ASSUME NEW p \in Partitions, NEW o \in Offsets,
             \A e \in Engines : current[e] # <<p, o>>, Unheard(<<p, o>>)
      PROVE  Unheard(<<p, o>>)'
  BY <1>0, <1>2, StaysUnheard
\* Alarms that no engine works on.
<1>3. NotYet'
  <2> SUFFICES ASSUME NEW p \in Partitions, NEW o \in Offsets, o >= committed'[p],
                      \A e \in Engines : current'[e] # <<p, o>>
               PROVE  Unheard(<<p, o>>)'
    BY DEF NotYet
  <2>1. o >= committed[p]
    BY <1>0, CommitOnly, CommitMoves DEF TypeOK, Offsets
  <2>2. CASE \A e \in Engines : current[e] # <<p, o>>
    BY <1>0, <1>2, <2>1, <2>2 DEF NotYet
  <2>3. ASSUME NEW e \in Engines, current[e] = <<p, o>> PROVE Unheard(<<p, o>>)'
    <3>1. phase[e] = "received"
      <4>1. current'[e] # current[e] /\ faults' = 0
        BY <2>3
      <4>2. phase[e] = "received" \/ committed'[p] = o + 1
        BY <1>0, <2>3, <4>1, LetGo
      <4> QED
        BY <4>2 DEF Offsets
    <3>2. Unheard(<<p, o>>)
      BY <1>0, <2>3, <3>1 DEF Handled
    <3>3. \A f \in Engines : current[f] = <<p, o>> => f = e
      BY <1>0, <2>3 DEF Alone, Single
    <3> QED
      BY <1>0, <2>3, <3>1, <3>2, <3>3, StaysUnheard
  <2> QED
    BY <2>2, <2>3
\* Alarms that an engine works on.
<1>4. ASSUME NEW e \in Engines PROVE Handled(e)'
  <2>1. CASE phase'[e] = phase[e] /\ current'[e] = current[e]
    BY <1>0, <2>1, HandledStays
  <2>2. CASE phase'[e] \notin {"received", "commit"}
    BY <2>2 DEF Handled
  \* What is received is the first alarm that is not committed, and nobody works on it.
  <2>3. ASSUME NEW p \in Partitions, Receive(e, p) PROVE Handled(e)'
    <3>1. /\ current'[e] = <<p, position[p]>> /\ phase'[e] = "received"
          /\ owner[p] = e /\ current[e] = NoAlarm /\ position[p] \in Offsets
      BY <1>0, <2>3, ConstantsAssumption DEF Receive, Goto, TypeOK, Offsets
    <3>2. position[p] = committed[p]
      <4>1. position[p] = committed[p] + 1 => <<p, committed[p]>> \in Alarms
        BY <1>0, <3>1, ConstantsAssumption DEF TypeOK, Alarms, Offsets
      <4> QED
        BY <1>0, <3>1, <4>1, ConstantsAssumption DEF AtMostOneInFlight
    <3>3. ASSUME NEW f \in Engines, current[f] = <<p, position[p]>> PROVE FALSE
      <4>1. f = e
        BY <1>0, <3>1, <3>3 DEF Alone, Single
      <4> QED
        BY <3>1, <3>3, <4>1, ConstantsAssumption DEF Alarms
    <3>4. Unheard(<<p, position[p]>>)
      <4>1. position[p] >= committed[p]
        BY <3>1, <3>2 DEF Offsets
      <4>2. \A f \in Engines : current[f] # <<p, position[p]>>
        BY <3>3
      <4>3. NotYet /\ position[p] \in Offsets
        BY <1>0, <3>1
      <4> QED
        BY <4>1, <4>2, <4>3 DEF NotYet
    <3>5. UNCHANGED <<attempts, periodicTopic>>
      BY <2>3 DEF Receive, topics
    <3> QED
      BY <3>1, <3>4, <3>5 DEF Handled, Unheard
  <2>4. CASE ToNotification(e)
    <3>1. phase[e] = "received" /\ UNCHANGED <<attempts, periodicTopic>>
      BY <2>4 DEF ToNotification, topics
    <3>2. Unheard(current[e])
      BY <1>0, <3>1 DEF Handled
    <3>3. phase'[e] = "commit" => current'[e] = current[e]
      BY <1>0, <2>4 DEF ToNotification, Goto, Die, TypeOK
    <3>4. phase'[e] # "received"
      BY <1>0, <2>4 DEF ToNotification, Goto, Die, TypeOK
    <3> QED
      BY <3>1, <3>2, <3>3, <3>4 DEF Handled, Unheard
  \* All three topics have what they are to have.
  <2>5. ASSUME PublishFailed(e, failed[e]) PROVE Handled(e)'
    <3>1. /\ phase[e] = "publishFailed" /\ phase'[e] = "commit" /\ current'[e] = current[e]
          /\ UNCHANGED <<notificationTopic, periodicTopic>>
          /\ retryTopic' = retryTopic \cup ({current[e]} \X failed[e])
      BY <1>0, <2>5 DEF PublishFailed, Published, Goto, TypeOK
    <3>2. Progress(e)
      BY DEF IInv
    <3>3. current[e] \in Alarms
      BY <1>0, <3>1 DEF TypeOK
    <3>4. ASSUME NEW m \in Actions[current[e]] PROVE <<current[e], m>> \in Settled'
      BY <3>1, <3>2, <3>3, <3>4, ConstantsAssumption
         DEF Progress, PeriodicDone, AllAccounted, Settled, Notifications
    <3> QED
      BY <3>1, <3>4 DEF Handled, Whole
  <2> QED
    BY <1>0, <2>1, <2>2, <2>3, <2>4, <2>5, EngineMoves
\* Alarms that are committed.
<1>5. ASSUME NEW p \in Partitions, NEW o \in Offsets, o < committed'[p]
      PROVE  Whole(<<p, o>>)' \/ Unheard(<<p, o>>)'
  <2>1. CASE o < committed[p]
    <3>1. Whole(<<p, o>>) \/ Unheard(<<p, o>>)
      BY <1>0, <2>1 DEF Expiring, ExpiresWhole
    <3>2. ASSUME NEW e \in Engines, current[e] = <<p, o>> PROVE FALSE
      <4>1. Single(e, p, o)
        BY <1>0, <3>2 DEF Alone
      <4>2. o = committed[p]
        BY <4>1 DEF Single
      <4> QED
        BY <1>0, <2>1, <4>2 DEF Offsets
    <3> QED
      BY <1>1, <1>2, <3>1, <3>2, WholeStays DEF Whole
  <2>2. CASE ~(o < committed[p])
    <3>1. PICK e \in Engines : Commit(e)
      BY <1>5, <2>2, CommitOnly
    <3>2. o = committed[p] /\ current[e] = <<p, o>>
      BY <1>0, <1>5, <2>2, <3>1, CommitMoves DEF TypeOK, Offsets
    <3>3. Whole(<<p, o>>) \/ Unheard(<<p, o>>)
      BY <1>0, <3>1, <3>2 DEF Commit, Handled
    <3>4. UNCHANGED <<attempts, periodicTopic>>
      BY <3>1 DEF Commit, topics
    <3> QED
      BY <1>1, <3>3, <3>4, WholeStays DEF Whole, Unheard
  <2> QED
    BY <2>1, <2>2
<1> QED
  BY <1>3, <1>4, <1>5

LEMMA ExpiringInit == Init => Alone /\ Expiring
<1> SUFFICES ASSUME Init PROVE Alone /\ Expiring
  OBVIOUS
<1>1. Alone
  BY ConstantsAssumption DEF Init, Alone, Alarms
<1>2. ASSUME NEW p \in Partitions, NEW o \in Offsets
      PROVE  Unheard(<<p, o>>) /\ ~(o < committed[p])
  BY <1>2, ConstantsAssumption DEF Init, Unheard, Notifications, Alarms, Offsets
<1>3. \A e \in Engines : Handled(e)
  BY DEF Init, Handled
<1> QED
  BY <1>1, <1>2, <1>3 DEF Expiring, ExpiresWhole, NotYet

\* An alarm that expires while its notifications go out expires for none of them:
\* without a failure all who have a plugin hear of a committed alarm, or nobody.
THEOREM ExpiresForAll == Spec => []ExpiresWhole
<1>1. Expiring => ExpiresWhole
  BY DEF Expiring
<1>2. IInv /\ TypeOK' /\ Alone /\ Expiring /\ [Next]_vars => Alone' /\ Expiring'
  BY AloneStep, ExpiringStep
<1> QED
  BY <1>1, <1>2, ExpiringInit, Invariance, TypeCorrect, PTL DEF Spec

-----------------------------------------------------------------------------
(* The retry engines inside the pipeline.  What RetryEngineProofs shows of *)
(* a step of RetryEngine, or of one of its surroundings, holds of the      *)
(* steps of the pipeline.                                                  *)

RP == INSTANCE RetryEngineProofs WITH
        Engines <- RetryEngines, queue <- retryQueue, position <- retryPosition,
        owner <- retryOwner, phase <- retryPhase, current <- retrying,
        method <- retryMethod, attempts <- retryAttempts,
        sentTopic <- notificationTopic, enqueued <- retryTopic,
        lateSends <- [n \in Notifications |-> 0],
        row <- [n \in Notifications |-> IF n[2] \in Configured THEN "plugin" ELSE "noPlugin"]

LEMMA RetryConstants == RP!RetryAssumption
<1>1. /\ IsFiniteSet(RetryEngines) /\ MaxAttempts \in Nat /\ MaxFaults \in Nat
      /\ NoEngine \notin RetryEngines
      /\ NoMessage \notin [id : Notifications, count : Nat]
  BY PipelineAssumption, ConstantsAssumption DEF PipelineAssumption, ConstantsAssumption
<1>2. RP!IsFiniteSet(RetryEngines)
  BY <1>1 DEF IsFiniteSet, RP!IsFiniteSet
<1> QED
  BY <1>1, <1>2 DEF RP!RetryAssumption

LEMMA SameCardinality == \A S : RP!Cardinality(S) = Cardinality(S)
  BY DEF RP!Cardinality, Cardinality

LEMMA SameOperators ==
  /\ R!Messages = RP!Messages
  /\ R!Tries = RP!Tries
  /\ \A n : R!Holds(n) <=> RP!Holds(n)
  BY DEF R!Messages, RP!Messages, R!Tries, RP!Tries, R!Holds, RP!Holds

LEMMA SameInit == R!Init => RP!Init
  BY DEF R!Init, RP!Init, R!PartitionInit, RP!PartitionInit

LEMMA SameEnvironment ==
  ASSUME NEW e \in RetryEngines
  PROVE  /\ R!Crash(e) => RP!Crash(e)
         /\ R!Restart(e) => RP!Restart(e)
         /\ R!AssignFree(e) => RP!AssignFree(e)
         /\ R!Rebalance(e) => RP!Rebalance(e)
  BY DEF R!Crash, RP!Crash, R!Restart, RP!Restart, R!AssignFree, RP!AssignFree, R!Rebalance,
         RP!Rebalance, R!Acquire, RP!Acquire, R!Release, RP!Release, R!Fault, RP!Fault,
         R!local, RP!local, R!history, RP!history, R!partition, RP!partition

LEMMA SameReceive ==
  ASSUME NEW e \in RetryEngines
  PROVE  R!Receive(e) => RP!Receive(e)
  BY DEF R!Receive, RP!Receive, R!HasNext, RP!HasNext, R!NextMessage, RP!NextMessage,
         R!Advance, RP!Advance, R!Goto, RP!Goto, R!history, RP!history

LEMMA SameConstruct ==
  ASSUME NEW e \in RetryEngines
  PROVE  R!Construct(e) => RP!Construct(e)
  BY DEF R!Construct, RP!Construct, R!Fault, RP!Fault, R!Goto, RP!Goto, R!partition, RP!partition

LEMMA SameSend ==
  ASSUME NEW e \in RetryEngines
  PROVE  R!Send(e) => RP!Send(e)
  BY DEF R!Send, RP!Send, R!Goto, RP!Goto, R!partition, RP!partition, R!MayRetry, RP!MayRetry

LEMMA SameLastSteps ==
  ASSUME NEW e \in RetryEngines
  PROVE  /\ R!PublishSent(e) => RP!PublishSent(e)
         /\ R!Republish(e) => RP!Republish(e)
         /\ R!Commit(e) => RP!Commit(e)
  BY DEF R!PublishSent, RP!PublishSent, R!Goto, RP!Goto, R!partition, RP!partition, R!history,
         RP!history, R!Republish, RP!Republish, R!Publish, RP!Publish, R!Retried, RP!Retried,
         R!Commit, RP!Commit, R!CommitRead, RP!CommitRead

\* A step of the retry engines is one of RetryEngine, and the notification engines
\* stay where they are.
RetryStep ==
  /\ RetryEnvironment \/ \E e \in RetryEngines : RetryEngineStep(e)
  /\ RP!Next /\ UNCHANGED alarmLocal

LEMMA RetrySteps ==
  RetryEnvironment \/ (\E e \in RetryEngines : RetryEngineStep(e)) => RetryStep
<1>1. ASSUME RetryEnvironment PROVE RP!Next /\ UNCHANGED alarmLocal
  BY <1>1, SameEnvironment DEF RetryEnvironment, RP!Next, RP!Environment
<1>2. ASSUME NEW e \in RetryEngines, RetryEngineStep(e) PROVE RP!Next /\ UNCHANGED alarmLocal
  <2>1. R!EngineStep(e) => RP!EngineStep(e)
    BY SameReceive, SameConstruct, SameSend, SameLastSteps DEF R!EngineStep, RP!EngineStep
  <2> QED
    BY <1>2, <2>1 DEF RetryEngineStep, RP!Next
<1> QED
  BY <1>1, <1>2 DEF RetryStep

-----------------------------------------------------------------------------
(* What the notification engines do to the retry topic.                    *)

\* The elements of a finite set in some order, each of them once.
LEMMA InSomeOrder ==
  ASSUME NEW S, IsFiniteSet(S)
  PROVE  /\ SetToSeq(S) \in Seq(S)
         /\ \A i, j \in 1 .. Len(SetToSeq(S)) : SetToSeq(S)[i] = SetToSeq(S)[j] => i = j
         /\ {SetToSeq(S)[i] : i \in 1 .. Len(SetToSeq(S))} = S
<1> DEFINE s == SetToSeq(S)
<1>1. Cardinality(S) \in Nat /\ ExistsBijection(1 .. Cardinality(S), S)
  BY FS_CardinalityType
<1>2. \E f \in [1 .. Cardinality(S) -> S] : IsInjective(f)
  BY <1>1 DEF ExistsBijection, Bijection, Injection
<1>3. s \in [1 .. Cardinality(S) -> S] /\ IsInjective(s)
  BY <1>2 DEF SetToSeq
<1>4. s \in Surjection(1 .. Cardinality(S), S)
  <2>1. s \in Injection(1 .. Cardinality(S), S)
    BY <1>3 DEF Injection
  <2>2. IsFiniteSet(1 .. Cardinality(S)) /\ Cardinality(1 .. Cardinality(S)) = Cardinality(S)
    BY <1>1, FS_Interval
  <2> HIDE DEF s
  <2> QED
    BY <2>1, <2>2, FS_Injection
<1>5. s \in Seq(S) /\ Len(s) = Cardinality(S)
  <2> HIDE DEF s
  <2> QED
    BY <1>1, <1>3, IsASeq, LenProperties
<1> HIDE DEF s
<1>6. \A i, j \in 1 .. Len(s) : s[i] = s[j] => i = j
  BY <1>3, <1>5 DEF IsInjective
<1>7. {s[i] : i \in 1 .. Len(s)} = S
  BY <1>3, <1>4, <1>5 DEF Surjection
<1> QED
  BY <1>5, <1>6, <1>7 DEF s

\* No two messages of s are about the same notification.
Distinct(s) == \A i, j \in 1 .. Len(s) : s[i].id = s[j].id => i = j
IdsOf(s) == {s[i].id : i \in 1 .. Len(s)}

\* e publishes what it could not send, or a part of that.
Publishes(e, part) == PublishFailed(e, part) /\ Enqueue(e, part)

LEMMA PublishesOutside ==
  ASSUME TypeOK, TypeOK', NEW e \in Engines, NEW part \in SUBSET Methods, Publishes(e, part),
         UNCHANGED retryLocal
  PROVE  \E s \in Seq(RP!FirstMessages) :
           RP!Outside(s) /\ Distinct(s) /\ IdsOf(s) = {current[e]} \X part
<1> DEFINE first(m) == [id |-> <<current[e], m>>, count |-> 0]
           S == {first(m) : m \in part}
           s == SetToSeq(S)
<1>1. current[e] \in Alarms
  BY DEF Publishes, PublishFailed, TypeOK
<1>2. S \in SUBSET RP!FirstMessages
  BY <1>1 DEF RP!FirstMessages, Notifications
<1>3. IsFiniteSet(S)
  <2>1. IsFiniteSet(part)
    BY PipelineAssumption, FS_Subset DEF PipelineAssumption
  <2>2. [m \in part |-> first(m)] \in Surjection(part, S)
    BY DEF Surjection
  <2> HIDE DEF S
  <2> QED
    BY <2>1, <2>2, FS_Surjection
<1>4. \A x, y \in S : x.id = y.id => x = y
  OBVIOUS
<1>5. {x.id : x \in S} = {current[e]} \X part
  <2>1. ASSUME NEW m \in part PROVE first(m) \in S /\ first(m).id = <<current[e], m>>
    OBVIOUS
  <2>2. \A x \in S : \E m \in part : x.id = <<current[e], m>>
    OBVIOUS
  <2> HIDE DEF S, first
  <2>3. ASSUME NEW n \in {current[e]} \X part PROVE n \in {x.id : x \in S}
    <3>1. PICK m \in part : n = <<current[e], m>>
      OBVIOUS
    <3> QED
      BY <2>1, <3>1
  <2>4. \A x \in S : x.id \in {current[e]} \X part
    <3>1. \A m \in part : <<current[e], m>> \in {current[e]} \X part
      OBVIOUS
    <3> QED
      BY <2>2, <3>1
  <2> QED
    BY <2>3, <2>4
<1>6. retryQueue' = retryQueue \o s
  BY DEF Publishes, Enqueue
<1>7. retryTopic' = retryTopic \cup ({current[e]} \X part)
  BY DEF Publishes, PublishFailed
<1>8. /\ notificationTopic' = notificationTopic
      /\ notificationTopic' \in SUBSET Notifications /\ faults' \in Nat
  BY DEF Publishes, PublishFailed, TypeOK
<1> HIDE DEF S
<1>9. /\ s \in Seq(S) /\ \A i, j \in 1 .. Len(s) : s[i] = s[j] => i = j
      /\ {s[i] : i \in 1 .. Len(s)} = S
  BY <1>3, InSomeOrder
<1> HIDE DEF s
<1>10. s \in Seq(RP!FirstMessages) /\ \A i \in 1 .. Len(s) : s[i] \in S
  <2>1. Len(s) \in Nat /\ \A i \in 1 .. Len(s) : s[i] \in S
    BY <1>9, LenProperties, ElementOfSeq
  <2>2. s \in [1 .. Len(s) -> RP!FirstMessages]
    BY <1>2, <1>9, <2>1, LenProperties
  <2> QED
    BY <2>1, <2>2
<1>11. Distinct(s)
  BY <1>4, <1>9, <1>10 DEF Distinct
<1>12. IdsOf(s) = {current[e]} \X part
  <2>1. IdsOf(s) = {x.id : x \in S}
    BY <1>9 DEF IdsOf
  <2> QED
    BY <1>5, <2>1
<1>13. RP!Outside(s)
  BY <1>6, <1>7, <1>8, <1>12 DEF RP!Outside, RP!local, retryLocal, IdsOf
<1> QED
  BY <1>10, <1>11, <1>12, <1>13

\* The steps of the notification engines and around them.
AlarmStep ==
  /\ [Next]_vars /\ UNCHANGED retryLocal
  /\ \/ \E e \in Engines, part \in SUBSET Methods : Publishes(e, part)
     \/ UNCHANGED <<retryQueue, retryTopic>>

LEMMA AlarmSteps ==
  AlarmEnvironment \/ (\E e \in Engines : AlarmEngineStep(e)) \/ UNCHANGED pipeline => AlarmStep
<1>1. ASSUME AlarmEnvironment PROVE AlarmStep
  BY <1>1 DEF AlarmEnvironment, AlarmStep, Next, Environment, Crash, Restart, Expire, AssignFree,
              Rebalance, Assign, topics
<1>2. ASSUME NEW e \in Engines, AlarmEngineStep(e) PROVE AlarmStep
  <2>1. EngineStep(e) /\ UNCHANGED retryLocal
    BY <1>2 DEF AlarmEngineStep, EngineStep
  <2>2. CASE phase[e] # "publishFailed" /\ EngineStep(e) /\ UNCHANGED retryQueue
    <3>1. retryTopic' = retryTopic
      BY <2>2 DEF EngineStep, Receive, ToNotification, AddPeriodic, PublishSent, PublishFailed,
                  Send, Commit, topics
    <3> QED
      BY <2>1, <2>2, <3>1 DEF AlarmStep, Next
  <2>3. CASE \E part \in SUBSET Methods : PublishFailed(e, part) /\ Enqueue(e, part)
    BY <2>1, <2>3 DEF AlarmStep, Next, Publishes
  <2> QED
    BY <1>2, <2>2, <2>3 DEF AlarmEngineStep
<1>3. ASSUME UNCHANGED pipeline PROVE AlarmStep
  BY <1>3 DEF pipeline, vars, topics, AlarmStep
<1> QED
  BY <1>1, <1>2, <1>3

LEMMA PipelineSteps == [PipelineNext]_pipeline => AlarmStep \/ RetryStep
  BY AlarmSteps, RetrySteps DEF PipelineNext

\* For the retry engines an alarm step is a first failure of some notifications, or
\* of none, or goes on elsewhere.
LEMMA NothingPublished ==
  ASSUME TypeOK', notificationTopic \subseteq notificationTopic',
         UNCHANGED <<retryQueue, retryTopic, retryLocal>>, NEW S, retryQueue \in Seq(S)
  PROVE  \E s \in Seq(RP!FirstMessages) : RP!Outside(s) /\ Distinct(s) /\ IdsOf(s) = {}
<1> DEFINE s == <<>>
<1>1. s \in Seq(RP!FirstMessages) /\ Len(s) = 0
  BY EmptySeq
<1>2. retryQueue \o s = retryQueue
  BY ConcatEmptySeq
<1> HIDE DEF s
<1>3. Distinct(s) /\ IdsOf(s) = {}
  BY <1>1 DEF Distinct, IdsOf
<1>4. RP!Outside(s)
  BY <1>2, <1>3 DEF RP!Outside, RP!local, retryLocal, IdsOf, TypeOK
<1> QED
  BY <1>1, <1>3, <1>4

LEMMA AlarmStepOutside ==
  ASSUME TypeOK, TypeOK', AlarmStep, NEW S, retryQueue \in Seq(S)
  PROVE  \E s \in Seq(RP!FirstMessages) : RP!Outside(s) /\ Distinct(s)
<1>1. notificationTopic \subseteq notificationTopic'
  BY StepsGrow DEF Grow, AlarmStep
<1> QED
  BY <1>1, PublishesOutside, NothingPublished DEF AlarmStep

-----------------------------------------------------------------------------
(* The invariants of the two engines hold side by side.                    *)

Joint == IInv /\ RP!KInv /\ RP!BelowLimit /\ RP!KnownMessages

\* What the retry engines do for the notification engines is to record more as sent.
LEMMA RetryStepKeeps ==
  ASSUME IInv, RP!TInv, RP!TInv', RetryStep
  PROVE  IInv' /\ TypeOK' /\ Grow /\ (faults' = faults \/ faults' = faults + 1)
<1>1. /\ UNCHANGED <<alarmTopic, expired, group, local, retryTopic, periodicTopic, attempts>>
      /\ TypeOK /\ faults \in Nat
  BY DEF RetryStep, alarmLocal, IInv, TypeOK
<1>2. notificationTopic \subseteq notificationTopic' /\ (faults' = faults \/ faults' = faults + 1)
  BY <1>1, RetryConstants, RP!RecordsStay DEF RetryStep
<1>3. notificationTopic' \in SUBSET Notifications /\ faults' \in Nat
  BY RetryConstants DEF RP!TInv, RP!TypeOK
<1>4. Grow
  BY <1>1, <1>2 DEF Grow
<1>5. TypeOK'
  BY <1>1, <1>3 DEF TypeOK, group, local
<1>6. IInv'
  BY <1>1, <1>4, <1>5, OtherStep DEF group, local
<1> QED
  BY <1>2, <1>4, <1>5, <1>6

LEMMA JointStep ==
  Joint /\ [PipelineNext]_pipeline => Joint' /\ TypeOK'
<1> SUFFICES ASSUME Joint, [PipelineNext]_pipeline PROVE Joint' /\ TypeOK'
  OBVIOUS
<1>0. IInv /\ TypeOK /\ RP!KInv /\ RP!TInv /\ RP!BelowLimit /\ RP!KnownMessages
  BY DEF Joint, IInv, RP!KInv
<1>1. ASSUME RP!AnyStep
      PROVE  RP!KInv' /\ RP!BelowLimit' /\ RP!KnownMessages' /\ RP!TInv'
  <2>1. RP!KInv'
    BY <1>0, <1>1, RetryConstants, RP!KInvStep
  <2>2. RP!BelowLimit'
    BY <1>0, <1>1, RetryConstants, RP!BelowLimitStep
  <2>3. RP!KnownMessages'
    BY <1>0, <1>1, RetryConstants, RP!KnownStep
  <2> QED
    BY <2>1, <2>2, <2>3 DEF RP!KInv
<1>2. CASE AlarmStep
  <2>1. IInv' /\ TypeOK'
    BY <1>0, <1>2, IInvStep DEF AlarmStep
  <2>2. retryQueue \in Seq(RP!Messages)
    BY <1>0 DEF RP!TInv, RP!TypeOK
  <2>3. RP!AnyStep
    BY <1>0, <1>2, <2>1, <2>2, AlarmStepOutside DEF RP!AnyStep
  <2> QED
    BY <1>1, <2>1, <2>3 DEF Joint
<1>3. CASE RetryStep
  <2>1. RP!AnyStep
    BY <1>3 DEF RetryStep, RP!AnyStep
  <2>2. IInv' /\ TypeOK'
    BY <1>0, <1>1, <1>3, <2>1, RetryStepKeeps
  <2> QED
    BY <1>1, <2>1, <2>2 DEF Joint
<1> QED
  BY <1>2, <1>3, PipelineSteps

LEMMA JointInit == PipelineInit => Joint
<1> SUFFICES ASSUME PipelineInit PROVE Joint
  OBVIOUS
<1>1. IInv
  BY InitIInv DEF PipelineInit
<1>2. RP!Init
  BY SameInit DEF PipelineInit
<1>3. RP!KInv
  BY <1>2, RetryConstants, RP!KeptInit
<1>4. RP!BelowLimit /\ RP!KnownMessages
  <2>1. retryQueue = <<>> /\ \A e \in RetryEngines : retrying[e] = NoMessage
    BY <1>2 DEF RP!Init, RP!PartitionInit
  <2>2. \A i \in 1 .. Len(retryQueue) : FALSE
    BY <2>1
  <2> QED
    BY <2>1, <2>2 DEF RP!BelowLimit, RP!KnownMessages
<1> QED
  BY <1>1, <1>3, <1>4 DEF Joint

LEMMA JointInvariance == PipelineSpec => []Joint
  BY JointInit, JointStep, PTL DEF PipelineSpec

\* With the retry engines at work, too, no engine sends anything of an alarm while an
\* earlier alarm of its partition is uncommitted.
THEOREM PipelineInOrder == PipelineSpec => []DeliveredInOrder
<1>1. Joint => DeliveredInOrder
  BY DEF Joint, IInv
<1> QED
  BY <1>1, JointInvariance, PTL

\* Whatever the retry engines do meanwhile, a failure replays at most one alarm of a
\* partition, however many the partition holds.
THEOREM PipelineOneInFlight == PipelineSpec => []AtMostOneInFlight
<1>1. Joint => AtMostOneInFlight
  BY DEF Joint, IInv
<1> QED
  BY <1>1, JointInvariance, PTL

\* The two kinds of engine together keep the promise of the abstract delivery: what
\* the retry engines record settles more notifications, and moves no offset.
THEOREM PipelineKeepsPromise == PipelineSpec => DeliveryPromise
<1>1. Joint /\ TypeOK' /\ Joint' /\ [PipelineNext]_pipeline => [Delivery!Next]_(Delivery!abstractVars)
  <2> SUFFICES ASSUME Joint, Joint', TypeOK', [PipelineNext]_pipeline
               PROVE  [Delivery!Next]_(Delivery!abstractVars)
    OBVIOUS
  <2>1. CASE AlarmStep
    BY <2>1, DeliveryStep DEF AlarmStep, Joint
  <2>2. CASE RetryStep
    <3>1. Grow /\ committed' = committed
      BY <2>2, RetryStepKeeps DEF Joint, RP!KInv, RetryStep, alarmLocal, group
    <3> QED
      BY <3>1, OthersSettle DEF Delivery!Next
  <2> QED
    BY <2>1, <2>2, PipelineSteps
<1>2. PipelineInit => Delivery!Init
  BY DeliveryInit DEF PipelineInit
<1> QED
  BY <1>1, <1>2, JointInvariance, JointStep, PTL DEF PipelineSpec, DeliveryPromise, Delivery!Spec

-----------------------------------------------------------------------------
(* Nothing is forgotten between the engines.                               *)

\* A retry engine drops a notification as invalid only when no plugin is loaded for
\* its method.
Unplugged ==
  /\ \A e \in RetryEngines :
       retryPhase[e] = "send" /\ retryMethod[e] = "noPlugin" =>
         retrying[e].id[2] \notin Configured
  /\ \A n \in invalid : n[2] \notin Configured

LEMMA UnpluggedRetry ==
  ASSUME RP!TInv, Unplugged, RP!Next
  PROVE  Unplugged'
<1>0. /\ retryPhase \in [RetryEngines -> RP!Phases]
      /\ retryMethod \in [RetryEngines -> {"plugin", "noPlugin"}]
      /\ \A e \in RetryEngines : retryPhase[e] \in {"received", "send"} => retrying[e].id \in Notifications
  BY DEF RP!TInv, RP!TypeOK, RP!Messages
<1>1. ASSUME NEW e \in RetryEngines, RP!Construct(e) PROVE Unplugged'
  <2>1. /\ retryPhase[e] = "received" /\ UNCHANGED <<invalid, retrying>>
        /\ retryMethod' = [retryMethod EXCEPT ![e] =
              IF retrying[e].id[2] \in Configured THEN "plugin" ELSE "noPlugin"]
           \/ retryMethod' = [retryMethod EXCEPT ![e] = "plugin"] \/ retryPhase'[e] = "commit"
        /\ \A x \in RetryEngines \ {e} :
             retryPhase'[x] = retryPhase[x] /\ retryMethod'[x] = retryMethod[x]
    BY <1>0, <1>1 DEF RP!Construct, RP!Goto
  <2>2. retryPhase'[e] = "send" /\ retryMethod'[e] = "noPlugin" => retrying[e].id[2] \notin Configured
    BY <1>0, <2>1
  <2> QED
    BY <2>1, <2>2 DEF Unplugged
<1>2. ASSUME NEW e \in RetryEngines, RP!Send(e) PROVE Unplugged'
  <2>1. /\ UNCHANGED <<retrying, retryMethod>>
        /\ \A x \in RetryEngines : retryPhase'[x] = "send" => retryPhase[x] = "send"
        /\ invalid' = invalid
           \/ (/\ retryPhase[e] = "send" /\ retryMethod[e] = "noPlugin"
               /\ invalid' = invalid \cup {retrying[e].id})
    BY <1>0, <1>2 DEF RP!Send, RP!Goto
  <2> QED
    BY <2>1 DEF Unplugged
<1>3. ASSUME NEW e \in RetryEngines,
             RP!Crash(e) \/ RP!Restart(e) \/ RP!Receive(e) \/ RP!PublishSent(e)
               \/ RP!Republish(e) \/ RP!Commit(e)
      PROVE  Unplugged'
  <2>1. /\ invalid' = invalid /\ retryMethod' = retryMethod /\ retryPhase'[e] # "send"
        /\ \A x \in RetryEngines \ {e} :
             retryPhase'[x] = retryPhase[x] /\ retrying'[x] = retrying[x]
    <3>1. RP!Crash(e) \/ RP!Receive(e) \/ RP!Commit(e) =>
            \A x \in RetryEngines \ {e} : retrying'[x] = retrying[x]
      BY DEF RP!Crash, RP!Receive, RP!Commit, RP!TInv, RP!TypeOK
    <3>2. RP!Restart(e) \/ RP!PublishSent(e) \/ RP!Republish(e) => retrying' = retrying
      BY DEF RP!Restart, RP!PublishSent, RP!Republish
    <3>3. /\ invalid' = invalid /\ retryMethod' = retryMethod /\ retryPhase'[e] # "send"
          /\ \A x \in RetryEngines \ {e} : retryPhase'[x] = retryPhase[x]
      BY <1>0, <1>3 DEF RP!Crash, RP!Restart, RP!Receive, RP!PublishSent, RP!Republish,
                        RP!Commit, RP!Goto, RP!history
    <3> QED
      BY <1>3, <3>1, <3>2, <3>3
  <2> QED
    BY <2>1 DEF Unplugged
<1>4. CASE UNCHANGED <<retryPhase, retrying, retryMethod, invalid>>
  BY <1>4 DEF Unplugged
<1> QED
  BY <1>1, <1>2, <1>3, <1>4 DEF RP!Next, RP!Environment, RP!EngineStep, RP!FirstFailure,
     RP!EditMethod, RP!AssignFree, RP!Rebalance, RP!local, RP!history

LEMMA UnpluggedStep ==
  Joint /\ Unplugged /\ [PipelineNext]_pipeline => Unplugged'
<1>1. AlarmStep /\ Unplugged => Unplugged'
  BY DEF AlarmStep, retryLocal, Unplugged
<1>2. Joint /\ Unplugged /\ RetryStep => Unplugged'
  BY UnpluggedRetry DEF Joint, RP!KInv, RetryStep
<1> QED
  BY <1>1, <1>2, PipelineSteps

\* Once an alarm is committed, each notification that it asks for is recorded as sent,
\* waits on the retry topic, or has had all its attempts: however the engines of both
\* kinds crash and lose their partitions, none falls between the two topics.
THEOREM NobodyForgotten == PipelineSpec => []NothingForgotten
<1>1. PipelineInit => Unplugged
  BY DEF PipelineInit, R!Init, Unplugged
<1>2. Joint /\ Unplugged => NothingForgotten
  <2> SUFFICES ASSUME Joint, Unplugged, NEW n \in Wanted, n[1][2] < committed[n[1][1]]
               PROVE  n \in notificationTopic \/ R!Holds(n) \/ GivenUp(n)
    BY DEF NothingForgotten
  <2>1. /\ n \in Notifications /\ n[2] \in Actions[n[1]] /\ n[2] \in Configured /\ n[1] \notin Waived
        /\ NoLoss /\ TypeOK /\ RP!NotDroppedEarly
    BY DEF Wanted, Joint, IInv, RP!KInv
  <2>2. Closed(n[1])
    BY <2>1, NotificationParts DEF NoLoss
  <2>3. n \in notificationTopic \cup retryTopic
    BY <2>1, <2>2, NotificationParts DEF Closed, Settled
  <2>4. ASSUME n \in retryTopic PROVE R!Holds(n) \/ n \in notificationTopic \/ GivenUp(n)
    <3>1. RP!Holds(n) \/ RP!Finished(n) \/ n \in unreadable
      BY <2>1, <2>4 DEF RP!NotDroppedEarly
    <3>2. n \notin invalid
      BY <2>1 DEF Unplugged
    <3> QED
      BY <2>1, <3>1, <3>2, SameOperators DEF RP!Finished, GivenUp
  <2> QED
    BY <2>3, <2>4
<1> QED
  BY <1>1, <1>2, UnpluggedStep, JointInvariance, PTL DEF PipelineSpec

-----------------------------------------------------------------------------
(* The order in which the recipients learn of the alarms.                  *)

\* The recipients see nothing of a step of e.
Unseen(e) ==
  /\ sent'[e] \ sent[e] = {} /\ failed'[e] \ failed[e] = {}
  /\ attempts' = attempts
  /\ \A x \in Engines \ {e} : current'[x] = current[x] /\ failed'[x] = failed[x]
  /\ failed'[e] # {} =>
       failed'[e] = failed[e] /\ (current'[e] = current[e] \/ phase[e] = "poll")

LEMMA AlarmObserved ==
  ASSUME TypeOK, NEW e \in Engines, EngineStep(e)
  PROVE  Unseen(e) \/ \E m \in Methods : Send(e, m)
<1>0. failed \in [Engines -> SUBSET Methods] /\ sent \in [Engines -> SUBSET Methods]
      /\ current \in [Engines -> Alarms \cup {NoAlarm}]
  BY DEF TypeOK
<1>1. ASSUME Die(e), UNCHANGED attempts PROVE Unseen(e)
  BY <1>0, <1>1 DEF Die, Unseen
<1>2. ASSUME UNCHANGED <<current, sent, failed, attempts>> PROVE Unseen(e)
  BY <1>2 DEF Unseen
<1>3. ASSUME NEW p \in Partitions, Receive(e, p) PROVE Unseen(e)
  BY <1>0, <1>3 DEF Receive, Unseen
<1>4. ASSUME Commit(e) PROVE Unseen(e)
  BY <1>0, <1>4 DEF Commit, Unseen
<1>5. ASSUME NEW all, NEW part, NEW next, Published(e, all, part, next), UNCHANGED attempts PROVE Unseen(e)
  BY <1>1, <1>2, <1>5 DEF Published
<1>6. ASSUME ToNotification(e) PROVE Unseen(e)
  BY <1>1, <1>2, <1>6 DEF ToNotification
<1>7. ASSUME NEW part, AddPeriodic(e, part) \/ PublishSent(e, part) \/ PublishFailed(e, part) PROVE Unseen(e)
  BY <1>5, <1>7 DEF AddPeriodic, PublishSent, PublishFailed
<1> QED
  BY <1>3, <1>4, <1>6, <1>7 DEF EngineStep

\* What has failed was refused by its recipient, and given to the plugin for that.
Tried(n) == n \in refused /\ attempts[n] > 0

\* Whatever the topics and the engines say of a notification happened to it.
Witnessed ==
  /\ told \in [Notifications -> Nat] /\ refused \in SUBSET Notifications
  /\ \A e \in Engines : \A m \in failed[e] : current[e] \in Alarms /\ Tried(<<current[e], m>>)
  /\ \A n \in retryTopic : Tried(n)
  /\ \A n \in Notifications : told[n] > 0 => attempts[n] > 0

StaleRefused == faults = 0 => stale \subseteq refused

\* The recipients are told of the notifications in good, in any step.
LEMMA Observed ==
  ASSUME told \in [Notifications -> Nat], NEW good, NEW bad, Observe(good, bad),
         bad \subseteq Notifications, refused \in SUBSET Notifications
  PROVE  /\ told' \in [Notifications -> Nat] /\ refused' \in SUBSET Notifications
         /\ refused \subseteq refused' /\ bad \subseteq refused'
         /\ \A n \in Notifications : /\ told'[n] = told[n] \/ (n \in good /\ told'[n] = told[n] + 1)
                                     /\ n \in good => told'[n] = told[n] + 1
         /\ \A n \in stale' : n \in stale \/ (n \in good /\ \E later \in Later(n) : told[later] > 0)
         /\ good = {} => told' = told
  BY DEF Observe

LEMMA SendWitnessed ==
  ASSUME TypeOK, Witnessed, NEW e \in Engines, NEW m \in Methods, Send(e, m), TypeOK',
         Observe({current[e]} \X (sent'[e] \ sent[e]), {current[e]} \X (failed'[e] \ failed[e]))
  PROVE  Witnessed'
<1> DEFINE n == <<current[e], m>>
           good == {current[e]} \X (sent'[e] \ sent[e])
           bad == {current[e]} \X (failed'[e] \ failed[e])
<1>1. /\ current[e] \in Alarms /\ n \in Notifications /\ UNCHANGED <<current, retryTopic>>
      /\ attempts \in [Notifications -> Nat] /\ failed \in [Engines -> SUBSET Methods]
      /\ sent \in [Engines -> SUBSET Methods]
  BY DEF Send, TypeOK, topics, Notifications
<1>2. /\ sent' = sent \/ sent' = [sent EXCEPT ![e] = @ \cup {m}]
      /\ failed' = failed \/ failed' = [failed EXCEPT ![e] = @ \cup {m}]
      /\ attempts' = attempts \/ attempts' = [attempts EXCEPT ![n] = @ + 1]
      /\ attempts' = attempts => sent' = sent /\ failed' = failed
  <2>1. \/ UNCHANGED <<sent, failed, attempts>>
        \/ /\ attempts' = [attempts EXCEPT ![n] = @ + 1]
           /\ \/ sent' = [sent EXCEPT ![e] = @ \cup {m}] /\ UNCHANGED failed
              \/ failed' = [failed EXCEPT ![e] = @ \cup {m}] /\ UNCHANGED sent
    BY DEF Send
  <2>2. attempts' = [attempts EXCEPT ![n] = @ + 1] => attempts'[n] # attempts[n]
    BY <1>1
  <2> QED
    BY <2>1, <2>2
<1>3. /\ sent'[e] \ sent[e] \subseteq {m} /\ failed'[e] \ failed[e] \subseteq {m}
      /\ failed'[e] \subseteq failed[e] \cup {m}
      /\ \A x \in Engines \ {e} : failed'[x] = failed[x]
      /\ \A k \in Notifications : attempts'[k] >= attempts[k]
      /\ (sent'[e] \ sent[e] # {} \/ failed'[e] # failed[e]) => attempts'[n] > 0
  <2>1. /\ \A k \in Notifications : attempts'[k] >= attempts[k]
        /\ attempts' = [attempts EXCEPT ![n] = @ + 1] => attempts'[n] > 0
    BY <1>1, <1>2
  <2>2. /\ sent'[e] \ sent[e] \subseteq {m} /\ failed'[e] \subseteq failed[e] \cup {m}
        /\ \A x \in Engines \ {e} : failed'[x] = failed[x]
    BY <1>1, <1>2
  <2> QED
    BY <1>2, <2>1, <2>2
<1>4. good \subseteq {n} /\ bad \subseteq {n} /\ bad \subseteq Notifications
  BY <1>1, <1>3
<1>5. m \in failed'[e] /\ m \notin failed[e] => n \in bad
  OBVIOUS
<1>6. good # {} => sent'[e] \ sent[e] # {}
  OBVIOUS
<1>7. /\ told' \in [Notifications -> Nat] /\ refused' \in SUBSET Notifications
      /\ refused \subseteq refused' /\ bad \subseteq refused'
      /\ \A k \in Notifications : told'[k] = told[k] \/ (k \in good /\ told'[k] = told[k] + 1)
  <2> HIDE DEF good, bad
  <2> QED
    BY <1>4, Observed DEF Witnessed, good, bad
<1> HIDE DEF good, bad
<1>8. \A k \in Notifications : Tried(k) => Tried(k)'
  BY <1>1, <1>3, <1>7 DEF Tried, TypeOK
<1>9. ASSUME NEW x \in Engines, NEW k \in failed'[x]
      PROVE  current'[x] \in Alarms /\ Tried(<<current[x], k>>)'
  <2>1. CASE k \in failed[x]
    <3>1. current[x] \in Alarms /\ Tried(<<current[x], k>>)
      BY <2>1 DEF Witnessed
    <3>2. <<current[x], k>> \in Notifications
      BY <1>1, <2>1, <3>1 DEF Notifications
    <3> QED
      BY <1>1, <1>8, <3>1, <3>2
  <2>2. CASE k \notin failed[x]
    <3>1. x = e /\ k = m /\ failed'[e] # failed[e] /\ n \in bad
      BY <1>3, <1>5, <1>9, <2>2
    <3>2. attempts'[n] > 0 /\ n \in refused'
      BY <1>3, <1>7, <3>1
    <3> QED
      BY <1>1, <3>1, <3>2 DEF Tried
  <2> QED
    BY <2>1, <2>2
<1>10. \A k \in retryTopic' : Tried(k)'
  BY <1>1, <1>8 DEF Witnessed, TypeOK
<1>11. \A k \in Notifications : told'[k] > 0 => attempts'[k] > 0
  <2> SUFFICES ASSUME NEW k \in Notifications, told'[k] > 0 PROVE attempts'[k] > 0
    OBVIOUS
  <2>1. CASE told'[k] = told[k]
    BY <1>1, <1>3, <2>1 DEF Witnessed, TypeOK
  <2>2. CASE k \in good
    BY <1>3, <1>4, <1>6, <2>2
  <2> QED
    BY <1>7, <2>1, <2>2
<1> QED
  BY <1>1, <1>7, <1>9, <1>10, <1>11 DEF Witnessed, Tried

\* No step but a send tells anybody anything.
LEMMA QuietWitnessed ==
  ASSUME TypeOK, Witnessed, UNCHANGED <<attempts, told, refused>>,
         \A x \in Engines : \A m \in failed'[x] :
           m \in failed[x] /\ (current'[x] = current[x] \/ phase[x] = "poll"),
         \A n \in retryTopic' :
           n \in retryTopic \/ \E x \in Engines, m \in Methods : m \in failed[x] /\ n = <<current[x], m>>
  PROVE  Witnessed'
<1>1. \A n : Tried(n) => Tried(n)'
  BY DEF Tried
<1>2. \A n \in retryTopic' : Tried(n)'
  BY <1>1 DEF Witnessed
<1>3. ASSUME NEW x \in Engines, NEW m \in failed'[x]
      PROVE  current'[x] \in Alarms /\ Tried(<<current[x], m>>)'
  <2>1. m \in failed[x] /\ current[x] \in Alarms /\ Tried(<<current[x], m>>)
    BY <1>3 DEF Witnessed
  <2>2. phase[x] # "poll"
    BY <2>1, ConstantsAssumption DEF TypeOK, ConstantsAssumption
  <2> QED
    BY <1>1, <1>3, <2>1, <2>2
<1>4. \A x \in Engines : \A m \in failed'[x] :
        current'[x] \in Alarms /\ Tried(<<current[x], m>>)'
  BY <1>3
<1>5. \A n \in Notifications : told'[n] > 0 => attempts'[n] > 0
  BY DEF Witnessed
<1>6. told' \in [Notifications -> Nat] /\ refused' \in SUBSET Notifications
  BY DEF Witnessed
<1> QED
  BY <1>2, <1>4, <1>5, <1>6 DEF Witnessed

\* A step in which nothing is sent leaves the record of the recipients alone.
LEMMA NothingObserved ==
  ASSUME told \in [Notifications -> Nat], NEW good, NEW bad, Observe(good, bad),
         good = {}, bad = {}
  PROVE  UNCHANGED seen
  BY DEF Observe, seen

LEMMA AlarmEngineWitnessed ==
  ASSUME TypeOK, TypeOK', Witnessed, NEW e \in Engines, AlarmEngineStep(e)
  PROVE  /\ Witnessed'
         /\ stale' # stale => \E m \in Methods : Send(e, m)
<1> DEFINE good == {current[e]} \X (sent'[e] \ sent[e])
           bad == {current[e]} \X (failed'[e] \ failed[e])
<1>1. EngineStep(e) /\ Observe(good, bad)
  BY DEF AlarmEngineStep, EngineStep
<1>2. CASE \E m \in Methods : Send(e, m)
  BY <1>1, <1>2, SendWitnessed
<1>3. CASE Unseen(e)
  <2>1. good = {} /\ bad = {}
    BY <1>3 DEF Unseen
  <2>2. UNCHANGED seen
    <3> HIDE DEF good, bad
    <3> QED
      BY <1>1, <2>1, NothingObserved DEF Witnessed
  <2>3. \A x \in Engines : \A m \in failed'[x] :
           m \in failed[x] /\ (current'[x] = current[x] \/ phase[x] = "poll")
    BY <1>3 DEF Unseen
  <2>4. \A n \in retryTopic' :
           n \in retryTopic \/ \E x \in Engines, m \in Methods : m \in failed[x] /\ n = <<current[x], m>>
    <3>1. retryTopic' = retryTopic
            \/ \E part \in SUBSET Methods :
                 part \subseteq failed[e] /\ retryTopic' = retryTopic \cup ({current[e]} \X part)
      BY <1>1 DEF EngineStep, Receive, ToNotification, AddPeriodic, PublishSent, PublishFailed, Send,
                  Commit, topics
    <3>2. ASSUME NEW part \in SUBSET Methods, part \subseteq failed[e],
                 NEW n \in {current[e]} \X part
          PROVE  \E x \in Engines, m \in Methods : m \in failed[x] /\ n = <<current[x], m>>
      <4>1. PICK m \in part : n = <<current[e], m>>
        BY <3>2
      <4> QED
        BY <3>2, <4>1
    <3> QED
      BY <3>1, <3>2
  <2>5. attempts' = attempts
    BY <1>3 DEF Unseen
  <2> QED
    BY <2>2, <2>3, <2>4, <2>5, QuietWitnessed DEF seen
<1> QED
  BY <1>1, <1>2, <1>3, AlarmObserved

LEMMA AlarmEnvironmentWitnessed ==
  ASSUME TypeOK, Witnessed, AlarmEnvironment \/ UNCHANGED pipeline
  PROVE  Witnessed' /\ stale' = stale
<1>1. UNCHANGED <<attempts, told, refused, stale, retryTopic>>
  BY DEF AlarmEnvironment, seen, Environment, Crash, Restart, Expire, AssignFree, Rebalance, Assign,
         topics, pipeline, vars
<1>2. ASSUME NEW e \in Engines, Die(e)
      PROVE  \A x \in Engines : failed'[x] = {} \/ (failed'[x] = failed[x] /\ current'[x] = current[x])
  <2>1. /\ failed \in [Engines -> SUBSET Methods]
        /\ failed' = [failed EXCEPT ![e] = {}] /\ current' = [current EXCEPT ![e] = NoAlarm]
    BY <1>2 DEF Die, TypeOK
  <2>2. current \in [Engines -> Alarms \cup {NoAlarm}]
    BY DEF TypeOK
  <2>3. failed'[e] = {} /\ \A x \in Engines \ {e} : failed'[x] = failed[x] /\ current'[x] = current[x]
    BY <2>1, <2>2
  <2> QED
    BY <2>3
<1>3. \A x \in Engines : failed'[x] = {} \/ (failed'[x] = failed[x] /\ current'[x] = current[x])
  BY <1>2 DEF AlarmEnvironment, Environment, Crash, Restart, Expire, AssignFree, Rebalance, Assign,
              local, pipeline, vars
<1> QED
  BY <1>1, <1>3, QuietWitnessed

LEMMA RetryWitnessed ==
  ASSUME TypeOK, Witnessed, RP!TInv, RP!KnownMessages,
         RetryEnvironment \/ \E e \in RetryEngines : RetryEngineStep(e)
  PROVE  /\ Witnessed'
         /\ stale' \subseteq stale \cup retryTopic
<1>1. UNCHANGED <<attempts, failed, current, retryTopic>>
  BY RetrySteps DEF RetryStep, alarmLocal, local
<1>2. CASE RetryEnvironment
  BY <1>1, <1>2 DEF RetryEnvironment, seen, Witnessed, Tried
<1>3. ASSUME NEW e \in RetryEngines, RetryEngineStep(e)
      PROVE  Witnessed' /\ stale' \subseteq stale \cup retryTopic
  <2> DEFINE good == Retry(e, TRUE)
             bad == Retry(e, FALSE)
  <2>1. good \subseteq retryTopic /\ bad \subseteq retryTopic
    BY DEF Retry, RP!KnownMessages, RP!TInv, RP!TypeOK
  <2>2. retryTopic \subseteq Notifications
    BY DEF TypeOK
  <2>3. Observe(good, bad)
    BY <1>3 DEF RetryEngineStep
  <2> HIDE DEF good, bad
  <2>4. /\ told' \in [Notifications -> Nat] /\ refused' \in SUBSET Notifications
        /\ refused \subseteq refused'
        /\ \A n \in Notifications : told'[n] = told[n] \/ n \in good
        /\ \A n \in stale' : n \in stale \/ n \in good
    BY <2>1, <2>2, <2>3, Observed DEF Witnessed
  <2>5. \A n : Tried(n) => Tried(n)'
    BY <1>1, <2>4 DEF Tried
  <2>6. \A n \in Notifications : told'[n] > 0 => attempts'[n] > 0
    BY <1>1, <2>1, <2>4 DEF Witnessed, Tried
  <2>7. /\ \A x \in Engines : \A m \in failed'[x] : current'[x] \in Alarms /\ Tried(<<current[x], m>>)'
        /\ \A n \in retryTopic' : Tried(n)'
    BY <1>1, <2>5 DEF Witnessed
  <2> QED
    BY <2>1, <2>4, <2>6, <2>7 DEF Witnessed, Tried
<1> QED
  BY <1>2, <1>3

\* An engine that is alone with its partition sends nothing after a later alarm.
LEMMA SendNotStale ==
  ASSUME IInv, Witnessed, Alone, faults = 0, NEW e \in Engines, NEW m \in Methods, Send(e, m),
         AlarmEngineStep(e)
  PROVE  stale' \subseteq stale
<1> DEFINE good == {current[e]} \X (sent'[e] \ sent[e])
           bad == {current[e]} \X (failed'[e] \ failed[e])
<1>1. /\ current[e] \in Alarms /\ DeliveredInOrder
      /\ failed' \in [Engines -> SUBSET Methods] /\ sent' \in [Engines -> SUBSET Methods]
  <2>1. TypeOK
    BY DEF IInv
  <2>2. current[e] \in Alarms
    BY <2>1 DEF Send, TypeOK
  <2> QED
    BY <2>1, <2>2 DEF IInv, Send, TypeOK
<1>2. PICK p \in Partitions, o \in Offsets : current[e] = <<p, o>>
  BY <1>1 DEF Alarms
<1>3. o = committed[p]
  BY <1>2 DEF Alone, Single
<1>4. ASSUME NEW n \in good PROVE \A later \in Later(n) : ~(told[later] > 0)
  <2>1. PICK k \in Methods : n = <<<<p, o>>, k>>
    BY <1>1, <1>2, <1>4
  <2> SUFFICES ASSUME NEW later \in Later(n), told[later] > 0 PROVE FALSE
    OBVIOUS
  <2>2. PICK x \in Offsets : x > o /\ later = <<<<p, x>>, k>>
    BY <2>1 DEF Later
  <2>3. later \in Notifications
    BY <2>2 DEF Notifications, Alarms
  <2>4. attempts[later] > 0
    BY <2>3 DEF Witnessed
  <2>5. x <= committed[p]
    BY <1>1, <2>2, <2>4 DEF DeliveredInOrder
  <2> QED
    BY <1>3, <2>2, <2>5, ConstantsAssumption DEF ConstantsAssumption, Offsets
<1>5. Observe(good, bad) /\ bad \subseteq Notifications
  BY <1>1 DEF AlarmEngineStep, Notifications
<1>6. \A n \in stale' : n \in stale \/ (n \in good /\ \E later \in Later(n) : told[later] > 0)
  <2> HIDE DEF good, bad
  <2> QED
    BY <1>5, Observed DEF Witnessed
<1> HIDE DEF good
<1> QED
  BY <1>4, <1>6

LEMMA StaleStep ==
  Joint /\ Witnessed /\ Alone /\ StaleRefused /\ [PipelineNext]_pipeline
    => Witnessed' /\ Alone' /\ StaleRefused'
<1> SUFFICES ASSUME Joint, Witnessed, Alone, StaleRefused, [PipelineNext]_pipeline
             PROVE  Witnessed' /\ Alone' /\ StaleRefused'
  OBVIOUS
<1>1. /\ IInv /\ TypeOK /\ IInv' /\ TypeOK' /\ RP!TInv /\ RP!TInv' /\ RP!KnownMessages
      /\ faults \in Nat /\ faults' \in Nat
  BY JointStep DEF Joint, IInv, RP!KInv, TypeOK
<1>2. ASSUME AlarmStep PROVE Alone' /\ (faults' = 0 => faults = 0) /\ refused \subseteq refused'
  <2>1. faults' = faults \/ faults' = faults + 1
    BY <1>2, FaultSteps DEF AlarmStep, Fault
  <2>2. refused \subseteq refused'
    BY DEF PipelineNext, AlarmEnvironment, AlarmEngineStep, RetryEnvironment, RetryEngineStep,
           Observe, seen, pipeline
  <2> QED
    BY <1>1, <1>2, <2>1, <2>2, AloneStep DEF AlarmStep
<1>3. ASSUME NEW e \in Engines, AlarmEngineStep(e) PROVE Witnessed' /\ Alone' /\ StaleRefused'
  <2>1. AlarmStep
    BY <1>3, AlarmSteps
  <2>2. Witnessed' /\ (stale' # stale => \E m \in Methods : Send(e, m))
    BY <1>1, <1>3, AlarmEngineWitnessed
  <2>3. faults = 0 => stale' \subseteq stale
    BY <1>1, <1>3, <2>2, SendNotStale
  <2> QED
    BY <1>2, <2>1, <2>2, <2>3 DEF StaleRefused
<1>4. ASSUME AlarmEnvironment \/ UNCHANGED pipeline PROVE Witnessed' /\ Alone' /\ StaleRefused'
  <2>1. AlarmStep
    BY <1>4, AlarmSteps
  <2>2. Witnessed' /\ stale' = stale
    BY <1>1, <1>4, AlarmEnvironmentWitnessed
  <2> QED
    BY <1>2, <2>1, <2>2 DEF StaleRefused
<1>5. ASSUME RetryEnvironment \/ \E e \in RetryEngines : RetryEngineStep(e)
      PROVE  Witnessed' /\ Alone' /\ StaleRefused'
  <2>1. RetryStep
    BY <1>5, RetrySteps
  <2>2. Witnessed' /\ stale' \subseteq stale \cup retryTopic
    BY <1>1, <1>5, RetryWitnessed
  <2>3. faults' = faults \/ faults' = faults + 1
    BY <1>1, <2>1, RetryStepKeeps
  <2>4. Alone'
    BY <1>1, <2>1, <2>3 DEF Alone, Single, RetryStep, alarmLocal, local, group
  <2>5. retryTopic' = retryTopic /\ retryTopic' \subseteq refused'
    BY <2>1, <2>2 DEF Witnessed, Tried, RetryStep, alarmLocal
  <2>6. refused \subseteq refused'
    BY <1>5 DEF RetryEnvironment, RetryEngineStep, Observe, seen
  <2> QED
    BY <1>1, <2>2, <2>3, <2>4, <2>5, <2>6 DEF StaleRefused
<1> QED
  BY <1>3, <1>4, <1>5 DEF PipelineNext

LEMMA StaleInit == PipelineInit => Witnessed /\ Alone /\ StaleRefused
<1> SUFFICES ASSUME PipelineInit PROVE Witnessed /\ Alone /\ StaleRefused
  OBVIOUS
<1>1. /\ Init /\ told = [n \in Notifications |-> 0] /\ refused = {} /\ stale = {}
      /\ \A e \in Engines : failed[e] = {} /\ current[e] = NoAlarm
  BY DEF PipelineInit, Init
<1>2. Witnessed /\ StaleRefused
  BY <1>1 DEF Witnessed, StaleRefused, Init
<1>3. Alone
  BY <1>1, ConstantsAssumption DEF Alone, Alarms, ConstantsAssumption
<1> QED
  BY <1>2, <1>3

\* Without a crash, a rebalance or a failing database, a notification reaches its
\* recipients after one of a later alarm only if it was refused before: of two
\* notifications that go out at once the engines never swap the order.
THEOREM StaleOnesWereRefused == PipelineSpec => []StaleIsExplained
<1>1. Joint /\ StaleRefused => StaleIsExplained
  BY DEF StaleRefused, StaleIsExplained, Joint, IInv, TypeOK
<1> QED
  BY <1>1, StaleInit, StaleStep, JointInvariance, PTL DEF PipelineSpec

-----------------------------------------------------------------------------
(* What is still to come of a notification.  Its alarm is going to be read *)
(* and an engine to send it; an engine has it among the failed ones and is *)
(* going to publish it; the retry engines have its messages before them.   *)
(* A try uses the first up and may bring the second, a publish call turns  *)
(* the second into the third, and only failures bring anything back.       *)

\* An engine has nothing in its list of failed notifications before its first send.
Fresh ==
  \A e \in Engines : phase[e] \in {"poll", "received", "periodic", "down"} => failed[e] = {}

LEMMA FreshStep ==
  ASSUME TypeOK, Fresh, [Next]_vars
  PROVE  Fresh'
<1>0. phase \in [Engines -> Phases] /\ failed \in [Engines -> SUBSET Methods]
  BY DEF TypeOK
<1>1. ASSUME NEW e \in Engines, Die(e) PROVE Fresh'
  BY <1>0, <1>1 DEF Die, Fresh
<1>2. ASSUME NEW e \in Engines, phase' = [phase EXCEPT ![e] = phase'[e]], UNCHANGED failed,
             phase'[e] \in {"poll", "received", "periodic", "down"} =>
               phase[e] \in {"poll", "received", "periodic", "down"}
      PROVE  Fresh'
  <2>1. \A x \in Engines \ {e} : phase'[x] = phase[x]
    BY <1>0, <1>2
  <2> QED
    BY <1>2, <2>1 DEF Fresh
<1>3. ASSUME NEW e \in Engines, NEW p \in Partitions, Receive(e, p) PROVE Fresh'
  BY <1>0, <1>2, <1>3 DEF Receive, Goto
<1>4. ASSUME NEW e \in Engines, ToNotification(e) PROVE Fresh'
  <2>1. CASE Die(e)
    BY <1>1, <2>1
  <2>2. CASE ~Die(e)
    BY <1>0, <1>2, <1>4, <2>2 DEF ToNotification, Goto
  <2> QED
    BY <2>1, <2>2
<1>5. ASSUME NEW e \in Engines, NEW all, NEW part, NEW next, Published(e, all, part, next),
             next \in {"send", "publishFailed", "commit"}
      PROVE  Fresh'
  <2>1. Die(e) \/ (phase' = [phase EXCEPT ![e] = next] /\ UNCHANGED failed)
    BY <1>5 DEF Published, Goto
  <2> QED
    BY <1>0, <1>1, <1>2, <1>5, <2>1
<1>6. ASSUME NEW e \in Engines, NEW part \in SUBSET Methods,
             AddPeriodic(e, part) \/ PublishSent(e, part) \/ PublishFailed(e, part)
      PROVE  Fresh'
  BY <1>5, <1>6 DEF AddPeriodic, PublishSent, PublishFailed
<1>7. ASSUME NEW e \in Engines, NEW m \in Methods, Send(e, m) PROVE Fresh'
  <2>1. /\ phase'[e] \in {"send", "publishSent"}
        /\ \A x \in Engines \ {e} : phase'[x] = phase[x] /\ failed'[x] = failed[x]
    BY <1>0, <1>7 DEF Send, Goto
  <2> QED
    BY <2>1 DEF Fresh
<1>8. ASSUME NEW e \in Engines, Commit(e) PROVE Fresh'
  BY <1>0, <1>8 DEF Commit, Goto, Fresh
<1>9. ASSUME NEW e \in Engines, Crash(e) \/ Restart(e) PROVE Fresh'
  BY <1>0, <1>1, <1>2, <1>9 DEF Crash, Restart
<1>10. CASE UNCHANGED <<phase, failed>>
  BY <1>10 DEF Fresh
<1> QED
  BY <1>3, <1>4, <1>6, <1>7, <1>8, <1>9, <1>10
     DEF Next, Environment, EngineStep, Expire, AssignFree, Rebalance, Assign, vars, local

\* The engines that are going to publish n on the retry topic.
ToEnqueue(n) ==
  {e \in Engines :
     /\ current[e] = n[1] /\ n[2] \in failed[e]
     /\ phase[e] \in {"send", "publishSent", "publishFailed"}}

LEMMA ToEnqueueFinite ==
  ASSUME NEW n
  PROVE  /\ IsFiniteSet(ToEnqueue(n)) /\ IsFiniteSet(ToEnqueue(n)')
         /\ Cardinality(ToEnqueue(n)) \in Nat /\ Cardinality(ToEnqueue(n)') \in Nat
<1>1. ToEnqueue(n) \subseteq Engines /\ ToEnqueue(n)' \subseteq Engines
  BY DEF ToEnqueue
<1>2. IsFiniteSet(ToEnqueue(n)) /\ IsFiniteSet(ToEnqueue(n)')
  BY <1>1, ConstantsAssumption, FS_Subset DEF ConstantsAssumption
<1> QED
  BY <1>2, FS_CardinalityType

LEMMA Sizes ==
  ASSUME NEW S, IsFiniteSet(S), NEW T, NEW x
  PROVE  /\ T \subseteq S => Cardinality(T) <= Cardinality(S)
         /\ T \subseteq S \cup {x} => Cardinality(T) <= Cardinality(S) + 1
         /\ x \in S /\ T \subseteq S \ {x} => Cardinality(T) + 1 <= Cardinality(S)
<1>1. /\ IsFiniteSet(S \cup {x}) /\ Cardinality(S \cup {x}) \in Nat
      /\ Cardinality(S) \in Nat /\ Cardinality(S \cup {x}) <= Cardinality(S) + 1
  <2>1. IsFiniteSet(S \cup {x}) /\ (x \in S => S \cup {x} = S)
        /\ (x \notin S => Cardinality(S \cup {x}) = Cardinality(S) + 1)
    BY FS_AddElement
  <2>2. Cardinality(S) \in Nat /\ Cardinality(S \cup {x}) \in Nat
    BY <2>1, FS_CardinalityType
  <2> QED
    BY <2>1, <2>2
<1>2. x \in S => /\ IsFiniteSet(S \ {x}) /\ Cardinality(S \ {x}) \in Nat
                 /\ Cardinality(S \ {x}) = Cardinality(S) - 1
  BY FS_RemoveElement, FS_CardinalityType
<1>3. T \subseteq S => Cardinality(T) <= Cardinality(S)
  BY FS_Subset
<1>4. T \subseteq S \cup {x} => Cardinality(T) <= Cardinality(S \cup {x}) /\ Cardinality(T) \in Nat
  BY <1>1, FS_Subset, FS_CardinalityType
<1>5. x \in S /\ T \subseteq S \ {x} =>
        Cardinality(T) <= Cardinality(S \ {x}) /\ Cardinality(T) \in Nat
  BY <1>2, FS_Subset, FS_CardinalityType
<1> QED
  BY <1>1, <1>2, <1>3, <1>4, <1>5

\* A failed try of n is all that makes a further engine publish it.
FailedTry(e, n) ==
  /\ phase[e] = "send" /\ ToEnqueue(n)' \subseteq ToEnqueue(n) \cup {e}
  /\ attempts'[n] # attempts[n] /\ sent' = sent

LEMMA SendEnqueues ==
  ASSUME TypeOK, NEW n \in Notifications, NEW e \in Engines, NEW m \in Methods, Send(e, m)
  PROVE  ToEnqueue(n)' \subseteq ToEnqueue(n) \/ FailedTry(e, n)
<1>0. /\ phase \in [Engines -> Phases] /\ failed \in [Engines -> SUBSET Methods]
      /\ attempts \in [Notifications -> Nat] /\ phase[e] = "send" /\ current' = current
      /\ phase'[e] \in {"send", "publishSent"} /\ \A x \in Engines \ {e} : phase'[x] = phase[x]
  BY DEF TypeOK, Send, Goto
<1>1. n = <<n[1], n[2]>>
  BY NotificationParts
<1>2. CASE failed' = failed
  BY <1>0, <1>2 DEF ToEnqueue
<1>3. CASE failed' # failed
  <2>1. /\ failed' = [failed EXCEPT ![e] = @ \cup {m}] /\ sent' = sent
        /\ attempts' = [attempts EXCEPT ![<<current[e], m>>] = @ + 1]
    BY <1>3 DEF Send
  <2>2. failed'[e] = failed[e] \cup {m} /\ \A x \in Engines \ {e} : failed'[x] = failed[x]
    BY <1>0, <2>1
  <2>3. ToEnqueue(n)' \subseteq ToEnqueue(n) \cup {e}
    BY <1>0, <2>2 DEF ToEnqueue
  <2>4. CASE n = <<current[e], m>>
    BY <1>0, <2>1, <2>3, <2>4 DEF FailedTry
  <2>5. CASE n # <<current[e], m>>
    <3>1. current[e] # n[1] \/ m # n[2]
      BY <1>1, <2>5
    <3> QED
      BY <1>0, <2>2, <3>1 DEF ToEnqueue
  <2> QED
    BY <2>4, <2>5
<1> QED
  BY <1>2, <1>3

LEMMA EnqueueStep ==
  ASSUME TypeOK, Fresh, [Next]_vars, NEW n \in Notifications
  PROVE  ToEnqueue(n)' \subseteq ToEnqueue(n) \/ \E e \in Engines : FailedTry(e, n)
<1> DEFINE Less == ToEnqueue(n)' \subseteq ToEnqueue(n)
<1>0. /\ phase \in [Engines -> Phases] /\ failed \in [Engines -> SUBSET Methods]
      /\ current \in [Engines -> Alarms \cup {NoAlarm}]
  BY DEF TypeOK
<1>1. ASSUME NEW e \in Engines, Die(e) PROVE Less
  BY <1>0, <1>1 DEF Die, ToEnqueue
<1>2. ASSUME NEW e \in Engines, phase'[e] \notin {"send", "publishSent", "publishFailed"},
             \A x \in Engines \ {e} : UNCHANGED <<phase[x], current[x], failed[x]>>
      PROVE  Less
  BY <1>2 DEF ToEnqueue
<1>3. ASSUME UNCHANGED <<phase, current, failed>> PROVE Less
  BY <1>3 DEF ToEnqueue
<1>4. ASSUME NEW e \in Engines, NEW all, NEW part, NEW next, Published(e, all, part, next),
             phase[e] \in {"periodic", "publishSent", "publishFailed"}
      PROVE  Less
  <2>1. CASE Die(e)
    BY <1>1, <2>1
  <2>2. CASE ~Die(e)
    <3>1. UNCHANGED <<current, failed>> /\ \A x \in Engines \ {e} : phase'[x] = phase[x]
      BY <1>0, <1>4, <2>2 DEF Published, Goto
    <3>2. phase[e] = "periodic" => failed[e] = {}
      BY DEF Fresh
    <3> QED
      BY <1>4, <3>1, <3>2 DEF ToEnqueue
  <2> QED
    BY <2>1, <2>2
<1>5. ASSUME NEW e \in Engines, NEW p \in Partitions, Receive(e, p) PROVE Less
  BY <1>0, <1>2, <1>5 DEF Receive, Goto
<1>6. ASSUME NEW e \in Engines, ToNotification(e) PROVE Less
  <2>1. CASE Die(e)
    BY <1>1, <2>1
  <2>2. CASE ~Die(e)
    BY <1>0, <1>2, <1>6, <2>2 DEF ToNotification, Goto
  <2> QED
    BY <2>1, <2>2
<1>7. ASSUME NEW e \in Engines, Commit(e) PROVE Less
  BY <1>0, <1>2, <1>7 DEF Commit, Goto
<1>8. ASSUME NEW e \in Engines, Restart(e) PROVE Less
  BY <1>0, <1>2, <1>8 DEF Restart
<1> HIDE DEF Less
<1>9. ASSUME NEW e \in Engines, NEW part \in SUBSET Methods,
             AddPeriodic(e, part) \/ PublishSent(e, part) \/ PublishFailed(e, part)
      PROVE  Less
  BY <1>4, <1>9 DEF AddPeriodic, PublishSent, PublishFailed
<1>10. ASSUME NEW e \in Engines, NEW m \in Methods, Send(e, m)
       PROVE  Less \/ FailedTry(e, n)
  BY <1>10, SendEnqueues DEF Less
<1>11. Less \/ \E e \in Engines : FailedTry(e, n)
  BY <1>1, <1>3, <1>5, <1>6, <1>7, <1>8, <1>9, <1>10
     DEF Next, Environment, EngineStep, Crash, Expire, AssignFree, Rebalance, Assign, vars, local
<1> QED
  BY <1>11 DEF Less

\* A publish call takes n from the engine, whether it gets through or not.
LEMMA PublishDequeues ==
  ASSUME TypeOK, NEW n \in Notifications, NEW e \in Engines, NEW part \in SUBSET Methods,
         PublishFailed(e, part), n \in {current[e]} \X part
  PROVE  e \in ToEnqueue(n) /\ ToEnqueue(n)' \subseteq ToEnqueue(n) \ {e}
<1>1. n[1] = current[e] /\ n[2] \in failed[e] /\ phase[e] = "publishFailed"
  BY DEF PublishFailed
<1>2. e \in ToEnqueue(n)
  BY <1>1 DEF ToEnqueue
<1>3. /\ phase'[e] \in {"commit", "down"}
      /\ \A x \in Engines \ {e} : phase'[x] = phase[x] /\ current'[x] = current[x] /\ failed'[x] = failed[x]
  BY DEF PublishFailed, Published, Goto, Die, TypeOK
<1>4. ToEnqueue(n)' \subseteq ToEnqueue(n) \ {e}
  BY <1>3 DEF ToEnqueue
<1> QED
  BY <1>2, <1>4

\* The engines that are still to publish n.
Enqueueing(n) == Cardinality(ToEnqueue(n))

\* The tickets of a first failure are all that a notification engine adds to the load.
LEMMA AlarmLoad ==
  ASSUME TypeOK, TypeOK', RP!TInv, AlarmStep, NEW n \in Notifications,
         NEW w, NEW most, RP!Weight(w, most), RP!Cardinality(w[0]) = most, RP!LoadFinite(w, n)
  PROVE  /\ RP!LoadFinite(w, n)' /\ RP!Load(w, n) \in Nat /\ RP!Load(w, n)' \in Nat
         /\ \/ RP!Load(w, n)' = RP!Load(w, n)
            \/ /\ RP!Load(w, n)' = RP!Load(w, n) + most /\ Enqueueing(n)' + 1 <= Enqueueing(n)
               /\ \E e \in Engines, part \in SUBSET Methods : PublishFailed(e, part)
<1>0. RP!PartitionType /\ retryQueue \in Seq(RP!Messages)
  BY RetryConstants, RP!Parts DEF RP!TInv, RP!TypeOK
<1>1. notificationTopic \subseteq notificationTopic' /\ UNCHANGED retryLocal
  BY StepsGrow DEF Grow, AlarmStep
<1>2. ASSUME NEW s \in Seq(RP!FirstMessages), RP!Outside(s), Distinct(s)
      PROVE  /\ RP!LoadFinite(w, n)'
             /\ RP!Load(w, n)' = RP!Load(w, n) + (IF n \in IdsOf(s) THEN most ELSE 0)
  <2>1. (\E i \in 1 .. Len(s) : s[i].id = n) <=> n \in IdsOf(s)
    BY DEF IdsOf
  <2> QED
    BY <1>0, <1>2, <2>1, RetryConstants, RP!OutsideLoad DEF Distinct
<1>3. RP!Load(w, n) \in Nat
  BY RetryConstants, RP!LoadType
<1>4. most \in Nat
  BY DEF RP!Weight
<1>5. ASSUME NEW e \in Engines, NEW part \in SUBSET Methods, Publishes(e, part),
             n \in {current[e]} \X part
      PROVE  Enqueueing(n)' + 1 <= Enqueueing(n)
  BY <1>5, PublishDequeues, ToEnqueueFinite, Sizes DEF Publishes, Enqueueing
<1> QED
  BY <1>0, <1>1, <1>2, <1>3, <1>4, <1>5, PublishesOutside, NothingPublished DEF AlarmStep, Publishes

\* The recipients of n are told by a try of n alone.
LEMMA AlarmTells ==
  ASSUME TypeOK, told \in [Notifications -> Nat], refused \in SUBSET Notifications, TypeOK',
         NEW n \in Notifications,
         AlarmEnvironment \/ (\E e \in Engines : AlarmEngineStep(e)) \/ UNCHANGED pipeline
  PROVE  \/ told'[n] = told[n]
         \/ told'[n] = told[n] + 1 /\ attempts'[n] # attempts[n] /\ sent' # sent
<1>1. CASE AlarmEnvironment \/ UNCHANGED pipeline
  BY <1>1 DEF AlarmEnvironment, pipeline, seen
<1>2. ASSUME NEW e \in Engines, AlarmEngineStep(e)
      PROVE  \/ told'[n] = told[n]
             \/ told'[n] = told[n] + 1 /\ attempts'[n] # attempts[n] /\ sent' # sent
  <2> DEFINE good == {current[e]} \X (sent'[e] \ sent[e])
             bad == {current[e]} \X (failed'[e] \ failed[e])
  <2>1. EngineStep(e) /\ Observe(good, bad)
    BY <1>2 DEF AlarmEngineStep, EngineStep
  <2>2. told'[n] = IF n \in good THEN told[n] + 1 ELSE told[n]
    <3> HIDE DEF good, bad
    <3> QED
      BY <2>1 DEF Observe
  <2>3. ASSUME n \in good PROVE attempts'[n] # attempts[n] /\ sent' # sent
    <3>1. sent'[e] \ sent[e] # {} /\ n[1] = current[e] /\ n[2] \in sent'[e] \ sent[e]
      BY <2>3
    <3>2. PICK m \in Methods : Send(e, m)
      BY <2>1, <3>1, AlarmObserved DEF Unseen
    <3>3. /\ sent' = [sent EXCEPT ![e] = @ \cup {m}]
          /\ attempts' = [attempts EXCEPT ![<<current[e], m>>] = @ + 1]
      BY <3>1, <3>2 DEF Send
    <3>4. n[2] = m
      BY <3>1, <3>3 DEF TypeOK
    <3>5. n = <<current[e], m>> /\ attempts[n] \in Nat
      BY <3>1, <3>4, NotificationParts
    <3> QED
      BY <3>1, <3>3, <3>5 DEF TypeOK
  <2> HIDE DEF good
  <2> QED
    BY <2>2, <2>3
<1> QED
  BY <1>1, <1>2

\* The balance of an alarm step, with the tickets that w gives: n is left alone,
\* published, or tried.
LEMMA AlarmBalance ==
  ASSUME Joint, Witnessed, Fresh, TypeOK', NEW n \in Notifications,
         AlarmEnvironment \/ (\E e \in Engines : AlarmEngineStep(e)) \/ UNCHANGED pipeline,
         NEW w, NEW most, RP!Weight(w, most), RP!Cardinality(w[0]) = most, RP!LoadFinite(w, n)
  PROVE  /\ RP!LoadFinite(w, n)'
         /\ \/ /\ Untried(n) /\ told'[n] = told[n]
               /\ \/ Enqueueing(n)' <= Enqueueing(n) /\ RP!Load(w, n)' = RP!Load(w, n)
                  \/ Enqueueing(n)' + 1 <= Enqueueing(n) /\ RP!Load(w, n)' = RP!Load(w, n) + most
            \/ /\ faults' = faults /\ RP!Load(w, n)' = RP!Load(w, n)
               /\ attempts'[n] <= attempts[n] + 1 /\ Reading(n)' + 1 <= Reading(n)
               /\ \/ told'[n] = told[n] /\ Enqueueing(n)' <= Enqueueing(n) + 1
                  \/ told'[n] = told[n] + 1 /\ Enqueueing(n)' <= Enqueueing(n)
<1>0. IInv /\ TypeOK /\ RP!TInv /\ AlarmStep /\ [Next]_vars
  BY AlarmSteps DEF Joint, IInv, RP!KInv, AlarmStep
<1>1. /\ RP!LoadFinite(w, n)' /\ RP!Load(w, n) \in Nat /\ RP!Load(w, n)' \in Nat
      /\ \/ RP!Load(w, n)' = RP!Load(w, n)
         \/ /\ RP!Load(w, n)' = RP!Load(w, n) + most /\ Enqueueing(n)' + 1 <= Enqueueing(n)
            /\ \E e \in Engines, part \in SUBSET Methods : PublishFailed(e, part)
  BY <1>0, AlarmLoad
<1>2. \/ told'[n] = told[n]
      \/ told'[n] = told[n] + 1 /\ attempts'[n] # attempts[n] /\ sent' # sent
  BY <1>0, AlarmTells DEF Witnessed
<1>3. \/ Enqueueing(n)' <= Enqueueing(n)
      \/ /\ attempts'[n] # attempts[n] /\ sent' = sent
         /\ Enqueueing(n)' <= Enqueueing(n) + 1
  <2>1. ASSUME ToEnqueue(n)' \subseteq ToEnqueue(n) PROVE Enqueueing(n)' <= Enqueueing(n)
    BY <2>1, ToEnqueueFinite, Sizes DEF Enqueueing
  <2>2. ASSUME NEW e \in Engines, ToEnqueue(n)' \subseteq ToEnqueue(n) \cup {e}
        PROVE  Enqueueing(n)' <= Enqueueing(n) + 1
    BY <2>2, ToEnqueueFinite, Sizes DEF Enqueueing
  <2> QED
    BY <1>0, <2>1, <2>2, EnqueueStep DEF FailedTry
<1>4. CASE Untried(n)
  BY <1>1, <1>2, <1>3, <1>4 DEF Untried
<1>5. ASSUME NEW e \in Engines, NEW m \in Methods, Send(e, m), n = <<current[e], m>>,
             faults' = faults, attempts'[n] <= attempts[n] + 1, Reading(n)' + 1 <= Reading(n)
      PROVE  /\ RP!Load(w, n)' = RP!Load(w, n)
             /\ \/ told'[n] = told[n] /\ Enqueueing(n)' <= Enqueueing(n) + 1
                \/ told'[n] = told[n] + 1 /\ Enqueueing(n)' <= Enqueueing(n)
  <2>1. ASSUME NEW x \in Engines, NEW part \in SUBSET Methods, PublishFailed(x, part) PROVE FALSE
    <3>1. phase[x] = "publishFailed" /\ phase[e] = "send" /\ m \in todo[e] /\ m \notin todo'[e]
      BY <1>0, <1>5, <2>1 DEF PublishFailed, Send, TypeOK
    <3>2. todo' = todo \/ todo' = [todo EXCEPT ![x] = {}]
      BY <2>1 DEF PublishFailed, Published, Die
    <3> QED
      BY <1>0, <3>1, <3>2 DEF TypeOK
  <2>2. Enqueueing(n) \in Nat /\ Enqueueing(n)' \in Nat
    BY ToEnqueueFinite DEF Enqueueing
  <2> QED
    BY <1>1, <1>2, <1>3, <2>1, <2>2
<1> QED
  BY <1>0, <1>1, <1>4, <1>5, ReadingStep

\* A retry engine tries n in this step.
Retries(e, n) == RP!Send(e) /\ retrying[e].id = n

LEMMA RetryKinds ==
  ASSUME NEW n, RetryEnvironment \/ \E e \in RetryEngines : RetryEngineStep(e)
  PROVE  RP!Quiet(n) \/ \E e \in RetryEngines : Retries(e, n)
<1>1. CASE RetryEnvironment
  BY <1>1, SameEnvironment DEF RetryEnvironment, RP!Quiet
<1>2. ASSUME NEW e \in RetryEngines, RetryEngineStep(e)
      PROVE  RP!Quiet(n) \/ \E x \in RetryEngines : Retries(x, n)
  BY <1>2, SameReceive, SameConstruct, SameSend, SameLastSteps
     DEF RetryEngineStep, R!EngineStep, RP!Quiet, Retries
<1> QED
  BY <1>1, <1>2

LEMMA RetryTells ==
  ASSUME RP!TInv, told \in [Notifications -> Nat], NEW n \in Notifications,
         RetryEnvironment \/ \E e \in RetryEngines : RetryEngineStep(e)
  PROVE  \/ told'[n] = told[n]
         \/ /\ told'[n] = told[n] + 1
            /\ \E e \in RetryEngines : Retries(e, n) /\ retryPhase'[e] = "publishSent"
<1>1. CASE RetryEnvironment
  BY <1>1 DEF RetryEnvironment, seen
<1>2. ASSUME NEW e \in RetryEngines, RetryEngineStep(e)
      PROVE  \/ told'[n] = told[n]
             \/ told'[n] = told[n] + 1 /\ Retries(e, n) /\ retryPhase'[e] = "publishSent"
  <2>1. told'[n] = IF n \in Retry(e, TRUE) THEN told[n] + 1 ELSE told[n]
    BY <1>2 DEF RetryEngineStep, Observe
  <2>2. ASSUME n \in Retry(e, TRUE) PROVE Retries(e, n) /\ retryPhase'[e] = "publishSent"
    <3>1. retryPhase[e] = "send" /\ n = retrying[e].id /\ retryPhase'[e] = "publishSent"
      BY <2>2 DEF Retry
    <3>2. R!Send(e)
      BY <1>2, <3>1 DEF RetryEngineStep, R!EngineStep, R!Receive, R!Construct, R!PublishSent,
                        R!Republish, R!Commit
    <3> QED
      BY <3>1, <3>2, SameSend DEF Retries
  <2> QED
    BY <2>1, <2>2
<1> QED
  BY <1>1, <1>2

\* The balance of a step of the retry engines, with the tickets that w gives.
LEMMA RetryBalance ==
  ASSUME Joint, Joint', Witnessed, NEW n \in Notifications,
         RetryEnvironment \/ \E e \in RetryEngines : RetryEngineStep(e),
         NEW w, NEW most, RP!Weight(w, most), RP!LoadFinite(w, n)
  PROVE  /\ RP!LoadFinite(w, n)' /\ RP!Load(w, n)' \in Nat
         /\ attempts' = attempts /\ Reading(n)' = Reading(n) /\ Enqueueing(n)' = Enqueueing(n)
         /\ \/ /\ retryAttempts'[n] = retryAttempts[n] /\ told'[n] = told[n]
               /\ faults' = faults \/ faults' = faults + 1
               /\ RP!Load(w, n)' <= RP!Load(w, n) + (IF faults' = faults THEN 0 ELSE most)
            \/ /\ retryAttempts'[n] <= retryAttempts[n] + 1 /\ faults' = faults
               /\ \E e \in RetryEngines :
                    /\ Retries(e, n)
                    /\ \/ told'[n] = told[n]
                       \/ told'[n] = told[n] + 1 /\ retryPhase'[e] = "publishSent"
<1>0. /\ RP!TInv /\ RP!TInv' /\ RP!OneRead /\ RP!DataType /\ RP!LocalType /\ RP!LocalType'
  <2>1. RP!TInv /\ RP!TInv' /\ RP!OneRead
    BY DEF Joint, RP!KInv
  <2>2. RP!DataType /\ RP!LocalType /\ RP!LocalType'
    BY <2>1 DEF RP!TInv, RP!TypeOK, RP!DataType, RP!LocalType
  <2> QED
    BY <2>1, <2>2
<1>1. UNCHANGED <<committed, owner, position, phase, current, todo, failed, attempts>>
  BY RetrySteps DEF RetryStep, alarmLocal, group, local
<1>2. Reading(n)' = Reading(n) /\ Enqueueing(n)' = Enqueueing(n)
  <2>1. ToSend(n)' = ToSend(n) /\ Unread(n)' = Unread(n) /\ ToEnqueue(n)' = ToEnqueue(n)
    BY <1>1 DEF ToSend, Unread, NextRead, ToEnqueue
  <2> QED
    BY <2>1 DEF Reading, Enqueueing
<1>3. CASE \E e \in RetryEngines : Retries(e, n)
  <2>1. PICK e \in RetryEngines :
          /\ Retries(e, n)
          /\ \/ told'[n] = told[n]
             \/ told'[n] = told[n] + 1 /\ retryPhase'[e] = "publishSent"
    BY <1>0, <1>3, RetryTells DEF Witnessed
  <2>2. /\ RP!LoadFinite(w, n)' /\ RP!Load(w, n)' \in Nat
    BY <1>0, <2>1, RetryConstants, RP!SendLoad DEF Retries
  <2>3. retryAttempts'[n] <= retryAttempts[n] + 1 /\ faults' = faults
    <3>1. retryAttempts' = retryAttempts \/ retryAttempts' = [retryAttempts EXCEPT ![n] = @ + 1]
      BY <2>1 DEF Retries, RP!Send
    <3>2. retryAttempts \in [Notifications -> Nat]
      BY <1>0 DEF RP!DataType
    <3> QED
      BY <2>1, <3>1, <3>2 DEF Retries, RP!Send
  <2> QED
    BY <1>1, <1>2, <2>1, <2>2, <2>3
<1>4. CASE ~\E e \in RetryEngines : Retries(e, n)
  <2>1. RP!Quiet(n)
    BY <1>4, RetryKinds
  <2>2. told'[n] = told[n]
    BY <1>0, <1>4, RetryTells DEF Witnessed
  <2>3. /\ retryAttempts'[n] = retryAttempts[n]
        /\ faults' = faults \/ faults' = faults + 1
    BY <1>0, <2>1, RetryConstants, RP!QuietKeeps
  <2>4. /\ RP!LoadFinite(w, n)' /\ RP!Load(w, n)' \in Nat
        /\ RP!Load(w, n)' <= RP!Load(w, n) + (IF faults' = faults THEN 0 ELSE most)
    BY <1>0, <2>1, RetryConstants, RP!QuietLoad
  <2> QED
    BY <1>1, <1>2, <2>2, <2>3, <2>4
<1> QED
  BY <1>3, <1>4

-----------------------------------------------------------------------------
(* Every time somebody is told again is paid for by a failure.             *)

\* Each message is good for one success, whatever its retry_count.
Copies == [k \in Nat |-> {0}]

LEMMA CopiesWeigh == RP!Weight(Copies, 1) /\ RP!Cardinality(Copies[0]) = 1
<1>1. /\ Cardinality({0}) = 1 /\ IsFiniteSet({0})
      /\ RP!Cardinality({0}) = 1 /\ RP!IsFiniteSet({0})
  BY FS_Singleton, SameCardinality DEF IsFiniteSet, RP!IsFiniteSet
<1>2. Copies \in [Nat -> SUBSET Nat] /\ \A k \in Nat : Copies[k] = {0} /\ Copies[k + 1] = {0}
  BY DEF Copies
<1>3. \A k \in Nat : /\ RP!IsFiniteSet(Copies[k]) /\ RP!Cardinality(Copies[k]) = 1
                     /\ RP!Cardinality(Copies[k + 1]) = 1
  BY <1>1, <1>2
<1> QED
  BY <1>2, <1>3 DEF RP!Weight

\* How often n was delivered, and how often it may still be, within the allowance.
ToldBudget(n) ==
  /\ RP!LoadFinite(Copies, n)
  /\ told[n] + Reading(n) + Enqueueing(n) + RP!Load(Copies, n) <= 1 + faults

\* What the budgets are made of.
LEMMA BudgetTypes ==
  ASSUME Joint, Joint', Witnessed, Witnessed', NEW n \in Notifications
  PROVE  /\ faults \in Nat /\ faults' \in Nat
         /\ told[n] \in Nat /\ told'[n] \in Nat
         /\ attempts[n] \in Nat /\ attempts'[n] \in Nat
         /\ retryAttempts[n] \in Nat /\ retryAttempts'[n] \in Nat
         /\ Reading(n) \in Nat /\ Reading(n)' \in Nat
         /\ Enqueueing(n) \in Nat /\ Enqueueing(n)' \in Nat
<1>1. TypeOK /\ TypeOK' /\ RP!TInv /\ RP!TInv'
  BY DEF Joint, IInv, RP!KInv
<1>2. retryAttempts \in [Notifications -> Nat] /\ retryAttempts' \in [Notifications -> Nat]
  BY <1>1 DEF RP!TInv, RP!TypeOK
<1> QED
  BY <1>1, <1>2, ReadingType, ToEnqueueFinite DEF TypeOK, Witnessed, Enqueueing

\* A try by a retry engine that succeeds uses up the message.
LEMMA RetryCopies ==
  ASSUME Joint, Joint', NEW n \in Notifications, RP!LoadFinite(Copies, n),
         NEW e \in RetryEngines, Retries(e, n)
  PROVE  /\ RP!Load(Copies, n) \in Nat
         /\ RP!Load(Copies, n)' <= RP!Load(Copies, n)
         /\ retryPhase'[e] = "publishSent" => RP!Load(Copies, n)' + 1 <= RP!Load(Copies, n)
<1> DEFINE c == retrying[e].count
<1>1. RP!LocalType /\ RP!LocalType'
  BY DEF Joint, RP!KInv, RP!TInv, RP!TypeOK, RP!LocalType
<1>2. /\ RP!Load(Copies, n) \in Nat /\ RP!Load(Copies, n)' \in Nat /\ c \in Nat
      /\ RP!Load(Copies, n)' + RP!Cardinality(Copies[c]) =
           RP!Load(Copies, n) + (IF retryPhase'[e] = "republish" THEN RP!Cardinality(Copies[c + 1]) ELSE 0)
  BY <1>1, RetryConstants, CopiesWeigh, RP!SendLoad DEF Retries
<1>3. RP!Cardinality(Copies[c]) = 1 /\ RP!Cardinality(Copies[c + 1]) = 1
  <2> HIDE DEF c
  <2>1. Copies[c] = Copies[0] /\ Copies[c + 1] = Copies[0]
    BY <1>2 DEF Copies
  <2> QED
    BY <2>1, CopiesWeigh
<1> HIDE DEF c
<1> QED
  BY <1>2, <1>3

LEMMA ToldBudgetStep ==
  ASSUME Joint, Joint', Witnessed, Witnessed', Fresh, [PipelineNext]_pipeline,
         NEW n \in Notifications, ToldBudget(n)
  PROVE  ToldBudget(n)'
<1>0. /\ RP!LoadFinite(Copies, n) /\ RP!Load(Copies, n) \in Nat
      /\ told[n] + Reading(n) + Enqueueing(n) + RP!Load(Copies, n) <= 1 + faults
  BY RetryConstants, RP!LoadType DEF ToldBudget
<1>1. CASE AlarmEnvironment \/ (\E e \in Engines : AlarmEngineStep(e)) \/ UNCHANGED pipeline
  <2>1. TypeOK'
    BY DEF Joint, IInv
  <2>2. /\ RP!LoadFinite(Copies, n)'
        /\ \/ /\ Untried(n) /\ told'[n] = told[n]
              /\ \/ Enqueueing(n)' <= Enqueueing(n) /\ RP!Load(Copies, n)' = RP!Load(Copies, n)
                 \/ Enqueueing(n)' + 1 <= Enqueueing(n) /\ RP!Load(Copies, n)' = RP!Load(Copies, n) + 1
           \/ /\ faults' = faults /\ RP!Load(Copies, n)' = RP!Load(Copies, n)
              /\ attempts'[n] <= attempts[n] + 1 /\ Reading(n)' + 1 <= Reading(n)
              /\ \/ told'[n] = told[n] /\ Enqueueing(n)' <= Enqueueing(n) + 1
                 \/ told'[n] = told[n] + 1 /\ Enqueueing(n)' <= Enqueueing(n)
    BY <1>0, <1>1, <2>1, CopiesWeigh, AlarmBalance
  <2>3. Untried(n) => Reading(n)' + faults <= Reading(n) + faults'
    BY DEF Untried
  <2> QED
    BY <1>0, <2>2, <2>3, BudgetTypes DEF ToldBudget
<1>2. CASE RetryEnvironment \/ \E e \in RetryEngines : RetryEngineStep(e)
  <2>1. /\ RP!LoadFinite(Copies, n)' /\ RP!Load(Copies, n)' \in Nat
        /\ Reading(n)' = Reading(n) /\ Enqueueing(n)' = Enqueueing(n)
        /\ \/ /\ told'[n] = told[n]
              /\ faults' = faults \/ faults' = faults + 1
              /\ RP!Load(Copies, n)' <= RP!Load(Copies, n) + (IF faults' = faults THEN 0 ELSE 1)
           \/ /\ faults' = faults
              /\ \E e \in RetryEngines :
                   /\ Retries(e, n)
                   /\ \/ told'[n] = told[n]
                      \/ told'[n] = told[n] + 1 /\ retryPhase'[e] = "publishSent"
    BY <1>0, <1>2, CopiesWeigh, RetryBalance
  <2>2. ASSUME NEW e \in RetryEngines, Retries(e, n)
        PROVE  /\ RP!Load(Copies, n)' <= RP!Load(Copies, n)
               /\ retryPhase'[e] = "publishSent" => RP!Load(Copies, n)' + 1 <= RP!Load(Copies, n)
    BY <1>0, <2>2, RetryCopies
  <2> QED
    BY <1>0, <2>1, <2>2, BudgetTypes DEF ToldBudget
<1> QED
  BY <1>1, <1>2 DEF PipelineNext

\* At the start every notification may be sent once.
LEMMA BalanceInit ==
  ASSUME PipelineInit, NEW n \in Notifications
  PROVE  /\ told[n] = 0 /\ attempts[n] = 0 /\ retryAttempts[n] = 0 /\ faults = 0
         /\ Reading(n) \in {0, 1} /\ Enqueueing(n) = 0
         /\ \A w : RP!LoadFinite(w, n) /\ RP!Load(w, n) = 0
<1>1. RP!Init /\ Init
  BY SameInit DEF PipelineInit
<1>2. ToSend(n) = {} /\ ToEnqueue(n) = {}
  BY <1>1 DEF Init, ToSend, ToEnqueue
<1>3. Unread(n) \in {0, 1} /\ Cardinality(ToSend(n)) = 0 /\ Cardinality(ToEnqueue(n)) = 0
  BY <1>2, FS_EmptySet DEF Unread
<1>4. Reading(n) \in {0, 1} /\ Enqueueing(n) = 0
  BY <1>3 DEF Reading, Enqueueing
<1>5. \A w : RP!LoadFinite(w, n) /\ RP!Load(w, n) = 0
  BY <1>1, RetryConstants, RP!LoadInit
<1> QED
  BY <1>1, <1>4, <1>5 DEF PipelineInit, Init, RP!Init

\* What the budgets rest on.
Basis == Joint /\ Witnessed /\ Alone /\ StaleRefused /\ Fresh

LEMMA BasisStep == Basis /\ [PipelineNext]_pipeline => Basis'
<1>1. ASSUME TypeOK, Fresh, AlarmStep \/ RetryStep PROVE Fresh'
  <2>1. AlarmStep => Fresh'
    BY <1>1, FreshStep DEF AlarmStep
  <2>2. RetryStep => Fresh'
    BY <1>1 DEF RetryStep, alarmLocal, local, Fresh
  <2> QED
    BY <1>1, <2>1, <2>2
<1> QED
  BY <1>1, JointStep, StaleStep, PipelineSteps DEF Basis, Joint, IInv

LEMMA BasisInit == PipelineInit => Basis
<1>1. PipelineInit => Fresh
  BY DEF PipelineInit, Init, Fresh
<1> QED
  BY <1>1, JointInit, StaleInit DEF Basis

\* However the engines of both kinds crash and lose their partitions, and whichever
\* of them succeeds in the end, the recipients of a notification are told once, and
\* once more for every failure.
THEOREM ToldIsPaidFor == PipelineSpec => []ToldPaidFor
<1> DEFINE Budgets == \A n \in Notifications : ToldBudget(n)
<1>1. PipelineInit => Basis /\ Budgets
  BY BasisInit, BalanceInit DEF ToldBudget
<1>2. Basis /\ Budgets /\ [PipelineNext]_pipeline => Basis' /\ Budgets'
  <2> SUFFICES ASSUME Basis, Budgets, [PipelineNext]_pipeline PROVE Basis' /\ Budgets'
    OBVIOUS
  <2>1. Basis'
    BY BasisStep
  <2>2. \A n \in Notifications : ToldBudget(n)'
    BY <2>1, ToldBudgetStep DEF Basis
  <2> QED
    BY <2>1, <2>2
<1>3. Basis /\ Budgets => ToldPaidFor
  <2> SUFFICES ASSUME Basis, NEW n \in Notifications, ToldBudget(n) PROVE told[n] <= 1 + faults
    BY DEF ToldPaidFor
  <2>1. RP!Load(Copies, n) \in Nat
    BY RetryConstants, RP!LoadType DEF ToldBudget
  <2>2. told[n] \in Nat /\ Reading(n) \in Nat /\ Enqueueing(n) \in Nat /\ faults \in Nat
    <3>1. Unread(n) \in {0, 1}
      BY DEF Unread
    <3> QED
      BY <3>1, ToSendFinite, ToEnqueueFinite
         DEF Basis, Joint, IInv, TypeOK, Witnessed, Reading, Enqueueing
  <2> QED
    BY <2>1, <2>2 DEF ToldBudget
<1> QED
  BY <1>1, <1>2, <1>3, PTL DEF PipelineSpec

-----------------------------------------------------------------------------
(* The tries of both kinds together: a reading of an alarm is good for one *)
(* try and all the retries, a failed notification for all the retries.     *)

T == RP!Tries

\* The tries that come of the readings of n's alarm, those that come of its
\* failures, and what all of them may amount to.
Readings(n) == (1 + T) * Reading(n)
Failures(n) == T * Enqueueing(n)
Allowance == (1 + T) * (1 + faults)

\* The tries that n has had, and those that may still come, within the allowance.
TriesBudget(n) ==
  /\ RP!LoadFinite(RP!Chances, n)
  /\ attempts[n] + retryAttempts[n] + Readings(n) + Failures(n) + RP!Load(RP!Chances, n)
       <= Allowance

LEMMA ChancesWeigh ==
  /\ T \in Nat /\ 1 + T \in Nat
  /\ RP!Weight(RP!Chances, T) /\ RP!Cardinality(RP!Chances[0]) = T
<1>1. T \in Nat \ {0} /\ RP!Weight(RP!Chances, T) /\ RP!Cardinality(RP!Chances[0]) = RP!Rest(0)
  BY RetryConstants, RP!TriesType, RP!ChancesWeigh DEF T
<1>2. RP!Rest(0) = T
  BY <1>1 DEF RP!Rest, T
<1> QED
  BY <1>1, <1>2

LEMMA ProductTypes ==
  ASSUME Joint, Joint', Witnessed, Witnessed', NEW n \in Notifications
  PROVE  /\ Readings(n) \in Nat /\ Readings(n)' \in Nat
         /\ Failures(n) \in Nat /\ Failures(n)' \in Nat
         /\ Allowance \in Nat /\ Allowance' \in Nat
         /\ T' = T
<1>1. T' = T
  BY DEF T, RP!Tries
<1>2. /\ \A x, y \in Nat : (1 + T) * x \in Nat
      /\ \A x, y \in Nat : T * x \in Nat
  BY ChancesWeigh, RP!Multiples
<1>3. /\ Reading(n) \in Nat /\ Reading(n)' \in Nat
      /\ Enqueueing(n) \in Nat /\ Enqueueing(n)' \in Nat
      /\ 1 + faults \in Nat /\ 1 + faults' \in Nat
  BY BudgetTypes
<1> QED
  BY <1>1, <1>2, <1>3 DEF Readings, Failures, Allowance

\* The products follow what they are made of.
LEMMA Products ==
  ASSUME Joint, Joint', Witnessed, Witnessed', NEW n \in Notifications
  PROVE  /\ Reading(n)' <= Reading(n) => Readings(n)' <= Readings(n)
         /\ Reading(n)' + 1 <= Reading(n) => Readings(n)' + (1 + T) <= Readings(n)
         /\ Reading(n)' <= Reading(n) + 1 => Readings(n)' <= Readings(n) + (1 + T)
         /\ Enqueueing(n)' <= Enqueueing(n) => Failures(n)' <= Failures(n)
         /\ Enqueueing(n)' + 1 <= Enqueueing(n) => Failures(n)' + T <= Failures(n)
         /\ Enqueueing(n)' <= Enqueueing(n) + 1 => Failures(n)' <= Failures(n) + T
         /\ faults' = faults => Allowance' = Allowance
         /\ faults' = faults + 1 => Allowance' = Allowance + (1 + T)
<1>1. ASSUME NEW K \in Nat
      PROVE  \A x, y \in Nat : /\ x <= y => K * x <= K * y
                               /\ x + 1 <= y => K * x + K <= K * y
                               /\ x <= y + 1 => K * x <= K * y + K
                               /\ x = y + 1 => K * x = K * y + K
  <2>1. SUFFICES ASSUME NEW x \in Nat, NEW y \in Nat
                 PROVE  /\ x <= y => K * x <= K * y
                        /\ x + 1 <= y => K * x + K <= K * y
                        /\ x <= y + 1 => K * x <= K * y + K
                        /\ x = y + 1 => K * x = K * y + K
    OBVIOUS
  <2>2. K * (y + 1) = K * y + K
    OBVIOUS
  <2>3. x <= y + 1 => K * x <= K * (y + 1)
    <3>1. y + 1 \in Nat
      OBVIOUS
    <3> QED
      BY <3>1, RP!Multiples
  <2>4. /\ x <= y => K * x <= K * y
        /\ x + 1 <= y => K * x + K <= K * y
    BY RP!Multiples
  <2> QED
    BY <2>2, <2>3, <2>4
<1>2. T' = T
  BY DEF T, RP!Tries
<1>3. /\ Reading(n) \in Nat /\ Reading(n)' \in Nat
      /\ Enqueueing(n) \in Nat /\ Enqueueing(n)' \in Nat
      /\ 1 + faults \in Nat /\ 1 + faults' \in Nat
      /\ faults' = faults + 1 => 1 + faults' = (1 + faults) + 1
  BY BudgetTypes
<1>4. /\ Reading(n)' <= Reading(n) => Readings(n)' <= Readings(n)
      /\ Reading(n)' + 1 <= Reading(n) => Readings(n)' + (1 + T) <= Readings(n)
      /\ Reading(n)' <= Reading(n) + 1 => Readings(n)' <= Readings(n) + (1 + T)
  <2>1. 1 + T \in Nat
    BY ChancesWeigh
  <2> QED
    BY <1>1, <1>2, <1>3, <2>1 DEF Readings
<1>5. /\ Enqueueing(n)' <= Enqueueing(n) => Failures(n)' <= Failures(n)
      /\ Enqueueing(n)' + 1 <= Enqueueing(n) => Failures(n)' + T <= Failures(n)
      /\ Enqueueing(n)' <= Enqueueing(n) + 1 => Failures(n)' <= Failures(n) + T
  <2>1. T \in Nat
    BY ChancesWeigh
  <2> QED
    BY <1>1, <1>2, <1>3, <2>1 DEF Failures
<1>6. /\ faults' = faults => Allowance' = Allowance
      /\ faults' = faults + 1 => Allowance' = Allowance + (1 + T)
  <2>1. 1 + T \in Nat
    BY ChancesWeigh
  <2> QED
    BY <1>1, <1>2, <1>3, <2>1 DEF Allowance
<1> QED
  BY <1>4, <1>5, <1>6

LEMMA TriesBudgetStep ==
  ASSUME Joint, Joint', Witnessed, Witnessed', Fresh, [PipelineNext]_pipeline,
         NEW n \in Notifications, TriesBudget(n)
  PROVE  TriesBudget(n)'
<1> DEFINE load == RP!Load(RP!Chances, n)
<1>0. /\ RP!LoadFinite(RP!Chances, n) /\ load \in Nat /\ T \in Nat
      /\ attempts[n] + retryAttempts[n] + Readings(n) + Failures(n) + load <= Allowance
  BY RetryConstants, RP!LoadType, ChancesWeigh DEF TriesBudget
<1>1. CASE AlarmEnvironment \/ (\E e \in Engines : AlarmEngineStep(e)) \/ UNCHANGED pipeline
  <2>1. TypeOK' /\ retryAttempts' = retryAttempts
    BY <1>1, AlarmSteps DEF Joint, IInv, AlarmStep, retryLocal
  <2>2. /\ RP!LoadFinite(RP!Chances, n)'
        /\ \/ /\ Untried(n)
              /\ \/ Enqueueing(n)' <= Enqueueing(n) /\ load' = load
                 \/ Enqueueing(n)' + 1 <= Enqueueing(n) /\ load' = load + T
           \/ /\ faults' = faults /\ load' = load
              /\ attempts'[n] <= attempts[n] + 1 /\ Reading(n)' + 1 <= Reading(n)
              /\ \/ Enqueueing(n)' <= Enqueueing(n) + 1
                 \/ Enqueueing(n)' <= Enqueueing(n)
    BY <1>0, <1>1, <2>1, ChancesWeigh, AlarmBalance
  <2> HIDE DEF load
  <2>3. Enqueueing(n)' <= Enqueueing(n) => Enqueueing(n)' <= Enqueueing(n) + 1
    BY BudgetTypes
  <2>4. CASE Untried(n)
    <3>1. /\ attempts'[n] = attempts[n]
          /\ \/ faults' = faults /\ Reading(n)' <= Reading(n)
             \/ faults' = faults + 1 /\ Reading(n)' <= Reading(n) + 1
      BY <2>4, BudgetTypes DEF Untried
    <3>2. \/ Readings(n)' <= Readings(n) /\ Allowance' = Allowance
          \/ Readings(n)' <= Readings(n) + (1 + T) /\ Allowance' = Allowance + (1 + T)
      BY <3>1, Products
    <3>3. \/ Enqueueing(n)' <= Enqueueing(n) /\ load' = load
          \/ Enqueueing(n)' + 1 <= Enqueueing(n) /\ load' = load + T
          \/ /\ load' = load /\ faults' = faults /\ Reading(n)' + 1 <= Reading(n)
             /\ Enqueueing(n)' <= Enqueueing(n) + 1
      BY <2>2, <2>3
    <3>4. \/ Failures(n)' <= Failures(n) /\ load' = load
          \/ Failures(n)' + T <= Failures(n) /\ load' = load + T
          \/ /\ load' = load /\ Failures(n)' <= Failures(n) + T
             /\ Readings(n)' + (1 + T) <= Readings(n) /\ Allowance' = Allowance
      BY <3>3, Products
    <3> QED
      BY <1>0, <2>1, <2>2, <3>1, <3>2, <3>4, BudgetTypes, ProductTypes DEF TriesBudget, load
  <2>5. CASE /\ faults' = faults /\ load' = load
             /\ attempts'[n] <= attempts[n] + 1 /\ Reading(n)' + 1 <= Reading(n)
             /\ Enqueueing(n)' <= Enqueueing(n) + 1
    <3>1. /\ Readings(n)' + (1 + T) <= Readings(n) /\ Failures(n)' <= Failures(n) + T
          /\ Allowance' = Allowance
      BY <2>5, Products
    <3> QED
      BY <1>0, <2>1, <2>2, <2>5, <3>1, BudgetTypes, ProductTypes DEF TriesBudget, load
  <2> QED
    BY <2>2, <2>3, <2>4, <2>5
<1>2. CASE RetryEnvironment \/ \E e \in RetryEngines : RetryEngineStep(e)
  <2>1. /\ RP!LoadFinite(RP!Chances, n)' /\ load' \in Nat
        /\ attempts' = attempts /\ Reading(n)' = Reading(n) /\ Enqueueing(n)' = Enqueueing(n)
        /\ \/ /\ retryAttempts'[n] = retryAttempts[n]
              /\ faults' = faults \/ faults' = faults + 1
              /\ load' <= load + (IF faults' = faults THEN 0 ELSE T)
           \/ /\ retryAttempts'[n] <= retryAttempts[n] + 1 /\ faults' = faults
              /\ \E e \in RetryEngines : Retries(e, n)
    BY <1>0, <1>2, ChancesWeigh, RetryBalance
  <2>2. ASSUME NEW e \in RetryEngines, Retries(e, n) PROVE load' + 1 <= load
    BY <1>0, <2>2, RetryConstants, RP!SendChance DEF Retries, Joint, RP!KInv
  <2> HIDE DEF load
  <2>3. /\ Readings(n)' = Readings(n) /\ Failures(n)' = Failures(n)
        /\ faults' = faults => Allowance' = Allowance
        /\ faults' = faults + 1 => Allowance' = Allowance + (1 + T)
    BY <2>1, Products, ProductTypes DEF Readings, Failures
  <2> QED
    BY <1>0, <2>1, <2>2, <2>3, BudgetTypes, ProductTypes DEF TriesBudget, load
<1> QED
  BY <1>1, <1>2 DEF PipelineNext

\* A notification is tried at first and up to the limit again, and all that once more
\* for every failure, by the engines of both kinds together.
THEOREM TriesArePaidFor == PipelineSpec => []TriesPaidFor
<1> DEFINE Budgets == \A n \in Notifications : TriesBudget(n)
<1>1. PipelineInit => Basis /\ Budgets
  <2> SUFFICES ASSUME PipelineInit, NEW n \in Notifications PROVE Basis /\ TriesBudget(n)
    BY BasisInit
  <2>1. /\ attempts[n] = 0 /\ retryAttempts[n] = 0 /\ faults = 0
        /\ Reading(n) \in {0, 1} /\ Enqueueing(n) = 0
        /\ RP!LoadFinite(RP!Chances, n) /\ RP!Load(RP!Chances, n) = 0
    BY BalanceInit
  <2>2. /\ (1 + T) * 0 = 0 /\ (1 + T) * 1 = 1 + T /\ T * 0 = 0 /\ T \in Nat
        /\ (1 + T) * (1 + 0) = 1 + T
    BY ChancesWeigh
  <2>3. Readings(n) \in {0, 1 + T} /\ Failures(n) = 0 /\ Allowance = 1 + T
    BY <2>1, <2>2 DEF Readings, Failures, Allowance
  <2> QED
    BY <2>1, <2>2, <2>3, BasisInit DEF TriesBudget
<1>2. Basis /\ Budgets /\ [PipelineNext]_pipeline => Basis' /\ Budgets'
  <2> SUFFICES ASSUME Basis, Budgets, [PipelineNext]_pipeline PROVE Basis' /\ Budgets'
    OBVIOUS
  <2>1. Basis'
    BY BasisStep
  <2>2. \A n \in Notifications : TriesBudget(n)'
    BY <2>1, TriesBudgetStep DEF Basis
  <2> QED
    BY <2>1, <2>2
<1>3. Basis /\ Budgets => TriesPaidFor
  <2> SUFFICES ASSUME Basis, NEW n \in Notifications, TriesBudget(n)
               PROVE  attempts[n] + retryAttempts[n] <= (1 + R!Tries) * (1 + faults)
    BY DEF TriesPaidFor
  <2>1. RP!Load(RP!Chances, n) \in Nat
    BY RetryConstants, RP!LoadType DEF TriesBudget
  <2>2. /\ Reading(n) \in Nat /\ Enqueueing(n) \in Nat /\ 1 + faults \in Nat
        /\ attempts[n] \in Nat /\ retryAttempts[n] \in Nat
    <3>1. Unread(n) \in {0, 1}
      BY DEF Unread
    <3>2. retryAttempts \in [Notifications -> Nat]
      BY DEF Basis, Joint, RP!KInv, RP!TInv, RP!TypeOK
    <3> QED
      BY <3>1, <3>2, ToSendFinite, ToEnqueueFinite
         DEF Basis, Joint, IInv, TypeOK, Reading, Enqueueing
  <2>3. Readings(n) \in Nat /\ Failures(n) \in Nat /\ Allowance \in Nat
    BY <2>2, ChancesWeigh, RP!Multiples DEF Readings, Failures, Allowance
  <2>4. attempts[n] + retryAttempts[n] <= Allowance
    BY <2>1, <2>2, <2>3 DEF TriesBudget
  <2> QED
    BY <2>4, SameOperators DEF Allowance, T
<1> QED
  BY <1>1, <1>2, <1>3, PTL DEF PipelineSpec
=============================================================================
