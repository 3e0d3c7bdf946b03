---------------------------- MODULE AlarmDelivery ----------------------------
(***************************************************************************)
(* What the notification engines promise about the alarm topic, without    *)
(* saying how: the committed offset of a partition moves past one alarm at *)
(* a time, and only past an alarm that is waived (it could not be parsed,  *)
(* its actions are disabled, it is older than the TTL) or all of whose     *)
(* notifications are settled: sent and recorded on the notification topic, *)
(* recorded on the retry topic, or of a type that has no plugin.  This is  *)
(* the "Fault Tolerance" section of the repository's README.rst: "better   *)
(* to send a notification twice than not at all".                          *)
(***************************************************************************)
EXTENDS Naturals

CONSTANTS
  Partitions,   \* partitions of the alarm topic
  NumAlarms,    \* alarms of one partition, at offsets 0 .. NumAlarms - 1
  Methods,      \* notification methods
  Actions       \* Actions[a]: the methods attached to alarm a

VARIABLES
  committed,    \* committed[p]: offset from which p is read after a failure
  settled,      \* notifications whose fate is decided and recorded
  waived        \* alarms that ask for no notification

abstractVars == <<committed, settled, waived>>

Alarms == Partitions \X (0 .. NumAlarms - 1)
Notifications == Alarms \X Methods

NotificationsOf(a) == {a} \X Actions[a]

Init ==
  /\ committed = [p \in Partitions |-> 0]
  /\ settled \in SUBSET Notifications
  /\ waived \in SUBSET Alarms

\* Fates become known and alarms lapse; neither is ever taken back.
Settle ==
  /\ settled' \in SUBSET Notifications
  /\ settled \subseteq settled'
  /\ waived' \in SUBSET Alarms
  /\ waived \subseteq waived'
  /\ UNCHANGED committed

\* The offset of p moves past its first uncommitted alarm.
Advance(p) ==
  LET a == <<p, committed[p]>> IN
  /\ committed[p] < NumAlarms
  /\ a \in waived \/ NotificationsOf(a) \subseteq settled
  /\ committed' = [committed EXCEPT ![p] = @ + 1]
  /\ UNCHANGED <<settled, waived>>

Next == Settle \/ \E p \in Partitions : Advance(p)

Spec == Init /\ [][Next]_abstractVars
=============================================================================
