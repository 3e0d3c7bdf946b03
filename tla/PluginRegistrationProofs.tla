----------------------- MODULE PluginRegistrationProofs -----------------------
(***************************************************************************)
(* What PluginRegistration guarantees for any number of processes with any *)
(* plugins, any table and any number of database errors.                   *)
(***************************************************************************)
EXTENDS PluginRegistration, FiniteSetTheorems, TLAPS

\* What p knows is out of date in one direction only: types are added.
Knows(p) ==
  phase[p] \in {"insert", "check"} =>
    /\ remaining[p] # {}
    /\ Missing(p) \subseteq remaining[p]
    /\ phase[p] = "check" /\ ~raised[p] /\ ~overtaken[p] => remaining[p] \subseteq persisted

\* The attempts that are left are enough for the types that are left, and behind
\* every insert there is one type less.
Enough(p) ==
  phase[p] \in {"insert", "check"} /\ errors[p] = 0 =>
    /\ Cardinality(remaining[p]) + attempt[p] <= limit[p]
    /\ phase[p] = "check" => remaining[p] \cap persisted # {}

RInv ==
  /\ TypeOK
  /\ \A p \in Processes : Knows(p) /\ Enough(p)
  /\ ReadyIsRegistered

LEMMA MissingFinite ==
  ASSUME TypeOK, NEW p \in Processes
  PROVE  /\ IsFiniteSet(Missing(p))
         /\ Cardinality(Missing(p)) \in Nat
         /\ Cardinality(Missing(p)) = 0 <=> Missing(p) = {}
<1>1. IsFiniteSet(configured[p])
  BY RegistrationAssumption, FS_Subset DEF TypeOK
<1>2. IsFiniteSet(Missing(p))
  BY <1>1, FS_Subset DEF Missing
<1> QED
  BY <1>2, FS_CardinalityType, FS_EmptySet

LEMMA RemainingFinite ==
  ASSUME TypeOK, NEW p \in Processes
  PROVE  IsFiniteSet(remaining[p]) /\ Cardinality(remaining[p]) \in Nat
<1>1. IsFiniteSet(remaining[p])
  BY RegistrationAssumption, FS_Subset DEF TypeOK
<1> QED
  BY <1>1, FS_CardinalityType

-----------------------------------------------------------------------------
\* A loop iteration starts only while the limit is not hit.
THEOREM TypeCorrect == Spec => []TypeOK
<1>1. Init => TypeOK
  BY DEF Init, TypeOK, Phases
<1>2. TypeOK /\ [Next]_vars => TypeOK'
  <2> SUFFICES ASSUME TypeOK, [Next]_vars PROVE TypeOK'
    OBVIOUS
  <2> USE RegistrationAssumption DEF TypeOK, Phases, Goto, setup
  <2>1. ASSUME NEW p \in Processes, Start(p) PROVE TypeOK'
    <3>1. Missing(p) \in SUBSET Types
      BY DEF Missing
    <3>2. Cardinality(Missing(p)) \in Nat /\ (Cardinality(Missing(p)) = 0 => Missing(p) = {})
      BY MissingFinite
    <3>3. Missing(p) # {} => 0 < Cardinality(Missing(p))
      BY <3>2
    <3> QED
      BY <2>1, <3>1, <3>2, <3>3 DEF Start
  <2>2. ASSUME NEW p \in Processes, InsertAll(p) PROVE TypeOK'
    BY <2>2 DEF InsertAll, InsertEnds
  <2>3. ASSUME NEW p \in Processes, GetDbRepo(p) PROVE TypeOK'
    BY <2>3 DEF GetDbRepo, loop
  <2>4. ASSUME NEW p \in Processes, Check(p) PROVE TypeOK'
    <3>1. Missing(p) \in SUBSET Types
      BY DEF Missing
    <3>2. /\ remaining' \in [Processes -> SUBSET Types]
          /\ phase' \in [Processes -> Phases]
          /\ attempt' \in [Processes -> Nat]
      BY <2>4, <3>1 DEF Check, LastAttempt
    <3>3. phase'[p] = "insert" => attempt'[p] < limit'[p]
      BY <2>4 DEF Check, LastAttempt
    <3> QED
      BY <2>4, <3>2, <3>3 DEF Check, LastAttempt
  <2>5. ASSUME NEW p \in Processes, InsertFails(p) PROVE TypeOK'
    <3>1. persisted' \in SUBSET Types /\ errors' \in [Processes -> Nat]
      BY <2>5 DEF InsertFails, DatabaseError
    <3> QED
      BY <2>5, <3>1 DEF InsertFails, InsertEnds
  <2>6. ASSUME NEW p \in Processes, FetchFails(p) PROVE TypeOK'
    <3>1. errors' \in [Processes -> Nat]
      BY <2>6 DEF FetchFails, DatabaseError
    <3>2. CASE phase[p] = "check" /\ ~raised[p]
      BY <2>6, <3>1, <3>2 DEF FetchFails, InsertEnds
    <3>3. CASE ~(phase[p] = "check" /\ ~raised[p])
      BY <2>6, <3>1, <3>3 DEF FetchFails
    <3> QED
      BY <3>2, <3>3
  <2>7. ASSUME NEW p \in Processes, InsertTypeError(p) PROVE TypeOK'
    BY <2>7 DEF InsertTypeError, loop
  <2>8. ASSUME NEW p \in Processes, Load(p) PROVE TypeOK'
    BY <2>8 DEF Load, loop
  <2>9. CASE UNCHANGED vars
    BY <2>9 DEF vars, loop
  <2> QED
    BY <2>1, <2>2, <2>3, <2>4, <2>5, <2>6, <2>7, <2>8, <2>9 DEF Next, Step
<1> QED
  BY <1>1, <1>2, PTL DEF Spec

-----------------------------------------------------------------------------
(* The invariant is inductive.                                             *)

\* The table only grows.
LEMMA TableGrows == [Next]_vars => persisted \subseteq persisted'
  BY DEF Next, Step, vars, setup, Load, GetDbRepo, Start, InsertAll, InsertTypeError, Check,
     InsertFails, FetchFails

\* What holds of a process outlives the steps of the others.
LEMMA OthersKeep ==
  ASSUME TypeOK, NEW q \in Processes, Knows(q), Enough(q),
         persisted \subseteq persisted',
         phase'[q] = phase[q], remaining'[q] = remaining[q], overtaken'[q] = overtaken[q],
         attempt'[q] = attempt[q], limit'[q] = limit[q], raised'[q] = raised[q],
         errors'[q] = errors[q], configured'[q] = configured[q]
  PROVE  Knows(q)' /\ Enough(q)'
  BY DEF Knows, Enough, Missing

\* What ReadyIsRegistered says of one process.
Registered(p) ==
  phase[p] = "ready" /\ (errors[p] = 0 \/ ~overtaken[p]) => Missing(p) = {}

LEMMA OutcomesStay ==
  ASSUME NEW q \in Processes, Registered(q), persisted \subseteq persisted',
         phase'[q] = phase[q], errors'[q] = errors[q], overtaken'[q] = overtaken[q],
         configured'[q] = configured[q]
  PROVE  Registered(q)'
  BY DEF Registered, Missing

\* p has done a step: it is enough to look at p.
LEMMA StepOf ==
  ASSUME RInv, TypeOK', [Next]_vars, NEW p \in Processes,
         \A q \in Processes : q # p =>
           /\ phase'[q] = phase[q] /\ remaining'[q] = remaining[q]
           /\ overtaken'[q] = overtaken[q]
           /\ attempt'[q] = attempt[q] /\ limit'[q] = limit[q] /\ raised'[q] = raised[q]
           /\ errors'[q] = errors[q] /\ configured'[q] = configured[q],
         Knows(p)', Enough(p)', Registered(p)'
  PROVE  RInv'
<1>1. persisted \subseteq persisted'
  BY TableGrows
<1>2. \A q \in Processes : Knows(q)' /\ Enough(q)'
  BY <1>1, OthersKeep DEF RInv
<1>3. ASSUME NEW q \in Processes PROVE Registered(q)'
  <2>1. Registered(q)
    BY DEF RInv, ReadyIsRegistered, Registered
  <2> QED
    BY <1>1, <2>1, OutcomesStay
<1> QED
  BY <1>2, <1>3 DEF RInv, ReadyIsRegistered, Registered

LEMMA LoadStep ==
  ASSUME RInv, TypeOK', [Next]_vars, NEW p \in Processes, Load(p)
  PROVE  RInv'
<1>1. phase'[p] = "repository"
  BY DEF Load, Goto, RInv, TypeOK
<1>2. Knows(p)' /\ Enough(p)' /\ Registered(p)'
  BY <1>1 DEF Knows, Enough, Registered
<1> QED
  BY <1>1, <1>2, StepOf DEF Load, loop, Goto, RInv, TypeOK

LEMMA GetDbRepoStep ==
  ASSUME RInv, TypeOK', [Next]_vars, NEW p \in Processes, GetDbRepo(p)
  PROVE  RInv'
<1>1. phase'[p] \in {"start", "failed"}
  BY DEF GetDbRepo, Goto, RInv, TypeOK
<1>2. Knows(p)' /\ Enough(p)' /\ Registered(p)'
  BY <1>1 DEF Knows, Enough, Registered
<1> QED
  BY <1>1, <1>2, StepOf DEF GetDbRepo, loop, Goto, RInv, TypeOK, setup

LEMMA StartStep ==
  ASSUME RInv, TypeOK', [Next]_vars, NEW p \in Processes, Start(p)
  PROVE  RInv'
<1>1. /\ phase'[p] = IF Missing(p) = {} THEN "ready" ELSE "insert"
      /\ remaining'[p] = Missing(p)
      /\ limit'[p] = Cardinality(Missing(p)) /\ attempt'[p] = 0
      /\ Missing(p)' = Missing(p)
  BY DEF Start, Goto, RInv, TypeOK, Missing, setup
<1>2. Knows(p)' /\ Enough(p)' /\ Registered(p)'
  BY <1>1, MissingFinite DEF RInv, Knows, Enough, Registered
<1> QED
  BY <1>1, <1>2, StepOf DEF Start, Goto, RInv, TypeOK, setup

LEMMA InsertAllStep ==
  ASSUME RInv, TypeOK', [Next]_vars, NEW p \in Processes, InsertAll(p)
  PROVE  RInv'
<1>1. /\ phase[p] = "insert" /\ phase'[p] = "check"
      /\ remaining' = remaining /\ attempt' = attempt /\ limit' = limit /\ errors' = errors
      /\ remaining[p] \cap persisted' # {}
      /\ persisted \subseteq persisted' /\ configured' = configured
      /\ overtaken'[p] \/ remaining[p] \subseteq persisted'
  BY DEF InsertAll, NoDuplicate, InsertEnds, Goto, RInv, TypeOK, Knows, setup
<1>2. Knows(p)' /\ Enough(p)' /\ Registered(p)'
  BY <1>1 DEF RInv, Knows, Enough, Registered, Missing
<1> QED
  BY <1>1, <1>2, StepOf DEF InsertAll, InsertEnds, Goto, RInv, TypeOK, setup

LEMMA InsertTypeErrorStep ==
  ASSUME RInv, TypeOK', [Next]_vars, NEW p \in Processes, InsertTypeError(p)
  PROVE  RInv'
<1>1. phase'[p] = "failed"
  BY DEF InsertTypeError, Goto, RInv, TypeOK
<1>2. Knows(p)' /\ Enough(p)' /\ Registered(p)'
  BY <1>1 DEF Knows, Enough, Registered
<1> QED
  BY <1>1, <1>2, StepOf DEF InsertTypeError, loop, Goto, RInv, TypeOK, setup

LEMMA InsertFailsStep ==
  ASSUME RInv, TypeOK', [Next]_vars, NEW p \in Processes, InsertFails(p)
  PROVE  RInv'
<1>1. /\ phase[p] = "insert" /\ phase'[p] = "check" /\ raised'[p]
      /\ persisted \subseteq persisted' /\ remaining' = remaining
      /\ errors'[p] > 0 /\ configured' = configured
  BY DEF InsertFails, InsertEnds, DatabaseError, Goto, RInv, TypeOK, setup
<1>2. Knows(p)' /\ Enough(p)' /\ Registered(p)'
  BY <1>1 DEF RInv, Knows, Enough, Registered, Missing
<1> QED
  BY <1>1, <1>2, StepOf DEF InsertFails, InsertEnds, DatabaseError, Goto, RInv, TypeOK, setup

LEMMA FetchFailsStep ==
  ASSUME RInv, TypeOK', [Next]_vars, NEW p \in Processes, FetchFails(p)
  PROVE  RInv'
<1>1. /\ phase'[p] = "failed" \/ (phase[p] = "check" /\ phase'[p] = "check" /\ raised'[p])
      /\ persisted' = persisted /\ remaining' = remaining
      /\ errors'[p] > 0 /\ configured' = configured
  BY DEF FetchFails, InsertEnds, DatabaseError, Goto, RInv, TypeOK, setup
<1>2. Knows(p)' /\ Enough(p)' /\ Registered(p)'
  BY <1>1 DEF RInv, Knows, Enough, Registered, Missing
<1> QED
  BY <1>1, <1>2, StepOf DEF FetchFails, InsertEnds, DatabaseError, Goto, RInv, TypeOK, setup

\* Behind an insert of a process that the database did not fail there is a type
\* less to add: either its own insert got through or another process was first.
LEMMA OneTypeLess ==
  ASSUME RInv, NEW p \in Processes, phase[p] = "check", errors[p] = 0
  PROVE  Cardinality(Missing(p)) + attempt[p] + 1 <= limit[p]
<1>1. PICK t \in remaining[p] : t \in persisted
  BY DEF RInv, Enough
<1>2. Missing(p) \subseteq remaining[p] \ {t}
  BY <1>1 DEF RInv, Knows, Missing
<1>3. /\ IsFiniteSet(remaining[p] \ {t})
      /\ Cardinality(remaining[p] \ {t}) = Cardinality(remaining[p]) - 1
  BY <1>1, RemainingFinite, FS_RemoveElement DEF RInv
<1>4. Cardinality(Missing(p)) <= Cardinality(remaining[p]) - 1
  BY <1>2, <1>3, FS_Subset
<1>5. Cardinality(remaining[p]) + attempt[p] <= limit[p]
  BY DEF RInv, Enough
<1> QED
  BY <1>4, <1>5, MissingFinite, RemainingFinite DEF RInv, TypeOK

LEMMA CheckStep ==
  ASSUME RInv, TypeOK', [Next]_vars, NEW p \in Processes, Check(p)
  PROVE  RInv'
<1>1. /\ phase[p] = "check" /\ Missing(p)' = Missing(p)
      /\ remaining'[p] = Missing(p)
      /\ limit' = limit /\ errors' = errors /\ overtaken' = overtaken
  BY DEF Check, LastAttempt, RInv, TypeOK, Missing, setup
<1>2. /\ \/ phase'[p] = "ready" /\ (Missing(p) = {} \/ (LastAttempt(p) /\ ~raised[p]))
         \/ phase'[p] = "failed" /\ Missing(p) # {} /\ LastAttempt(p)
         \/ /\ phase'[p] = "insert" /\ Missing(p) # {} /\ ~LastAttempt(p)
            /\ attempt'[p] = attempt[p] + 1
  BY DEF Check, LastAttempt, Goto, RInv, TypeOK, setup
\* The last attempt of a process that the database did not fail finds nothing missing.
<1>3. errors[p] = 0 /\ LastAttempt(p) => Missing(p) = {}
  BY <1>1, OneTypeLess, MissingFinite DEF LastAttempt, RInv, TypeOK
<1>4. Knows(p)'
  BY <1>1, <1>2 DEF Knows
<1>5. Enough(p)'
  <2> SUFFICES ASSUME phase'[p] = "insert", errors[p] = 0
               PROVE  Cardinality(Missing(p)) + attempt'[p] <= limit[p]
    BY <1>1, <1>2 DEF Enough
  <2> QED
    BY <1>1, <1>2, OneTypeLess, MissingFinite DEF LastAttempt, RInv, TypeOK
\* What an insert that was not undone has written is not missing.
<1>6. ~raised[p] /\ ~overtaken[p] => Missing(p) = {}
  BY <1>1 DEF RInv, Knows, Missing
<1>7. Registered(p)'
  BY <1>1, <1>2, <1>3, <1>6 DEF Registered
<1> QED
  BY <1>4, <1>5, <1>7, StepOf DEF Check, LastAttempt, Goto, RInv, TypeOK, setup

LEMMA Invariance == Spec => []RInv
<1>1. Init => RInv
  <2> SUFFICES ASSUME Init PROVE RInv
    OBVIOUS
  <2>1. TypeOK
    BY DEF Init, TypeOK, Phases
  <2>2. \A p \in Processes : Knows(p) /\ Enough(p)
    BY DEF Init, Knows, Enough
  <2>3. ReadyIsRegistered
    BY DEF Init, ReadyIsRegistered
  <2> QED
    BY <2>1, <2>2, <2>3 DEF RInv
<1>2. RInv /\ TypeOK' /\ [Next]_vars => RInv'
  <2> SUFFICES ASSUME RInv, TypeOK', [Next]_vars PROVE RInv'
    OBVIOUS
  <2>1. CASE UNCHANGED vars
    BY <2>1 DEF vars, setup, loop, RInv, TypeOK, Knows, Enough, Missing, ReadyIsRegistered
  <2>2. CASE Next
    BY <2>2, LoadStep, GetDbRepoStep, StartStep, InsertAllStep, InsertTypeErrorStep,
       InsertFailsStep, FetchFailsStep, CheckStep DEF Next, Step
  <2> QED
    BY <2>1, <2>2
<1> QED
  BY <1>1, <1>2, TypeCorrect, PTL DEF Spec

-----------------------------------------------------------------------------
\* max_retry = len(remaining_plugin_types) is enough attempts for every race: an engine
\* that goes on to its alarms has its types in the table, whatever other engines insert
\* meanwhile.  An engine without its types has met both a database error and a duplicate.
THEOREM ReadyEnginesAreRegistered == Spec => []ReadyIsRegistered
<1>1. RInv => ReadyIsRegistered
  BY DEF RInv
<1> QED
  BY <1>1, Invariance, PTL
=============================================================================
