--------------------------- MODULE RepositoryProofs ---------------------------
(***************************************************************************)
(* What Repository guarantees however often the server fails.              *)
(***************************************************************************)
EXTENDS Repository, TLAPS

\* While nothing disturbs a lookup the server is there.
ServerIsThere == Trying /\ ~disturbed => server = "up"

\* The second try does not meet the connection that failed the first one.
FreshConnection ==
  driver = "mysql" /\ phase = "second" /\ ~disturbed => connection # "dead"

DInv == TypeOK /\ ServerIsThere /\ FreshConnection /\ SecondTryReconnects

LEMMA FaultsCount ==
  /\ 0 \in 0 .. MaxFaults
  /\ \A n \in 0 .. MaxFaults : n < MaxFaults => n + 1 \in 0 .. MaxFaults
  BY RepositoryAssumption DEF RepositoryAssumption

LEMMA InitialTypes == Init => TypeOK
  BY FaultsCount DEF Init, TypeOK, Trying

-----------------------------------------------------------------------------
\* A lookup is pending exactly while a caller tries it.
THEOREM TypeCorrect == Spec => []TypeOK
<1>1. Init => TypeOK
  BY InitialTypes
<1>2. TypeOK /\ [Next]_vars => TypeOK'
  <2> SUFFICES ASSUME TypeOK, [Next]_vars PROVE TypeOK'
    OBVIOUS
  <2> USE DEF TypeOK, Trying
  <2>1. ASSUME NEW l \in Lookups[engine], Begin(l) PROVE TypeOK'
    BY <2>1 DEF Begin
  <2>2. CASE Connect
    BY <2>2 DEF Connect, Raise
  <2>3. CASE Answer
    BY <2>3 DEF Answer
  <2>4. CASE LoseConnection
    BY <2>4 DEF LoseConnection, DropConnection, Raise
  <2>5. CASE RaiseTypeError
    BY <2>5 DEF RaiseTypeError
  <2>6. CASE Restart
    BY <2>6 DEF Restart
  <2>7. CASE ServerStops \/ ServerDisconnects
    BY <2>7, FaultsCount DEF ServerStops, ServerDisconnects, Sever
  <2>8. CASE ServerStarts
    BY <2>8 DEF ServerStarts
  <2>9. CASE GetDbRepo
    BY <2>9 DEF GetDbRepo
  <2>10. CASE UNCHANGED vars
    BY <2>10 DEF vars
  <2> QED
    BY <2>1, <2>2, <2>3, <2>4, <2>5, <2>6, <2>7, <2>8, <2>9, <2>10 DEF Next, EngineStep
<1> QED
  BY <1>1, <1>2, PTL DEF Spec

-----------------------------------------------------------------------------
LEMMA Inductive == DInv /\ TypeOK' /\ [Next]_vars => DInv'
<1> SUFFICES ASSUME DInv, TypeOK', [Next]_vars PROVE DInv'
  OBVIOUS
<1> USE DEF DInv, TypeOK, Trying, ServerIsThere, FreshConnection, SecondTryReconnects
<1>1. ASSUME NEW l \in Lookups[engine], Begin(l) PROVE DInv'
  BY <1>1 DEF Begin
\* A connect fails only while the server is down, and that is a disturbance.
<1>2. CASE Connect
  BY <1>2 DEF Connect, Raise
<1>3. CASE Answer
  BY <1>3 DEF Answer
\* The first try may lose a connection that was closed before; the second one has
\* a connection of its own, so that something must have disturbed it.
<1>4. CASE LoseConnection
  BY <1>4 DEF LoseConnection, DropConnection, Raise
<1>5. CASE RaiseTypeError
  BY <1>5 DEF RaiseTypeError, BareParameter
<1>6. CASE Restart
  BY <1>6 DEF Restart
<1>7. CASE ServerStops \/ ServerDisconnects
  BY <1>7 DEF ServerStops, ServerDisconnects, Sever
<1>8. CASE ServerStarts
  BY <1>8 DEF ServerStarts
<1>9. CASE GetDbRepo
  BY <1>9 DEF GetDbRepo
<1>10. CASE UNCHANGED vars
  BY <1>10 DEF vars
<1> QED
  BY <1>1, <1>2, <1>3, <1>4, <1>5, <1>6, <1>7, <1>8, <1>9, <1>10 DEF Next, EngineStep

\* With MysqlRepo trying twice is enough for every connection that was
\* closed while nobody looked: a lookup fails only if the server was away, or closed
\* a connection again, while it went on.
THEOREM TwoTriesAreEnough == Spec => []SecondTryReconnects
<1>1. Init => DInv
  BY InitialTypes DEF Init, DInv, ServerIsThere, FreshConnection, SecondTryReconnects, Trying
<1>2. DInv => SecondTryReconnects
  BY DEF DInv
<1> QED
  BY <1>1, <1>2, Inductive, TypeCorrect, PTL DEF Spec
=============================================================================
