------------------------- MODULE TopicPartitionProofs -------------------------
(***************************************************************************)
(* What the steps on a partition do to its messages, for any kind of       *)
(* message, and how the messages that are left to read are counted.        *)
(***************************************************************************)
EXTENDS TopicPartition, SequenceTheorems, FiniteSetTheorems, TLAPS

\* Messages that are published come last; the others stay where they are.
LEMMA Extended ==
  ASSUME NEW S, queue \in Seq(S), NEW s \in Seq(S), queue' = queue \o s
  PROVE  /\ queue' \in Seq(S)
         /\ Len(queue) \in Nat /\ Len(s) \in Nat /\ Len(queue') = Len(queue) + Len(s)
         /\ \A i \in 1 .. Len(queue) : queue'[i] = queue[i]
         /\ \A i \in 1 .. Len(s) : queue'[Len(queue) + i] = s[i]
<1>1. /\ queue \o s \in Seq(S) /\ Len(queue) \in Nat /\ Len(s) \in Nat
      /\ Len(queue \o s) = Len(queue) + Len(s)
      /\ \A i \in 1 .. Len(queue) + Len(s) :
           (queue \o s)[i] = IF i <= Len(queue) THEN queue[i] ELSE s[i - Len(queue)]
  BY ConcatProperties, LenProperties
<1>2. \A i \in 1 .. Len(s) :
        /\ Len(queue) + i \in 1 .. Len(queue) + Len(s) /\ ~(Len(queue) + i <= Len(queue))
        /\ (Len(queue) + i) - Len(queue) = i
  BY <1>1
<1> QED
  BY <1>1, <1>2

LEMMA Published ==
  ASSUME NEW S, queue \in Seq(S), NEW m \in S, Publish(m)
  PROVE  /\ queue' \in Seq(S)
         /\ Len(queue) \in Nat /\ Len(queue') = Len(queue) + 1
         /\ \A i \in 1 .. Len(queue) : queue'[i] = queue[i]
         /\ queue'[Len(queue) + 1] = m
  BY AppendProperties, LenProperties DEF Publish

\* The owner's commit drops what it has read.
LEMMA Committed ==
  ASSUME NEW S, queue \in Seq(S), position \in 0 .. Len(queue), CommitRead(owner)
  PROVE  /\ queue' \in Seq(S)
         /\ Len(queue) \in Nat /\ Len(queue') = Len(queue) - position
         /\ \A i \in 1 .. Len(queue') : queue'[i] = queue[i + position]
         /\ position' = 0 /\ owner' = owner
<1>1. Len(queue) \in Nat /\ \A i \in 1 .. Len(queue) : queue[i] \in S
  BY LenProperties, ElementOfSeq
<1>2. queue' = SubSeq(queue, position + 1, Len(queue)) /\ position' = 0 /\ owner' = owner
  BY DEF CommitRead
<1>3. \A i \in position + 1 .. Len(queue) : queue[i] \in S
  BY <1>1
<1>4. /\ queue' \in Seq(S)
      /\ Len(queue') = IF position + 1 <= Len(queue) THEN Len(queue) - (position + 1) + 1 ELSE 0
      /\ \A i \in 1 .. Len(queue) - (position + 1) + 1 : queue'[i] = queue[position + 1 + i - 1]
  BY <1>1, <1>2, <1>3, SubSeqProperties
<1>5. Len(queue') = Len(queue) - position
  BY <1>1, <1>4
<1> QED
  BY <1>1, <1>2, <1>4, <1>5

\* No commit brings a message in.
LEMMA Remaining ==
  ASSUME NEW S, queue \in Seq(S), position \in 0 .. Len(queue), NEW e, CommitRead(e)
  PROVE  \A i \in 1 .. Len(queue') : \E k \in 1 .. Len(queue) : queue'[i] = queue[k]
<1>1. Len(queue) \in Nat
  BY LenProperties
<1>2. CASE owner = e
  <2>1. /\ Len(queue') = Len(queue) - position
        /\ \A i \in 1 .. Len(queue') : queue'[i] = queue[i + position]
    BY <1>2, Committed
  <2>2. \A i \in 1 .. Len(queue') : i + position \in 1 .. Len(queue)
    BY <1>1, <2>1
  <2> QED
    BY <2>1, <2>2
<1>3. CASE owner # e
  BY <1>3 DEF CommitRead
<1> QED
  BY <1>2, <1>3

-----------------------------------------------------------------------------
(* Counting.  What is still to come of the messages is a set of tickets:   *)
(* g[x] are the tickets of the place x, a place on the topic or an engine, *)
(* and no step changes those of more than one place of either kind.        *)

Tickets(places, g) == {t \in places \X Nat : t[2] \in g[t[1]]}

\* The places on the topic that are left to read, if each message there has the
\* tickets that it has in F.
First == IF owner = NoEngine THEN 0 ELSE position
Left(q, f, F) == [i \in Nat |-> IF f < i /\ i <= Len(q) THEN F[q[i]] ELSE {}]
Ahead(F) == Left(queue, First, F)

\* When the tickets of one place change, the others remain.
LEMMA TicketsChange ==
  ASSUME NEW places, NEW x \in places,
         NEW g \in [places -> SUBSET Nat], NEW h \in [places -> SUBSET Nat],
         \A y \in places \ {x} : h[y] = g[y],
         IsFiniteSet(Tickets(places, g)), IsFiniteSet(h[x])
  PROVE  /\ IsFiniteSet(Tickets(places, h)) /\ IsFiniteSet(g[x])
         /\ Cardinality(Tickets(places, g)) \in Nat /\ Cardinality(Tickets(places, h)) \in Nat
         /\ Cardinality(g[x]) \in Nat /\ Cardinality(h[x]) \in Nat
         /\ Cardinality(Tickets(places, h)) + Cardinality(g[x])
              = Cardinality(Tickets(places, g)) + Cardinality(h[x])
<1> DEFINE Old == {x} \X g[x]
           New == {x} \X h[x]
           Rest == Tickets(places, g) \ Old
<1>1. /\ Tickets(places, g) \cap Old = Old
      /\ Tickets(places, h) = Rest \cup New
      /\ Rest \cap New = {}
  BY DEF Tickets
<1>2. IsFiniteSet(Old)
  BY <1>1, FS_Subset
<1>3. IsFiniteSet(g[x])
  <2> DEFINE pair == [k \in g[x] |-> <<x, k>>]
  <2>1. pair \in Injection(g[x], Old)
    BY DEF Injection, IsInjective
  <2> QED
    BY <1>2, <2>1, FS_Injection
<1>4. IsFiniteSet({x}) /\ Cardinality({x}) = 1
  BY FS_Singleton
<1>5. ASSUME NEW K, IsFiniteSet(K)
      PROVE  /\ IsFiniteSet({x} \X K) /\ Cardinality({x} \X K) = Cardinality(K)
             /\ Cardinality(K) \in Nat
  <2>1. Cardinality(K) \in Nat
    BY <1>5, FS_CardinalityType
  <2>2. IsFiniteSet({x} \X K) /\ Cardinality({x} \X K) = Cardinality({x}) * Cardinality(K)
    BY <1>4, <1>5, FS_Product
  <2> QED
    BY <1>4, <2>1, <2>2
<1>6. /\ IsFiniteSet(Rest) /\ Cardinality(Rest) \in Nat
      /\ Cardinality(Rest) = Cardinality(Tickets(places, g)) - Cardinality(Old)
      /\ Cardinality(Tickets(places, g)) \in Nat
  BY <1>1, FS_Difference, FS_CardinalityType
<1>7. IsFiniteSet(New) /\ Cardinality(New) \in Nat
  BY <1>5
<1>8. /\ IsFiniteSet(Rest \cup New)
      /\ Cardinality(Rest \cup New) = Cardinality(Rest) + Cardinality(New) - Cardinality(Rest \cap New)
  BY <1>6, <1>7, FS_Union
<1>9. Cardinality(Old) = Cardinality(g[x]) /\ Cardinality(New) = Cardinality(h[x])
  BY <1>3, <1>5
<1>10. Cardinality(g[x]) \in Nat /\ Cardinality(h[x]) \in Nat
  BY <1>3, <1>5
<1>11. Cardinality(Rest \cap New) = 0
  BY <1>1, FS_EmptySet
<1> HIDE DEF Old, New, Rest
<1> QED
  BY <1>1, <1>3, <1>6, <1>7, <1>8, <1>9, <1>10, <1>11

\* F gives every message of S its tickets.
Weighs(S, F) == F \in [S -> SUBSET Nat] /\ \A m \in S : IsFiniteSet(F[m])

AheadFinite(F) == IsFiniteSet(Tickets(Nat, Ahead(F)))
Coming(F) == Cardinality(Tickets(Nat, Ahead(F)))

LEMMA AheadType ==
  ASSUME NEW S, NEW q \in Seq(S), NEW f \in Nat, NEW F \in [S -> SUBSET Nat]
  PROVE  Left(q, f, F) \in [Nat -> SUBSET Nat]
<1>1. Len(q) \in Nat /\ \A i \in 1 .. Len(q) : q[i] \in S
  BY LenProperties, ElementOfSeq
<1>2. \A i \in Nat : f < i /\ i <= Len(q) => i \in 1 .. Len(q)
  BY <1>1
<1> QED
  BY <1>1, <1>2 DEF Left

LEMMA PlaceChange ==
  ASSUME NEW F, AheadFinite(F), NEW x \in Nat,
         Ahead(F) \in [Nat -> SUBSET Nat], Ahead(F)' \in [Nat -> SUBSET Nat],
         \A y \in Nat \ {x} : Ahead(F)'[y] = Ahead(F)[y], IsFiniteSet(Ahead(F)'[x])
  PROVE  /\ AheadFinite(F)'
         /\ Coming(F) \in Nat /\ Coming(F)' \in Nat
         /\ Cardinality(Ahead(F)[x]) \in Nat /\ Cardinality(Ahead(F)'[x]) \in Nat
         /\ Coming(F)' + Cardinality(Ahead(F)[x]) = Coming(F) + Cardinality(Ahead(F)'[x])
  BY TicketsChange DEF AheadFinite, Coming

\* The messages of s come behind those of the queue, and nothing is read.
Appends(S, s) ==
  /\ queue \in Seq(S) /\ position \in 0 .. Len(queue) /\ s \in Seq(S)
  /\ queue' = queue \o s /\ position' = position /\ owner' = owner

\* Of several messages that are published at once at most one counts.
OnlyOne(F, s, k) == \A i \in 1 .. Len(s) : i # k => F[s[i]] = {}

LEMMA ExtendAhead ==
  ASSUME NEW S, NEW s, Appends(S, s), NEW F, Weighs(S, F), AheadFinite(F),
         NEW k \in 1 .. Len(s), OnlyOne(F, s, k)
  PROVE  /\ AheadFinite(F)'
         /\ Coming(F) \in Nat /\ Coming(F)' \in Nat /\ Cardinality(F[s[k]]) \in Nat
         /\ Coming(F)' = Coming(F) + Cardinality(F[s[k]])
<1> DEFINE g == Ahead(F)
           h == Ahead(F)'
           x == Len(queue) + k
<1>1. /\ queue' \in Seq(S) /\ position' \in 0 .. Len(queue')
      /\ Len(queue) \in Nat /\ Len(s) \in Nat /\ Len(queue') = Len(queue) + Len(s)
      /\ s[k] \in S /\ queue'[x] = s[k]
      /\ \A i \in 1 .. Len(queue) : queue'[i] = queue[i]
      /\ \A i \in 1 .. Len(s) : queue'[Len(queue) + i] = s[i]
  BY Extended, ElementOfSeq DEF Appends
<1>2. /\ First \in 0 .. Len(queue) /\ First' = First
      /\ g \in [Nat -> SUBSET Nat] /\ h \in [Nat -> SUBSET Nat]
  <2>1. First \in 0 .. Len(queue) /\ First' = First
    BY <1>1 DEF First, Appends
  <2>2. First \in Nat /\ First' \in Nat /\ queue \in Seq(S) /\ queue' \in Seq(S) /\ F \in [S -> SUBSET Nat]
    BY <1>1, <2>1 DEF Weighs, Appends
  <2>3. g \in [Nat -> SUBSET Nat]
    BY <2>2, AheadType DEF Ahead
  <2>4. h \in [Nat -> SUBSET Nat]
    BY <2>2, AheadType DEF Ahead
  <2> QED
    BY <2>1, <2>3, <2>4
<1>3. /\ x \in Nat /\ g[x] = {} /\ h[x] = F[s[k]] /\ \A y \in Nat \ {x} : h[y] = g[y]
  <2>1. \A y \in Nat :
          /\ g[y] = IF First < y /\ y <= Len(queue) THEN F[queue[y]] ELSE {}
          /\ h[y] = IF First < y /\ y <= Len(queue) + Len(s) THEN F[queue'[y]] ELSE {}
    <3>1. /\ g = [i \in Nat |-> IF First < i /\ i <= Len(queue) THEN F[queue[i]] ELSE {}]
          /\ h = [i \in Nat |-> IF First' < i /\ i <= Len(queue') THEN F[queue'[i]] ELSE {}]
      BY DEF Ahead, Left
    <3>2. First' = First /\ Len(queue') = Len(queue) + Len(s)
      BY <1>1, <1>2
    <3> HIDE DEF g, h
    <3> QED
      BY <3>1, <3>2
  <2> HIDE DEF g, h
  <2>2. /\ x \in Nat /\ First < x /\ x > Len(queue) /\ x <= Len(queue) + Len(s)
        /\ ~(x <= Len(queue)) /\ First \in Nat
    BY <1>1, <1>2
  <2>3. x \in Nat /\ g[x] = {} /\ h[x] = F[s[k]]
    BY <1>1, <2>1, <2>2
  <2>4. ASSUME NEW y \in Nat, y # x PROVE h[y] = g[y]
    <3>1. CASE y <= Len(queue)
      <4>1. y >= 1 => queue'[y] = queue[y]
        BY <1>1, <3>1
      <4>2. y <= Len(queue) + Len(s) /\ (First < y => y >= 1)
        BY <1>1, <1>2, <3>1
      <4> QED
        BY <2>1, <3>1, <4>1, <4>2
    <3>2. CASE y > Len(queue) /\ y <= Len(queue) + Len(s)
      <4> DEFINE i == y - Len(queue)
      <4>1. i \in 1 .. Len(s) /\ i # k /\ y = Len(queue) + i /\ ~(y <= Len(queue))
        BY <1>1, <2>4, <3>2
      <4>2. F[queue'[y]] = {}
        <5> HIDE DEF i
        <5> QED
          BY <1>1, <4>1 DEF OnlyOne
      <4> QED
        BY <2>1, <4>1, <4>2
    <3>3. CASE ~(y <= Len(queue)) /\ ~(y <= Len(queue) + Len(s))
      BY <2>1, <3>3
    <3> QED
      BY <1>1, <3>1, <3>2, <3>3
  <2> QED
    BY <2>3, <2>4
<1>4. IsFiniteSet(h[x])
  BY <1>1, <1>3 DEF Weighs
<1> QED
  <2>1. x \in Nat /\ \A y \in Nat \ {x} : h[y] = g[y]
    BY <1>3
  <2>2. /\ AheadFinite(F)'
        /\ Coming(F) \in Nat /\ Coming(F)' \in Nat
        /\ Cardinality(g[x]) \in Nat /\ Cardinality(h[x]) \in Nat
        /\ Coming(F)' + Cardinality(g[x]) = Coming(F) + Cardinality(h[x])
    <3> HIDE DEF x
    <3> QED
      BY <1>2, <1>4, <2>1, PlaceChange
  <2>3. Cardinality(g[x]) = 0
    BY <1>3, FS_EmptySet
  <2> HIDE DEF g, h, x
  <2> QED
    BY <1>3, <2>2, <2>3

\* ... or none of them.
LEMMA NothingAhead ==
  ASSUME NEW S, NEW s, Appends(S, s), NEW F, AheadFinite(F),
         \A i \in 1 .. Len(s) : F[s[i]] = {}
  PROVE  AheadFinite(F)' /\ Coming(F)' = Coming(F)
<1>1. /\ Len(queue) \in Nat /\ Len(s) \in Nat /\ Len(queue') = Len(queue) + Len(s)
      /\ \A i \in 1 .. Len(queue) : queue'[i] = queue[i]
      /\ \A i \in 1 .. Len(s) : queue'[Len(queue) + i] = s[i]
  BY Extended DEF Appends
<1>2. First' = First /\ First \in Nat
  BY <1>1 DEF First, Appends
<1> DEFINE New(y) == IF First' < y /\ y <= Len(queue') THEN F[queue'[y]] ELSE {}
           Old(y) == IF First < y /\ y <= Len(queue) THEN F[queue[y]] ELSE {}
<1>3. ASSUME NEW y \in Nat PROVE New(y) = Old(y)
  <2>1. CASE y <= Len(queue)
    <3>1. y >= 1 => queue'[y] = queue[y]
      BY <1>1, <2>1
    <3>2. y <= Len(queue') /\ (First < y => y >= 1)
      BY <1>1, <1>2, <2>1
    <3>3. CASE First < y
      BY <1>2, <2>1, <3>1, <3>2, <3>3
    <3>4. CASE ~(First < y)
      BY <1>2, <3>4
    <3> QED
      BY <3>3, <3>4
  <2>2. CASE y > Len(queue) /\ y <= Len(queue')
    <3> DEFINE i == y - Len(queue)
    <3>1. i \in 1 .. Len(s) /\ y = Len(queue) + i /\ ~(y <= Len(queue))
      BY <1>1, <2>2
    <3>2. F[queue'[y]] = {}
      <4> HIDE DEF i
      <4> QED
        BY <1>1, <3>1
    <3> QED
      BY <3>1, <3>2
  <2>3. CASE ~(y <= Len(queue)) /\ ~(y <= Len(queue'))
    BY <2>3
  <2> HIDE DEF New, Old
  <2> QED
    BY <1>1, <2>1, <2>2, <2>3
<1>4. Ahead(F)' = Ahead(F)
  BY <1>3 DEF Ahead, Left
<1> QED
  BY <1>4 DEF AheadFinite, Coming

LEMMA PublishAhead ==
  ASSUME NEW S, queue \in Seq(S), position \in 0 .. Len(queue),
         NEW F, Weighs(S, F), AheadFinite(F),
         NEW m \in S, Publish(m), UNCHANGED <<position, owner>>
  PROVE  /\ AheadFinite(F)'
         /\ Coming(F) \in Nat /\ Coming(F)' \in Nat /\ Cardinality(F[m]) \in Nat
         /\ Coming(F)' = Coming(F) + Cardinality(F[m])
<1> DEFINE g == Ahead(F)
           h == Ahead(F)'
           x == Len(queue) + 1
<1>1. /\ queue' \in Seq(S) /\ position' \in 0 .. Len(queue')
      /\ Len(queue) \in Nat /\ Len(queue') = x /\ queue'[x] = m
      /\ \A i \in 1 .. Len(queue) : queue'[i] = queue[i]
  BY Published
<1>2. /\ First \in 0 .. Len(queue) /\ First' = First
      /\ g \in [Nat -> SUBSET Nat] /\ h \in [Nat -> SUBSET Nat]
  <2>1. First \in 0 .. Len(queue) /\ First' = First
    BY <1>1 DEF First
  <2> QED
    BY <1>1, <2>1, AheadType DEF Weighs, Ahead
<1>3. /\ x \in Nat /\ g[x] = {} /\ h[x] = F[m] /\ \A y \in Nat \ {x} : h[y] = g[y]
  BY <1>1, <1>2 DEF Ahead, Left
<1>4. IsFiniteSet(h[x])
  BY <1>3 DEF Weighs
<1> QED
  <2>1. x \in Nat /\ \A y \in Nat \ {x} : h[y] = g[y]
    BY <1>3
  <2>2. /\ AheadFinite(F)'
        /\ Coming(F) \in Nat /\ Coming(F)' \in Nat
        /\ Cardinality(g[x]) \in Nat /\ Cardinality(h[x]) \in Nat
        /\ Coming(F)' + Cardinality(g[x]) = Coming(F) + Cardinality(h[x])
    <3> HIDE DEF x
    <3> QED
      BY <1>2, <1>4, <2>1, PlaceChange
  <2>3. Cardinality(g[x]) = 0
    BY <1>3, FS_EmptySet
  <2> HIDE DEF g, h, x
  <2> QED
    BY <1>3, <2>2, <2>3

LEMMA ReceiveAhead ==
  ASSUME NEW S, queue \in Seq(S), position \in 0 .. Len(queue),
         NEW F, Weighs(S, F), AheadFinite(F),
         NEW e \in Engines, NoEngine \notin Engines, HasNext(e), Advance
  PROVE  /\ AheadFinite(F)'
         /\ Coming(F) \in Nat /\ Coming(F)' \in Nat /\ Cardinality(F[NextMessage]) \in Nat
         /\ Coming(F)' + Cardinality(F[NextMessage]) = Coming(F)
<1> DEFINE g == Ahead(F)
           h == Ahead(F)'
           x == position + 1
<1>1. /\ queue' = queue /\ position' \in 0 .. Len(queue) /\ Len(queue) \in Nat
      /\ First = position /\ First' = position + 1 /\ position < Len(queue)
  BY LenProperties DEF HasNext, Advance, First
<1>2. g \in [Nat -> SUBSET Nat] /\ h \in [Nat -> SUBSET Nat]
  BY <1>1, AheadType DEF Weighs, Ahead
<1>3. /\ x \in Nat /\ g[x] = F[NextMessage] /\ h[x] = {} /\ \A y \in Nat \ {x} : h[y] = g[y]
  BY <1>1 DEF Ahead, Left, NextMessage
<1>4. IsFiniteSet(h[x]) /\ Cardinality(h[x]) = 0
  BY <1>3, FS_EmptySet
<1> QED
  <2>1. x \in Nat /\ \A y \in Nat \ {x} : h[y] = g[y]
    BY <1>3
  <2>2. /\ AheadFinite(F)'
        /\ Coming(F) \in Nat /\ Coming(F)' \in Nat
        /\ Cardinality(g[x]) \in Nat /\ Cardinality(h[x]) \in Nat
        /\ Coming(F)' + Cardinality(g[x]) = Coming(F) + Cardinality(h[x])
    <3> HIDE DEF x
    <3> QED
      BY <1>2, <1>4, <2>1, PlaceChange
  <2> HIDE DEF g, h, x
  <2> QED
    BY <1>3, <1>4, <2>2

\* An engine that gets the partition, or gives it back, puts at most the one message
\* that was read before the others again.
LEMMA RewindAhead ==
  ASSUME NEW S, queue \in Seq(S), position \in 0 .. Len(queue),
         NEW F, Weighs(S, F), AheadFinite(F),
         NEW e \in Engines, NoEngine \notin Engines, Acquire(e) \/ Release(e),
         owner # NoEngine => position <= 1,
         NEW K \in Nat, \A m \in S : Cardinality(F[m]) <= K
  PROVE  /\ AheadFinite(F)' /\ Coming(F) \in Nat /\ Coming(F)' \in Nat
         /\ Coming(F)' <= Coming(F) + K
<1>0. Coming(F) \in Nat
  BY FS_CardinalityType DEF Coming, AheadFinite
<1>1. /\ queue' = queue /\ Len(queue) \in Nat /\ position' \in 0 .. Len(queue)
      /\ First \in {0, 1} /\ First' \in {0, First}
  BY LenProperties DEF First, Acquire, Release
<1>2. CASE First' = First
  <2>1. Ahead(F)' = Ahead(F)
    BY <1>1, <1>2 DEF Ahead, Left
  <2> QED
    BY <1>0, <2>1 DEF AheadFinite, Coming
<1>3. CASE First' = 0 /\ First = 1
  <2> DEFINE g == Ahead(F)
             h == Ahead(F)'
  <2>1. g \in [Nat -> SUBSET Nat] /\ h \in [Nat -> SUBSET Nat] /\ 1 <= Len(queue)
    BY <1>1, <1>3, AheadType DEF Weighs, Ahead, First
  <2>2. /\ g[1] = {} /\ h[1] = F[queue[1]] /\ \A y \in Nat \ {1} : h[y] = g[y]
    BY <1>1, <1>3, <2>1 DEF Ahead, Left
  <2>3. /\ IsFiniteSet(h[1]) /\ Cardinality(h[1]) <= K
        /\ Cardinality(g[1]) = 0
    <3>1. queue[1] \in S
      BY <1>1, <2>1, ElementOfSeq
    <3>2. IsFiniteSet(F[queue[1]]) /\ Cardinality(F[queue[1]]) <= K
      BY <3>1 DEF Weighs
    <3> QED
      BY <2>2, <3>2, FS_EmptySet
  <2>4. /\ AheadFinite(F)'
        /\ Coming(F) \in Nat /\ Coming(F)' \in Nat
        /\ Cardinality(g[1]) \in Nat /\ Cardinality(h[1]) \in Nat
        /\ Coming(F)' + Cardinality(g[1]) = Coming(F) + Cardinality(h[1])
    <3>1. 1 \in Nat /\ \A y \in Nat \ {1} : h[y] = g[y]
      BY <2>2
    <3> QED
      BY <2>1, <2>3, <3>1, PlaceChange
  <2> HIDE DEF g, h
  <2> QED
    BY <2>3, <2>4
<1> QED
  BY <1>1, <1>2, <1>3

\* A commit moves the messages that are left to read, and drops none of them.
LEMMA CommitAhead ==
  ASSUME NEW S, queue \in Seq(S), position \in 0 .. Len(queue),
         NEW F, Weighs(S, F), AheadFinite(F),
         NEW e \in Engines, NoEngine \notin Engines, CommitRead(e)
  PROVE  /\ AheadFinite(F)' /\ Coming(F) \in Nat /\ Coming(F)' \in Nat
         /\ Coming(F)' <= Coming(F)
<1>0. Coming(F) \in Nat
  BY FS_CardinalityType DEF Coming, AheadFinite
<1>1. CASE owner = e
  <2>1. /\ queue' \in Seq(S) /\ Len(queue) \in Nat /\ Len(queue') = Len(queue) - position
        /\ \A i \in 1 .. Len(queue') : queue'[i] = queue[i + position]
        /\ First' = 0 /\ First = position
    BY <1>1, Committed DEF First
  <2> DEFINE T == Tickets(Nat, Ahead(F)')
             moved == [t \in T |-> <<t[1] + position, t[2]>>]
  <2>2. \A t \in T : /\ t[1] \in Nat /\ t[2] \in Nat /\ t = <<t[1], t[2]>>
                     /\ t[1] \in 1 .. Len(queue') /\ t[2] \in F[queue'[t[1]]]
    BY <2>1 DEF Tickets, Ahead, Left
  <2>3. moved \in [T -> Tickets(Nat, Ahead(F))]
    <3> SUFFICES ASSUME NEW t \in T PROVE <<t[1] + position, t[2]>> \in Tickets(Nat, Ahead(F))
      OBVIOUS
    <3>1. /\ t[1] + position \in Nat /\ t[2] \in Nat
          /\ First < t[1] + position /\ t[1] + position <= Len(queue)
          /\ t[2] \in F[queue[t[1] + position]]
      <4> HIDE DEF T
      <4> QED
        BY <2>1, <2>2
    <3> QED
      BY <3>1 DEF Tickets, Ahead, Left
  <2>4. moved \in Injection(T, Tickets(Nat, Ahead(F)))
    <3>1. ASSUME NEW t \in T, NEW u \in T, moved[t] = moved[u] PROVE t = u
      <4>1. t[1] + position = u[1] + position /\ t[2] = u[2]
        BY <3>1
      <4>2. t[1] = u[1]
        BY <2>2, <4>1
      <4> HIDE DEF T
      <4> QED
        BY <2>2, <4>1, <4>2
    <3> HIDE DEF T, moved
    <3> QED
      BY <2>3, <3>1 DEF Injection, IsInjective
  <2>5. IsFiniteSet(T) /\ Cardinality(T) <= Cardinality(Tickets(Nat, Ahead(F)))
    <3> HIDE DEF T, moved
    <3> QED
      BY <2>4, FS_Injection DEF AheadFinite
  <2> QED
    BY <1>0, <2>5, FS_CardinalityType DEF AheadFinite, Coming
<1>2. CASE owner # e
  <2>1. Ahead(F)' = Ahead(F)
    BY <1>2 DEF CommitRead, Ahead, Left, First
  <2> QED
    BY <1>0, <2>1 DEF AheadFinite, Coming
<1> QED
  BY <1>1, <1>2

\* A set that gets at most one element more, none, or loses one.
LEMMA OneMore ==
  ASSUME NEW S, IsFiniteSet(S), NEW x, NEW T \in SUBSET (S \cup {x})
  PROVE  /\ IsFiniteSet(T) /\ Cardinality(T) \in Nat /\ Cardinality(S) \in Nat
         /\ Cardinality(T) <= Cardinality(S) + 1
<1>1. /\ IsFiniteSet(S \cup {x}) /\ Cardinality(S) \in Nat
      /\ Cardinality(S \cup {x}) \in Nat /\ Cardinality(S \cup {x}) <= Cardinality(S) + 1
  <2>1. /\ IsFiniteSet(S \cup {x})
        /\ Cardinality(S \cup {x}) = IF x \in S THEN Cardinality(S) ELSE Cardinality(S) + 1
    BY FS_AddElement
  <2>2. Cardinality(S) \in Nat
    BY FS_CardinalityType
  <2> QED
    BY <2>1, <2>2
<1>2. IsFiniteSet(T) /\ Cardinality(T) <= Cardinality(S \cup {x}) /\ Cardinality(T) \in Nat
  BY <1>1, FS_Subset, FS_CardinalityType
<1> QED
  BY <1>1, <1>2

LEMMA NoneMore ==
  ASSUME NEW S, IsFiniteSet(S), NEW T \in SUBSET S
  PROVE  /\ IsFiniteSet(T) /\ Cardinality(T) \in Nat /\ Cardinality(S) \in Nat
         /\ Cardinality(T) <= Cardinality(S)
  BY FS_Subset, FS_CardinalityType

LEMMA OneLess ==
  ASSUME NEW S, IsFiniteSet(S), NEW x \in S, NEW T \in SUBSET (S \ {x})
  PROVE  /\ IsFiniteSet(T) /\ Cardinality(T) \in Nat /\ Cardinality(S) \in Nat
         /\ Cardinality(T) + 1 <= Cardinality(S)
<1>1. /\ IsFiniteSet(S \ {x}) /\ Cardinality(S) \in Nat
      /\ Cardinality(S \ {x}) = Cardinality(S) - 1
  BY FS_RemoveElement, FS_CardinalityType
<1>2. IsFiniteSet(T) /\ Cardinality(T) <= Cardinality(S \ {x}) /\ Cardinality(T) \in Nat
  BY <1>1, FS_Subset, FS_CardinalityType
<1> QED
  BY <1>1, <1>2
=============================================================================
