---------------------------- MODULE LogStoreProofs ----------------------------
(* What the calls on a device's store do, for any operations, records and   *)
(* orders: the lemmas that ProjectionProofs and PullPhaseProofs share.      *)
EXTENDS LogStore, TLAPS, FiniteSetTheorems, SequenceTheorems, WellFoundedInduction

----------------------------------------------------------------------------
(* Lists and numbers.                                                        *)

Preceding(S, q) == {p \in S : Place[p] < Place[q]}

\* Appending to anything with domain 1..k, whatever its elements are.
LEMMA AppendToList ==
    ASSUME NEW q, NEW k \in Nat, q = [n \in 1..k |-> q[n]], NEW o
    PROVE  Append(q, o) = [n \in 1..(k + 1) |-> IF n = k + 1 THEN o ELSE q[n]]
<1> DEFINE X == {q[n] : n \in 1..k} \cup {o}
<1>1. q \in [1..k -> X] /\ o \in X
  <2>1. \A n \in 1..k : q[n] \in X
    OBVIOUS
  <2>2. o \in X
    OBVIOUS
  <2> HIDE DEF X
  <2> QED
    BY <2>1, <2>2
<1> HIDE DEF X
<1>2. q \in Seq(X) /\ Len(q) = k
  BY <1>1
<1>3. Append(q, o) \in Seq(X) /\ Len(Append(q, o)) = k + 1
  BY <1>1, <1>2
<1>4. \A n \in 1..(k + 1) : Append(q, o)[n] = IF n = k + 1 THEN o ELSE q[n]
  BY <1>1, <1>2
<1>5. Append(q, o) = [n \in 1..(k + 1) |-> Append(q, o)[n]]
  <2>1. Append(q, o) \in [1..(k + 1) -> X]
    BY <1>3, LenProperties
  <2> QED
    BY <2>1
<1> QED
  BY <1>4, <1>5

\* An operation after all of S comes last in the order of S with it.
LEMMA OrderExtends ==
    ASSUME StoreConstants, NEW S \in SUBSET Op, IsFiniteSet(S), NEW o \in Op, o \notin S, \A p \in S : Place[p] < Place[o]
    PROVE  InOrder(S \cup {o}) = Append(InOrder(S), o)
<1> DEFINE T == S \cup {o}
           k == Cardinality(S)
<1>1. IsFiniteSet(T) /\ Cardinality(T) = k + 1 /\ k \in Nat
  BY FS_AddElement, FS_CardinalityType
<1>2. \A p \in Op : Place[p] \in Nat
  BY DEF StoreConstants
<1>3. Preceding(T, o) = S
  BY <1>2 DEF Preceding
<1>4. ASSUME NEW q \in S PROVE Preceding(T, q) = Preceding(S, q) /\ Cardinality(Preceding(S, q)) \in 0..(k - 1)
  <2>1. Preceding(T, q) = Preceding(S, q)
    BY <1>2 DEF Preceding
  <2>2. Preceding(S, q) \in SUBSET (S \ {q})
    BY <1>2 DEF Preceding
  <2>3. IsFiniteSet(S \ {q}) /\ Cardinality(S \ {q}) = k - 1
    BY FS_RemoveElement
  <2>4. IsFiniteSet(Preceding(S, q)) /\ Cardinality(Preceding(S, q)) <= k - 1
    BY <2>2, <2>3, FS_Subset
  <2>5. Cardinality(Preceding(S, q)) \in Nat
    BY <2>4, FS_CardinalityType
  <2> QED
    BY <1>1, <2>1, <2>4, <2>5
<1>5. ASSUME NEW n \in 1..k
      PROVE  (CHOOSE q \in T : Cardinality(Preceding(T, q)) = n - 1) = (CHOOSE q \in S : Cardinality(Preceding(S, q)) = n - 1)
  <2>1. ASSUME NEW q PROVE (q \in T /\ Cardinality(Preceding(T, q)) = n - 1) <=> (q \in S /\ Cardinality(Preceding(S, q)) = n - 1)
    <3>1. CASE q \in S
      BY <3>1, <1>4
    <3>2. CASE q = o
      BY <3>2, <1>3, <1>1
    <3> QED
      BY <3>1, <3>2
  <2> QED
    BY <2>1
<1>6. (CHOOSE q \in T : Cardinality(Preceding(T, q)) = k) = o
  <2>1. ASSUME NEW q \in T, Cardinality(Preceding(T, q)) = k PROVE q = o
    <3>1. CASE q \in S
      <4>1. Cardinality(Preceding(T, q)) \in 0..(k - 1)
        BY <3>1, <1>4
      <4>2. Cardinality(Preceding(T, q)) # k
        BY <4>1, <1>1
      <4> QED
        BY <4>2, <2>1
    <3> QED
      BY <3>1
  <2>2. o \in T /\ Cardinality(Preceding(T, o)) = k
    BY <1>3
  <2> QED
    BY <2>1, <2>2
<1>7. /\ InOrder(S) = [n \in 1..k |-> CHOOSE q \in S : Cardinality(Preceding(S, q)) = n - 1]
      /\ InOrder(T) = [n \in 1..(k + 1) |-> CHOOSE q \in T : Cardinality(Preceding(T, q)) = n - 1]
  BY <1>1 DEF InOrder, Preceding
<1>8. Append(InOrder(S), o) = [n \in 1..(k + 1) |-> IF n = k + 1 THEN o ELSE InOrder(S)[n]]
  <2>1. InOrder(S) = [n \in 1..k |-> InOrder(S)[n]]
    BY <1>7
  <2> QED
    BY <1>1, <2>1, AppendToList
<1>9. \A n \in 1..k : n # k + 1 /\ InOrder(T)[n] = InOrder(S)[n]
  <2> SUFFICES ASSUME NEW n \in 1..k PROVE n # k + 1 /\ InOrder(T)[n] = InOrder(S)[n]
    OBVIOUS
  <2>1. n \in 1..(k + 1) /\ n # k + 1
    BY <1>1
  <2>2. InOrder(S)[n] = CHOOSE q \in S : Cardinality(Preceding(S, q)) = n - 1
    BY <1>7, Zenon
  <2>3. InOrder(T)[n] = CHOOSE q \in T : Cardinality(Preceding(T, q)) = n - 1
    BY <1>7, <2>1, Zenon
  <2> QED
    BY <1>5, <2>1, <2>2, <2>3, Zenon
<1>10. InOrder(T)[k + 1] = o
  <2>1. InOrder(T)[k + 1] = CHOOSE q \in T : Cardinality(Preceding(T, q)) = (k + 1) - 1
    <3>1. k + 1 \in 1..(k + 1)
      BY <1>1
    <3> QED
      BY <1>7, <3>1, Zenon
  <2>2. (k + 1) - 1 = k
    BY <1>1
  <2> QED
    BY <1>6, <2>1, <2>2
<1>11. InOrder(T) = [n \in 1..(k + 1) |-> InOrder(T)[n]]
  BY <1>7
<1>12. \A n \in 1..(k + 1) : InOrder(T)[n] = IF n = k + 1 THEN o ELSE InOrder(S)[n]
  BY <1>1, <1>9, <1>10
<1> QED
  BY <1>8, <1>11, <1>12

----------------------------------------------------------------------------
(* Stores.                                                                   *)

LogRow == [arrival : Nat, refused : BOOLEAN, text : BOOLEAN]
IsList(q) == \E n \in Nat : q = [i \in 1..n |-> q[i]]

\* No number given out is above k.
Within(d, k) == (\A o \in Held(d) : d.log[o].arrival <= k) /\ \A m \in Module : d.mark[m] <= k

StoreOK(d) ==
    /\ d = [log |-> d.log, rows |-> d.rows, mark |-> d.mark]
    /\ d.log = [o \in Held(d) |-> d.log[o]]
    /\ Held(d) \in SUBSET Op /\ IsFiniteSet(Held(d))
    /\ \A o \in Held(d) : d.log[o] \in LogRow
    /\ d.rows = [r \in Record |-> d.rows[r]] /\ \A r \in Record : IsList(d.rows[r])
    /\ d.mark \in [Module -> Nat] /\ \E k \in Nat : Within(d, k)

PulledIsReadable(d, folds) == \A o \in Held(d) : d.log[o].arrival > 0 => RecordOf[o] \in folds
Sound(d, folds) == StoreOK(d) /\ RowsMatch(d, folds) /\ PulledIsReadable(d, folds)

AtVersion(q, v) == \A i \in DOMAIN q : q[i][2] = v
\* No record at version v falls behind it.
NoneOlder(d, e, v) == \A r \in Record : AtVersion(d.rows[r], v) => AtVersion(e.rows[r], v)

LEMMA FoldableIsFinite ==
    ASSUME NEW d, StoreOK(d), NEW folds, NEW r
    PROVE  Foldable(d, folds, r) \in SUBSET Op /\ IsFiniteSet(Foldable(d, folds, r))
<1>1. Foldable(d, folds, r) \in SUBSET Held(d)
  BY DEF Foldable
<1> QED
  BY <1>1, FS_Subset DEF StoreOK

LEMMA FoldedIs ==
    ASSUME NEW S, IsFiniteSet(S), NEW v
    PROVE  /\ IsList(Folded(S, v)) /\ AtVersion(Folded(S, v), v)
           /\ [i \in DOMAIN Folded(S, v) |-> Folded(S, v)[i][1]] = InOrder(S)
<1> DEFINE k == Cardinality(S)
           q == InOrder(S)
<1>1. k \in Nat
  BY FS_CardinalityType
<1>2. q = [n \in 1..k |-> q[n]]
  BY DEF InOrder
<1>3. Folded(S, v) = [i \in DOMAIN q |-> <<q[i], v>>]
  BY DEF Folded
<1> HIDE DEF k, q
<1>4. DOMAIN q = 1..k
  BY <1>2
<1>5. Folded(S, v) = [i \in 1..k |-> <<q[i], v>>]
  BY <1>3, <1>4
<1>6. IsList(Folded(S, v))
  BY <1>1, <1>5 DEF IsList
<1>7. AtVersion(Folded(S, v), v)
  BY <1>5 DEF AtVersion
<1>8. [i \in DOMAIN Folded(S, v) |-> Folded(S, v)[i][1]] = q
  BY <1>2, <1>5
<1> QED
  BY <1>6, <1>7, <1>8 DEF q

LEMMA RefoldAllIs ==
    ASSUME NEW d, StoreOK(d), NEW folds, NEW v, NEW R, NEW e, e = RefoldAll(d, folds, v, R)
    PROVE  /\ e.log = d.log /\ e.mark = d.mark
           /\ \A r \in Record : e.rows[r] = IF r \in R THEN Folded(Foldable(d, folds, r), v) ELSE d.rows[r]
           /\ StoreOK(e)
<1>1. e = [log |-> d.log, mark |-> d.mark, rows |->
            [r \in Record |-> IF r \in R THEN Folded(Foldable(d, folds, r), v) ELSE d.rows[r]]]
  BY DEF RefoldAll, StoreOK
<1>2. \A r \in Record : IsList(Folded(Foldable(d, folds, r), v))
  BY FoldableIsFinite, FoldedIs
<1>3. /\ e.log = d.log /\ e.mark = d.mark
      /\ \A r \in Record : e.rows[r] = IF r \in R THEN Folded(Foldable(d, folds, r), v) ELSE d.rows[r]
  BY <1>1
<1>4. \A r \in Record : IsList(e.rows[r])
  BY <1>2, <1>3 DEF StoreOK
<1>5. e.rows = [r \in Record |-> e.rows[r]] /\ e = [log |-> e.log, rows |-> e.rows, mark |-> e.mark]
  BY <1>1
<1>6. StoreOK(e)
  BY <1>3, <1>4, <1>5 DEF StoreOK, Held, Within
<1> QED
  BY <1>3, <1>6

LEMMA RefoldIs ==
    ASSUME NEW d, StoreOK(d), NEW folds, NEW v, NEW r \in Record
    PROVE  Refold(d, folds, v, r) = RefoldAll(d, folds, v, {r})
BY DEF Refold, RefoldAll, StoreOK

LEMMA WithRowIs ==
    ASSUME NEW d, StoreOK(d), NEW o \in Op, NEW row \in LogRow, NEW e, e = WithRow(d, o, row)
    PROVE  /\ Held(e) = Held(d) \cup {o} /\ e.rows = d.rows /\ e.mark = d.mark
           /\ e.log[o] = row /\ \A p \in Held(d) \ {o} : e.log[p] = d.log[p]
           /\ StoreOK(e)
<1>1. e = [log |-> [p \in Held(d) \cup {o} |-> IF p = o THEN row ELSE d.log[p]], rows |-> d.rows, mark |-> d.mark]
  BY DEF WithRow, StoreOK
<1>2. /\ Held(e) = Held(d) \cup {o} /\ e.rows = d.rows /\ e.mark = d.mark
      /\ e.log[o] = row /\ \A p \in Held(d) \ {o} : e.log[p] = d.log[p]
      /\ e.log = [p \in Held(e) |-> e.log[p]]
      /\ e = [log |-> e.log, rows |-> e.rows, mark |-> e.mark]
  BY <1>1 DEF Held
<1>3. IsFiniteSet(Held(d) \cup {o})
  BY FS_AddElement DEF StoreOK
<1>4. PICK k \in Nat : Within(d, k)
  BY DEF StoreOK
<1>5. row.arrival \in Nat /\ \A p \in Held(d) : d.log[p].arrival \in Nat
  BY DEF StoreOK, LogRow
<1>6. Within(e, k + row.arrival)
  BY <1>2, <1>4, <1>5 DEF Within, StoreOK
<1>7. StoreOK(e)
  BY <1>2, <1>3, <1>5, <1>6 DEF StoreOK
<1> QED
  BY <1>2, <1>7

\* Some number of a set is its least.
LEMMA LeastNumber ==
    ASSUME NEW S \in SUBSET Nat, S # {}
    PROVE  \E m \in S : \A n \in S : m <= n
<1> DEFINE R == {ss \in Nat \X Nat : ss[1] < ss[2]}
<1>1. IsWellFoundedOn(R, Nat)
  BY NatLessThanWellFounded DEF OpToRel
<1>2. PICK m \in S : \A n \in S : ~(<<n, m>> \in R)
  <2> HIDE DEF R
  <2> QED
    BY <1>1, WFMin
<1>3. ASSUME NEW n \in S PROVE m <= n
  <2>1. m \in Nat /\ n \in Nat /\ ~(<<n, m>> \in R)
    BY <1>2
  <2>2. ~(n < m)
    BY <2>1
  <2> QED
    BY <2>1, <2>2
<1> QED
  BY <1>3

\* The largest of bounded numbers is one of them.
LEMMA BiggestIs ==
    ASSUME NEW S \in SUBSET Nat, NEW k \in Nat, \A n \in S : n <= k, S # {}
    PROVE  Biggest(S) \in S /\ \A n \in S : n <= Biggest(S)
<1> DEFINE Above == {b \in Nat : \A n \in S : n <= b}
<1>1. PICK b \in Above : \A c \in Above : b <= c
  <2>1. Above # {}
    OBVIOUS
  <2> QED
    BY <2>1, LeastNumber
<1>2. b \in S
  <2>1. SUFFICES ASSUME b \notin S PROVE FALSE
    OBVIOUS
  <2>2. PICK s \in S : TRUE
    OBVIOUS
  <2>3. b \in Nat /\ \A n \in S : n \in Nat /\ n <= b /\ n # b
    BY <1>1, <2>1
  <2>4. b - 1 \in Above
    BY <2>2, <2>3
  <2> QED
    BY <1>1, <2>3, <2>4
<1>3. b \in S /\ \A n \in S : n <= b
  BY <1>1, <1>2
<1> QED
  BY <1>3 DEF Biggest

\* The next arrival number is after every arrival and every watermark, and right after one of them.
LEMMA NextIs ==
    ASSUME NEW d, StoreOK(d)
    PROVE  /\ Arrivals(d) \in SUBSET Nat /\ {d.mark[m] : m \in Module} \in SUBSET Nat /\ NextArrival(d) \in Nat \ {0}
           /\ \A o \in Held(d) : d.log[o].arrival < NextArrival(d)
           /\ \A m \in Module : d.mark[m] < NextArrival(d)
           /\ \A k \in Nat : Within(d, k) => NextArrival(d) <= k + 1
<1> DEFINE S == {0} \cup Arrivals(d) \cup {d.mark[m] : m \in Module}
<1>1. Arrivals(d) \in SUBSET Nat /\ {d.mark[m] : m \in Module} \in SUBSET Nat
  BY DEF Arrivals, StoreOK, LogRow
<1>2. \A k \in Nat : Within(d, k) => \A n \in S : n <= k
  BY DEF Within, Arrivals
<1>3. PICK top \in Nat : Within(d, top)
  BY DEF StoreOK
<1>4. S \in SUBSET Nat /\ S # {} /\ \A n \in S : n <= top
  BY <1>1, <1>2, <1>3
<1>5. NextArrival(d) = 1 + Biggest(S)
  BY DEF NextArrival
<1>6. \A o \in Held(d) : d.log[o].arrival \in S
  BY DEF Arrivals
<1>7. \A m \in Module : d.mark[m] \in S
  OBVIOUS
<1> HIDE DEF S
<1>8. Biggest(S) \in S /\ \A n \in S : n <= Biggest(S)
  BY <1>4, BiggestIs
<1>9. \A n \in S : n \in Nat
  BY <1>4
<1> QED
  BY <1>1, <1>2, <1>5, <1>6, <1>7, <1>8, <1>9

LEMMA CountedIs ==
    ASSUME StoreConstants, NEW d, StoreOK(d), NEW o \in Held(d), NEW e, e = Counted(d, o)
    PROVE  e.log = d.log /\ e.rows = d.rows /\ StoreOK(e)
<1>1. CASE d.log[o].arrival = 0
  BY <1>1 DEF Counted
<1>2. CASE d.log[o].arrival # 0
  <2> DEFINE m == ModuleOf[RecordOf[o]]
             from == d.mark[m]
             S == {from} \cup {n \in Arrivals(d) : n > from /\ (from + 1)..n \subseteq Arrivals(d)}
  <2>1. m \in Module /\ from \in Nat
    BY DEF StoreConstants, StoreOK
  <2>2. PICK k \in Nat : Within(d, k)
    BY DEF StoreOK
  <2>3. S \in SUBSET Nat /\ S # {} /\ \A n \in S : n <= k
    <3>1. Arrivals(d) \in SUBSET Nat
      BY NextIs
    <3>2. \A n \in Arrivals(d) : n <= k
      BY <2>2 DEF Within, Arrivals
    <3>3. from <= k
      BY <2>1, <2>2 DEF Within
    <3> QED
      BY <2>1, <3>1, <3>2, <3>3
  <2>4. Biggest(S) \in Nat /\ Biggest(S) <= k
    <3> HIDE DEF S
    <3> QED
      BY <2>3, BiggestIs
  <2>5. HighestContiguous(d, from) \in Nat /\ HighestContiguous(d, from) <= k
    BY <2>4 DEF HighestContiguous
  <2> HIDE DEF S, from
  <2>6. e = [log |-> d.log, rows |-> d.rows, mark |-> [d.mark EXCEPT ![m] = HighestContiguous(d, from)]]
    BY <1>2 DEF Counted, StoreOK, from
  <2>7. [d.mark EXCEPT ![m] = HighestContiguous(d, from)] \in [Module -> Nat]
    BY <2>5 DEF StoreOK
  <2>8. \A p \in Module : [d.mark EXCEPT ![m] = HighestContiguous(d, from)][p] <= k
    BY <2>2, <2>5 DEF StoreOK, Within
  <2>9. /\ e.log = d.log /\ e.rows = d.rows /\ e.mark \in [Module -> Nat] /\ \A p \in Module : e.mark[p] <= k
        /\ e = [log |-> e.log, rows |-> e.rows, mark |-> e.mark]
    BY <2>6, <2>7, <2>8
  <2>10. Within(e, k)
    BY <2>2, <2>9 DEF Within, Held
  <2> QED
    BY <2>9, <2>10 DEF StoreOK, Held
<1> QED
  BY <1>1, <1>2

\* What a count moves depends on the log and the watermarks alone.
LEMMA SameCount ==
    ASSUME NEW d, StoreOK(d), NEW x, StoreOK(x), x.log = d.log, x.mark = d.mark, NEW o
    PROVE  Counted(x, o).mark = Counted(d, o).mark
<1> DEFINE m == ModuleOf[RecordOf[o]]
<1>1. \A from : HighestContiguous(x, from) = HighestContiguous(d, from)
  BY DEF HighestContiguous, Arrivals, Held
<1>2. ASSUME NEW y, StoreOK(y), y.log[o].arrival # 0
      PROVE  Counted(y, o).mark = [y.mark EXCEPT ![m] = HighestContiguous(y, @)]
  <2>1. y = [log |-> y.log, rows |-> y.rows, mark |-> y.mark]
    BY <1>2 DEF StoreOK
  <2>2. Counted(y, o) = [y EXCEPT !.mark = [y.mark EXCEPT ![m] = HighestContiguous(y, @)]]
    BY <1>2 DEF Counted
  <2> DEFINE z == [y.mark EXCEPT ![m] = HighestContiguous(y, @)]
  <2> HIDE DEF z
  <2>3. [y EXCEPT !.mark = z] = [log |-> y.log, rows |-> y.rows, mark |-> z]
    BY <2>1
  <2>4. Counted(y, o) = [y EXCEPT !.mark = z]
    BY <2>2 DEF z
  <2>5. Counted(y, o).mark = z
    BY <2>3, <2>4
  <2> QED
    BY <2>5 DEF z
<1>3. CASE d.log[o].arrival = 0
  BY <1>3 DEF Counted
<1>4. CASE d.log[o].arrival # 0
  <2>1. x.log[o].arrival # 0
    BY <1>4
  <2>2. /\ Counted(x, o).mark = [x.mark EXCEPT ![m] = HighestContiguous(x, @)]
        /\ Counted(d, o).mark = [d.mark EXCEPT ![m] = HighestContiguous(d, @)]
    BY <1>2, <1>4, <2>1
  <2> HIDE DEF m
  <2> QED
    BY <1>1, <2>2
<1> QED
  BY <1>3, <1>4

LEMMA CatchUpIs ==
    ASSUME NEW d, StoreOK(d), NEW e, e = CatchUp(d)
    PROVE  e.log = d.log /\ e.rows = d.rows /\ StoreOK(e) /\ \A m \in Module : e.mark[m] = NextArrival(d) - 1
<1> DEFINE n == NextArrival(d) - 1
<1>1. n \in Nat /\ (\A o \in Held(d) : d.log[o].arrival <= n) /\ \A m \in Module : d.mark[m] <= n /\ d.mark[m] \in Nat
  BY NextIs DEF StoreOK, LogRow
<1> HIDE DEF n
<1>2. ASSUME NEW m \in Module PROVE Biggest({d.mark[m], n}) = n
  BY <1>1 DEF Biggest
<1>3. e = [log |-> d.log, rows |-> d.rows, mark |-> [m \in Module |-> Biggest({d.mark[m], n})]]
  BY DEF CatchUp, StoreOK, n
<1>4. /\ e.log = d.log /\ e.rows = d.rows /\ e.mark \in [Module -> Nat] /\ \A m \in Module : e.mark[m] = n
      /\ e = [log |-> e.log, rows |-> e.rows, mark |-> e.mark]
  BY <1>1, <1>2, <1>3
<1>5. Within(e, n)
  BY <1>1, <1>4 DEF Within, Held
<1>6. StoreOK(e)
  BY <1>1, <1>4, <1>5 DEF StoreOK, Held
<1> QED
  BY <1>4, <1>6 DEF n

OpsOf(q) == [i \in DOMAIN q |-> q[i][1]]

LEMMA AppendIs ==
    ASSUME NEW q, IsList(q), NEW o, NEW v
    PROVE  /\ IsList(Append(q, <<o, v>>))
           /\ AtVersion(q, v) => AtVersion(Append(q, <<o, v>>), v)
           /\ OpsOf(Append(q, <<o, v>>)) = Append(OpsOf(q), o)
<1>1. PICK n \in Nat : q = [i \in 1..n |-> q[i]]
  BY DEF IsList
<1>2. Append(q, <<o, v>>) = [i \in 1..(n + 1) |-> IF i = n + 1 THEN <<o, v>> ELSE q[i]]
  BY <1>1, AppendToList
<1> DEFINE p == [i \in 1..n |-> q[i][1]]
<1>3. p = OpsOf(q)
  BY <1>1 DEF OpsOf
<1>4. Append(p, o) = [i \in 1..(n + 1) |-> IF i = n + 1 THEN o ELSE p[i]]
  <2>1. p = [i \in 1..n |-> p[i]]
    OBVIOUS
  <2> HIDE DEF p
  <2> QED
    BY <2>1, AppendToList
<1> DEFINE a == Append(q, <<o, v>>)
<1>5. a = [i \in 1..(n + 1) |-> IF i = n + 1 THEN <<o, v>> ELSE q[i]]
  BY <1>2
<1> HIDE DEF a
<1>6. IsList(a)
  BY <1>5 DEF IsList
<1>7. AtVersion(q, v) => AtVersion(a, v)
  BY <1>1, <1>5 DEF AtVersion
<1>8. OpsOf(a) = [i \in 1..(n + 1) |-> IF i = n + 1 THEN o ELSE p[i]]
  BY <1>5 DEF OpsOf
<1> QED
  BY <1>3, <1>4, <1>6, <1>7, <1>8 DEF a

\* Re-folded records are the fold of what the log holds, and at the version.
LEMMA RefoldedFolds ==
    ASSUME NEW d, StoreOK(d), NEW folds, NEW v, NEW R, NEW e, e = RefoldAll(d, folds, v, R)
    PROVE  (\A r \in R \cap Record : FoldsTo(e, folds, r)) /\ NoneOlder(d, e, v)
           /\ \A r \in R \cap Record : AtVersion(e.rows[r], v)
<1>1. e.log = d.log /\ \A r \in Record : e.rows[r] = IF r \in R THEN Folded(Foldable(d, folds, r), v) ELSE d.rows[r]
  BY RefoldAllIs
<1>2. \A r : Foldable(e, folds, r) = Foldable(d, folds, r)
  BY <1>1 DEF Foldable, Held
<1>3. \A r \in R \cap Record : FoldsTo(e, folds, r) /\ AtVersion(e.rows[r], v)
  <2> TAKE r \in R \cap Record
  <2>1. e.rows[r] = Folded(Foldable(d, folds, r), v) /\ Foldable(e, folds, r) = Foldable(d, folds, r)
    BY <1>1, <1>2
  <2> QED
    BY <2>1, FoldableIsFinite, FoldedIs DEF FoldsTo
<1>4. NoneOlder(d, e, v)
  BY <1>1, <1>3 DEF NoneOlder
<1> QED
  BY <1>3, <1>4

\* What folds and how it is built depend on the log and the rows alone.
LEMMA SameFold ==
    ASSUME NEW d, NEW e, NEW folds, NEW kept, NEW r,
           Foldable(e, kept, r) = Foldable(d, folds, r), e.rows[r] = d.rows[r], FoldsTo(d, folds, r)
    PROVE  FoldsTo(e, kept, r)
BY DEF FoldsTo

\* The rows of o's record are the fold of all that folds into it but o.
RowsLack(w, folds, o, S) ==
    /\ o \notin S /\ Foldable(w, folds, RecordOf[o]) = S \cup {o}
    /\ OpsOf(w.rows[RecordOf[o]]) = InOrder(S)

\* What applying o to a store that holds it makes of the store.
AppliedOf(w, e, folds, v, o) ==
    /\ e.log = w.log /\ e.mark = Counted(w, o).mark /\ StoreOK(e) /\ NoneOlder(w, e, v)
    /\ \A s \in Record \ {RecordOf[o]} : e.rows[s] = w.rows[s]
    /\ RecordOf[o] \notin folds => e.rows = w.rows
    /\ RecordOf[o] \in folds =>
           \A S \in SUBSET Op : RowsLack(w, folds, o, S) => FoldsTo(e, folds, RecordOf[o])

LEMMA AppliedIs ==
    ASSUME StoreConstants, NEW folds, NEW w, StoreOK(w), NEW o \in Held(w), NEW v, NEW e, e = Apply(w, folds, v, o)
    PROVE  AppliedOf(w, e, folds, v, o)
<1> DEFINE r == RecordOf[o]
           x == IF r \notin folds THEN w
                ELSE IF HasNewer(w, o) THEN Refold(w, folds, v, r)
                ELSE [w EXCEPT !.rows[r] = Append(@, <<o, v>>)]
<1>1. o \in Op /\ r \in Record /\ e = Counted(x, o)
  BY DEF Apply, StoreConstants, StoreOK
<1>2. StoreOK(x) /\ x.log = w.log /\ x.mark = w.mark /\ NoneOlder(w, x, v)
      /\ (\A s \in Record \ {r} : x.rows[s] = w.rows[s])
      /\ (r \in folds => \A S \in SUBSET Op : RowsLack(w, folds, o, S) => FoldsTo(x, folds, r))
      /\ (r \notin folds => x.rows = w.rows)
  <2>1. CASE r \notin folds
    <3>1. x = w
      BY <2>1
    <3> HIDE DEF x
    <3> QED
      BY <2>1, <3>1 DEF NoneOlder
  <2>2. CASE r \in folds /\ HasNewer(w, o)
    <3>1. x = RefoldAll(w, folds, v, {r})
      BY <1>1, <2>2, RefoldIs
    <3> HIDE DEF x
    <3>2. /\ StoreOK(x) /\ x.log = w.log /\ x.mark = w.mark /\ \A s \in Record \ {r} : x.rows[s] = w.rows[s]
      BY <1>1, <3>1, RefoldAllIs
    <3>3. FoldsTo(x, folds, r) /\ NoneOlder(w, x, v)
      BY <1>1, <3>1, RefoldedFolds
    <3> QED
      BY <2>2, <3>2, <3>3
  <2>3. CASE r \in folds /\ ~HasNewer(w, o)
    <3>1. x = [log |-> w.log, mark |-> w.mark, rows |-> [w.rows EXCEPT ![r] = Append(@, <<o, v>>)]]
      BY <2>3 DEF StoreOK
    <3> HIDE DEF x
    <3>2. IsList(w.rows[r])
      BY <1>1 DEF StoreOK
    <3>3. w.rows = [s \in Record |-> w.rows[s]]
      BY DEF StoreOK
    <3>4. x.log = w.log /\ x.mark = w.mark /\ x.rows[r] = Append(w.rows[r], <<o, v>>)
          /\ \A s \in Record \ {r} : x.rows[s] = w.rows[s]
      BY <1>1, <3>1, <3>3
    <3> DEFINE q == w.rows[r]
               a == Append(q, <<o, v>>)
    <3>5. /\ IsList(a)
          /\ AtVersion(q, v) => AtVersion(a, v)
          /\ OpsOf(a) = Append(OpsOf(q), o)
      <4>1. IsList(q)
        BY <3>2
      <4> HIDE DEF q
      <4>2. IsList(a) /\ (AtVersion(q, v) => AtVersion(a, v))
        BY <4>1, AppendIs
      <4>3. OpsOf(a) = Append(OpsOf(q), o)
        BY <4>1, AppendIs
      <4> QED
        BY <4>2, <4>3
    <3>6. x.rows[r] = a
      BY <3>4
    <3> HIDE DEF a
    <3>7. x.rows = [s \in Record |-> x.rows[s]] /\ x = [log |-> x.log, rows |-> x.rows, mark |-> x.mark]
      BY <3>1, <3>3
    <3>8. StoreOK(x)
      <4>1. \A s \in Record \ {r} : IsList(x.rows[s])
        BY <3>4 DEF StoreOK
      <4>2. IsList(x.rows[r])
        BY <3>5, <3>6
      <4> QED
        BY <3>4, <3>7, <4>1, <4>2 DEF StoreOK, Held, Within
    <3>9. NoneOlder(w, x, v)
      <4>1. AtVersion(w.rows[r], v) => AtVersion(x.rows[r], v)
        BY <3>5, <3>6, Zenon
      <4> QED
        BY <3>4, <4>1 DEF NoneOlder
    <3>10. Foldable(x, folds, r) = Foldable(w, folds, r)
      BY <3>4 DEF Foldable, Held
    <3>11. ASSUME NEW S \in SUBSET Op, RowsLack(w, folds, o, S) PROVE FoldsTo(x, folds, r)
      <4>1. o \notin S /\ Foldable(w, folds, r) = S \cup {o} /\ OpsOf(w.rows[r]) = InOrder(S)
        BY <3>11 DEF RowsLack
      <4>2. S \subseteq Held(w) /\ (\A p \in S : RecordOf[p] = r) /\ IsFiniteSet(S)
        <5>1. S \in SUBSET Foldable(w, folds, r)
          BY <4>1
        <5>2. IsFiniteSet(Foldable(w, folds, r))
          BY FoldableIsFinite
        <5>3. IsFiniteSet(S)
          BY <5>1, <5>2, FS_Subset
        <5> QED
          BY <5>1, <5>3 DEF Foldable
      <4>3. \A p \in S : Place[p] < Place[o]
        <5> TAKE p \in S
        <5>1. p \in Held(w) /\ RecordOf[p] = RecordOf[o] /\ p # o /\ p \in Op
          BY <4>1, <4>2
        <5>2. ~(Place[p] > Place[o])
          BY <2>3, <5>1 DEF HasNewer
        <5>3. Place[p] # Place[o] /\ Place[p] \in Nat /\ Place[o] \in Nat
          BY <1>1, <5>1 DEF StoreConstants
        <5> QED
          BY <5>2, <5>3
      <4>4. InOrder(S \cup {o}) = Append(InOrder(S), o)
        BY <1>1, <4>1, <4>2, <4>3, OrderExtends
      <4>5. Foldable(x, folds, r) = S \cup {o}
        BY <3>10, <4>1
      <4>6. OpsOf(x.rows[r]) = Append(OpsOf(w.rows[r]), o)
        BY <3>5, <3>6
      <4>7. OpsOf(x.rows[r]) = InOrder(Foldable(x, folds, r))
        BY <4>1, <4>4, <4>5, <4>6
      <4> QED
        BY <4>7 DEF FoldsTo, OpsOf
    <3> QED
      BY <2>3, <3>4, <3>8, <3>9, <3>11
  <2> QED
    BY <2>1, <2>2, <2>3
<1> HIDE DEF x
<1>3. o \in Held(x)
  BY <1>2 DEF Held
<1>4. e.log = x.log /\ e.rows = x.rows /\ StoreOK(e)
  BY <1>1, <1>2, <1>3, CountedIs
<1>5. FoldsTo(x, folds, r) => FoldsTo(e, folds, r)
  BY <1>4 DEF FoldsTo, Foldable, Held
<1>6. e.mark = Counted(w, o).mark
  BY <1>1, <1>2, SameCount
<1> QED
  BY <1>2, <1>4, <1>5, <1>6 DEF AppliedOf, NoneOlder

\* insert and applyOp: an operation that enters the log keeps the store sound.
LEMMA AppliedIsSound ==
    ASSUME StoreConstants, NEW folds \in SUBSET Record, NEW d, Sound(d, folds),
           NEW o \in Op \ Held(d), NEW row \in LogRow, ~row.refused, row.text,
           row.arrival > 0 => RecordOf[o] \in folds, NEW v, NEW e, e = Apply(WithRow(d, o, row), folds, v, o)
    PROVE  Sound(e, folds) /\ NoneOlder(d, e, v)
<1> DEFINE w == WithRow(d, o, row)
           r == RecordOf[o]
           S == Foldable(d, folds, r)
<1>1. /\ Held(w) = Held(d) \cup {o} /\ w.rows = d.rows /\ StoreOK(w)
      /\ w.log[o] = row /\ \A p \in Held(d) : w.log[p] = d.log[p]
  BY WithRowIs DEF Sound
<1> HIDE DEF w
<1>2. StoreOK(d) /\ RowsMatch(d, folds) /\ PulledIsReadable(d, folds) /\ r \in Record
  BY DEF Sound, StoreConstants
<1>3. \A s \in Record \ {r} : Foldable(w, folds, s) = Foldable(d, folds, s)
  BY <1>1 DEF Foldable
<1>4. r \notin folds => Foldable(w, folds, r) = Foldable(d, folds, r)
  BY DEF Foldable
<1>5. r \in folds => RowsLack(w, folds, o, S)
  <2>1. r \in folds => o \notin S /\ Foldable(w, folds, r) = S \cup {o}
    BY <1>1 DEF Foldable
  <2>2. OpsOf(w.rows[r]) = InOrder(S)
    BY <1>1, <1>2 DEF RowsMatch, FoldsTo, OpsOf
  <2> QED
    BY <2>1, <2>2 DEF RowsLack
<1>6. S \in SUBSET Op
  BY <1>2, FoldableIsFinite
<1> HIDE DEF S
<1>7. AppliedOf(w, e, folds, v, o)
  <2>1. o \in Held(w)
    BY <1>1
  <2>2. e = Apply(w, folds, v, o)
    BY DEF w
  <2> QED
    BY <1>1, <2>1, <2>2, AppliedIs
<1>8. Held(e) = Held(w) /\ e.log = w.log /\ \A s : Foldable(e, folds, s) = Foldable(w, folds, s)
  BY <1>7 DEF AppliedOf, Held, Foldable
<1>9. PulledIsReadable(e, folds)
  BY <1>1, <1>2, <1>8 DEF PulledIsReadable
<1>10. \A s \in Record \ {r} : FoldsTo(e, folds, s)
  BY <1>1, <1>2, <1>3, <1>7, <1>8 DEF AppliedOf, RowsMatch, FoldsTo
<1>11. FoldsTo(e, folds, r)
  <2>1. CASE r \in folds
    BY <2>1, <1>5, <1>6, <1>7 DEF AppliedOf
  <2>2. CASE r \notin folds
    BY <2>2, <1>1, <1>2, <1>4, <1>7, <1>8 DEF AppliedOf, RowsMatch, FoldsTo
  <2> QED
    BY <2>1, <2>2
<1>12. NoneOlder(d, e, v) /\ StoreOK(e)
  BY <1>1, <1>7 DEF AppliedOf, NoneOlder
<1> QED
  BY <1>9, <1>10, <1>11, <1>12 DEF Sound, RowsMatch

\* What stays of the log when the pulled operations of the records in R come out.
Remaining(d, R) == {o \in Held(d) : ~(d.log[o].arrival > 0 /\ RecordOf[o] \in R)}

\* What purging the records in R makes of a store.
PurgedOf(d, e, folds, v, R) ==
    /\ StoreOK(e) /\ NoneOlder(d, e, v)
    /\ Held(e) = Remaining(d, R)
    /\ \A o \in Held(e) : e.log[o] = d.log[o]
    /\ \A s \in Record \ R : e.rows[s] = d.rows[s]
    /\ \A r \in R \cap Record :
           \/ FoldsTo(e, folds, r)
           \/ e.rows[r] = d.rows[r] /\ \A o \in Held(d) : RecordOf[o] = r => o \in Held(e)
    /\ e = d \/ \A m \in Module : NextArrival(e) <= e.mark[m] + 1

LEMMA PurgedIs ==
    ASSUME StoreConstants, NEW d, StoreOK(d), NEW folds, NEW v, NEW R, NEW e, e = Purged(d, folds, v, R)
    PROVE  PurgedOf(d, e, folds, v, R)
<1> DEFINE gone == {o \in Held(d) : d.log[o].arrival > 0 /\ RecordOf[o] \in R}
           left == [d EXCEPT !.log = [o \in Held(d) \ gone |-> d.log[o]]]
           G == {RecordOf[o] : o \in gone}
<1>1. CASE gone = {}
  <2>1. e = d
    BY <1>1 DEF Purged
  <2>2. Remaining(d, R) = Held(d)
    BY <1>1 DEF Remaining
  <2> QED
    BY <2>1, <2>2 DEF NoneOlder, PurgedOf
<1>2. CASE gone # {}
  <2>1. G \subseteq R
    OBVIOUS
  <2>2. left = [log |-> [o \in Held(d) \ gone |-> d.log[o]], rows |-> d.rows, mark |-> d.mark]
    <3> DEFINE kept == [o \in Held(d) \ gone |-> d.log[o]]
    <3> HIDE DEF kept
    <3>1. [d EXCEPT !.log = kept] = [log |-> kept, rows |-> d.rows, mark |-> d.mark]
      BY DEF StoreOK
    <3> QED
      BY <3>1 DEF kept
  <2>3. e = CatchUp(RefoldAll(left, folds, v, G))
    BY <1>2 DEF Purged
  <2>4. Held(d) \ gone = Remaining(d, R)
    BY DEF Remaining
  <2>5. Held(d) \ gone \in SUBSET Held(d) /\ IsFiniteSet(Held(d) \ gone)
    BY FS_Subset DEF StoreOK
  <2>6. \A o \in Held(d) : o \in gone => RecordOf[o] \in G
    OBVIOUS
  <2> HIDE DEF gone, left, G
  <2>7. Held(left) = Held(d) \ gone /\ left.rows = d.rows /\ left.mark = d.mark
        /\ \A o \in Held(left) : left.log[o] = d.log[o]
    BY <2>2 DEF Held
  <2>8. StoreOK(left)
    <3>1. left.log = [o \in Held(left) |-> left.log[o]] /\ left = [log |-> left.log, rows |-> left.rows, mark |-> left.mark]
      BY <2>2 DEF Held
    <3>2. PICK k \in Nat : Within(d, k)
      BY DEF StoreOK
    <3>3. Within(left, k)
      BY <2>5, <2>7, <3>2 DEF Within
    <3> QED
      BY <2>5, <2>7, <3>1, <3>3 DEF StoreOK
  <2> DEFINE x == RefoldAll(left, folds, v, G)
  <2>9. /\ StoreOK(x) /\ x.log = left.log /\ x.mark = left.mark
        /\ \A s \in Record \ G : x.rows[s] = d.rows[s]
    BY <2>7, <2>8, RefoldAllIs
  <2>10. (\A r \in G \cap Record : FoldsTo(x, folds, r)) /\ NoneOlder(left, x, v)
    BY <2>8, RefoldedFolds
  <2> HIDE DEF x
  <2>11. /\ e.log = x.log /\ e.rows = x.rows /\ StoreOK(e)
         /\ \A m \in Module : e.mark[m] = NextArrival(x) - 1
    BY <2>3, <2>9, CatchUpIs DEF x
  <2>12. (\A r \in G \cap Record : FoldsTo(e, folds, r)) /\ NoneOlder(d, e, v)
    BY <2>7, <2>10, <2>11 DEF FoldsTo, Foldable, Held, NoneOlder
  <2>13. Held(e) = Held(left) /\ Held(x) = Held(left)
    BY <2>9, <2>11 DEF Held
  <2>14. \A o \in Held(e) : e.log[o] = d.log[o]
    BY <2>7, <2>9, <2>11, <2>13
  <2>15. \A s \in Record \ R : e.rows[s] = d.rows[s]
    BY <2>1, <2>9, <2>11
  <2>16. ASSUME NEW r \in R \cap Record
         PROVE  \/ FoldsTo(e, folds, r)
                \/ e.rows[r] = d.rows[r] /\ \A o \in Held(d) : RecordOf[o] = r => o \in Held(e)
    <3>1. CASE r \in G
      BY <3>1, <2>12
    <3>2. CASE r \notin G
      BY <3>2, <2>6, <2>7, <2>9, <2>11, <2>13
    <3> QED
      BY <3>1, <3>2
  <2>17. \A m \in Module : NextArrival(e) <= e.mark[m] + 1
    <3>1. NextArrival(x) - 1 \in Nat /\ \A o \in Held(x) : x.log[o].arrival <= NextArrival(x) - 1
      <4>1. NextArrival(x) \in Nat \ {0} /\ \A o \in Held(x) : x.log[o].arrival < NextArrival(x)
        BY <2>9, NextIs
      <4>2. \A o \in Held(x) : x.log[o].arrival \in Nat
        BY <2>9 DEF StoreOK, LogRow
      <4> QED
        BY <4>1, <4>2
    <3>2. Within(e, NextArrival(x) - 1)
      BY <2>11, <2>13, <3>1 DEF Within
    <3>3. NextArrival(e) <= (NextArrival(x) - 1) + 1
      BY <2>11, <3>1, <3>2, NextIs
    <3> QED
      BY <2>11, <3>3
  <2> QED
    BY <2>4, <2>11, <2>12, <2>13, <2>7, <2>14, <2>15, <2>16, <2>17 DEF PurgedOf
<1> QED
  BY <1>1, <1>2

----------------------------------------------------------------------------
(* The numbers given out: none is missed by a watermark for good.  Above a   *)
(* watermark every number given out is still the arrival of a held change,   *)
(* so the walk that moves the watermark up never stops short.                *)

Numbered(d) ==
    /\ AllCounted(d)
    /\ \A m \in Module, k \in Nat : d.mark[m] < k /\ k < NextArrival(d) => k \in Arrivals(d)

LEMMA PurgedIsNumbered ==
    ASSUME StoreConstants, NEW d, StoreOK(d), Numbered(d), NEW folds, NEW v, NEW R, NEW e, PurgedOf(d, e, folds, v, R)
    PROVE  Numbered(e)
<1>1. CASE e = d
  BY <1>1
<1>2. CASE \A m \in Module : NextArrival(e) <= e.mark[m] + 1
  <2>1. StoreOK(e)
    BY DEF PurgedOf
  <2>2. /\ NextArrival(e) \in Nat /\ \A o \in Held(e) : e.log[o].arrival < NextArrival(e) /\ e.log[o].arrival \in Nat
        /\ \A m \in Module : e.mark[m] \in Nat
    BY <2>1, NextIs DEF StoreOK, LogRow
  <2>3. \A o \in Held(e) : ModuleOf[RecordOf[o]] \in Module
    BY <2>1 DEF StoreOK, StoreConstants
  <2>4. AllCounted(e)
    <3> SUFFICES ASSUME NEW o \in Held(e) PROVE e.log[o].arrival <= e.mark[ModuleOf[RecordOf[o]]]
      BY DEF AllCounted
    <3> QED
      BY <1>2, <2>2, <2>3
  <2>5. \A m \in Module, k \in Nat : ~(e.mark[m] < k /\ k < NextArrival(e))
    BY <1>2, <2>2
  <2> QED
    BY <2>4, <2>5 DEF Numbered
<1> QED
  BY <1>1, <1>2 DEF PurgedOf

\* Own changes have no number: they and texts leave the count alone.
LEMMA OwnIsNumbered ==
    ASSUME StoreConstants, NEW d, StoreOK(d), Numbered(d), NEW e, StoreOK(e), Arrivals(e) = Arrivals(d), e.mark = d.mark,
           \A o \in Held(e) : e.log[o].arrival = 0 \/ (o \in Held(d) /\ e.log[o].arrival = d.log[o].arrival)
    PROVE  Numbered(e)
<1>1. NextArrival(e) = NextArrival(d)
  BY DEF NextArrival
<1>2. AllCounted(e)
  <2> SUFFICES ASSUME NEW o \in Held(e) PROVE e.log[o].arrival <= e.mark[ModuleOf[RecordOf[o]]]
    BY DEF AllCounted
  <2>1. e.mark[ModuleOf[RecordOf[o]]] \in Nat
    BY DEF StoreOK, StoreConstants
  <2> QED
    BY <2>1 DEF Numbered, AllCounted
<1> QED
  BY <1>1, <1>2 DEF Numbered

\* A pulled change takes the next number, and its module's watermark moves up to it.
LEMMA PulledIsNumbered ==
    ASSUME StoreConstants, NEW d, StoreOK(d), Numbered(d), NEW o \in Op \ Held(d),
           NEW w, w = WithRow(d, o, PulledRow(NextArrival(d))),
           NEW e, StoreOK(e), e.log = w.log, e.mark = Counted(w, o).mark
    PROVE  Numbered(e)
<1> DEFINE n == NextArrival(d)
           m == ModuleOf[RecordOf[o]]
           from == d.mark[m]
<1>1. /\ n \in Nat \ {0} /\ Arrivals(d) \in SUBSET Nat
      /\ \A p \in Held(d) : d.log[p].arrival < n
      /\ \A q \in Module : d.mark[q] < n /\ d.mark[q] \in Nat
  BY NextIs DEF StoreOK
<1>2. m \in Module
  BY DEF StoreConstants
<1> HIDE DEF n, m
<1> DEFINE row == PulledRow(n)
<1>3. row = [arrival |-> n, refused |-> FALSE, text |-> TRUE]
  <2>1. OwnRow = [arrival |-> 0, refused |-> FALSE, text |-> TRUE]
    BY DEF OwnRow
  <2>2. PulledRow(n) = [OwnRow EXCEPT !.arrival = n]
    BY DEF PulledRow
  <2> QED
    BY <2>1, <2>2
<1>4. row \in LogRow
  BY <1>1, <1>3 DEF LogRow
<1>5. w = WithRow(d, o, row)
  BY DEF n
<1> HIDE DEF row
<1>6. /\ Held(w) = Held(d) \cup {o} /\ w.mark = d.mark /\ StoreOK(w)
      /\ w.log[o] = row /\ \A p \in Held(d) : w.log[p] = d.log[p]
  <2>1. /\ Held(w) = Held(d) \cup {o} /\ w.mark = d.mark
        /\ w.log[o] = row /\ \A p \in Held(d) \ {o} : w.log[p] = d.log[p]
    BY <1>4, <1>5, WithRowIs
  <2>2. StoreOK(w)
    BY <1>4, <1>5, WithRowIs
  <2> QED
    BY <2>1, <2>2
<1>7. w.log[o].arrival = n
  BY <1>3, <1>6
<1>8. Arrivals(w) = Arrivals(d) \cup {n}
  BY <1>1, <1>6, <1>7 DEF Arrivals
<1>9. (from + 1)..n \subseteq Arrivals(w)
  <2> SUFFICES ASSUME NEW k \in (from + 1)..n, k # n PROVE k \in Arrivals(d)
    BY <1>8
  <2>1. from \in Nat /\ k \in Nat /\ from < k /\ k < n
    BY <1>1, <1>2
  <2> QED
    BY <1>2, <2>1 DEF Numbered, n
<1> DEFINE S == {from} \cup {k \in Arrivals(w) : k > from /\ (from + 1)..k \subseteq Arrivals(w)}
<1>10. n \in S /\ \A k \in S : k <= n /\ k \in Nat
  <2>1. from \in Nat /\ from < n
    BY <1>1, <1>2
  <2>2. n \in S
    BY <1>8, <1>9, <2>1
  <2>3. \A k \in Arrivals(d) : k <= n /\ k \in Nat
    <3> TAKE k \in Arrivals(d)
    <3>1. PICK p \in Held(d) : k = d.log[p].arrival
      BY DEF Arrivals
    <3>2. k \in Nat /\ k < n
      BY <1>1, <3>1
    <3> QED
      BY <1>1, <3>2
  <2> QED
    BY <1>1, <1>8, <2>1, <2>2, <2>3
<1>11. HighestContiguous(w, from) = n
  <2> HIDE DEF S
  <2>1. Biggest(S) = n
    <3>1. S \in SUBSET Nat /\ S # {}
      BY <1>10
    <3>2. Biggest(S) \in S /\ \A k \in S : k <= Biggest(S)
      BY <1>1, <1>10, <3>1, BiggestIs
    <3>3. Biggest(S) <= n /\ n <= Biggest(S) /\ Biggest(S) \in Nat
      BY <1>10, <3>2
    <3> QED
      BY <1>1, <3>3
  <2> QED
    BY <2>1 DEF HighestContiguous, S
<1>12. e.mark = [d.mark EXCEPT ![m] = n]
  <2>1. w = [log |-> w.log, rows |-> w.rows, mark |-> d.mark]
    BY <1>6 DEF StoreOK
  <2>2. Counted(w, o) = [w EXCEPT !.mark[m] = HighestContiguous(w, @)]
    BY <1>1, <1>7 DEF Counted, m
  <2>3. Counted(w, o).mark = [d.mark EXCEPT ![m] = HighestContiguous(w, @)]
    BY <2>1, <2>2
  <2> QED
    BY <1>11, <2>3
<1>13. e.mark[m] = n /\ \A q \in Module \ {m} : e.mark[q] = d.mark[q]
  BY <1>2, <1>12 DEF StoreOK
<1>14. Held(e) = Held(w) /\ Arrivals(e) = Arrivals(w)
  BY DEF Held, Arrivals
<1>15. Within(e, n)
  <2>1. \A p \in Held(e) : e.log[p].arrival <= n
    <3>1. \A p \in Held(d) : d.log[p].arrival \in Nat
      BY DEF StoreOK, LogRow
    <3> QED
      BY <1>1, <1>6, <1>7, <1>14, <3>1
  <2>2. \A q \in Module : e.mark[q] <= n
    BY <1>1, <1>13
  <2> QED
    BY <2>1, <2>2 DEF Within
<1>16. NextArrival(e) \in Nat /\ NextArrival(e) <= n + 1
  BY <1>1, <1>15, NextIs
<1>17. AllCounted(e)
  <2> SUFFICES ASSUME NEW p \in Held(e) PROVE e.log[p].arrival <= e.mark[ModuleOf[RecordOf[p]]]
    BY DEF AllCounted
  <2>1. CASE ModuleOf[RecordOf[p]] = m
    BY <2>1, <1>13, <1>15 DEF Within
  <2>2. CASE ModuleOf[RecordOf[p]] # m
    <3>1. p # o /\ p \in Held(d) /\ e.log[p] = d.log[p] /\ ModuleOf[RecordOf[p]] \in Module \ {m}
      BY <1>6, <1>14, <2>2 DEF m, StoreOK, StoreConstants
    <3>2. d.log[p].arrival <= d.mark[ModuleOf[RecordOf[p]]]
      BY <3>1 DEF Numbered, AllCounted
    <3> QED
      BY <1>13, <3>1, <3>2
  <2> QED
    BY <2>1, <2>2
<1>18. ASSUME NEW q \in Module, NEW k \in Nat, e.mark[q] < k, k < NextArrival(e) PROVE k \in Arrivals(e)
  <2>1. k <= n
    BY <1>1, <1>16, <1>18
  <2>2. CASE k = n
    BY <2>2, <1>8, <1>14
  <2>3. CASE k # n
    <3>1. k < n
      BY <1>1, <2>1, <2>3
    <3>2. q # m
      BY <1>1, <1>13, <1>18, <3>1
    <3>3. d.mark[q] < k
      BY <1>13, <1>18, <3>2
    <3>4. k \in Arrivals(d)
      BY <3>1, <3>3 DEF Numbered, n
    <3> QED
      BY <1>8, <1>14, <3>4
  <2> QED
    BY <2>2, <2>3
<1> QED
  BY <1>17, <1>18 DEF Numbered

----------------------------------------------------------------------------
(* Orders by counting hold what they order.                                  *)

AheadOf(S, rank, s) == {p \in S : rank[p] < rank[s]}
PlacesTaken(S, rank) ==
    /\ \A s \in S : Cardinality(AheadOf(S, rank, s)) + 1 \in 1..Cardinality(S)
    /\ \A s, t \in S : Cardinality(AheadOf(S, rank, s)) = Cardinality(AheadOf(S, rank, t)) => s = t
    /\ \A n \in 1..Cardinality(S) : \E s \in S : Cardinality(AheadOf(S, rank, s)) = n - 1

\* Counting what is ahead of it, every place of a finite order is taken once.
LEMMA EveryPlaceIsTaken ==
    ASSUME NEW S, IsFiniteSet(S), NEW rank, \A s \in S : rank[s] \in Nat, \A s, t \in S : rank[s] = rank[t] => s = t
    PROVE  PlacesTaken(S, rank)
<1> DEFINE Ahead(s) == AheadOf(S, rank, s)
           k == Cardinality(S)
           T == 1..k
           f == [s \in S |-> Cardinality(Ahead(s)) + 1]
<1>1. k \in Nat
  BY FS_CardinalityType
<1>2. ASSUME NEW s \in S PROVE IsFiniteSet(Ahead(s)) /\ Cardinality(Ahead(s)) \in Nat /\ Cardinality(Ahead(s)) + 1 \in T
  <2>1. Ahead(s) \in SUBSET (S \ {s})
    BY DEF AheadOf
  <2>2. IsFiniteSet(S \ {s}) /\ Cardinality(S \ {s}) = k - 1
    BY FS_RemoveElement
  <2>3. IsFiniteSet(Ahead(s)) /\ Cardinality(Ahead(s)) <= k - 1
    BY <2>1, <2>2, FS_Subset
  <2>4. Cardinality(Ahead(s)) \in Nat
    BY <2>3, FS_CardinalityType
  <2> HIDE DEF Ahead, k
  <2> QED
    BY <1>1, <2>3, <2>4
<1>3. ASSUME NEW s \in S, NEW t \in S, rank[s] < rank[t] PROVE Cardinality(Ahead(s)) < Cardinality(Ahead(t))
  <2>1. Ahead(s) \cup {s} \in SUBSET Ahead(t) /\ s \notin Ahead(s)
    BY <1>3 DEF AheadOf
  <2>2. Cardinality(Ahead(s) \cup {s}) = Cardinality(Ahead(s)) + 1
    BY <1>2, <2>1, FS_AddElement
  <2>3. Cardinality(Ahead(s) \cup {s}) <= Cardinality(Ahead(t))
    BY <1>2, <2>1, FS_Subset
  <2> HIDE DEF Ahead
  <2> QED
    BY <1>2, <2>2, <2>3
<1>4. ASSUME NEW s \in S, NEW t \in S, Cardinality(Ahead(s)) = Cardinality(Ahead(t)) PROVE s = t
  <2>1. CASE rank[s] < rank[t]
    <3>1. Cardinality(Ahead(s)) < Cardinality(Ahead(t))
      BY <1>3, <2>1
    <3> HIDE DEF Ahead
    <3> QED
      BY <1>2, <1>4, <3>1
  <2>2. CASE rank[t] < rank[s]
    <3>1. Cardinality(Ahead(t)) < Cardinality(Ahead(s))
      BY <1>3, <2>2
    <3> HIDE DEF Ahead
    <3> QED
      BY <1>2, <1>4, <3>1
  <2> QED
    BY <2>1, <2>2
<1> HIDE DEF Ahead, k
<1>5. f \in Injection(S, T)
  BY <1>2, <1>4 DEF Injection, IsInjective
<1>6. IsFiniteSet(T) /\ Cardinality(T) = k
  BY <1>1, FS_Interval
<1>7. f \in Surjection(S, T)
  BY <1>5, <1>6, FS_Injection DEF k
<1>8. ASSUME NEW n \in T PROVE \E s \in S : Cardinality(Ahead(s)) = n - 1
  <2>1. PICK s \in S : f[s] = n
    BY <1>7 DEF Surjection
  <2> QED
    BY <1>2, <2>1
<1> QED
  BY <1>2, <1>4, <1>8 DEF Ahead, k, PlacesTaken

LEMMA OrderHolds ==
    ASSUME StoreConstants, NEW S \in SUBSET Op, IsFiniteSet(S)
    PROVE  /\ Cardinality(S) \in Nat /\ InOrder(S) \in [1..Cardinality(S) -> S]
           /\ \A s \in S : \E n \in 1..Cardinality(S) : InOrder(S)[n] = s
<1> DEFINE Ahead(s) == {p \in S : Place[p] < Place[s]}
           k == Cardinality(S)
<1>1. /\ \A s \in S : Cardinality(Ahead(s)) + 1 \in 1..k
      /\ \A s, t \in S : Cardinality(Ahead(s)) = Cardinality(Ahead(t)) => s = t
      /\ \A n \in 1..k : \E s \in S : Cardinality(Ahead(s)) = n - 1
  <2>1. \A s \in S : Place[s] \in Nat
    BY DEF StoreConstants
  <2>2. \A s, t \in S : Place[s] = Place[t] => s = t
    BY DEF StoreConstants
  <2>3. PlacesTaken(S, Place)
    BY <2>1, <2>2, EveryPlaceIsTaken
  <2>4. \A s : Ahead(s) = AheadOf(S, Place, s)
    BY DEF AheadOf
  <2> HIDE DEF Ahead
  <2> QED
    BY <2>3, <2>4 DEF PlacesTaken
<1>2. InOrder(S) = [n \in 1..k |-> CHOOSE s \in S : Cardinality(Ahead(s)) = n - 1]
  BY DEF InOrder
<1>3. k \in Nat /\ \A s \in S : Cardinality(Ahead(s)) \in Nat
  <2>1. \A s \in S : Ahead(s) \in SUBSET S
    OBVIOUS
  <2> QED
    BY <2>1, FS_Subset, FS_CardinalityType
<1> HIDE DEF Ahead, k
<1>4. \A n \in 1..k : InOrder(S)[n] \in S /\ Cardinality(Ahead(InOrder(S)[n])) = n - 1
  BY <1>1, <1>2
<1>5. ASSUME NEW s \in S PROVE \E n \in 1..k : InOrder(S)[n] = s
  <2> DEFINE n == Cardinality(Ahead(s)) + 1
  <2>1. n \in 1..k /\ n - 1 = Cardinality(Ahead(s))
    BY <1>1, <1>3
  <2>2. InOrder(S)[n] \in S /\ Cardinality(Ahead(InOrder(S)[n])) = n - 1
    BY <1>4, <2>1
  <2> QED
    BY <1>1, <2>1, <2>2
<1>6. InOrder(S) \in [1..k -> S]
  BY <1>2, <1>4
<1> QED
  BY <1>3, <1>5, <1>6 DEF k

\* Nothing is held by, folded into or counted by the store of a new device.
LEMMA EmptyIsSound ==
    /\ Held(EmptyStore) = {} /\ Numbered(EmptyStore)
    /\ \A folds : Sound(EmptyStore, folds)
<1> DEFINE d == EmptyStore
<1>1. d = [log |-> <<>>, rows |-> [r \in Record |-> <<>>], mark |-> [m \in Module |-> 0]]
  BY DEF EmptyStore
<1> HIDE DEF d
<1>2. Held(d) = {} /\ d.log = [o \in Held(d) |-> d.log[o]]
  BY <1>1 DEF Held
<1>3. IsList(<<>>)
  <2>1. <<>> = [i \in 1..0 |-> <<>>[i]]
    OBVIOUS
  <2> QED
    BY <2>1 DEF IsList
<1>4. \A r \in Record : d.rows[r] = <<>>
  BY <1>1
<1>5. StoreOK(d)
  <2>1. d.mark \in [Module -> Nat] /\ \A m \in Module : d.mark[m] = 0
    BY <1>1
  <2>2. d.rows = [r \in Record |-> d.rows[r]] /\ d = [log |-> d.log, rows |-> d.rows, mark |-> d.mark]
    BY <1>1
  <2>3. Within(d, 0)
    BY <1>2, <2>1 DEF Within
  <2>4. \E k \in Nat : Within(d, k)
    BY <2>3
  <2> QED
    BY <1>2, <1>3, <1>4, <2>1, <2>2, <2>4, FS_EmptySet DEF StoreOK
<1>6. ASSUME NEW folds PROVE RowsMatch(d, folds)
  <2>1. Cardinality({}) = 0
    BY FS_EmptySet
  <2>2. InOrder({}) = <<>>
    BY <2>1 DEF InOrder
  <2>3. \A r \in Record : Foldable(d, folds, r) = {}
    BY <1>2 DEF Foldable
  <2>4. [i \in DOMAIN <<>> |-> <<>>[i][1]] = <<>>
    OBVIOUS
  <2> QED
    BY <1>4, <2>2, <2>3, <2>4 DEF RowsMatch, FoldsTo
<1>7. ASSUME NEW folds PROVE Sound(d, folds)
  BY <1>2, <1>5, <1>6 DEF Sound, PulledIsReadable
<1>8. Numbered(d)
  <2>1. Within(d, 0)
    BY <1>1, <1>2 DEF Within
  <2>2. NextArrival(d) \in Nat /\ NextArrival(d) <= 1
    BY <1>5, <2>1, NextIs
  <2>3. \A m \in Module, k \in Nat : ~(d.mark[m] < k /\ k < NextArrival(d))
    BY <1>1, <2>2
  <2> QED
    BY <1>2, <2>3 DEF Numbered, AllCounted
<1> QED
  BY <1>2, <1>7, <1>8 DEF d
=============================================================================
