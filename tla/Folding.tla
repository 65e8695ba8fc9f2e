------------------------------- MODULE Folding -------------------------------
(***************************************************************************)
(* Going along a list, one element after another.  The lemmas are what a   *)
(* proof needs of it: where it begins, what one more element does, and the *)
(* inductions by which a fact about all lists or finite sets is shown.     *)
(***************************************************************************)
EXTENDS Integers, Sequences, FiniteSets, TLAPS, FiniteSetTheorems, SequenceTheorems

CONSTANTS Step(_, _),   \* a state and an element -> the state after it
          Before(_, _)  \* the order in which the elements of a set are taken

\* Along a list, from its first element to its last.
Along(x, list) ==
    LET after[n \in 0..Len(list)] == IF n = 0 THEN x ELSE Step(after[n - 1], list[n])
    IN  after[Len(list)]

\* Along a set, from its first element to its last.
Latest(T) == CHOOSE o \in T : \A p \in T \ {o} : Before(p, o)
InOrder(x, S) ==
    LET after[T \in SUBSET S] == IF T = {} THEN x ELSE Step(after[T \ {Latest(T)}], Latest(T))
    IN  after[S]

-----------------------------------------------------------------------------
(* Inductions, on sets rather than on predicates. *)

\* Some numbers have a least.
LEMMA FirstNumber ==
    ASSUME NEW S \in SUBSET Nat, S # {}
    PROVE  \E m \in S : \A n \in S : m <= n
<1> DEFINE R == {ss \in Nat \X Nat : ss[1] < ss[2]}
<1>1. IsWellFoundedOn(R, Nat)
  BY NatLessThanWellFounded DEF OpToRel
<1>2. PICK m \in S : \A n \in S : ~(<<n, m>> \in R)
  <2> HIDE DEF R
  <2> QED
    BY <1>1, WFMin
<1>3. ASSUME NEW n \in S PROVE m <= n
  <2>1. m \in Nat /\ n \in Nat /\ ~(<<n, m>> \in R)
    BY <1>2
  <2>2. ~(n < m)
    BY <2>1
  <2> QED
    BY <2>1, <2>2
<1> QED
  BY <1>3

\* Counting up from zero reaches every number.
LEMMA Counting ==
    ASSUME NEW G, 0 \in G, \A n \in Nat : n \in G => n + 1 \in G
    PROVE  \A n \in Nat : n \in G
<1> DEFINE Bad == {n \in Nat : n \notin G}
<1> SUFFICES ASSUME Bad # {} PROVE FALSE
  OBVIOUS
<1>1. PICK m \in Bad : \A n \in Bad : m <= n
  <2>1. Bad \in SUBSET Nat
    OBVIOUS
  <2> QED
    BY <2>1, FirstNumber
<1>2. m - 1 \in Nat /\ m - 1 \notin Bad
  BY <1>1
<1>3. m - 1 \in G /\ (m - 1) + 1 = m
  BY <1>2
<1> QED
  BY <1>1, <1>3

\* What holds of nothing and of one more holds of every list,
LEMMA ListInduction ==
    ASSUME NEW S, NEW G, <<>> \in G,
           \A q \in Seq(S), o \in S : q \in G => Append(q, o) \in G
    PROVE  \A q \in Seq(S) : q \in G
<1> DEFINE L == {n \in Nat : \A q \in Seq(S) : Len(q) = n => q \in G}
<1>1. 0 \in L
  <2>1. \A q \in Seq(S) : Len(q) = 0 => q = <<>>
    BY EmptySeq
  <2> QED
    BY <2>1
<1>2. ASSUME NEW n \in Nat, n \in L PROVE n + 1 \in L
  <2>1. ASSUME NEW q \in Seq(S), Len(q) = n + 1 PROVE q \in G
    <3> DEFINE front == SubSeq(q, 1, n)
    <3>1. front \in Seq(S) /\ Len(front) = n /\ q[n + 1] \in S
      BY <2>1
    <3>2. q = Append(front, q[n + 1])
      <4>1. Append(front, q[n + 1]) \in Seq(S) /\ Len(Append(front, q[n + 1])) = n + 1
        BY <3>1
      <4>2. \A i \in 1..(n + 1) : Append(front, q[n + 1])[i] = q[i]
        BY <2>1, <3>1
      <4> QED
        BY <2>1, <4>1, <4>2, SeqEqual
    <3> HIDE DEF front
    <3>3. front \in G
      BY <1>2, <3>1
    <3> QED
      BY <3>1, <3>2, <3>3
  <2> QED
    BY <2>1
<1> HIDE DEF L
<1>3. \A n \in Nat : n \in L
  BY <1>1, <1>2, Counting
<1> QED
  <2>1. ASSUME NEW q \in Seq(S) PROVE q \in G
    <3>1. Len(q) \in Nat
      OBVIOUS
    <3>2. Len(q) \in L
      BY <1>3, <3>1
    <3> QED
      BY <3>2 DEF L
  <2> QED
    BY <2>1

\* and of every finite set.
LEMMA SetInduction ==
    ASSUME NEW S, NEW G, {} \in G,
           \A T \in SUBSET S : \A x \in S \ T : IsFiniteSet(T) /\ T \in G => T \cup {x} \in G
    PROVE  \A T \in SUBSET S : IsFiniteSet(T) => T \in G
<1> DEFINE L == {n \in Nat : \A T \in SUBSET S : IsFiniteSet(T) /\ Cardinality(T) = n => T \in G}
<1>1. 0 \in L
  BY FS_EmptySet
<1>2. ASSUME NEW n \in Nat, n \in L PROVE n + 1 \in L
  <2>1. ASSUME NEW T \in SUBSET S, IsFiniteSet(T), Cardinality(T) = n + 1 PROVE T \in G
    <3>1. PICK x \in T : TRUE
      BY <2>1, FS_EmptySet
    <3>2. IsFiniteSet(T \ {x}) /\ Cardinality(T \ {x}) = n
      <4>1. IsFiniteSet(T \ {x}) /\ Cardinality(T \ {x}) = Cardinality(T) - 1
        BY <2>1, FS_RemoveElement
      <4>2. (n + 1) - 1 = n
        OBVIOUS
      <4> QED
        BY <2>1, <4>1, <4>2
    <3>3. T \ {x} \in G /\ T \ {x} \in SUBSET S /\ x \in S \ (T \ {x})
      BY <1>2, <3>2
    <3>4. (T \ {x}) \cup {x} \in G
      BY <3>2, <3>3
    <3>5. (T \ {x}) \cup {x} = T
      OBVIOUS
    <3> QED
      BY <3>4, <3>5
  <2> QED
    BY <2>1
<1> HIDE DEF L
<1>3. \A n \in Nat : n \in L
  BY <1>1, <1>2, Counting
<1> QED
  BY <1>3, FS_CardinalityType DEF L

-----------------------------------------------------------------------------
(* Along a list. *)

Steps(x, list, k, g) == g = [n \in 0..k |-> IF n = 0 THEN x ELSE Step(g[n - 1], list[n])]

\* The steps along a list can be taken one by one.
LEMMA StepsExist == ASSUME NEW x, NEW list PROVE \A k \in Nat : \E g : Steps(x, list, k, g)
<1> DEFINE G == {k \in Nat : \E g : Steps(x, list, k, g)}
<1>1. 0 \in G
  <2>1. [n \in 0..0 |-> x] = [n \in 0..0 |-> IF n = 0 THEN x ELSE Step([j \in 0..0 |-> x][n - 1], list[n])]
    OBVIOUS
  <2> QED
    BY <2>1 DEF Steps
<1>2. ASSUME NEW k \in Nat, k \in G PROVE k + 1 \in G
  <2>1. PICK g : g = [n \in 0..k |-> IF n = 0 THEN x ELSE Step(g[n - 1], list[n])]
    BY <1>2 DEF Steps
  <2> DEFINE last == Step(g[k], list[k + 1])
             h == [n \in 0..(k + 1) |-> IF n = k + 1 THEN last ELSE g[n]]
  <2>2. \A n \in 0..(k + 1) : h[n] = IF n = 0 THEN x ELSE Step(h[n - 1], list[n])
    <3> TAKE n \in 0..(k + 1)
    <3>1. CASE n = k + 1
      <4>1. h[n] = last /\ h[n - 1] = g[k] /\ n # 0
        <5> HIDE DEF last
        <5> QED
          BY <3>1
      <4> QED
        BY <3>1, <4>1
    <3>2. CASE n # k + 1
      <4>1. n \in 0..k /\ h[n] = g[n]
        BY <3>2
      <4>2. n # 0 => h[n - 1] = g[n - 1]
        BY <3>2
      <4> HIDE DEF h
      <4> QED
        BY <2>1, <4>1, <4>2
    <3> QED
      BY <3>1, <3>2
  <2>3. h = [n \in 0..(k + 1) |-> h[n]]
    OBVIOUS
  <2> HIDE DEF h
  <2>4. h = [n \in 0..(k + 1) |-> IF n = 0 THEN x ELSE Step(h[n - 1], list[n])]
    BY <2>2, <2>3
  <2> QED
    BY <2>4 DEF Steps
<1> HIDE DEF G
<1>3. \A k \in Nat : k \in G
  BY <1>1, <1>2, Counting
<1> QED
  BY <1>3 DEF G

\* Going along a list takes its steps.
LEMMA AlongTakes ==
    ASSUME NEW x, NEW list, Len(list) \in Nat
    PROVE  \E g : Steps(x, list, Len(list), g) /\ Along(x, list) = g[Len(list)]
<1>1. \E g : Steps(x, list, Len(list), g)
  BY StepsExist
<1>2. Along(x, list) = (CHOOSE g : Steps(x, list, Len(list), g))[Len(list)]
  BY DEF Along, Steps
<1>3. Steps(x, list, Len(list), CHOOSE g : Steps(x, list, Len(list), g))
  BY <1>1
<1> QED
  BY <1>2, <1>3

\* Along nothing, nothing changes.
LEMMA AlongNothing == ASSUME NEW x PROVE Along(x, <<>>) = x
<1>1. PICK g : Steps(x, <<>>, 0, g) /\ Along(x, <<>>) = g[0]
  <2>1. Len(<<>>) = 0
    OBVIOUS
  <2> QED
    BY <2>1, AlongTakes
<1> QED
  BY <1>1 DEF Steps

\* One more element is one more step.
LEMMA AlongMore ==
    ASSUME NEW S, NEW list \in Seq(S), NEW o \in S, NEW x
    PROVE  Along(x, Append(list, o)) = Step(Along(x, list), o)
<1> DEFINE k == Len(list)
           more == Append(list, o)
<1>1. k \in Nat /\ Len(more) = k + 1 /\ more[k + 1] = o /\ \A n \in 1..k : more[n] = list[n]
  OBVIOUS
<1> HIDE DEF k, more
<1>2. PICK g : Steps(x, list, k, g) /\ Along(x, list) = g[k]
  BY <1>1, AlongTakes DEF k
<1>3. PICK h : Steps(x, more, k + 1, h) /\ Along(x, more) = h[k + 1]
  <2>1. Len(more) \in Nat
    BY <1>1
  <2> QED
    BY <1>1, <2>1, AlongTakes
<1> DEFINE Same == {n \in Nat : n <= k => h[n] = g[n]}
<1>4. 0 \in Same
  BY <1>1, <1>2, <1>3 DEF Steps
<1>5. ASSUME NEW n \in Nat, n \in Same PROVE n + 1 \in Same
  <2>1. SUFFICES ASSUME n + 1 <= k PROVE h[n + 1] = g[n + 1]
    OBVIOUS
  <2>2. n + 1 \in 0..k /\ n + 1 \in 0..(k + 1) /\ n + 1 \in 1..k /\ n + 1 # 0 /\ (n + 1) - 1 = n /\ h[n] = g[n]
    BY <1>1, <1>5, <2>1
  <2>3. g[n + 1] = Step(g[n], list[n + 1])
    BY <1>2, <2>2 DEF Steps
  <2>4. h[n + 1] = Step(h[n], more[n + 1])
    BY <1>3, <2>2 DEF Steps
  <2> QED
    BY <1>1, <2>2, <2>3, <2>4
<1> HIDE DEF Same
<1>6. \A n \in Nat : n \in Same
  BY <1>4, <1>5, Counting
<1>7. h[k] = g[k]
  BY <1>1, <1>6 DEF Same
<1>8. h[k + 1] = Step(h[k], more[k + 1])
  <2>1. k + 1 \in 0..(k + 1) /\ k + 1 # 0 /\ (k + 1) - 1 = k
    BY <1>1
  <2> QED
    BY <1>3, <2>1 DEF Steps
<1> QED
  BY <1>1, <1>2, <1>3, <1>7, <1>8 DEF more

\* What holds before a list and with each of its elements holds after it.
LEMMA AlongKeeps ==
    ASSUME NEW S, NEW list \in Seq(S), NEW Y, NEW G \in SUBSET (Y \X Nat), NEW x, <<x, 0>> \in G,
           \A y \in Y, n \in Nat : n < Len(list) /\ <<y, n>> \in G => <<Step(y, list[n + 1]), n + 1>> \in G
    PROVE  <<Along(x, list), Len(list)>> \in G
<1> DEFINE k == Len(list)
<1>1. k \in Nat
  OBVIOUS
<1> HIDE DEF k
<1>2. PICK g : Steps(x, list, k, g) /\ Along(x, list) = g[k]
  BY <1>1, AlongTakes DEF k
<1> DEFINE Kept == {n \in Nat : n <= k => <<g[n], n>> \in G}
<1>3. 0 \in Kept
  <2>1. 0 \in 0..k
    BY <1>1
  <2>2. g[0] = x
    BY <1>2, <2>1 DEF Steps
  <2> QED
    BY <2>2
<1>4. ASSUME NEW n \in Nat, n \in Kept PROVE n + 1 \in Kept
  <2> SUFFICES ASSUME n + 1 <= k PROVE <<g[n + 1], n + 1>> \in G
    OBVIOUS
  <2>1. n < k /\ n <= k /\ n + 1 \in 0..k /\ n + 1 # 0 /\ (n + 1) - 1 = n
    BY <1>1
  <2>2. <<g[n], n>> \in G
    BY <1>4, <2>1
  <2>3. g[n] \in Y
    BY <2>2
  <2>4. <<Step(g[n], list[n + 1]), n + 1>> \in G
    BY <2>1, <2>2, <2>3 DEF k
  <2>5. g[n + 1] = Step(g[n], list[n + 1])
    BY <1>2, <2>1 DEF Steps
  <2> QED
    BY <2>4, <2>5
<1> HIDE DEF Kept
<1>5. \A n \in Nat : n \in Kept
  BY <1>3, <1>4, Counting
<1>6. <<g[k], k>> \in G
  BY <1>1, <1>5 DEF Kept
<1> QED
  BY <1>2, <1>6 DEF k

\* Where a list is sifted into another, which keeps what it had: so far along the list.
Sifted(S, x, list) ==
    {p \in Seq(S) \X Nat :
        /\ p[2] <= Len(list)
        /\ Len(x) <= Len(p[1]) /\ \A i \in 1..Len(x) : p[1][i] = x[i]
        /\ \A i \in 1..Len(p[1]) : i > Len(x) => \E j \in 1..p[2] : p[1][i] = list[j]
        /\ \A i, j \in 1..Len(p[1]) : p[1][i] = p[1][j] => i = j}

\* Sifting one more of the list: it is left out, or put at the end.
LEMMA SiftOne ==
    ASSUME NEW S, NEW list \in Seq(S), NEW x \in Seq(S), NEW y, NEW n,
           \A i, j \in 1..Len(list) : list[i] = list[j] => i = j,
           \A i \in 1..Len(x), j \in 1..Len(list) : x[i] # list[j],
           <<y, n>> \in Sifted(S, x, list), n < Len(list)
    PROVE  /\ <<y, n + 1>> \in Sifted(S, x, list) /\ <<Append(y, list[n + 1]), n + 1>> \in Sifted(S, x, list)
           /\ \A i \in 1..Len(y) : y[i] # list[n + 1]
<1> DEFINE o == list[n + 1]
           more == Append(y, o)
<1>1. y \in Seq(S) /\ n \in Nat /\ Len(x) <= Len(y) /\ (\A i \in 1..Len(x) : y[i] = x[i])
      /\ (\A i \in 1..Len(y) : i > Len(x) => \E j \in 1..n : y[i] = list[j])
      /\ \A i, j \in 1..Len(y) : y[i] = y[j] => i = j
  BY DEF Sifted
<1>2. Len(list) \in Nat /\ Len(x) \in Nat /\ Len(y) \in Nat /\ n + 1 \in 1..Len(list) /\ o \in S
  BY <1>1
<1>3. \A i \in 1..Len(y) : y[i] # o
  <2> TAKE i \in 1..Len(y)
  <2>1. CASE i > Len(x)
    <3>1. PICK j \in 1..n : y[i] = list[j]
      BY <1>1, <2>1
    <3>2. j \in 1..Len(list) /\ j # n + 1
      BY <1>2, <1>1
    <3> QED
      BY <1>2, <3>1, <3>2
  <2>2. CASE ~(i > Len(x))
    <3>1. i \in 1..Len(x)
      BY <1>2, <2>2
    <3> QED
      BY <1>1, <1>2, <3>1
  <2> QED
    BY <2>1, <2>2
<1>4. \A j \in 1..n : j \in 1..(n + 1)
  BY <1>1
<1>5. n + 1 \in Nat /\ n + 1 <= Len(list) /\ n + 1 \in 1..(n + 1)
  BY <1>1, <1>2
<1>6. <<y, n + 1>> \in Sifted(S, x, list)
  BY <1>1, <1>4, <1>5 DEF Sifted
<1>7. more \in Seq(S) /\ Len(more) = Len(y) + 1 /\ more[Len(y) + 1] = o /\ \A i \in 1..Len(y) : more[i] = y[i]
  BY <1>1, <1>2
<1> HIDE DEF more, o
<1>8. \A i \in 1..Len(more) : i \in 1..Len(y) \/ i = Len(y) + 1
  BY <1>2, <1>7
<1>9. <<more, n + 1>> \in Sifted(S, x, list)
  <2>1. Len(x) <= Len(more) /\ \A i \in 1..Len(x) : more[i] = x[i]
    <3>1. Len(x) <= Len(more) /\ \A i \in 1..Len(x) : i \in 1..Len(y)
      BY <1>1, <1>2, <1>7
    <3> QED
      BY <1>1, <1>7, <3>1
  <2>2. \A i \in 1..Len(more) : i > Len(x) => \E j \in 1..(n + 1) : more[i] = list[j]
    BY <1>1, <1>4, <1>5, <1>7, <1>8 DEF o
  <2>3. \A i, j \in 1..Len(more) : more[i] = more[j] => i = j
    <3> TAKE i, j \in 1..Len(more)
    <3> HAVE more[i] = more[j]
    <3>1. CASE i \in 1..Len(y) /\ j \in 1..Len(y)
      BY <1>1, <1>7, <3>1
    <3>2. CASE i \notin 1..Len(y) \/ j \notin 1..Len(y)
      BY <1>3, <1>7, <1>8, <3>2
    <3> QED
      BY <3>1, <3>2
  <2> QED
    BY <1>5, <1>7, <2>1, <2>2, <2>3 DEF Sifted
<1> QED
  BY <1>3, <1>6, <1>9 DEF more, o

\* A list sifted into another, each element appended or left out, with what
\* holds all along.
LEMMA Sifting ==
    ASSUME NEW S, NEW list \in Seq(S), NEW x \in Seq(S), NEW G,
           \A i, j \in 1..Len(list) : list[i] = list[j] => i = j,
           \A i, j \in 1..Len(x) : x[i] = x[j] => i = j,
           \A i \in 1..Len(x), j \in 1..Len(list) : x[i] # list[j],
           \A y \in Seq(S), o \in S : Step(y, o) \in {y, Append(y, o)},
           <<x, 0>> \in G,
           \A y \in Seq(S), n \in Nat :
               n < Len(list) /\ <<y, n>> \in Sifted(S, x, list) /\ <<y, n>> \in G
                   => <<Step(y, list[n + 1]), n + 1>> \in G
    PROVE  <<Along(x, list), Len(list)>> \in Sifted(S, x, list) \cap G
<1> DEFINE H == Sifted(S, x, list) \cap G
<1>1. <<x, 0>> \in H
  <2>1. 0 \in Nat /\ 0 <= Len(list) /\ Len(x) <= Len(x) /\ \A i \in 1..Len(x) : ~(i > Len(x))
    OBVIOUS
  <2> QED
    BY <2>1 DEF Sifted
<1>2. ASSUME NEW y \in Seq(S), NEW n \in Nat, n < Len(list), <<y, n>> \in H
      PROVE  <<Step(y, list[n + 1]), n + 1>> \in H
  <2>1. list[n + 1] \in S
    <3>1. n + 1 \in 1..Len(list)
      BY <1>2
    <3> QED
      BY <3>1
  <2>2. Step(y, list[n + 1]) = y \/ Step(y, list[n + 1]) = Append(y, list[n + 1])
    BY <2>1
  <2>3. <<y, n + 1>> \in Sifted(S, x, list) /\ <<Append(y, list[n + 1]), n + 1>> \in Sifted(S, x, list)
    BY <1>2, SiftOne
  <2>4. <<Step(y, list[n + 1]), n + 1>> \in Sifted(S, x, list)
    BY <2>2, <2>3
  <2> QED
    BY <1>2, <2>4
<1>3. H \in SUBSET (Seq(S) \X Nat)
  BY DEF Sifted
<1> HIDE DEF H
<1>4. <<Along(x, list), Len(list)>> \in H
  BY <1>1, <1>2, <1>3, AlongKeeps
<1> QED
  BY <1>4 DEF H

-----------------------------------------------------------------------------
(* Along a set. *)

\* The elements of U come one before the other.
InLine(U) ==
    /\ \A a, b \in U : a # b => Before(a, b) \/ Before(b, a)
    /\ \A a, b \in U : ~(Before(a, b) /\ Before(b, a))
    /\ \A a, b, c \in U : Before(a, b) /\ Before(b, c) => Before(a, c)

\* What all others come before is the latest.
LEMMA LatestIs ==
    ASSUME NEW U, InLine(U), NEW S \in SUBSET U, NEW o \in S, \A p \in S \ {o} : Before(p, o)
    PROVE  Latest(S) = o
<1> DEFINE l == CHOOSE l \in S : \A p \in S \ {l} : Before(p, l)
<1>1. l \in S /\ \A p \in S \ {l} : Before(p, l)
  OBVIOUS
<1>2. l = Latest(S)
  BY DEF Latest
<1> HIDE DEF l
<1> QED
  BY <1>1, <1>2 DEF InLine

\* Finitely many in line have a latest.
LEMMA SomeIsLatest ==
    ASSUME NEW U, InLine(U)
    PROVE  \A S \in SUBSET U : IsFiniteSet(S) /\ S # {} => \E o \in S : \A p \in S \ {o} : Before(p, o)
<1> DEFINE G == {S \in SUBSET U : S # {} => \E o \in S : \A p \in S \ {o} : Before(p, o)}
<1>1. {} \in G
  OBVIOUS
<1>2. ASSUME NEW T \in SUBSET U, NEW x \in U \ T, T \in G PROVE T \cup {x} \in G
  <2>1. T \cup {x} \in SUBSET U /\ x \in U
    OBVIOUS
  <2>2. \E o \in T \cup {x} : \A p \in (T \cup {x}) \ {o} : Before(p, o)
    <3>1. CASE T = {}
      BY <3>1
    <3>2. CASE T # {}
      <4>1. PICK o \in T : \A p \in T \ {o} : Before(p, o)
        BY <1>2, <3>2
      <4>2. o # x /\ o \in U
        OBVIOUS
      <4>3. CASE Before(x, o)
        BY <4>1, <4>3
      <4>4. CASE Before(o, x)
        <5>1. \A p \in T : Before(p, x)
          BY <2>1, <4>1, <4>2, <4>4 DEF InLine
        <5> QED
          BY <5>1
      <4> QED
        BY <2>1, <4>2, <4>3, <4>4 DEF InLine
    <3> QED
      BY <3>1, <3>2
  <2> HIDE DEF G
  <2> QED
    BY <2>1, <2>2 DEF G
<1> HIDE DEF G
<1>3. \A T \in SUBSET U : IsFiniteSet(T) => T \in G
  BY <1>1, <1>2, SetInduction
<1> QED
  BY <1>3 DEF G

\* Taking the latest away leaves one fewer.
LEMMA LatestTakes ==
    ASSUME NEW U, InLine(U), NEW S \in SUBSET U, IsFiniteSet(S), S # {}
    PROVE  /\ Latest(S) \in S /\ \A p \in S \ {Latest(S)} : Before(p, Latest(S))
           /\ IsFiniteSet(S \ {Latest(S)}) /\ Cardinality(S) \in Nat \ {0}
           /\ Cardinality(S \ {Latest(S)}) = Cardinality(S) - 1
<1>1. PICK o \in S : \A p \in S \ {o} : Before(p, o)
  BY SomeIsLatest
<1>2. Latest(S) = o
  BY <1>1, LatestIs
<1>3. IsFiniteSet(S \ {o}) /\ Cardinality(S \ {o}) = Cardinality(S) - 1
  BY FS_RemoveElement
<1>4. Cardinality(S) \in Nat /\ Cardinality(S) # 0
  BY FS_CardinalityType, FS_EmptySet
<1> QED
  BY <1>1, <1>2, <1>3, <1>4

\* A fact that holds of nothing, and with a later element once it holds of the
\* earlier ones, holds of every finite set.
LEMMA OrderInduction ==
    ASSUME NEW U, InLine(U), NEW G, {} \in G,
           \A T \in SUBSET U : \A o \in U \ T :
               IsFiniteSet(T) /\ T \in G /\ (\A p \in T : Before(p, o)) => T \cup {o} \in G
    PROVE  \A S \in SUBSET U : IsFiniteSet(S) => S \in G
<1> DEFINE L == {n \in Nat : \A S \in SUBSET U : IsFiniteSet(S) /\ Cardinality(S) = n => S \in G}
<1>1. 0 \in L
  BY FS_EmptySet
<1>2. ASSUME NEW n \in Nat, n \in L PROVE n + 1 \in L
  <2>1. ASSUME NEW S \in SUBSET U, IsFiniteSet(S), Cardinality(S) = n + 1 PROVE S \in G
    <3>1. S # {}
      BY <2>1, FS_EmptySet
    <3> DEFINE o == Latest(S)
               T == S \ {o}
    <3>2. o \in S /\ (\A p \in T : Before(p, o)) /\ IsFiniteSet(T) /\ Cardinality(T) = Cardinality(S) - 1
      BY <2>1, <3>1, LatestTakes
    <3>3. Cardinality(T) = n
      <4>1. (n + 1) - 1 = n
        OBVIOUS
      <4> HIDE DEF T
      <4> QED
        BY <2>1, <3>2, <4>1
    <3>4. T \in SUBSET U /\ o \in U \ T /\ T \cup {o} = S
      BY <3>2
    <3>5. T \in G
      BY <1>2, <3>2, <3>3, <3>4
    <3> HIDE DEF T, o
    <3>6. T \cup {o} \in G
      BY <3>2, <3>4, <3>5
    <3> QED
      BY <3>4, <3>6
  <2> QED
    BY <2>1
<1> HIDE DEF L
<1>3. \A n \in Nat : n \in L
  BY <1>1, <1>2, Counting
<1> QED
  BY <1>3, FS_CardinalityType DEF L

Taken(x, g, T) == IF T = {} THEN x ELSE Step(g[T \ {Latest(T)}], Latest(T))
Takes(x, S, g) == g = [T \in SUBSET S |-> Taken(x, g, T)]

\* The steps along a set can be taken one by one.
LEMMA TakesExist ==
    ASSUME NEW U, InLine(U), NEW S \in SUBSET U, IsFiniteSet(S), NEW x
    PROVE  \E g : Takes(x, S, g)
<1> DEFINE L == {n \in Nat : \E g : \A T \in SUBSET S : Cardinality(T) <= n => g[T] = Taken(x, g, T)}
<1>0. \A T \in SUBSET S : IsFiniteSet(T) /\ Cardinality(T) \in Nat /\ Cardinality(T) <= Cardinality(S)
  BY FS_Subset, FS_CardinalityType
<1>1. 0 \in L
  <2> DEFINE g == [T \in SUBSET S |-> x]
  <2>1. ASSUME NEW T \in SUBSET S, Cardinality(T) <= 0 PROVE g[T] = Taken(x, g, T)
    <3>1. T = {}
      BY <1>0, <2>1, FS_EmptySet
    <3> QED
      BY <3>1 DEF Taken
  <2> QED
    BY <2>1
<1>2. ASSUME NEW n \in Nat, n \in L PROVE n + 1 \in L
  <2>1. PICK g : \A T \in SUBSET S : Cardinality(T) <= n => g[T] = Taken(x, g, T)
    BY <1>2
  <2> DEFINE h == [T \in SUBSET S |-> IF Cardinality(T) <= n THEN g[T] ELSE Taken(x, g, T)]
  <2>2. ASSUME NEW T \in SUBSET S, Cardinality(T) <= n + 1 PROVE h[T] = Taken(x, h, T)
    <3>1. h[T] = Taken(x, g, T)
      BY <2>1
    <3>2. CASE T = {}
      BY <3>1, <3>2 DEF Taken
    <3>3. CASE T # {}
      <4> DEFINE R == T \ {Latest(T)}
      <4>1. T \in SUBSET U /\ R \in SUBSET S
        OBVIOUS
      <4>2. Cardinality(R) = Cardinality(T) - 1
        BY <1>0, <3>3, <4>1, LatestTakes
      <4>3. Cardinality(R) <= n
        <5> HIDE DEF R
        <5> QED
          BY <1>0, <2>2, <4>2
      <4>4. h[R] = g[R]
        BY <4>1, <4>3
      <4> HIDE DEF h
      <4> QED
        BY <3>1, <3>3, <4>4 DEF Taken
    <3> QED
      BY <3>2, <3>3
  <2> HIDE DEF h
  <2> QED
    BY <2>2
<1> HIDE DEF L
<1>3. \A n \in Nat : n \in L
  BY <1>1, <1>2, Counting
<1>4. Cardinality(S) \in Nat /\ Cardinality(S) \in L
  BY <1>3, FS_CardinalityType
<1>5. PICK g : \A T \in SUBSET S : Cardinality(T) <= Cardinality(S) => g[T] = Taken(x, g, T)
  BY <1>4 DEF L
<1> DEFINE h == [T \in SUBSET S |-> g[T]]
<1>6. ASSUME NEW T \in SUBSET S PROVE h[T] = Taken(x, h, T)
  <2>1. h[T] = Taken(x, g, T)
    BY <1>0, <1>5
  <2>2. T \ {Latest(T)} \in SUBSET S
    OBVIOUS
  <2>3. h[T \ {Latest(T)}] = g[T \ {Latest(T)}]
    BY <2>2
  <2> HIDE DEF h
  <2> QED
    BY <2>1, <2>3 DEF Taken
<1>7. h = [T \in SUBSET S |-> h[T]]
  OBVIOUS
<1> HIDE DEF h
<1>8. h = [T \in SUBSET S |-> Taken(x, h, T)]
  BY <1>6, <1>7
<1> QED
  BY <1>8 DEF Takes

\* Going along a set takes its steps.
LEMMA InOrderTakes ==
    ASSUME NEW U, InLine(U), NEW S \in SUBSET U, IsFiniteSet(S), NEW x
    PROVE  \E g : Takes(x, S, g) /\ InOrder(x, S) = g[S]
<1>1. \E g : Takes(x, S, g)
  BY TakesExist
<1>2. InOrder(x, S) = (CHOOSE g : Takes(x, S, g))[S]
  BY DEF InOrder, Takes, Taken
<1>3. Takes(x, S, CHOOSE g : Takes(x, S, g))
  BY <1>1
<1> QED
  BY <1>2, <1>3

\* Along no elements, nothing changes.
LEMMA InOrderNothing == ASSUME NEW x PROVE InOrder(x, {}) = x
<1> DEFINE g == [T \in SUBSET {} |-> x]
<1>1. Takes(x, {}, g)
  BY DEF Takes, Taken
<1>2. \E h : Takes(x, {}, h)
  <2> HIDE DEF g
  <2> QED
    BY <1>1
<1>3. InOrder(x, {}) = (CHOOSE h : Takes(x, {}, h))[{}]
  BY DEF InOrder, Takes, Taken
<1>4. Takes(x, {}, CHOOSE h : Takes(x, {}, h))
  BY <1>2
<1> QED
  BY <1>3, <1>4 DEF Takes, Taken

\* A later element is one more step.
LEMMA InOrderMore ==
    ASSUME NEW U, InLine(U), NEW S \in SUBSET U, IsFiniteSet(S), NEW o \in U \ S,
           \A p \in S : Before(p, o), NEW x
    PROVE  InOrder(x, S \cup {o}) = Step(InOrder(x, S), o)
<1> DEFINE M == S \cup {o}
<1>1. M \in SUBSET U /\ IsFiniteSet(M) /\ S \in SUBSET M /\ M \ {o} = S
  BY FS_AddElement
<1>2. Latest(M) = o
  <2>1. o \in M /\ \A p \in M \ {o} : Before(p, o)
    OBVIOUS
  <2> HIDE DEF M
  <2> QED
    BY <1>1, <2>1, LatestIs
<1>3. M # {}
  OBVIOUS
<1> HIDE DEF M
<1>4. PICK g : Takes(x, M, g) /\ InOrder(x, M) = g[M]
  BY <1>1, InOrderTakes
<1>5. PICK h : Takes(x, S, h) /\ InOrder(x, S) = h[S]
  BY InOrderTakes
<1>6. g[M] = Step(g[S], o)
  BY <1>1, <1>2, <1>3, <1>4 DEF Takes, Taken
<1> DEFINE G == {T \in SUBSET U : T \subseteq S => g[T] = h[T]}
<1>7. {} \in G
  BY <1>1, <1>4, <1>5 DEF Takes, Taken
<1>8. ASSUME NEW T \in SUBSET U, NEW p \in U \ T, IsFiniteSet(T), T \in G, \A t \in T : Before(t, p)
      PROVE  T \cup {p} \in G
  <2> DEFINE R == T \cup {p}
  <2>1. SUFFICES ASSUME R \subseteq S PROVE g[R] = h[R]
    OBVIOUS
  <2>2. R \in SUBSET U /\ R \in SUBSET S /\ R \in SUBSET M /\ R # {} /\ R \ {p} = T /\ T \subseteq S /\ p \in R
    BY <1>1, <2>1
  <2>3. Latest(R) = p
    <3>1. \A t \in R \ {p} : Before(t, p)
      BY <1>8
    <3> HIDE DEF R
    <3> QED
      BY <2>2, <3>1, LatestIs
  <2>4. g[T] = h[T]
    BY <1>8, <2>2
  <2> HIDE DEF R
  <2>5. g[R] = Step(g[T], p)
    BY <1>4, <2>2, <2>3 DEF Takes, Taken
  <2>6. h[R] = Step(h[T], p)
    BY <1>5, <2>2, <2>3 DEF Takes, Taken
  <2> QED
    BY <2>4, <2>5, <2>6
<1> HIDE DEF G
<1>9. S \in G
  BY <1>7, <1>8, OrderInduction
<1>10. g[S] = h[S]
  BY <1>9 DEF G
<1> QED
  BY <1>4, <1>5, <1>6, <1>10 DEF M

\* Along a set is along a list of it.
LEMMA InOrderIsAlong ==
    ASSUME NEW U, InLine(U), NEW x
    PROVE  \A S \in SUBSET U : IsFiniteSet(S) =>
               \E q \in Seq(S) : /\ {q[i] : i \in 1..Len(q)} = S /\ InOrder(x, S) = Along(x, q)
                                 /\ \A i, j \in 1..Len(q) : q[i] = q[j] => i = j
<1> DEFINE Lists(S, q) == /\ {q[i] : i \in 1..Len(q)} = S /\ InOrder(x, S) = Along(x, q)
                          /\ \A i, j \in 1..Len(q) : q[i] = q[j] => i = j
           G == {S \in SUBSET U : \E q \in Seq(S) : Lists(S, q)}
<1>1. {} \in G
  <2>1. Lists({}, <<>>)
    BY InOrderNothing, AlongNothing
  <2>2. <<>> \in Seq({})
    OBVIOUS
  <2> QED
    BY <2>1, <2>2
<1>2. ASSUME NEW T \in SUBSET U, NEW o \in U \ T, IsFiniteSet(T), T \in G, \A p \in T : Before(p, o)
      PROVE  T \cup {o} \in G
  <2>1. PICK q \in Seq(T) : Lists(T, q)
    BY <1>2
  <2> DEFINE M == T \cup {o}
             more == Append(q, o)
  <2>2. q \in Seq(M) /\ o \in M /\ M \in SUBSET U
    <3>1. T \subseteq M
      OBVIOUS
    <3> QED
      BY <3>1
  <2>3. more \in Seq(M) /\ Len(more) = Len(q) + 1 /\ more[Len(q) + 1] = o /\ Len(q) \in Nat
        /\ \A i \in 1..Len(q) : more[i] = q[i] /\ q[i] \in T
    <3> HIDE DEF M
    <3> QED
      BY <2>2
  <2>4. InOrder(x, M) = Step(InOrder(x, T), o)
    BY <1>2, InOrderMore
  <2>5. Along(x, more) = Step(Along(x, q), o)
    <3> HIDE DEF M
    <3> QED
      BY <2>2, AlongMore
  <2>6. InOrder(x, T) = Along(x, q)
    BY <2>1
  <2>7. {more[i] : i \in 1..Len(more)} = M
    <3> HIDE DEF more
    <3>1. 1..Len(more) = 1..Len(q) \cup {Len(q) + 1}
      BY <2>3
    <3>2. {q[i] : i \in 1..Len(q)} = T
      BY <2>1
    <3> QED
      BY <2>3, <3>1, <3>2
  <2>8. \A i, j \in 1..Len(more) : more[i] = more[j] => i = j
    <3> HIDE DEF more
    <3>1. \A i \in 1..Len(more) : i \in 1..Len(q) \/ i = Len(q) + 1
      BY <2>3
    <3>2. o \notin T
      OBVIOUS
    <3>3. \A i, j \in 1..Len(q) : q[i] = q[j] => i = j
      BY <2>1
    <3> QED
      BY <2>3, <3>1, <3>2, <3>3
  <2>9. Lists(M, more)
    <3> HIDE DEF M, more
    <3> QED
      BY <2>4, <2>5, <2>6, <2>7, <2>8
  <2> HIDE DEF Lists, M, more
  <2> QED
    BY <2>2, <2>3, <2>9 DEF M
<1> HIDE DEF G
<1>3. \A S \in SUBSET U : IsFiniteSet(S) => S \in G
  BY <1>1, <1>2, OrderInduction
<1> QED
  BY <1>3 DEF G
=============================================================================
