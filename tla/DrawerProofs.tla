----------------------------- MODULE DrawerProofs -----------------------------
(* Once the latest count is settled the book says what is in the drawer, for *)
(* any people, stories and numbers of commands. It is not inductive: nothing *)
(* in it says what a count that a phone is about to make, or has made and    *)
(* not yet pushed, will come to. The argument has four parts. What the       *)
(* drawer's operations fold to depends on which there are and not on their   *)
(* order (EntriesFold), and so do the sums over it (TotalMore). What was     *)
(* counted last and moved since makes up the cash and what is missing, over  *)
(* all operations anybody made (DrawnIn). Those the server refuses are voids *)
(* and corrections, so once everybody has pushed the same holds of the       *)
(* server's records (JudgedDrawer). And a settled latest count is settled    *)
(* once, by the difference as it was then: what the rules let through later  *)
(* neither settles it again nor touches what it covers (SettledIn).          *)
EXTENDS CashDrawer, ShopProofs

-----------------------------------------------------------------------------
(* Sums: the order in which numbers are added up does not matter. *)

Picked(T) == CHOOSE x \in T : TRUE
Summed(f, T, g) == IF T = {} THEN 0 ELSE f[Picked(T)] + g[T \ {Picked(T)}]
Sums(f, S, g) == g = [T \in SUBSET S |-> Summed(f, T, g)]

\* Of a finite set less one element.
LEMMA OneLess ==
    ASSUME NEW T, IsFiniteSet(T), NEW x \in T
    PROVE  IsFiniteSet(T \ {x}) /\ Cardinality(T) \in Nat /\ Cardinality(T) > 0 /\ Cardinality(T \ {x}) = Cardinality(T) - 1
<1>1. IsFiniteSet(T \ {x}) /\ Cardinality(T \ {x}) = Cardinality(T) - 1
  BY FS_RemoveElement
<1>2. Cardinality(T) \in Nat /\ Cardinality(T) # 0
  BY FS_CardinalityType, FS_EmptySet
<1> QED
  BY <1>1, <1>2

\* The element picked of a set is one of it.
LEMMA PickedIs == ASSUME NEW T, T # {} PROVE Picked(T) \in T
BY DEF Picked

\* Every function's values can be added up over a finite set's parts,
LEMMA SumsExist == ASSUME NEW S, IsFiniteSet(S), NEW f PROVE \E g : Sums(f, S, g)
<1> DEFINE L == {n \in Nat : \E g : \A T \in SUBSET S : Cardinality(T) <= n => g[T] = Summed(f, T, g)}
<1>0. \A T \in SUBSET S : IsFiniteSet(T) /\ Cardinality(T) \in Nat /\ Cardinality(T) <= Cardinality(S)
  BY FS_Subset, FS_CardinalityType
<1>1. 0 \in L
  <2> DEFINE g == [T \in SUBSET S |-> 0]
  <2>1. ASSUME NEW T \in SUBSET S, Cardinality(T) <= 0 PROVE g[T] = Summed(f, T, g)
    <3>1. T = {}
      BY <1>0, <2>1, FS_EmptySet
    <3> QED
      BY <3>1 DEF Summed
  <2> QED
    BY <2>1
<1>2. ASSUME NEW n \in Nat, n \in L PROVE n + 1 \in L
  <2>1. PICK g : \A T \in SUBSET S : Cardinality(T) <= n => g[T] = Summed(f, T, g)
    BY <1>2
  <2> DEFINE h == [T \in SUBSET S |-> IF Cardinality(T) <= n THEN g[T] ELSE Summed(f, T, g)]
  <2>2. ASSUME NEW T \in SUBSET S, Cardinality(T) <= n + 1 PROVE h[T] = Summed(f, T, h)
    <3>1. h[T] = Summed(f, T, g)
      BY <2>1
    <3>2. CASE T = {}
      BY <3>1, <3>2 DEF Summed
    <3>3. CASE T # {}
      <4> DEFINE R == T \ {Picked(T)}
      <4>1. R \in SUBSET S /\ Cardinality(R) = Cardinality(T) - 1
        BY <1>0, <3>3, PickedIs, OneLess
      <4>2. Cardinality(R) <= n
        <5> HIDE DEF R
        <5> QED
          BY <1>0, <2>2, <4>1
      <4>3. h[R] = g[R]
        BY <4>1, <4>2
      <4> HIDE DEF h
      <4> QED
        BY <3>1, <3>3, <4>3 DEF Summed
    <3> QED
      BY <3>2, <3>3
  <2> HIDE DEF h
  <2> QED
    BY <2>2
<1> HIDE DEF L
<1>3. \A n \in Nat : n \in L
  BY <1>1, <1>2, PhonesAssumption, Listing!Counting
<1>4. Cardinality(S) \in Nat /\ Cardinality(S) \in L
  BY <1>3, FS_CardinalityType
<1>5. PICK g : \A T \in SUBSET S : Cardinality(T) <= Cardinality(S) => g[T] = Summed(f, T, g)
  BY <1>4 DEF L
<1> DEFINE h == [T \in SUBSET S |-> g[T]]
<1>6. ASSUME NEW T \in SUBSET S PROVE h[T] = Summed(f, T, h)
  <2>1. h[T] = Summed(f, T, g)
    BY <1>0, <1>5
  <2>2. T \ {Picked(T)} \in SUBSET S
    OBVIOUS
  <2>3. h[T \ {Picked(T)}] = g[T \ {Picked(T)}]
    BY <2>2
  <2> HIDE DEF h
  <2> QED
    BY <2>1, <2>3 DEF Summed
<1>7. h = [T \in SUBSET S |-> h[T]]
  OBVIOUS
<1> HIDE DEF h
<1>8. h = [T \in SUBSET S |-> Summed(f, T, h)]
  BY <1>6, <1>7
<1> QED
  BY <1>8 DEF Sums

\* A sum takes its steps.
LEMMA SumTakes ==
    ASSUME NEW f, IsFiniteSet(DOMAIN f)
    PROVE  \E g : Sums(f, DOMAIN f, g) /\ SumFunction(f) = g[DOMAIN f]
<1>1. \E g : Sums(f, DOMAIN f, g)
  BY SumsExist
<1>2. SumFunction(f) = (CHOOSE g : Sums(f, DOMAIN f, g))[DOMAIN f]
  BY DEF SumFunction, SumFunctionOnSet, FoldFunctionOnSet, MapThenFoldSet, Sums, Summed, Picked
<1>3. Sums(f, DOMAIN f, CHOOSE g : Sums(f, DOMAIN f, g))
  BY <1>1
<1> QED
  BY <1>2, <1>3

\* Any element may be added last.
Numbers(f, S) == \A x \in S : f[x] \in Int
AddsUp(f, S, g) == \A T \in SUBSET S : g[T] \in Int /\ \A x \in T : g[T] = f[x] + g[T \ {x}]

\* whichever element is left to be added last.
LEMMA SumTaken ==
    ASSUME NEW S, IsFiniteSet(S), NEW f, Numbers(f, S), NEW g, Sums(f, S, g)
    PROVE  AddsUp(f, S, g)
<1> DEFINE Fine(T) == g[T] \in Int /\ \A x \in T : g[T] = f[x] + g[T \ {x}]
           L == {n \in Nat : \A T \in SUBSET S : Cardinality(T) <= n => Fine(T)}
<1>0. /\ \A x \in S : f[x] \in Int
      /\ \A T \in SUBSET S : IsFiniteSet(T) /\ Cardinality(T) \in Nat
  BY FS_Subset, FS_CardinalityType DEF Numbers
<1>s. \A T \in SUBSET S : g[T] = Summed(f, T, g)
  BY DEF Sums
<1>1. 0 \in L
  <2>1. ASSUME NEW T \in SUBSET S, Cardinality(T) <= 0 PROVE Fine(T)
    <3>1. T = {}
      BY <1>0, <2>1, FS_EmptySet
    <3>2. g[T] = 0
      BY <1>s, <3>1 DEF Summed
    <3> QED
      BY <3>1, <3>2
  <2> QED
    BY <2>1
<1>2. ASSUME NEW n \in Nat, n \in L PROVE n + 1 \in L
  <2>0. ASSUME NEW T \in SUBSET S, Cardinality(T) <= n PROVE Fine(T)
    BY <1>2, <2>0
  <2>1. ASSUME NEW T \in SUBSET S, Cardinality(T) = n + 1 PROVE Fine(T)
    <3> DEFINE c == Picked(T)
    <3>1. T # {}
      BY <2>1, FS_EmptySet
    <3>2. c \in T
      BY <3>1, PickedIs
    <3>3. g[T] = f[c] + g[T \ {c}]
      BY <1>s, <3>1 DEF Summed
    <3> HIDE DEF c
    <3>4. ASSUME NEW x \in T PROVE T \ {x} \in SUBSET S /\ f[x] \in Int /\ Fine(T \ {x})
      <4>1. T \ {x} \in SUBSET S /\ Cardinality(T \ {x}) = n
        BY <1>0, <2>1, OneLess
      <4>2. Cardinality(T \ {x}) <= n /\ f[x] \in Int
        BY <1>0, <4>1
      <4> HIDE DEF Fine
      <4> QED
        BY <2>0, <4>1, <4>2
    <3>5. ASSUME NEW x \in T PROVE g[T] = f[x] + g[T \ {x}]
      <4>1. CASE x = c
        BY <3>3, <4>1
      <4>2. CASE x # c
        <5> DEFINE R == T \ {x, c}
        <5>1. x \in T \ {c} /\ c \in T \ {x} /\ (T \ {c}) \ {x} = R /\ (T \ {x}) \ {c} = R
          BY <3>2, <4>2
        <5>2. g[T \ {c}] = f[x] + g[R]
          BY <3>2, <3>4, <5>1
        <5>3. g[T \ {x}] = f[c] + g[R]
          BY <3>4, <5>1
        <5>4. g[R] \in Int
          <6>1. IsFiniteSet(T \ {c}) /\ T \ {c} \in SUBSET S /\ Cardinality(T \ {c}) = n
            BY <1>0, <2>1, <3>2, OneLess
          <6>2. Cardinality((T \ {c}) \ {x}) = n - 1
            BY <5>1, <6>1, OneLess
          <6>3. R \in SUBSET S /\ Cardinality(R) <= n
            BY <5>1, <6>2
          <6> HIDE DEF R
          <6> QED
            BY <2>0, <6>3
        <5> HIDE DEF R
        <5>5. f[c] \in Int /\ f[x] \in Int
          BY <3>2, <3>4
        <5> QED
          BY <3>3, <5>2, <5>3, <5>4, <5>5
      <4> QED
        BY <4>1, <4>2
    <3>6. g[T] \in Int
      <4>1. T \ {c} \in SUBSET S /\ f[c] \in Int /\ Fine(T \ {c})
        BY <3>2, <3>4
      <4>2. g[T \ {c}] \in Int
        BY <4>1
      <4> QED
        BY <3>3, <4>1, <4>2
    <3> QED
      BY <3>5, <3>6
  <2>2. ASSUME NEW T \in SUBSET S, Cardinality(T) <= n + 1 PROVE Fine(T)
    <3>1. Cardinality(T) <= n \/ Cardinality(T) = n + 1
      BY <1>0, <2>2
    <3> HIDE DEF Fine
    <3> QED
      BY <2>0, <2>1, <3>1
  <2> HIDE DEF Fine
  <2> QED
    BY <2>2
<1> HIDE DEF L
<1>3. \A n \in Nat : n \in L
  BY <1>1, <1>2, PhonesAssumption, Listing!Counting
<1>4. ASSUME NEW T \in SUBSET S PROVE Fine(T)
  <2>1. Cardinality(T) \in L /\ Cardinality(T) <= Cardinality(T)
    BY <1>0, <1>3
  <2> HIDE DEF Fine
  <2> QED
    BY <2>1 DEF L
<1> QED
  BY <1>4 DEF AddsUp

\* The steps of a sum are those of a sum over more.
LEMMA SumsAgree ==
    ASSUME NEW U, NEW S \in SUBSET U, IsFiniteSet(U), NEW e, NEW f, \A x \in S : e[x] = f[x],
           NEW g, Sums(e, U, g), NEW h, Sums(f, S, h)
    PROVE  g[S] = h[S]
<1> DEFINE L == {n \in Nat : \A T \in SUBSET S : Cardinality(T) <= n => g[T] = h[T]}
<1>0. \A T \in SUBSET S : T \in SUBSET U /\ IsFiniteSet(T) /\ Cardinality(T) \in Nat
  BY FS_Subset, FS_CardinalityType
<1>s. \A T \in SUBSET S : g[T] = Summed(e, T, g) /\ h[T] = Summed(f, T, h)
  BY DEF Sums
<1>1. 0 \in L
  <2>1. ASSUME NEW T \in SUBSET S, Cardinality(T) <= 0 PROVE g[T] = h[T]
    <3>1. T = {}
      BY <1>0, <2>1, FS_EmptySet
    <3>2. g[T] = 0 /\ h[T] = 0
      BY <1>s, <3>1 DEF Summed
    <3> QED
      BY <3>2
  <2> QED
    BY <2>1
<1>2. ASSUME NEW n \in Nat, n \in L PROVE n + 1 \in L
  <2>1. ASSUME NEW T \in SUBSET S, Cardinality(T) <= n + 1 PROVE g[T] = h[T]
    <3>1. CASE T = {}
      BY <1>s, <3>1 DEF Summed
    <3>2. CASE T # {}
      <4> DEFINE c == Picked(T)
                 R == T \ {c}
      <4>1. c \in T /\ g[T] = e[c] + g[R] /\ h[T] = f[c] + h[R]
        BY <1>s, <3>2, PickedIs DEF Summed
      <4> HIDE DEF c
      <4>2. R \in SUBSET S /\ Cardinality(R) = Cardinality(T) - 1 /\ Cardinality(T) \in Nat
        BY <1>0, <4>1, OneLess
      <4>3. g[R] = h[R]
        <5> HIDE DEF R
        <5>1. Cardinality(R) <= n
          BY <2>1, <4>2
        <5> QED
          BY <1>2, <4>2, <5>1
      <4> QED
        BY <4>1, <4>3
    <3> QED
      BY <3>1, <3>2
  <2> QED
    BY <2>1
<1> HIDE DEF L
<1>3. \A n \in Nat : n \in L
  BY <1>1, <1>2, PhonesAssumption, Listing!Counting
<1>4. Cardinality(S) \in L /\ Cardinality(S) <= Cardinality(S) /\ S \in SUBSET S
  BY <1>0, <1>3
<1> QED
  BY <1>4 DEF L

\* What the entries' lines come to, as a sum.
LEMMA TotalTakes ==
    ASSUME NEW r, NEW S, IsFiniteSet(S)
    PROVE  \E g : Sums([id \in S |-> Debits(r[id])], S, g) /\ Total(r, S) = g[S]
<1> DEFINE f == [id \in S |-> Debits(r[id])]
<1>1. DOMAIN f = S
  OBVIOUS
<1>2. Total(r, S) = SumFunction(f)
  BY DEF Total
<1> HIDE DEF f
<1>3. \E g : Sums(f, S, g) /\ SumFunction(f) = g[S]
  BY <1>1, SumTakes
<1> QED
  BY <1>2, <1>3 DEF f

\* No entries, no lines.
LEMMA TotalNone == ASSUME NEW r PROVE Total(r, {}) = 0
<1>1. IsFiniteSet({})
  BY FS_EmptySet
<1>2. PICK g : Sums([id \in {} |-> Debits(r[id])], {}, g) /\ Total(r, {}) = g[{}]
  BY <1>1, TotalTakes
<1> QED
  BY <1>2 DEF Sums, Summed

\* Entries whose lines are numbers.
Numbered(r, S) == IsFiniteSet(S) /\ \A id \in S : Debits(r[id]) \in Int

\* One entry more adds its lines.
LEMMA TotalMore ==
    ASSUME NEW r, NEW S, NEW x, x \notin S, Numbered(r, S \cup {x})
    PROVE  Total(r, S) \in Int /\ Total(r, S \cup {x}) = Total(r, S) + Debits(r[x])
<1> DEFINE U == S \cup {x}
           e == [id \in U |-> Debits(r[id])]
           f == [id \in S |-> Debits(r[id])]
<1>1. IsFiniteSet(U) /\ IsFiniteSet(S) /\ Numbers(e, U)
  BY FS_Subset DEF Numbered, Numbers
<1>2. PICK g : Sums(e, U, g) /\ Total(r, U) = g[U]
  BY <1>1, TotalTakes
<1>3. PICK h : Sums(f, S, h) /\ Total(r, S) = h[S]
  BY <1>1, TotalTakes
<1>4. S \in SUBSET U /\ U \in SUBSET U /\ U \ {x} = S /\ x \in U /\ e[x] = Debits(r[x]) /\ \A id \in S : e[id] = f[id]
  OBVIOUS
<1> HIDE DEF U, e, f
<1>5. g[S] = h[S]
  BY <1>1, <1>2, <1>3, <1>4, SumsAgree
<1>6. AddsUp(e, U, g)
  BY <1>1, <1>2, SumTaken
<1>7. g[U] = e[x] + g[S] /\ g[S] \in Int
  BY <1>4, <1>6 DEF AddsUp
<1>8. e[x] \in Int
  BY <1>1, <1>4 DEF Numbers
<1>9. Total(r, U) = Total(r, S) + Debits(r[x]) /\ Total(r, S) \in Int
  BY <1>2, <1>3, <1>4, <1>5, <1>7, <1>8
<1> QED
  BY <1>9 DEF U

\* Entries that debit the same come to the same.
LEMMA TotalSame ==
    ASSUME NEW r, NEW q, NEW S, \A id \in S : Debits(r[id]) = Debits(q[id])
    PROVE  Total(r, S) = Total(q, S)
<1>1. [id \in S |-> Debits(r[id])] = [id \in S |-> Debits(q[id])]
  OBVIOUS
<1> QED
  BY <1>1 DEF Total

\* What two sets of entries come to.
LEMMA TotalJoin ==
    ASSUME NEW r, NEW S, NEW T, S \cap T = {}, Numbered(r, S \cup T)
    PROVE  Total(r, S) \in Int /\ Total(r, T) \in Int /\ Total(r, S \cup T) = Total(r, S) + Total(r, T)
<1>0. IsFiniteSet(S) /\ IsFiniteSet(T)
  BY FS_Subset DEF Numbered
<1>1. ASSUME NEW R, Numbered(r, R) PROVE Total(r, R) \in Int
  <2>1. CASE R = {}
    BY <2>1, TotalNone
  <2>2. CASE R # {}
    <3> DEFINE x == Picked(R)
               Q == R \ {x}
    <3>1. x \in R
      BY <2>2, PickedIs
    <3> HIDE DEF x
    <3>2. x \notin Q /\ Q \cup {x} = R
      BY <3>1
    <3> HIDE DEF Q
    <3>3. Total(r, Q) \in Int /\ Total(r, R) = Total(r, Q) + Debits(r[x])
      BY <1>1, <3>2, TotalMore
    <3>4. Debits(r[x]) \in Int
      BY <1>1, <3>1 DEF Numbered
    <3> QED
      BY <3>3, <3>4
  <2> QED
    BY <2>1, <2>2
<1>2. \A R \in SUBSET (S \cup T) : Numbered(r, R) /\ Total(r, R) \in Int
  <2> SUFFICES ASSUME NEW R \in SUBSET (S \cup T) PROVE Numbered(r, R) /\ Total(r, R) \in Int
    OBVIOUS
  <2>1. Numbered(r, R)
    BY FS_Subset DEF Numbered
  <2> QED
    BY <1>1, <2>1
<1> DEFINE G == {R \in SUBSET T : Total(r, S \cup R) = Total(r, S) + Total(r, R)}
<1>3. {} \in G
  <2>1. S \cup {} = S
    OBVIOUS
  <2>2. Total(r, S) \in Int /\ Total(r, {}) = 0
    BY <1>2, TotalNone
  <2> QED
    BY <2>1, <2>2
<1>4. ASSUME NEW R \in SUBSET T, NEW x \in T \ R, R \in G PROVE R \cup {x} \in G
  <2>1. x \notin S \cup R /\ x \notin R /\ (S \cup R) \cup {x} = S \cup (R \cup {x})
    OBVIOUS
  <2>2. Numbered(r, (S \cup R) \cup {x}) /\ Numbered(r, R \cup {x})
    BY <1>2
  <2>3. Total(r, (S \cup R) \cup {x}) = Total(r, S \cup R) + Debits(r[x])
    BY <2>1, <2>2, TotalMore
  <2>4. Total(r, R \cup {x}) = Total(r, R) + Debits(r[x])
    BY <2>1, <2>2, TotalMore
  <2>5. Total(r, S) \in Int /\ Total(r, R) \in Int /\ Debits(r[x]) \in Int
    BY <1>2 DEF Numbered
  <2>6. Total(r, S \cup R) = Total(r, S) + Total(r, R)
    BY <1>4
  <2>7. Total(r, S \cup (R \cup {x})) = Total(r, S) + Total(r, R \cup {x})
    <3> DEFINE s == Total(r, S)
               t == Total(r, R)
               v == Debits(r[x])
    <3>1. s \in Int /\ t \in Int /\ v \in Int
      BY <2>5
    <3>2. Total(r, S \cup (R \cup {x})) = (s + t) + v /\ Total(r, R \cup {x}) = t + v
      BY <2>1, <2>3, <2>4, <2>6
    <3> HIDE DEF s, t, v
    <3>3. Total(r, S \cup (R \cup {x})) = s + Total(r, R \cup {x})
      BY <3>1, <3>2
    <3> QED
      BY <3>3 DEF s
  <2> QED
    BY <2>7
<1> HIDE DEF G
<1>5. \A R \in SUBSET T : Listing!IsFiniteSet(R) => R \in G
  BY <1>3, <1>4, PhonesAssumption, Listing!SetInduction
<1>6. T \in G
  BY <1>0, <1>5, FiniteIs
<1> QED
  BY <1>2, <1>6 DEF G

-----------------------------------------------------------------------------
(* What entries fold to: a record each, marked by its void.  The order does  *)
(* not matter as long as a void is signed after its move.                    *)

Enters(op) == op.type \in EntryKinds
VoidsMove(op) == op.type = "cashMoveVoided"
Entries(M) == {op \in M : Enters(op)}
IsVoided(id, M) == \E v \in M : VoidsMove(v) /\ v.id = id

Cashed(op) ==
    /\ op.type \in EntryKinds \cup {"cashMoveVoided"} /\ op.amount \in Int /\ op.id # NoLine
    /\ op.settles # NoLine => op.type = "cashAdjusted"
    /\ op.mistyped \in BOOLEAN /\ (op.mistyped => op.type = "cashMoved")
EntriesOnce(M) == \A a, b \in M : Enters(a) /\ Enters(b) /\ a.id = b.id => a = b
VoidsFollow(M) == \A v, e \in M : VoidsMove(v) /\ Enters(e) /\ e.id = v.id => e.at < v.at /\ e.mistyped
AtOnce(M) == \A a, b \in M : a.at = b.at => a = b
Till(M) == (\A op \in M : Cashed(op)) /\ EntriesOnce(M) /\ VoidsFollow(M) /\ AtOnce(M) /\ Distinct(M)

\* Some of what was done at the till was done at the till.
LEMMA TillPart == ASSUME NEW M, Till(M), NEW L \in SUBSET M PROVE Till(L)
BY DistinctPart DEF Till, EntriesOnce, VoidsFollow, AtOnce

RowFields == {"kind", "amount", "at", "settles", "mistyped", "voided"}
RowIs(row, op) ==
    /\ row = [f \in RowFields |-> row[f]]
    /\ row.kind = op.type /\ row.amount = op.amount /\ row.at = op.at /\ row.settles = op.settles
    /\ row.mistyped = op.mistyped
Marked(row, voided) == IF voided THEN row.voided = TRUE ELSE row.voided = FALSE
EntriesFold(r, M) ==
    /\ r = [id \in DOMAIN r |-> r[id]] /\ DOMAIN r = {op.id : op \in Entries(M)}
    /\ \A op \in Entries(M) : RowIs(r[op.id], op) /\ Marked(r[op.id], IsVoided(op.id, M))

\* Nothing folds to no entries.
LEMMA NoEntriesFold == EntriesFold(NoEntries, {})
<1>1. NoEntries = [id \in DOMAIN NoEntries |-> NoEntries[id]] /\ DOMAIN NoEntries = {}
  BY DEF NoEntries
<1>2. Entries({}) = {} /\ {op.id : op \in {}} = {}
  BY DEF Entries
<1> QED
  BY <1>1, <1>2 DEF EntriesFold

\* A later entry is one row more,
LEMMA EntryFiled ==
    ASSUME NEW r, NEW M, EntriesFold(r, M), NEW o, o \notin M, Enters(o), EntriesOnce(M \cup {o}), ~IsVoided(o.id, M)
    PROVE  EntriesFold(Filed(r, o.id, Entry(o)), M \cup {o})
<1> DEFINE N == M \cup {o}
           q == Filed(r, o.id, Entry(o))
<1>1. o.id \notin DOMAIN r
  BY DEF EntriesFold, Entries, EntriesOnce
<1>2. q = [id \in DOMAIN q |-> q[id]] /\ DOMAIN q = DOMAIN r \cup {o.id}
      /\ q[o.id] = Entry(o) /\ \A id \in DOMAIN r : q[id] = r[id]
  BY <1>1 DEF Filed
<1>3. Entries(N) = Entries(M) \cup {o}
  BY DEF Entries
<1>4. \A id : IsVoided(id, N) <=> IsVoided(id, M)
  BY DEF IsVoided, VoidsMove, Enters, EntryKinds
<1>5. RowIs(Entry(o), o) /\ Marked(Entry(o), FALSE)
  BY DEF RowIs, Marked, Entry, RowFields
<1>6. \A op \in Entries(M) : op.id \in DOMAIN r
  BY DEF EntriesFold
<1> HIDE DEF q
<1>7. ASSUME NEW op \in Entries(N) PROVE RowIs(q[op.id], op) /\ Marked(q[op.id], IsVoided(op.id, N))
  <2>1. CASE op \in Entries(M)
    <3>1. q[op.id] = r[op.id]
      BY <1>2, <1>6, <2>1
    <3>2. RowIs(r[op.id], op) /\ Marked(r[op.id], IsVoided(op.id, M))
      BY <2>1 DEF EntriesFold
    <3> QED
      BY <1>4, <3>1, <3>2 DEF Marked
  <2>2. CASE op = o
    BY <1>2, <1>4, <1>5, <2>2 DEF Marked
  <2> QED
    BY <1>3, <2>1, <2>2
<1>8. DOMAIN q = {op.id : op \in Entries(N)}
  BY <1>2, <1>3 DEF EntriesFold
<1> QED
  BY <1>2, <1>7, <1>8 DEF EntriesFold, q

\* and a later void marks a row.
LEMMA MoveMarked ==
    ASSUME NEW r, NEW M, EntriesFold(r, M), NEW o, VoidsMove(o), EntriesOnce(M \cup {o})
    PROVE  EntriesFold(FoldEntry(r, o), M \cup {o})
<1> DEFINE N == M \cup {o}
           q == FoldEntry(r, o)
<1>1. Entries(N) = Entries(M)
  BY DEF Entries, Enters, VoidsMove, EntryKinds
<1>2. o.type = "cashMoveVoided" /\ o.type \notin EntryKinds
  BY DEF VoidsMove, EntryKinds
<1>3. \A id : IsVoided(id, N) <=> (IsVoided(id, M) \/ id = o.id)
  BY DEF IsVoided
<1>4. CASE o.id \notin DOMAIN r
  <2>1. q = r
    BY <1>2, <1>4 DEF FoldEntry
  <2>2. \A op \in Entries(M) : op.id # o.id
    BY <1>4 DEF EntriesFold
  <2>3. \A op \in Entries(N) : RowIs(r[op.id], op) /\ Marked(r[op.id], IsVoided(op.id, N))
    BY <1>1, <1>3, <2>2 DEF EntriesFold, Marked
  <2>4. EntriesFold(r, N)
    BY <1>1, <2>3 DEF EntriesFold
  <2> QED
    BY <2>1, <2>4
<1>5. CASE o.id \in DOMAIN r
  <2>1. q = [r EXCEPT ![o.id].voided = TRUE]
    BY <1>2, <1>5 DEF FoldEntry
  <2>2. r = [id \in DOMAIN r |-> r[id]]
    BY DEF EntriesFold
  <2>3. /\ DOMAIN q = DOMAIN r /\ q = [id \in DOMAIN q |-> q[id]]
        /\ q[o.id] = [r[o.id] EXCEPT !.voided = TRUE]
        /\ \A id \in DOMAIN r : id # o.id => q[id] = r[id]
    BY <1>5, <2>1, <2>2
  <2> HIDE DEF q
  <2>4. ASSUME NEW op \in Entries(N) PROVE RowIs(q[op.id], op) /\ Marked(q[op.id], IsVoided(op.id, N))
    <3>1. op.id \in DOMAIN r /\ RowIs(r[op.id], op) /\ Marked(r[op.id], IsVoided(op.id, M))
      BY <1>1, <2>4 DEF EntriesFold
    <3>2. CASE op.id # o.id
      BY <1>3, <2>3, <3>1, <3>2 DEF Marked
    <3>3. CASE op.id = o.id
      <4> DEFINE row == r[o.id]
      <4>1. row = [f \in RowFields |-> row[f]] /\ RowIs(row, op)
        BY <3>1, <3>3 DEF RowIs
      <4> HIDE DEF row
      <4>2. RowIs([row EXCEPT !.voided = TRUE], op) /\ [row EXCEPT !.voided = TRUE].voided = TRUE
        BY <4>1 DEF RowIs, RowFields
      <4> QED
        BY <1>3, <2>3, <3>3, <4>2 DEF Marked, row
    <3> QED
      BY <3>2, <3>3
  <2>5. EntriesFold(q, N)
    BY <1>1, <2>3, <2>4 DEF EntriesFold
  <2> QED
    BY <2>5 DEF q
<1> QED
  BY <1>4, <1>5

\* The fold's copies of the order and of finiteness are the same.
LEMMA DrawerInLine == ASSUME NEW U, Distinct(U) PROVE Drawer!Fold!InLine(U)
<1>1. \A a, b \in U : a # b => a.at # b.at \/ a.by # b.by \/ a.seq # b.seq
  BY DEF Distinct, Key
<1>2. \A a, b \in U : a # b => Drawer!SortsBefore(a, b) \/ Drawer!SortsBefore(b, a)
  BY <1>1 DEF Distinct, Drawer!SortsBefore
<1>3. \A a, b \in U : ~(Drawer!SortsBefore(a, b) /\ Drawer!SortsBefore(b, a))
  BY DEF Distinct, Drawer!SortsBefore
<1>4. \A a, b, c \in U : Drawer!SortsBefore(a, b) /\ Drawer!SortsBefore(b, c) => Drawer!SortsBefore(a, c)
  BY DEF Distinct, Drawer!SortsBefore
<1> QED
  BY <1>2, <1>3, <1>4 DEF Drawer!Fold!InLine

\* The two copies of finiteness are the same.
LEMMA DrawerFinite == \A S : Drawer!Fold!IsFiniteSet(S) <=> IsFiniteSet(S)
BY DEF Drawer!Fold!IsFiniteSet, IsFiniteSet

\* What was done at the till folds to its entries.
LEMMA RecordsAreEntries ==
    ASSUME NEW M, IsFiniteSet(M), Till(M)
    PROVE  EntriesFold(Drawer!Records(M), M)
<1> DEFINE G == {T \in SUBSET M : EntriesFold(Drawer!Records(T), T)}
<1>1. {} \in G
  <2>1. Drawer!Records({}) = NoEntries
    BY PhonesAssumption, Drawer!Fold!InOrderNothing DEF Drawer!Records
  <2> QED
    BY <2>1, NoEntriesFold
<1>2. ASSUME NEW T \in SUBSET M, NEW o \in M \ T, Drawer!Fold!IsFiniteSet(T), T \in G, \A p \in T : Drawer!SortsBefore(p, o)
      PROVE  T \cup {o} \in G
  <2> DEFINE r == Drawer!Records(T)
  <2>0. T \cup {o} \in SUBSET M
    OBVIOUS
  <2>1. Till(T \cup {o}) /\ Drawer!Fold!InLine(M) /\ Cashed(o)
    BY <2>0, TillPart, DrawerInLine DEF Till
  <2>2. Drawer!Records(T \cup {o}) = FoldEntry(r, o)
    BY <1>2, <2>1, PhonesAssumption, Drawer!Fold!InOrderMore DEF Drawer!Records
  <2>3. EntriesFold(r, T) /\ o \notin T
    BY <1>2
  <2> HIDE DEF r
  <2>4. CASE Enters(o)
    <3>1. ~IsVoided(o.id, T)
      <4> SUFFICES ASSUME NEW v \in T, VoidsMove(v), v.id = o.id PROVE FALSE
        BY DEF IsVoided
      <4>1. o.at < v.at /\ o.at \in Int /\ v.at \in Int
        BY <2>1, <2>4 DEF Till, VoidsFollow, Distinct
      <4>2. Drawer!SortsBefore(v, o)
        BY <1>2
      <4>3. v.at <= o.at
        BY <4>1, <4>2 DEF Drawer!SortsBefore
      <4> QED
        BY <4>1, <4>3
    <3>2. FoldEntry(r, o) = Filed(r, o.id, Entry(o))
      BY <2>4 DEF FoldEntry, Enters, EntryKinds
    <3> QED
      BY <2>0, <2>1, <2>2, <2>3, <2>4, <3>1, <3>2, EntryFiled DEF Till
  <2>5. CASE ~Enters(o)
    <3>1. VoidsMove(o)
      BY <2>1, <2>5 DEF Cashed, Enters, VoidsMove
    <3> QED
      BY <2>0, <2>1, <2>2, <2>3, <3>1, MoveMarked DEF Till
  <2> QED
    BY <2>4, <2>5
<1> HIDE DEF G
<1>3. \A S \in SUBSET M : Drawer!Fold!IsFiniteSet(S) => S \in G
  <2>1. Drawer!Fold!InLine(M)
    BY DrawerInLine DEF Till
  <2> QED
    BY <1>1, <1>2, <2>1, PhonesAssumption, Drawer!Fold!OrderInduction
<1>4. M \in G
  BY <1>3, DrawerFinite
<1> QED
  BY <1>4 DEF G

\* The entry a row is of.
LEMMA RowOf ==
    ASSUME NEW r, NEW M, EntriesFold(r, M), Till(M), NEW id \in DOMAIN r
    PROVE  \E op \in M : /\ Enters(op) /\ Cashed(op) /\ op.id = id /\ r[id] = [f \in RowFields |-> r[id][f]]
                         /\ r[id].kind = op.type /\ r[id].amount = op.amount /\ r[id].at = op.at
                         /\ r[id].settles = op.settles /\ r[id].mistyped = op.mistyped
                         /\ Marked(r[id], IsVoided(id, M)) /\ op.at \in Int
<1>1. PICK op \in Entries(M) : op.id = id
  BY DEF EntriesFold
<1>2. RowIs(r[op.id], op) /\ Marked(r[op.id], IsVoided(op.id, M))
  BY DEF EntriesFold
<1>3. op \in M /\ Enters(op) /\ Cashed(op) /\ op.at \in Int
  BY DEF Entries, Till, Distinct
<1> QED
  BY <1>1, <1>2, <1>3 DEF RowIs

\* The row an entry has.
LEMMA RowFor ==
    ASSUME NEW r, NEW M, EntriesFold(r, M), NEW op \in M, Enters(op)
    PROVE  /\ op.id \in DOMAIN r
           /\ r[op.id].kind = op.type /\ r[op.id].amount = op.amount /\ r[op.id].at = op.at
           /\ r[op.id].settles = op.settles /\ r[op.id].mistyped = op.mistyped
           /\ Marked(r[op.id], IsVoided(op.id, M))
<1>1. op \in Entries(M)
  BY DEF Entries
<1> QED
  BY <1>1 DEF EntriesFold, RowIs

\* What an entry's lines debit is a number.
LEMMA DebitsAreNumbers ==
    ASSUME NEW r, NEW M, EntriesFold(r, M), Till(M), IsFiniteSet(M)
    PROVE  Numbered(r, DOMAIN r)
<1>1. IsFiniteSet(Entries(M))
  BY FS_Subset DEF Entries
<1>2. IsFiniteSet({op.id : op \in Entries(M)})
  <2> DEFINE S == Entries(M)
             f == [op \in S |-> op.id]
             T == {op.id : op \in S}
  <2>1. f \in Surjection(S, T)
    BY DEF Surjection
  <2> HIDE DEF S, f, T
  <2>2. IsFiniteSet(T)
    BY <1>1, <2>1, FS_Surjection DEF S
  <2> QED
    BY <2>2 DEF T, S
<1>3. ASSUME NEW id \in DOMAIN r PROVE Debits(r[id]) \in Int
  <2>1. r[id].amount \in Int
    BY RowOf DEF Cashed
  <2> DEFINE n == r[id].amount
  <2>2. n \in Int /\ -n \in Int
    BY <2>1
  <2> HIDE DEF n
  <2>3. Debits(r[id]) = (CASE r[id].kind = "cashMoved" -> IF r[id].voided THEN 0 ELSE -n
                          [] r[id].kind = "cashCounted" -> 0
                          [] OTHER -> n)
    BY DEF Debits, n
  <2>4. CASE r[id].kind = "cashMoved"
    BY <2>2, <2>3, <2>4
  <2>5. CASE r[id].kind = "cashCounted"
    BY <2>2, <2>3, <2>5
  <2>6. CASE r[id].kind # "cashMoved" /\ r[id].kind # "cashCounted"
    BY <2>2, <2>3, <2>6
  <2> QED
    BY <2>4, <2>5, <2>6
<1> QED
  BY <1>2, <1>3 DEF EntriesFold, Numbered

\* Some of the entries whose lines are numbers,
LEMMA NumberedPart == ASSUME NEW r, NEW S, Numbered(r, S), NEW T \in SUBSET S PROVE Numbered(r, T)
BY FS_Subset DEF Numbered

\* and what they add up to.
LEMMA TotalIsNumber == ASSUME NEW r, NEW S, Numbered(r, S) PROVE Total(r, S) \in Int
<1>1. S \cap {} = {} /\ S \cup {} = S
  OBVIOUS
<1>2. Numbered(r, S \cup {})
  BY <1>1
<1> QED
  BY <1>1, <1>2, TotalJoin

\* An entry is the same in two folds that void it both or neither.
LEMMA RowsAgree ==
    ASSUME NEW r, NEW M, EntriesFold(r, M), NEW q, NEW N, EntriesFold(q, N),
           NEW op \in M, op \in N, Enters(op), IsVoided(op.id, M) <=> IsVoided(op.id, N)
    PROVE  q[op.id] = r[op.id]
<1>1. op \in Entries(M) /\ op \in Entries(N)
  BY DEF Entries
<1> DEFINE a == r[op.id]
           b == q[op.id]
<1>2. RowIs(a, op) /\ Marked(a, IsVoided(op.id, M)) /\ RowIs(b, op) /\ Marked(b, IsVoided(op.id, N))
  BY <1>1 DEF EntriesFold
<1> HIDE DEF a, b
<1>3. a.voided = b.voided
  <2>1. CASE IsVoided(op.id, M)
    <3>1. a.voided = TRUE /\ b.voided = TRUE
      BY <1>2, <2>1 DEF Marked
    <3> QED
      BY <3>1
  <2>2. CASE ~IsVoided(op.id, M)
    <3>1. a.voided = FALSE /\ b.voided = FALSE
      BY <1>2, <2>2 DEF Marked
    <3> QED
      BY <3>1
  <2> QED
    BY <2>1, <2>2
<1>4. \A f \in RowFields : a[f] = b[f]
  BY <1>2, <1>3 DEF RowIs, RowFields
<1>5. a = [f \in RowFields |-> a[f]] /\ b = [f \in RowFields |-> b[f]]
  BY <1>2 DEF RowIs
<1>6. a = b
  BY <1>4, <1>5
<1> QED
  BY <1>6 DEF a, b

-----------------------------------------------------------------------------
(* What the server has taken of a drawer. *)

\* A void is of an entry that is there, and a correction of a count.
VoidsKnown(M) == \A v \in M : VoidsMove(v) => \E e \in M : Enters(e) /\ e.id = v.id
SettlesKnown(M) ==
    \A a \in M : a.type = "cashAdjusted" => \E c \in M : c.type = "cashCounted" /\ c.id = a.settles
\* The entries taken after the ith that were signed before a moment.
TakenAfter(y, i, at) == {y[k].id : k \in {k \in 1..Len(y) : k > i /\ Enters(y[k]) /\ y[k].at < at}}
\* A latest count that is settled is settled once: its amount, with what came
\* later from before it, is what the book expected and the correction.
SettledAt(y, r, count, i) ==
    /\ y[i].type = "cashAdjusted" /\ y[i].settles = count /\ Settling(r, count) = {y[i].id}
    /\ r[count].amount + Total(r, TakenAfter(y, i, r[count].at)) = Expected(r, count) + y[i].amount
SettledIn(y, r) ==
    \A count \in Counts(r) : IsLatest(r, count) /\ Settling(r, count) # {} =>
        \E i \in 1..Len(y) : SettledAt(y, r, count, i)
GoodDrawer(y) ==
    /\ IsList(y) /\ OnceEach(y) /\ IsFiniteSet(Range(y)) /\ VoidsKnown(Range(y)) /\ SettlesKnown(Range(y))
    /\ SettledIn(y, Drawer!Records(Range(y)))

ExpectedOf(r, count) == {id \in DOMAIN r : StandsAt(r, id) < r[count].at}

\* What an entry does to the records.
JoinsAs(q, r, o) ==
    /\ DOMAIN q = DOMAIN r \cup {o.id} /\ o.id \notin DOMAIN r /\ \A id \in DOMAIN r : q[id] = r[id]
    /\ q[o.id].kind = o.type /\ q[o.id].amount = o.amount /\ q[o.id].at = o.at
    /\ q[o.id].settles = o.settles /\ q[o.id].mistyped = o.mistyped /\ q[o.id].voided = FALSE

\* A new entry joins the records as its own row,
LEMMA EntryJoins ==
    ASSUME NEW M, NEW r, EntriesFold(r, M), NEW o, o \notin M, NEW q, EntriesFold(q, M \cup {o}),
           Till(M \cup {o}), VoidsKnown(M), Enters(o)
    PROVE  JoinsAs(q, r, o)
<1> DEFINE N == M \cup {o}
<1>1. Till(M) /\ EntriesOnce(N)
  BY TillPart DEF Till
<1>2. \A e \in M : Enters(e) => e.id # o.id
  BY <1>1 DEF EntriesOnce
<1>3. ~IsVoided(o.id, M)
  BY <1>2 DEF IsVoided, VoidsKnown
<1>4. \A id : IsVoided(id, N) <=> IsVoided(id, M)
  BY DEF IsVoided, VoidsMove, Enters, EntryKinds
<1>5. Entries(N) = Entries(M) \cup {o}
  BY DEF Entries
<1>6. DOMAIN q = DOMAIN r \cup {o.id}
  BY <1>5 DEF EntriesFold
<1>7. o.id \notin DOMAIN r
  BY <1>2 DEF EntriesFold, Entries
<1>8. ASSUME NEW id \in DOMAIN r PROVE q[id] = r[id]
  <2>1. PICK e \in M : Enters(e) /\ e.id = id
    BY <1>1, RowOf
  <2>2. e \in N
    OBVIOUS
  <2> QED
    BY <1>4, <2>1, <2>2, RowsAgree
<1>9. /\ q[o.id].kind = o.type /\ q[o.id].amount = o.amount /\ q[o.id].at = o.at
      /\ q[o.id].settles = o.settles /\ q[o.id].mistyped = o.mistyped
      /\ Marked(q[o.id], IsVoided(o.id, N))
  BY RowFor
<1> QED
  BY <1>3, <1>4, <1>6, <1>7, <1>8, <1>9 DEF Marked, JoinsAs

\* What a void does to them.
MarksIn(q, r, o) ==
    /\ DOMAIN q = DOMAIN r /\ \A id \in DOMAIN r : id # o.id => q[id] = r[id]
    /\ \A id \in DOMAIN r : /\ q[id].kind = r[id].kind /\ q[id].amount = r[id].amount /\ q[id].at = r[id].at
                            /\ q[id].settles = r[id].settles /\ q[id].mistyped = r[id].mistyped

\* and a void marks the row of its move.
LEMMA VoidMarks ==
    ASSUME NEW M, NEW r, EntriesFold(r, M), NEW o, NEW q, EntriesFold(q, M \cup {o}),
           Till(M \cup {o}), VoidsMove(o)
    PROVE  MarksIn(q, r, o)
<1> DEFINE N == M \cup {o}
<1>1. Till(M)
  BY TillPart
<1>2. Entries(N) = Entries(M)
  BY DEF Entries, Enters, VoidsMove, EntryKinds
<1>3. DOMAIN q = DOMAIN r
  BY <1>2 DEF EntriesFold
<1>4. ASSUME NEW id \in DOMAIN r
      PROVE  /\ id # o.id => q[id] = r[id]
             /\ q[id].kind = r[id].kind /\ q[id].amount = r[id].amount /\ q[id].at = r[id].at
             /\ q[id].settles = r[id].settles /\ q[id].mistyped = r[id].mistyped
  <2>1. PICK e \in M : Enters(e) /\ e.id = id
    BY <1>1, RowOf
  <2>2. e \in N
    OBVIOUS
  <2>3. /\ q[id].kind = e.type /\ q[id].amount = e.amount /\ q[id].at = e.at
        /\ q[id].settles = e.settles /\ q[id].mistyped = e.mistyped
    BY <2>1, <2>2, RowFor
  <2>4. /\ r[id].kind = e.type /\ r[id].amount = e.amount /\ r[id].at = e.at
        /\ r[id].settles = e.settles /\ r[id].mistyped = e.mistyped
    BY <2>1, RowFor
  <2>5. ASSUME id # o.id PROVE q[id] = r[id]
    <3>1. IsVoided(id, N) <=> IsVoided(id, M)
      BY <2>5 DEF IsVoided
    <3> QED
      BY <2>1, <2>2, <3>1, RowsAgree
  <2> QED
    BY <2>3, <2>4, <2>5
<1> QED
  BY <1>3, <1>4 DEF MarksIn

\* What the server has, and an operation it may take.
Taking(y, o, r, q) ==
    /\ IsList(y) /\ OnceEach(y) /\ IsFiniteSet(Range(y)) /\ VoidsKnown(Range(y)) /\ SettlesKnown(Range(y))
    /\ SettledIn(y, r) /\ o \notin Range(y) /\ Till(Range(y) \cup {o})
    /\ EntriesFold(r, Range(y)) /\ EntriesFold(q, Range(y) \cup {o})

\* With one operation more, that one comes after every other.
LEMMA OneTaken ==
    ASSUME NEW y, NEW o, IsList(y)
    PROVE  LET z == Append(y, o)
           IN /\ Len(y) \in Nat /\ Len(z) = Len(y) + 1 /\ z[Len(y) + 1] = o /\ \A i \in 1..Len(y) : z[i] = y[i]
              /\ IsList(z) /\ Range(z) = Range(y) \cup {o}
              /\ \A at : TakenAfter(z, Len(y) + 1, at) = {}
              /\ \A i \in 1..Len(y) : \A at : TakenAfter(z, i, at) =
                     IF Enters(o) /\ o.at < at THEN TakenAfter(y, i, at) \cup {o.id} ELSE TakenAfter(y, i, at)
<1> DEFINE z == Append(y, o)
           n == Len(y)
           S == Range(y) \cup {o}
<1>1. y \in Seq(S) /\ o \in S
  <2>1. y \in Seq(Range(y)) /\ Range(y) \subseteq S
    BY DEF IsList
  <2> HIDE DEF S
  <2>2. y \in Seq(S)
    BY <2>1
  <2> QED
    BY <2>2 DEF S
<1>2. n \in Nat
  BY ListIs
<1>3. /\ z \in Seq(S) /\ Range(z) = Range(y) \cup {o} /\ Len(z) = n + 1 /\ z[n + 1] = o
      /\ \A i \in 1..n : z[i] = y[i]
  <2> HIDE DEF S
  <2> QED
    BY <1>1, RangeOfMore
<1>4. IsList(z)
  <2> HIDE DEF z, S
  <2> QED
    BY <1>3, RangeOfList
<1> HIDE DEF z, n, S
<1>5. ASSUME NEW at PROVE TakenAfter(z, n + 1, at) = {}
  <2>1. {k \in 1..Len(z) : k > n + 1 /\ Enters(z[k]) /\ z[k].at < at} = {}
    BY <1>2, <1>3
  <2> QED
    BY <2>1 DEF TakenAfter
<1>6. ASSUME NEW i \in 1..n, NEW at
      PROVE  TakenAfter(z, i, at) =
                 IF Enters(o) /\ o.at < at THEN TakenAfter(y, i, at) \cup {o.id} ELSE TakenAfter(y, i, at)
  <2> DEFINE K == {k \in 1..n : k > i /\ Enters(y[k]) /\ y[k].at < at}
             L == {k \in 1..Len(z) : k > i /\ Enters(z[k]) /\ z[k].at < at}
  <2>1. TakenAfter(y, i, at) = {y[k].id : k \in K} /\ TakenAfter(z, i, at) = {z[k].id : k \in L}
    BY DEF TakenAfter, n
  <2>2. 1..Len(z) = 1..n \cup {n + 1} /\ n + 1 > i /\ n + 1 \notin 1..n
    BY <1>2, <1>3
  <2>3. CASE Enters(o) /\ o.at < at
    <3>1. L = K \cup {n + 1}
      BY <1>3, <2>2, <2>3
    <3>2. \A k \in K : z[k] = y[k]
      BY <1>3
    <3> HIDE DEF K, L
    <3>3. {z[k].id : k \in L} = {y[k].id : k \in K} \cup {o.id}
      BY <1>3, <3>1, <3>2
    <3> QED
      BY <2>1, <2>3, <3>3
  <2>4. CASE ~(Enters(o) /\ o.at < at)
    <3>1. L = K
      BY <1>3, <2>2, <2>4
    <3>2. \A k \in K : z[k] = y[k]
      BY <1>3
    <3> HIDE DEF K, L
    <3>3. {z[k].id : k \in L} = {y[k].id : k \in K}
      BY <3>1, <3>2
    <3> QED
      BY <2>1, <2>4, <3>3
  <2> QED
    BY <2>3, <2>4
<1>7. /\ n \in Nat /\ Len(z) = n + 1 /\ z[n + 1] = o /\ \A i \in 1..n : z[i] = y[i]
      /\ IsList(z) /\ Range(z) = Range(y) \cup {o}
      /\ \A at : TakenAfter(z, n + 1, at) = {}
  BY <1>2, <1>3, <1>4, <1>5
<1> QED
  BY <1>6, <1>7 DEF z, n

\* What was taken after is there.
LEMMA TakenAfterIs ==
    ASSUME NEW y, IsList(y), NEW r, EntriesFold(r, Range(y)), NEW i, NEW at
    PROVE  \A id \in TakenAfter(y, i, at) : id \in DOMAIN r /\ r[id].at < at
<1> SUFFICES ASSUME NEW id \in TakenAfter(y, i, at) PROVE id \in DOMAIN r /\ r[id].at < at
  OBVIOUS
<1>1. PICK k \in 1..Len(y) : id = y[k].id /\ Enters(y[k]) /\ y[k].at < at
  BY DEF TakenAfter
<1>2. y[k] \in Range(y)
  BY ListIs
<1> QED
  BY <1>1, <1>2, RowFor

\* A count and what it is settled by, in the rows.
LEMMA SettledRow ==
    ASSUME NEW M, SettlesKnown(M), NEW r, EntriesFold(r, M), Till(M), NEW id \in DOMAIN r, r[id].settles # NoLine
    PROVE  r[id].kind = "cashAdjusted" /\ r[id].settles \in Counts(r)
<1>1. PICK a \in M : Enters(a) /\ Cashed(a) /\ a.id = id /\ r[id].kind = a.type /\ r[id].settles = a.settles
  BY RowOf
<1>2. a.type = "cashAdjusted"
  BY <1>1 DEF Cashed
<1>3. PICK c \in M : c.type = "cashCounted" /\ c.id = a.settles
  BY <1>2 DEF SettlesKnown
<1>4. c.id \in DOMAIN r /\ r[c.id].kind = "cashCounted"
  BY <1>3, RowFor DEF Enters, EntryKinds
<1> QED
  BY <1>1, <1>2, <1>3, <1>4 DEF Counts

\* The operation a count is of.
LEMMA CountRow ==
    ASSUME NEW M, NEW r, EntriesFold(r, M), Till(M), NEW count \in Counts(r)
    PROVE  \E c \in M : c.type = "cashCounted" /\ c.id = count /\ r[count].at = c.at /\ r[count].amount = c.amount
                        /\ count # NoLine /\ c.at \in Int /\ c.amount \in Int
<1>1. count \in DOMAIN r /\ r[count].kind = "cashCounted"
  BY DEF Counts
<1> QED
  BY <1>1, RowOf DEF Cashed

\* A payment, a move or a count, from before the settled count or after, leaves it settled.
LEMMA EntrySettles ==
    ASSUME NEW y, NEW o, NEW r, NEW q, Taking(y, o, r, q), Enters(o), o.type # "cashAdjusted"
    PROVE  SettledIn(Append(y, o), q)
<1> DEFINE z == Append(y, o)
           M == Range(y)
           N == M \cup {o}
<1>1. /\ IsList(y) /\ IsFiniteSet(M) /\ VoidsKnown(M) /\ SettlesKnown(M) /\ o \notin M /\ Till(N)
      /\ EntriesFold(r, M) /\ EntriesFold(q, N) /\ SettledIn(y, r)
  BY DEF Taking
<1>2. Till(M) /\ Cashed(o) /\ o.settles = NoLine /\ AtOnce(N)
  BY <1>1, TillPart DEF Till, Cashed
<1>3. /\ Len(y) \in Nat /\ Len(z) = Len(y) + 1 /\ \A i \in 1..Len(y) : z[i] = y[i]
      /\ \A i \in 1..Len(y) : \A at : TakenAfter(z, i, at) =
                     IF Enters(o) /\ o.at < at THEN TakenAfter(y, i, at) \cup {o.id} ELSE TakenAfter(y, i, at)
  BY <1>1, OneTaken
<1> HIDE DEF z, M, N
<1>4. /\ DOMAIN q = DOMAIN r \cup {o.id} /\ o.id \notin DOMAIN r /\ \A id \in DOMAIN r : q[id] = r[id]
      /\ q[o.id].at = o.at /\ q[o.id].settles = o.settles
  <2>1. EntriesFold(q, M \cup {o}) /\ Till(M \cup {o})
    BY <1>1 DEF N
  <2>2. EntriesFold(r, M) /\ o \notin M /\ VoidsKnown(M)
    BY <1>1
  <2>3. JoinsAs(q, r, o)
    BY <2>1, <2>2, EntryJoins
  <2> QED
    BY <2>3 DEF JoinsAs
<1>5. Numbered(q, DOMAIN q) /\ Numbered(r, DOMAIN r)
  <2>1. IsFiniteSet(N)
    BY <1>1, FS_AddElement DEF N
  <2> QED
    BY <1>1, <1>2, <2>1, DebitsAreNumbers
<1>6. ASSUME NEW count \in Counts(q), IsLatest(q, count), Settling(q, count) # {}
      PROVE  \E i \in 1..Len(z) : SettledAt(z, q, count, i)
  <2>1. count \in DOMAIN q /\ q[count].kind = "cashCounted" /\ count # NoLine
    BY <1>1, CountRow DEF Counts
  <2>2. count \in Counts(r)
    <3>1. PICK a \in DOMAIN q : q[a].settles = count
      BY <1>6 DEF Settling
    <3>2. a # o.id
      BY <1>2, <1>4, <2>1, <3>1
    <3>3. a \in DOMAIN r /\ r[a].settles = count
      BY <1>4, <3>1, <3>2
    <3> QED
      BY <1>1, <1>2, <2>1, <3>3, SettledRow
  <2>3. count \in DOMAIN r /\ q[count] = r[count]
    BY <1>4, <2>2 DEF Counts
  <2>4. Settling(q, count) = Settling(r, count)
    BY <1>2, <1>4, <2>1 DEF Settling
  <2>5. IsLatest(r, count)
    BY <1>4, <1>6, <2>3 DEF IsLatest, Counts
  <2>6. PICK i \in 1..Len(y) : SettledAt(y, r, count, i)
    BY <1>1, <1>6, <2>2, <2>4, <2>5 DEF SettledIn
  <2> DEFINE at == r[count].at
             X == ExpectedOf(r, count)
             W == TakenAfter(y, i, at)
             n == o.id
  <2>7. PICK c \in M : c.at = at /\ at \in Int /\ r[count].amount \in Int /\ Cashed(y[i])
    <3>1. PICK c \in M : c.at = at /\ at \in Int /\ r[count].amount \in Int
      BY <1>1, <1>2, <2>2, CountRow
    <3>2. y[i] \in M
      BY <1>1, ListIs DEF M
    <3> QED
      BY <1>2, <3>1, <3>2 DEF Till
  <2>8. o.at # at
    BY <1>1, <1>2, <2>7 DEF AtOnce, N
  <2>9. \A id \in DOMAIN r : StandsAt(q, id) = StandsAt(r, id)
    <3> SUFFICES ASSUME NEW id \in DOMAIN r PROVE StandsAt(q, id) = StandsAt(r, id)
      OBVIOUS
    <3>1. q[id] = r[id]
      BY <1>4
    <3>2. CASE r[id].settles = NoLine
      BY <3>1, <3>2 DEF StandsAt
    <3>3. CASE r[id].settles # NoLine
      <4>1. r[id].settles \in DOMAIN r
        BY <1>1, <1>2, <3>3, SettledRow DEF Counts
      <4>2. q[r[id].settles] = r[r[id].settles]
        BY <1>4, <4>1
      <4> QED
        BY <3>1, <3>3, <4>2 DEF StandsAt
    <3> QED
      BY <3>2, <3>3
  <2>10. StandsAt(q, n) = o.at
    BY <1>2, <1>4 DEF StandsAt
  <2>11. ExpectedOf(q, count) = IF o.at < at THEN X \cup {n} ELSE X
    BY <1>4, <2>3, <2>9, <2>10 DEF ExpectedOf
  <2>12. TakenAfter(z, i, at) = IF o.at < at THEN W \cup {n} ELSE W
    BY <1>3
  <2>13. X \subseteq DOMAIN r /\ W \subseteq DOMAIN r
    BY <1>1, TakenAfterIs DEF ExpectedOf, M
  <2> HIDE DEF X, W, n, at
  <2>14. Total(q, X) = Total(r, X) /\ Total(q, W) = Total(r, W)
    <3>1. \A id \in DOMAIN r : Debits(r[id]) = Debits(q[id])
      BY <1>4
    <3> QED
      BY <2>13, <3>1, TotalSame
  <2>15. /\ Total(r, X) \in Int /\ Total(r, W) \in Int
         /\ r[count].amount + Total(r, W) = Total(r, X) + y[i].amount /\ y[i].amount \in Int
    BY <1>5, <2>6, <2>7, <2>13, NumberedPart, TotalIsNumber DEF SettledAt, Expected, ExpectedOf, X, W, at, Cashed
  <2>16. r[count].amount + Total(q, TakenAfter(z, i, at)) = Total(q, ExpectedOf(q, count)) + y[i].amount
    <3>1. CASE o.at < at
      <4>1. n \notin X /\ n \notin W /\ X \cup {n} \subseteq DOMAIN q /\ W \cup {n} \subseteq DOMAIN q /\ n \in DOMAIN q
        BY <1>4, <2>13 DEF n
      <4>2. Total(q, X \cup {n}) = Total(q, X) + Debits(q[n]) /\ Total(q, W \cup {n}) = Total(q, W) + Debits(q[n])
        BY <1>5, <4>1, NumberedPart, TotalMore
      <4>3. Debits(q[n]) \in Int
        BY <1>5, <4>1 DEF Numbered
      <4>4. r[count].amount + (Total(r, W) + Debits(q[n])) = (Total(r, X) + Debits(q[n])) + y[i].amount
        <5> DEFINE a == r[count].amount
                   w == Total(r, W)
                   x == Total(r, X)
                   b == y[i].amount
                   v == Debits(q[n])
        <5>1. a \in Int /\ w \in Int /\ x \in Int /\ b \in Int /\ v \in Int /\ a + w = x + b
          BY <2>7, <2>15, <4>3
        <5> HIDE DEF a, w, x, b, v
        <5>2. a + (w + v) = (x + v) + b
          BY <5>1
        <5> QED
          BY <5>2 DEF a, w, x, b, v
      <4> QED
        BY <2>11, <2>12, <2>14, <3>1, <4>2, <4>4
    <3>2. CASE ~(o.at < at)
      BY <2>11, <2>12, <2>14, <2>15, <3>2
    <3> QED
      BY <3>1, <3>2
  <2>17. SettledAt(z, q, count, i)
    <3>1. z[i] = y[i] /\ q[count].at = at /\ q[count].amount = r[count].amount
      BY <1>3, <2>3 DEF at
    <3>2. Expected(q, count) = Total(q, ExpectedOf(q, count))
      BY DEF Expected, ExpectedOf
    <3> QED
      BY <2>4, <2>6, <2>16, <3>1, <3>2 DEF SettledAt
  <2> QED
    BY <1>3, <2>17
<1> QED
  BY <1>6 DEF SettledIn, z

\* A correction the rules allow settles the latest count.
LEMMA CorrectionSettles ==
    ASSUME NEW y, NEW o, NEW r, NEW q, Taking(y, o, r, q), o.type = "cashAdjusted", CashAdjustedAllows(r, o)
    PROVE  SettledIn(Append(y, o), q)
<1> DEFINE z == Append(y, o)
           M == Range(y)
           N == M \cup {o}
           k == Len(y) + 1
<1>1. /\ IsList(y) /\ IsFiniteSet(M) /\ VoidsKnown(M) /\ SettlesKnown(M) /\ o \notin M /\ Till(N)
      /\ EntriesFold(r, M) /\ EntriesFold(q, N)
  BY DEF Taking
<1>2. Till(M) /\ Cashed(o) /\ AtOnce(N) /\ Enters(o)
  BY <1>1, TillPart DEF Till, Enters, EntryKinds
<1>3. /\ Len(y) \in Nat /\ Len(z) = k /\ z[k] = o
      /\ \A at : TakenAfter(z, k, at) = {}
  BY <1>1, OneTaken
<1> HIDE DEF z, M, N
<1>4. /\ DOMAIN q = DOMAIN r \cup {o.id} /\ o.id \notin DOMAIN r /\ \A id \in DOMAIN r : q[id] = r[id]
      /\ q[o.id].kind = o.type /\ q[o.id].settles = o.settles
  <2>1. EntriesFold(q, M \cup {o}) /\ Till(M \cup {o})
    BY <1>1 DEF N
  <2>2. JoinsAs(q, r, o)
    BY <1>1, <1>2, <2>1, EntryJoins
  <2> QED
    BY <2>2 DEF JoinsAs
<1>5. Numbered(r, DOMAIN r)
  BY <1>1, <1>2, DebitsAreNumbers
<1>6. /\ o.settles \in Counts(r) /\ Settling(r, o.settles) = {} /\ IsLatest(r, o.settles)
      /\ o.amount = Difference(r, o.settles)
  BY DEF CashAdjustedAllows
<1>7. \A count \in Counts(r) : \E c \in M : c.id = count /\ r[count].at = c.at /\ c.at \in Int /\ count # NoLine
                                           /\ r[count].amount \in Int
  BY <1>1, <1>2, CountRow
<1>8. k \in 1..Len(z)
  BY <1>3
<1> HIDE DEF k
<1>9. ASSUME NEW count \in Counts(q), IsLatest(q, count) PROVE SettledAt(z, q, count, k)
  <2>1. count \in Counts(r)
    BY <1>4, <1>9 DEF Counts
  <2>2. \A other \in Counts(r) : other \in Counts(q) /\ q[other] = r[other]
    BY <1>4 DEF Counts
  <2>3. IsLatest(r, count)
    BY <1>9, <2>1, <2>2 DEF IsLatest
  <2>4. count = o.settles
    <3>1. r[count].at <= r[o.settles].at /\ r[o.settles].at <= r[count].at
      BY <1>6, <2>1, <2>3 DEF IsLatest
    <3>2. PICK c \in M : c.id = count /\ r[count].at = c.at /\ c.at \in Int
      BY <1>7, <2>1
    <3>3. PICK e \in M : e.id = o.settles /\ r[o.settles].at = e.at /\ e.at \in Int
      BY <1>6, <1>7
    <3>4. c.at = e.at
      BY <3>1, <3>2, <3>3
    <3>5. c = e
      BY <1>2, <3>2, <3>3, <3>4 DEF AtOnce, N
    <3> QED
      BY <3>2, <3>3, <3>5
  <2>5. Settling(q, count) = {o.id}
    BY <1>4, <1>6, <2>4 DEF Settling
  <2>6. count \in DOMAIN r /\ q[count] = r[count] /\ count # NoLine /\ r[count].at \in Int /\ r[count].amount \in Int
    BY <1>7, <2>1, <2>2 DEF Counts
  <2>7. \A id \in DOMAIN r : StandsAt(q, id) = StandsAt(r, id)
    <3> SUFFICES ASSUME NEW id \in DOMAIN r PROVE StandsAt(q, id) = StandsAt(r, id)
      OBVIOUS
    <3>1. q[id] = r[id]
      BY <1>4
    <3>2. CASE r[id].settles = NoLine
      BY <3>1, <3>2 DEF StandsAt
    <3>3. CASE r[id].settles # NoLine
      <4>1. q[r[id].settles] = r[r[id].settles]
        BY <1>1, <1>2, <2>2, <3>3, SettledRow
      <4> QED
        BY <3>1, <3>3, <4>1 DEF StandsAt
    <3> QED
      BY <3>2, <3>3
  <2>8. StandsAt(q, o.id) = r[count].at
    BY <1>4, <2>4, <2>6 DEF StandsAt
  <2> DEFINE X == ExpectedOf(r, count)
  <2>9. ExpectedOf(q, count) = X
    BY <1>4, <2>6, <2>7, <2>8 DEF ExpectedOf
  <2>10. X \subseteq DOMAIN r
    BY DEF ExpectedOf
  <2> HIDE DEF X
  <2>11. Total(q, X) = Total(r, X)
    <3>1. \A id \in X : Debits(r[id]) = Debits(q[id])
      BY <1>4, <2>10
    <3> QED
      BY <3>1, TotalSame
  <2>12. Total(r, X) \in Int
    BY <1>5, <2>10, NumberedPart, TotalIsNumber
  <2>13. o.amount = r[count].amount - Total(r, X)
    BY <1>6, <2>4 DEF Difference, Expected, ExpectedOf, X
  <2>14. r[count].amount + 0 = Total(r, X) + o.amount
    <3> DEFINE a == r[count].amount
               t == Total(r, X)
               b == o.amount
    <3>1. a \in Int /\ t \in Int /\ b = a - t
      BY <2>6, <2>12, <2>13
    <3> HIDE DEF a, t, b
    <3>2. a + 0 = t + b
      BY <3>1
    <3> QED
      BY <3>2 DEF a, t, b
  <2>15. Expected(q, count) = Total(q, ExpectedOf(q, count))
    BY DEF Expected, ExpectedOf
  <2>16. Total(q, TakenAfter(z, k, q[count].at)) = 0
    BY <1>3, TotalNone
  <2> QED
    BY <1>3, <2>4, <2>5, <2>6, <2>9, <2>11, <2>14, <2>15, <2>16 DEF SettledAt
<1> QED
  BY <1>8, <1>9 DEF SettledIn, z

\* A void the rules allow touches nothing from before a settled count.
LEMMA VoidSettles ==
    ASSUME NEW y, NEW o, NEW r, NEW q, Taking(y, o, r, q), VoidsMove(o), CashMoveVoidedAllows(r, o)
    PROVE  SettledIn(Append(y, o), q)
<1> DEFINE z == Append(y, o)
           M == Range(y)
           N == M \cup {o}
<1>1. /\ IsList(y) /\ IsFiniteSet(M) /\ VoidsKnown(M) /\ SettlesKnown(M) /\ o \notin M /\ Till(N)
      /\ EntriesFold(r, M) /\ EntriesFold(q, N) /\ SettledIn(y, r)
  BY DEF Taking
<1>2. Till(M) /\ Cashed(o) /\ ~Enters(o)
  BY <1>1, TillPart DEF Till, Enters, VoidsMove, EntryKinds
<1>3. /\ Len(y) \in Nat /\ Len(z) = Len(y) + 1 /\ \A i \in 1..Len(y) : z[i] = y[i]
      /\ \A i \in 1..Len(y) : \A at : TakenAfter(z, i, at) =
                     IF Enters(o) /\ o.at < at THEN TakenAfter(y, i, at) \cup {o.id} ELSE TakenAfter(y, i, at)
  BY <1>1, OneTaken
<1> HIDE DEF z, M, N
<1>4. /\ DOMAIN q = DOMAIN r /\ \A id \in DOMAIN r : id # o.id => q[id] = r[id]
      /\ \A id \in DOMAIN r : /\ q[id].kind = r[id].kind /\ q[id].amount = r[id].amount /\ q[id].at = r[id].at
                              /\ q[id].settles = r[id].settles
  <2>1. EntriesFold(q, M \cup {o}) /\ Till(M \cup {o})
    BY <1>1 DEF N
  <2>2. MarksIn(q, r, o)
    BY <1>1, <2>1, VoidMarks
  <2> QED
    BY <2>2 DEF MarksIn
<1>5. /\ o.id \in DOMAIN r /\ r[o.id].kind = "cashMoved"
      /\ \A count \in Counts(r) : Settling(r, count) # {} => r[count].at <= r[o.id].at
  BY DEF CashMoveVoidedAllows
<1>6. r[o.id].settles = NoLine /\ r[o.id].at \in Int
  <2>1. PICK op \in M : Cashed(op) /\ r[o.id].kind = op.type /\ r[o.id].settles = op.settles /\ r[o.id].at = op.at /\ op.at \in Int
    BY <1>1, <1>2, <1>5, RowOf
  <2> QED
    BY <1>5, <2>1 DEF Cashed
<1>7. Counts(q) = Counts(r)
  BY <1>4 DEF Counts
<1>8. ASSUME NEW count \in Counts(q), IsLatest(q, count), Settling(q, count) # {}
      PROVE  \E i \in 1..Len(z) : SettledAt(z, q, count, i)
  <2>1. count \in Counts(r) /\ count \in DOMAIN r /\ q[count].at = r[count].at /\ q[count].amount = r[count].amount
    BY <1>4, <1>7, <1>8 DEF Counts
  <2>2. Settling(q, count) = Settling(r, count)
    BY <1>4 DEF Settling
  <2>3. IsLatest(r, count)
    BY <1>4, <1>7, <1>8, <2>1 DEF IsLatest, Counts
  <2>4. PICK i \in 1..Len(y) : SettledAt(y, r, count, i)
    BY <1>1, <1>8, <2>1, <2>2, <2>3 DEF SettledIn
  <2> DEFINE X == ExpectedOf(r, count)
             W == TakenAfter(y, i, r[count].at)
  <2>5. \A id \in DOMAIN r : StandsAt(q, id) = StandsAt(r, id)
    <3> SUFFICES ASSUME NEW id \in DOMAIN r PROVE StandsAt(q, id) = StandsAt(r, id)
      OBVIOUS
    <3>1. q[id].settles = r[id].settles /\ q[id].at = r[id].at
      BY <1>4
    <3>2. CASE r[id].settles = NoLine
      BY <3>1, <3>2 DEF StandsAt
    <3>3. CASE r[id].settles # NoLine
      <4>1. r[id].settles \in DOMAIN r
        BY <1>1, <1>2, <3>3, SettledRow DEF Counts
      <4>2. q[r[id].settles].at = r[r[id].settles].at
        BY <1>4, <4>1
      <4> QED
        BY <3>1, <3>3, <4>2 DEF StandsAt
    <3> QED
      BY <3>2, <3>3
  <2>6. ExpectedOf(q, count) = X
    BY <1>4, <2>1, <2>5 DEF ExpectedOf
  <2>7. TakenAfter(z, i, r[count].at) = W
    BY <1>2, <1>3
  <2>8. \A id \in X \cup W : id \in DOMAIN r /\ id # o.id
    <3>1. r[count].at <= r[o.id].at /\ r[count].at \in Int
      BY <1>1, <1>2, <1>5, <1>8, <2>1, <2>2, CountRow
    <3>2. ~(r[o.id].at < r[count].at) /\ StandsAt(r, o.id) = r[o.id].at
      BY <1>6, <3>1 DEF StandsAt
    <3>3. \A id \in W : id \in DOMAIN r /\ r[id].at < r[count].at
      BY <1>1, TakenAfterIs DEF M
    <3>4. \A id \in X : id \in DOMAIN r /\ StandsAt(r, id) < r[count].at
      BY DEF ExpectedOf
    <3> HIDE DEF X, W
    <3> QED
      BY <3>2, <3>3, <3>4
  <2> HIDE DEF X, W
  <2>9. Total(q, X) = Total(r, X) /\ Total(q, W) = Total(r, W)
    <3>1. \A id \in X \cup W : Debits(r[id]) = Debits(q[id])
      BY <1>4, <2>8
    <3> QED
      BY <3>1, TotalSame
  <2>10. Expected(q, count) = Total(q, X) /\ Expected(r, count) = Total(r, X)
    BY <2>6 DEF Expected, ExpectedOf, X
  <2>11. SettledAt(z, q, count, i)
    BY <1>3, <2>1, <2>2, <2>4, <2>7, <2>9, <2>10 DEF SettledAt, W
  <2> QED
    BY <1>3, <2>11
<1> QED
  BY <1>8 DEF SettledIn, z

\* What the rules allow leaves a latest count that was settled settled.
LEMMA AllowedSettles ==
    ASSUME NEW y, NEW o, NEW r, NEW q, Taking(y, o, r, q), EntryAllows(r, o), Cashed(o)
    PROVE  SettledIn(Append(y, o), q)
<1>1. CASE o.type = "cashMoveVoided"
  <2>1. CashMoveVoidedAllows(r, o)
    BY <1>1 DEF EntryAllows
  <2> QED
    BY <1>1, <2>1, VoidSettles DEF VoidsMove
<1>2. CASE o.type = "cashAdjusted"
  <2>1. CashAdjustedAllows(r, o)
    BY <1>2 DEF EntryAllows
  <2> QED
    BY <1>2, <2>1, CorrectionSettles
<1>3. CASE o.type \notin {"cashMoveVoided", "cashAdjusted"}
  BY <1>3, EntrySettles DEF Cashed, Enters
<1> QED
  BY <1>1, <1>2, <1>3

\* and what is voided or settled known.
LEMMA AllowedIsKnown ==
    ASSUME NEW M, NEW r, EntriesFold(r, M), NEW o, Till(M), VoidsKnown(M), SettlesKnown(M), EntryAllows(r, o)
    PROVE  VoidsKnown(M \cup {o}) /\ SettlesKnown(M \cup {o})
<1>1. ASSUME VoidsMove(o) PROVE \E e \in M : Enters(e) /\ e.id = o.id
  <2>1. o.id \in DOMAIN r
    BY <1>1 DEF EntryAllows, VoidsMove, CashMoveVoidedAllows
  <2> QED
    BY <2>1, RowOf
<1>2. ASSUME o.type = "cashAdjusted" PROVE \E c \in M : c.type = "cashCounted" /\ c.id = o.settles
  <2>1. o.settles \in Counts(r)
    BY <1>2 DEF EntryAllows, CashAdjustedAllows
  <2> QED
    BY <2>1, CountRow
<1> QED
  BY <1>1, <1>2 DEF VoidsKnown, SettlesKnown

\* What was taken of a drawer, with one operation more.
LEMMA DrawerMore ==
    ASSUME NEW y, GoodDrawer(y), NEW o, o \notin Range(y), Till(Range(y) \cup {o}),
           EntryAllows(Drawer!Records(Range(y)), o)
    PROVE  GoodDrawer(Append(y, o))
<1> DEFINE z == Append(y, o)
           M == Range(y)
           N == M \cup {o}
           r == Drawer!Records(M)
           q == Drawer!Records(N)
<1>1. /\ IsList(y) /\ OnceEach(y) /\ IsFiniteSet(M) /\ VoidsKnown(M) /\ SettlesKnown(M)
      /\ SettledIn(y, r) /\ o \notin M /\ Till(N) /\ EntryAllows(r, o)
  BY DEF GoodDrawer
<1>2. /\ Len(y) \in Nat /\ Len(z) = Len(y) + 1 /\ z[Len(y) + 1] = o /\ \A i \in 1..Len(y) : z[i] = y[i]
      /\ IsList(z) /\ Range(z) = N
  BY <1>1, OneTaken
<1>3. IsFiniteSet(N)
  <2> HIDE DEF M
  <2> QED
    BY <1>1, FS_AddElement
<1>4. Till(M) /\ Cashed(o)
  <2>1. M \in SUBSET N /\ o \in N
    OBVIOUS
  <2> HIDE DEF M, N
  <2> QED
    BY <1>1, <2>1, TillPart DEF Till
<1>5. EntriesFold(r, M) /\ EntriesFold(q, N)
  <2> HIDE DEF M, N
  <2> QED
    BY <1>1, <1>3, <1>4, RecordsAreEntries
<1> HIDE DEF r, q
<1>6. Taking(y, o, r, q)
  BY <1>1, <1>5 DEF Taking
<1>7. SettledIn(z, q)
  BY <1>1, <1>4, <1>6, AllowedSettles
<1>8. VoidsKnown(N) /\ SettlesKnown(N)
  BY <1>1, <1>4, <1>5, AllowedIsKnown
<1>9. OnceEach(z)
  <2>1. 1..Len(z) = 1..Len(y) \cup {Len(y) + 1}
    BY <1>2
  <2>2. \A i \in 1..Len(y) : y[i] # o
    BY <1>1, ListIs
  <2> HIDE DEF z
  <2> QED
    BY <1>1, <1>2, <2>1, <2>2 DEF OnceEach
<1> HIDE DEF z
<1>10. SettledIn(z, Drawer!Records(Range(z)))
  BY <1>2, <1>7 DEF q
<1> QED
  BY <1>2, <1>3, <1>8, <1>9, <1>10 DEF GoodDrawer, z

\* Nothing was taken.
LEMMA NothingTaken == GoodDrawer(<<>>)
<1>1. IsList(<<>>) /\ Range(<<>>) = {} /\ OnceEach(<<>>) /\ IsFiniteSet(Range(<<>>))
  <2>1. Range(<<>>) = {}
    BY DEF Range
  <2>2. <<>> \in Seq({})
    OBVIOUS
  <2> QED
    BY <2>1, <2>2, FS_EmptySet DEF IsList, OnceEach
<1>2. VoidsKnown({}) /\ SettlesKnown({})
  BY DEF VoidsKnown, SettlesKnown
<1>3. Till({})
  BY DEF Till, EntriesOnce, VoidsFollow, AtOnce, Distinct
<1>4. EntriesFold(Drawer!Records({}), {})
  BY <1>3, FS_EmptySet, RecordsAreEntries
<1>5. Counts(Drawer!Records({})) = {}
  BY <1>4 DEF EntriesFold, Entries, Counts
<1> QED
  BY <1>1, <1>2, <1>5 DEF GoodDrawer, SettledIn

\* A payment, a move or a count.
Simple(op) == Enters(op) /\ op.type # "cashAdjusted"
\* Judging a list of what was done at the till refuses none of those.
LEMMA JudgedDrawer ==
    ASSUME NEW S, Till(S), NEW x \in Seq(S), NEW list \in Seq(S), OnceEach(list), GoodDrawer(x),
           \A i \in 1..Len(x), j \in 1..Len(list) : x[i] # list[j]
    PROVE  LET y == Drawer!Judging!Along(x, list)
           IN /\ <<y, Len(list)>> \in Listing!Sifted(S, x, list) /\ GoodDrawer(y)
              /\ \A i \in 1..Len(list) : Simple(list[i]) => list[i] \in Range(y)
<1> DEFINE Kept(z, n) == \A i \in 1..n : Simple(list[i]) => list[i] \in Range(z)
           G == {p \in Seq(S) \X Nat : GoodDrawer(p[1]) /\ Kept(p[1], p[2])}
           y == Drawer!Judging!Along(x, list)
<1>1. \A i, j \in 1..Len(list) : list[i] = list[j] => i = j
  BY DEF OnceEach
<1>2. \A i, j \in 1..Len(x) : x[i] = x[j] => i = j
  BY DEF OnceEach, GoodDrawer
<1>3. \A z \in Seq(S), o \in S : Drawer!Judge(z, o) \in {z, Append(z, o)}
  BY DEF Drawer!Judge
<1>4. <<x, 0>> \in G
  <2>1. 1..0 = {}
    OBVIOUS
  <2> QED
    BY <2>1
<1>5. ASSUME NEW z \in Seq(S), NEW n \in Nat, n < Len(list), <<z, n>> \in Drawer!Judging!Sifted(S, x, list), <<z, n>> \in G
      PROVE  <<Drawer!Judge(z, list[n + 1]), n + 1>> \in G
  <2> DEFINE op == list[n + 1]
             r == Drawer!Records(Range(z))
             w == Drawer!Judge(z, op)
  <2>1. op \in S /\ n + 1 \in Nat /\ GoodDrawer(z) /\ Kept(z, n)
    BY <1>5
  <2>2. \A i \in 1..Len(z) : z[i] # op
    <3>1. <<z, n>> \in Drawer!Judging!Sifted(S, x, list) /\ n < Len(list)
      BY <1>5
    <3> QED
      BY <1>1, <3>1, PhonesAssumption, Drawer!Judging!SiftOne
  <2>3. op \notin Range(z) /\ Range(z) \in SUBSET S /\ IsFiniteSet(Range(z))
    BY <2>1, <2>2, RangeOfList, ListIs DEF GoodDrawer
  <2>4. 1..(n + 1) = 1..n \cup {n + 1} /\ list[n + 1] = op
    OBVIOUS
  <2>5. w = IF EntryAllows(r, op) THEN Append(z, op) ELSE z
    BY DEF Drawer!Judge, Drawer!Range, Range
  <2>6. Range(Append(z, op)) = Range(z) \cup {op} /\ Append(z, op) \in Seq(S)
    <3> HIDE DEF op
    <3> QED
      BY <2>1, RangeOfMore
  <2>7. Till(Range(z) \cup {op}) /\ Till(Range(z)) /\ Cashed(op)
    <3>1. Range(z) \cup {op} \in SUBSET S
      BY <2>1, <2>3
    <3> QED
      BY <2>1, <2>3, <3>1, TillPart DEF Till
  <2> HIDE DEF op, r, w
  <2>8. CASE ~EntryAllows(r, op)
    <3>1. ~Simple(op)
      <4> SUFFICES ASSUME Simple(op) PROVE FALSE
        OBVIOUS
      <4>1. op.id \in DOMAIN r
        BY <2>8 DEF EntryAllows, Simple, Enters, EntryKinds
      <4>2. EntriesFold(r, Range(z))
        BY <2>3, <2>7, RecordsAreEntries DEF r
      <4>3. PICK e \in Range(z) : Enters(e) /\ e.id = op.id
        BY <2>7, <4>1, <4>2, RowOf
      <4>4. e = op
        BY <2>7, <4>3 DEF Till, EntriesOnce, Simple
      <4> QED
        BY <2>3, <4>3, <4>4
    <3>2. w = z /\ Kept(z, n + 1)
      BY <2>1, <2>4, <2>5, <2>8, <3>1
    <3> QED
      BY <2>1, <3>2 DEF w, op
  <2>9. CASE EntryAllows(r, op)
    <3>1. w = Append(z, op)
      BY <2>5, <2>9
    <3>2. GoodDrawer(w)
      BY <2>1, <2>3, <2>7, <2>9, <3>1, DrawerMore DEF r
    <3>3. w \in Seq(S) /\ Range(w) = Range(z) \cup {op}
      BY <2>6, <3>1
    <3>4. Kept(w, n + 1)
      BY <2>1, <2>4, <3>3
    <3> QED
      BY <2>1, <3>2, <3>3, <3>4 DEF w, op
  <2> QED
    BY <2>8, <2>9
<1> HIDE DEF G
<1>6. <<y, Len(list)>> \in Drawer!Judging!Sifted(S, x, list) \cap G
  BY <1>1, <1>2, <1>3, <1>4, <1>5, PhonesAssumption, Drawer!Judging!Sifting
<1> HIDE DEF y
<1>7. <<y, Len(list)>> \in Listing!Sifted(S, x, list)
  BY <1>6 DEF Drawer!Judging!Sifted, Listing!Sifted
<1>8. GoodDrawer(y) /\ Kept(y, Len(list))
  BY <1>6 DEF G
<1> QED
  BY <1>7, <1>8 DEF y

\* What was last counted, with what was moved since, makes up some cash.
DrawnIn(r, cash) ==
    \A count \in Counts(r) : IsLatest(r, count) => cash = r[count].amount + Total(r, Since(r, count))
After(r, at) == at \in Int /\ \A id \in DOMAIN r : r[id].at \in Int /\ r[id].at < at

\* A row that joins the last: a count starts over,
LEMMA CountDrawn ==
    ASSUME NEW r, NEW q, NEW o, JoinsAs(q, r, o), After(r, o.at), o.type = "cashCounted", o.amount \in Int
    PROVE  DrawnIn(q, o.amount)
<1> SUFFICES ASSUME NEW count \in Counts(q), IsLatest(q, count)
             PROVE  o.amount = q[count].amount + Total(q, Since(q, count))
  BY DEF DrawnIn
<1>1. o.id \in Counts(q)
  BY DEF JoinsAs, Counts
<1>2. count = o.id
  <2> SUFFICES ASSUME count # o.id PROVE FALSE
    OBVIOUS
  <2>1. count \in DOMAIN r /\ q[count] = r[count]
    BY DEF Counts, JoinsAs
  <2>2. q[o.id].at <= q[count].at /\ q[o.id].at = o.at
    BY <1>1 DEF IsLatest, JoinsAs
  <2> QED
    BY <2>1, <2>2 DEF After
<1>3. Since(q, count) = {}
  <2> SUFFICES ASSUME NEW id \in Since(q, count) PROVE FALSE
    OBVIOUS
  <2>1. id \in DOMAIN q /\ Moved(q, id) /\ q[id].at > o.at
    BY <1>2 DEF Since, JoinsAs
  <2>2. id # o.id
    BY <2>1 DEF Moved, JoinsAs
  <2>3. id \in DOMAIN r /\ q[id] = r[id]
    BY <2>1, <2>2 DEF JoinsAs
  <2> QED
    BY <2>1, <2>3 DEF After
<1>4. q[count].amount = o.amount /\ Total(q, Since(q, count)) = 0
  BY <1>2, <1>3, TotalNone DEF JoinsAs
<1> QED
  BY <1>4

\* what was moved was put in,
LEMMA MoveDrawn ==
    ASSUME NEW r, NEW q, NEW o, JoinsAs(q, r, o), After(r, o.at), Numbered(q, DOMAIN q),
           o.type \in {"paymentReceived", "cashMoved"}, ~o.mistyped, NEW cash \in Int, DrawnIn(r, cash),
           \A count \in Counts(r) : r[count].amount \in Int
    PROVE  DrawnIn(q, cash + Debits(q[o.id]))
<1> SUFFICES ASSUME NEW count \in Counts(q), IsLatest(q, count)
             PROVE  cash + Debits(q[o.id]) = q[count].amount + Total(q, Since(q, count))
  BY DEF DrawnIn
<1>1. count \in Counts(r) /\ count \in DOMAIN r /\ q[count] = r[count] /\ IsLatest(r, count)
  BY DEF Counts, JoinsAs, IsLatest
<1> DEFINE S == Since(r, count)
           n == o.id
<1>2. n \notin S /\ S \subseteq DOMAIN r
  BY DEF Since, JoinsAs
<1>3. Since(q, count) = S \cup {n}
  <2>1. \A id \in DOMAIN r : id \in Since(q, count) <=> id \in S
    BY <1>1 DEF Since, Moved, JoinsAs
  <2>2. n \in DOMAIN q /\ Moved(q, n) /\ q[n].at > q[count].at
    BY <1>1 DEF Moved, JoinsAs, After
  <2>3. DOMAIN q = DOMAIN r \cup {n}
    BY DEF JoinsAs
  <2> QED
    BY <2>1, <2>2, <2>3 DEF Since
<1> HIDE DEF S, n
<1>4. Numbered(q, S \cup {n})
  <2>1. S \cup {n} \in SUBSET DOMAIN q
    BY <1>2 DEF JoinsAs, n
  <2> QED
    BY <2>1, NumberedPart
<1>5. Total(q, S) \in Int /\ Total(q, S \cup {n}) = Total(q, S) + Debits(q[n]) /\ Debits(q[n]) \in Int
  BY <1>2, <1>4, TotalMore DEF Numbered
<1>6. Total(q, S) = Total(r, S)
  <2>1. \A id \in S : Debits(r[id]) = Debits(q[id])
    BY <1>2 DEF JoinsAs
  <2> QED
    BY <2>1, TotalSame
<1>7. cash = r[count].amount + Total(r, S) /\ r[count].amount \in Int
  BY <1>1 DEF DrawnIn, S
<1> DEFINE a == r[count].amount
           t == Total(r, S)
           v == Debits(q[n])
<1>8. a \in Int /\ t \in Int /\ v \in Int /\ cash = a + t
  BY <1>5, <1>6, <1>7
<1>9. q[count].amount + Total(q, Since(q, count)) = a + (t + v)
  BY <1>1, <1>3, <1>5, <1>6
<1> HIDE DEF a, t, v
<1>10. cash + v = a + (t + v)
  BY <1>8
<1> QED
  BY <1>9, <1>10 DEF v, n

\* anything else was not.
LEMMA TypedDrawn ==
    ASSUME NEW r, NEW q, NEW o, JoinsAs(q, r, o), o.type # "cashCounted",
           o.mistyped \/ o.type \notin {"paymentReceived", "cashMoved"}, NEW cash, DrawnIn(r, cash)
    PROVE  DrawnIn(q, cash)
<1> SUFFICES ASSUME NEW count \in Counts(q), IsLatest(q, count)
             PROVE  cash = q[count].amount + Total(q, Since(q, count))
  BY DEF DrawnIn
<1>1. count \in Counts(r) /\ count \in DOMAIN r /\ q[count] = r[count] /\ IsLatest(r, count)
  BY DEF Counts, JoinsAs, IsLatest
<1>2. Since(q, count) = Since(r, count)
  BY <1>1 DEF Since, Moved, JoinsAs
<1>3. Total(q, Since(r, count)) = Total(r, Since(r, count))
  <2>1. \A id \in Since(r, count) : Debits(r[id]) = Debits(q[id])
    BY DEF JoinsAs, Since
  <2> QED
    BY <2>1, TotalSame
<1> QED
  BY <1>1, <1>2, <1>3 DEF DrawnIn

\* A void of what was mistyped moves nothing,
LEMMA VoidDrawn ==
    ASSUME NEW r, NEW q, NEW o, MarksIn(q, r, o), o.id \in DOMAIN r => r[o.id].mistyped, NEW cash, DrawnIn(r, cash)
    PROVE  DrawnIn(q, cash)
<1> SUFFICES ASSUME NEW count \in Counts(q), IsLatest(q, count)
             PROVE  cash = q[count].amount + Total(q, Since(q, count))
  BY DEF DrawnIn
<1>1. count \in Counts(r) /\ count \in DOMAIN r /\ q[count].amount = r[count].amount /\ q[count].at = r[count].at
      /\ IsLatest(r, count)
  BY DEF Counts, MarksIn, IsLatest
<1>2. Since(q, count) = Since(r, count)
  BY <1>1 DEF Since, Moved, MarksIn
<1>3. Total(q, Since(r, count)) = Total(r, Since(r, count))
  <2>1. \A id \in Since(r, count) : id \in DOMAIN r /\ id # o.id
    BY DEF Since, Moved
  <2>2. \A id \in Since(r, count) : Debits(r[id]) = Debits(q[id])
    BY <2>1 DEF MarksIn
  <2> QED
    BY <2>2, TotalSame
<1> QED
  BY <1>1, <1>2, <1>3 DEF DrawnIn

\* and neither does leaving out what moved nothing.
LEMMA LessDrawn ==
    ASSUME NEW M, Till(M), NEW N \in SUBSET M, \A o \in M : Simple(o) => o \in N,
           NEW r, EntriesFold(r, M), NEW q, EntriesFold(q, N), NEW cash, DrawnIn(r, cash)
    PROVE  DrawnIn(q, cash)
<1>0. Till(N)
  BY TillPart
<1>1. ASSUME NEW id \in DOMAIN q
      PROVE  /\ id \in DOMAIN r /\ q[id].kind = r[id].kind /\ q[id].at = r[id].at
             /\ q[id].mistyped = r[id].mistyped /\ q[id].amount = r[id].amount
  <2>1. PICK op \in N : Enters(op) /\ op.id = id
    BY <1>0, RowOf
  <2>2. op \in M
    OBVIOUS
  <2> QED
    BY <2>1, <2>2, RowFor
<1>2. ASSUME NEW id \in DOMAIN r, r[id].kind # "cashAdjusted" PROVE id \in DOMAIN q
  <2>1. PICK op \in M : Enters(op) /\ op.id = id /\ r[id].kind = op.type
    BY RowOf
  <2>2. op \in N
    BY <1>2, <2>1 DEF Simple
  <2> QED
    BY <2>1, <2>2, RowFor
<1>3. ASSUME NEW id \in DOMAIN q, Moved(q, id) PROVE q[id] = r[id]
  <2>1. PICK op \in N : Enters(op) /\ op.id = id /\ q[id].mistyped = op.mistyped
    BY <1>0, RowOf
  <2>2. op \in M /\ ~op.mistyped
    BY <1>3, <2>1 DEF Moved
  <2>3. ~IsVoided(id, M) /\ ~IsVoided(id, N)
    BY <2>1, <2>2 DEF IsVoided, Till, VoidsFollow
  <2> QED
    BY <2>1, <2>2, <2>3, RowsAgree
<1> SUFFICES ASSUME NEW count \in Counts(q), IsLatest(q, count)
             PROVE  cash = q[count].amount + Total(q, Since(q, count))
  BY DEF DrawnIn
<1>4. Counts(q) = Counts(r)
  BY <1>1, <1>2 DEF Counts
<1>5. count \in DOMAIN q /\ \A other \in Counts(q) : other \in DOMAIN q
  BY DEF Counts
<1>6. IsLatest(r, count)
  BY <1>1, <1>4, <1>5 DEF IsLatest
<1>7. Since(q, count) = Since(r, count)
  <2>1. \A id \in DOMAIN q : Moved(q, id) <=> Moved(r, id)
    BY <1>1 DEF Moved
  <2>2. \A id \in DOMAIN r : Moved(r, id) => id \in DOMAIN q
    BY <1>2 DEF Moved
  <2>3. \A id \in DOMAIN q : id \in DOMAIN r /\ q[id].at = r[id].at
    BY <1>1
  <2> QED
    BY <1>5, <2>1, <2>2, <2>3 DEF Since
<1>8. Total(q, Since(q, count)) = Total(r, Since(q, count))
  <2>1. \A id \in Since(q, count) : Debits(q[id]) = Debits(r[id])
    BY <1>3 DEF Since
  <2> QED
    BY <2>1, TotalSame
<1>9. q[count].amount = r[count].amount
  BY <1>1, <1>5
<1> QED
  BY <1>4, <1>6, <1>7, <1>8, <1>9 DEF DrawnIn

\* When an entry was judged.
LEMMA JudgedIs ==
    ASSUME GoodDrawer(taken), Till(Range(taken)), NEW k \in 1..Len(taken), Enters(taken[k])
    PROVE  JudgedAt(taken[k].id) = k
<1> DEFINE id == taken[k].id
           j == CHOOSE i \in 1..Len(taken) : taken[i].type \in EntryKinds /\ taken[i].id = id
<1>1. j \in 1..Len(taken) /\ taken[j].type \in EntryKinds /\ taken[j].id = id
  BY DEF Enters
<1>2. JudgedAt(id) = j
  BY DEF JudgedAt
<1> HIDE DEF j
<1>3. IsList(taken) /\ OnceEach(taken)
  BY DEF GoodDrawer
<1>4. taken[j] \in Range(taken) /\ taken[k] \in Range(taken)
  BY <1>1, <1>3, ListIs
<1>5. taken[j] = taken[k]
  BY <1>1, <1>4 DEF Till, EntriesOnce, Enters
<1> QED
  BY <1>1, <1>2, <1>3, <1>5 DEF OnceEach

\* What was judged after a correction from before its count.
LEMMA LateIs ==
    ASSUME GoodDrawer(taken), Till(Range(taken)), NEW r, EntriesFold(r, Range(taken)),
           NEW count, NEW i \in 1..Len(taken), SettledAt(taken, r, count, i)
    PROVE  {id \in DOMAIN r : \E a \in Settling(r, count) : JudgedAt(id) > JudgedAt(a) /\ r[id].at < r[count].at}
           = TakenAfter(taken, i, r[count].at)
<1>0. IsList(taken)
  BY DEF GoodDrawer
<1>1. Settling(r, count) = {taken[i].id} /\ JudgedAt(taken[i].id) = i
  BY JudgedIs DEF SettledAt, Enters, EntryKinds
<1>2. ASSUME NEW id \in DOMAIN r, JudgedAt(id) > i, r[id].at < r[count].at PROVE id \in TakenAfter(taken, i, r[count].at)
  <2>1. PICK op \in Range(taken) : Enters(op) /\ op.id = id /\ r[id].at = op.at
    BY RowOf
  <2>2. PICK k \in 1..Len(taken) : taken[k] = op
    BY <1>0, ListIs
  <2>3. JudgedAt(id) = k
    BY <2>1, <2>2, JudgedIs
  <2> QED
    BY <1>2, <2>1, <2>2, <2>3 DEF TakenAfter
<1>3. ASSUME NEW id \in TakenAfter(taken, i, r[count].at)
      PROVE  id \in DOMAIN r /\ JudgedAt(id) > i /\ r[id].at < r[count].at
  <2>1. PICK k \in 1..Len(taken) : k > i /\ Enters(taken[k]) /\ id = taken[k].id
    BY DEF TakenAfter
  <2>2. JudgedAt(id) = k
    BY <2>1, JudgedIs
  <2> QED
    BY <1>0, <2>1, <2>2, TakenAfterIs
<1> QED
  BY <1>1, <1>2, <1>3

TypedSince(r, count) == {id \in DOMAIN r : r[id].mistyped /\ r[id].at > r[count].at}

\* A book with a settled latest count: what was expected, the correction, and
\* what was moved or typed since.
LEMMA BookIs ==
    ASSUME NEW M, IsFiniteSet(M), Till(M), SettlesKnown(M), NEW r, EntriesFold(r, M), NEW count \in Counts(r),
           IsLatest(r, count), NEW a \in M, a.type = "cashAdjusted", Settling(r, count) = {a.id}
    PROVE  LET x == Expected(r, count)
               s == Total(r, Since(r, count))
               t == Total(r, TypedSince(r, count))
           IN x \in Int /\ s \in Int /\ t \in Int /\ a.amount \in Int /\ Book(r) = x + a.amount + s + t
<1> DEFINE X == ExpectedOf(r, count)
           S == Since(r, count)
           T == TypedSince(r, count)
           at == r[count].at
<1>1. PICK c \in M : c.type = "cashCounted" /\ c.id = count /\ at = c.at /\ count # NoLine /\ c.at \in Int
  BY CountRow
<1>2. count \in DOMAIN r /\ r[count].kind = "cashCounted" /\ r[count].settles = NoLine /\ ~r[count].mistyped
  <2>1. count \in DOMAIN r /\ r[count].kind = "cashCounted"
    BY DEF Counts
  <2>2. Enters(c) /\ Cashed(c)
    BY <1>1 DEF Enters, EntryKinds, Till
  <2>3. r[count].settles = c.settles /\ r[count].mistyped = c.mistyped
    BY <1>1, <2>2, RowFor
  <2> QED
    BY <1>1, <2>1, <2>2, <2>3 DEF Cashed
<1>3. /\ a.id \in DOMAIN r /\ r[a.id].kind = "cashAdjusted" /\ r[a.id].amount = a.amount /\ a.amount \in Int
      /\ r[a.id].settles = count /\ ~r[a.id].mistyped
  <2>1. Enters(a) /\ Cashed(a)
    BY DEF Enters, EntryKinds, Till
  <2>2. a.id \in DOMAIN r /\ r[a.id].kind = a.type /\ r[a.id].amount = a.amount /\ r[a.id].mistyped = a.mistyped
    BY <2>1, RowFor
  <2>3. r[a.id].settles = count
    BY DEF Settling
  <2> QED
    BY <2>1, <2>2, <2>3 DEF Cashed
<1>4. ASSUME NEW id \in DOMAIN r
      PROVE  /\ r[id].at \in Int /\ r[id].kind \in EntryKinds
             /\ r[id].at = at => id = count
             /\ r[id].mistyped \in BOOLEAN /\ (r[id].mistyped => r[id].kind = "cashMoved")
             /\ r[id].settles # NoLine => r[id].kind = "cashAdjusted" /\ r[id].settles \in Counts(r)
             /\ r[id].kind = "cashAdjusted" => r[id].settles # NoLine
  <2>1. PICK op \in M : /\ Enters(op) /\ Cashed(op) /\ op.id = id /\ r[id].at = op.at /\ op.at \in Int
                        /\ r[id].kind = op.type /\ r[id].settles = op.settles /\ r[id].mistyped = op.mistyped
    BY RowOf
  <2>2. r[id].at = at => id = count
    BY <1>1, <2>1 DEF Till, AtOnce
  <2>3. r[id].settles # NoLine => r[id].kind = "cashAdjusted" /\ r[id].settles \in Counts(r)
    BY SettledRow
  <2>4. ASSUME op.type = "cashAdjusted" PROVE op.settles # NoLine
    <3>1. PICK e \in M : e.type = "cashCounted" /\ e.id = op.settles
      BY <2>4 DEF SettlesKnown
    <3> QED
      BY <3>1 DEF Till, Cashed
  <2> QED
    BY <2>1, <2>2, <2>3, <2>4 DEF Cashed, Enters
<1>5. \A other \in Counts(r) : other \in DOMAIN r /\ (other = count \/ r[other].at < at)
  <2> SUFFICES ASSUME NEW other \in Counts(r) PROVE other \in DOMAIN r /\ (other = count \/ r[other].at < at)
    OBVIOUS
  <2>1. other \in DOMAIN r /\ r[other].at <= at
    BY DEF Counts, IsLatest
  <2> QED
    BY <1>1, <1>4, <2>1
<1> HIDE DEF X, S, T, at
<1>6. count \notin X /\ a.id \notin X /\ count \notin S /\ a.id \notin S /\ count \notin T /\ a.id \notin T /\ count # a.id
  <2>1. StandsAt(r, count) = at /\ StandsAt(r, a.id) = at
    BY <1>1, <1>2, <1>3 DEF StandsAt, at
  <2>2. count \notin X /\ a.id \notin X
    BY <1>1, <2>1 DEF X, ExpectedOf, at
  <2> QED
    BY <1>2, <1>3, <2>2 DEF S, Since, Moved, T, TypedSince
<1>7. X \cap S = {} /\ X \cap T = {} /\ S \cap T = {}
  <2>1. \A id \in S \cup T : id \in DOMAIN r /\ r[id].kind # "cashAdjusted" /\ r[id].at > at
    BY <1>4 DEF S, T, Since, TypedSince, Moved, at
  <2>2. \A id \in S \cup T : id \notin X
    BY <1>1, <1>4, <2>1 DEF X, ExpectedOf, StandsAt, at
  <2>3. S \cap T = {}
    BY DEF S, T, Since, TypedSince, Moved
  <2> QED
    BY <2>2, <2>3
<1>8. ASSUME NEW id \in DOMAIN r PROVE id \in X \/ id = count \/ id = a.id \/ id \in S \/ id \in T
  <2>1. CASE r[id].settles # NoLine
    <3>1. CASE r[id].settles = count
      BY <3>1 DEF Settling
    <3>2. CASE r[id].settles # count
      BY <1>4, <1>5, <2>1, <3>2 DEF X, ExpectedOf, StandsAt, at
    <3> QED
      BY <3>1, <3>2
  <2>2. CASE r[id].settles = NoLine
    <3>1. CASE r[id].at < at
      BY <2>2, <3>1 DEF X, ExpectedOf, StandsAt, at
    <3>2. CASE r[id].at = at
      BY <1>4, <3>2
    <3>3. CASE r[id].at > at
      <4>1. r[id].kind # "cashAdjusted"
        BY <1>4, <2>2
      <4>2. r[id].kind # "cashCounted"
        <5> SUFFICES ASSUME r[id].kind = "cashCounted" PROVE FALSE
          OBVIOUS
        <5>1. id \in Counts(r)
          BY DEF Counts
        <5> QED
          BY <1>1, <1>4, <1>5, <3>3, <5>1 DEF at
      <4>3. r[id].kind \in {"paymentReceived", "cashMoved"}
        BY <1>4, <4>1, <4>2 DEF EntryKinds
      <4> QED
        BY <1>4, <3>3, <4>3 DEF S, T, Since, TypedSince, Moved, at
    <3> QED
      BY <1>1, <1>4, <3>1, <3>2, <3>3
  <2> QED
    BY <2>1, <2>2
<1>9. X \subseteq DOMAIN r /\ S \subseteq DOMAIN r /\ T \subseteq DOMAIN r
  BY DEF X, S, T, ExpectedOf, Since, TypedSince
<1> DEFINE A == X \cup {count}
           B == A \cup {a.id}
           C == B \cup S
<1>10. DOMAIN r = C \cup T /\ B \cap S = {} /\ C \cap T = {} /\ count \notin X /\ a.id \notin A
  BY <1>2, <1>3, <1>6, <1>7, <1>8, <1>9
<1>11. Numbered(r, A) /\ Numbered(r, B) /\ Numbered(r, C) /\ Numbered(r, C \cup T)
  <2>1. Numbered(r, DOMAIN r) /\ A \in SUBSET DOMAIN r /\ B \in SUBSET DOMAIN r /\ C \in SUBSET DOMAIN r
    BY <1>2, <1>3, <1>9, DebitsAreNumbers
  <2> HIDE DEF A, B, C
  <2> QED
    BY <1>10, <2>1, NumberedPart
<1>12. Total(r, X) \in Int /\ Total(r, A) = Total(r, X) + Debits(r[count])
  BY <1>10, <1>11, TotalMore
<1>13. Total(r, B) = Total(r, A) + Debits(r[a.id])
  BY <1>10, <1>11, TotalMore
<1>14. Total(r, S) \in Int /\ Total(r, C) = Total(r, B) + Total(r, S)
  BY <1>10, <1>11, TotalJoin
<1>15. Total(r, T) \in Int /\ Total(r, C \cup T) = Total(r, C) + Total(r, T)
  BY <1>10, <1>11, TotalJoin
<1>16. Debits(r[count]) = 0 /\ Debits(r[a.id]) = a.amount
  BY <1>2, <1>3 DEF Debits
<1>17. Book(r) = Total(r, C \cup T) /\ Expected(r, count) = Total(r, X)
  BY <1>10 DEF Book, Expected, X, ExpectedOf
<1> HIDE DEF A, B, C
<1> DEFINE x == Total(r, X)
           s == Total(r, S)
           t == Total(r, T)
           b == a.amount
<1>18. x \in Int /\ s \in Int /\ t \in Int /\ b \in Int /\ Book(r) = (((x + 0) + b) + s) + t
  BY <1>3, <1>12, <1>13, <1>14, <1>15, <1>16, <1>17
<1>19. Expected(r, count) = x /\ s = Total(r, Since(r, count)) /\ t = Total(r, TypedSince(r, count))
  BY <1>17 DEF S, T
<1> HIDE DEF x, s, t, b
<1>20. Book(r) = x + b + s + t
  BY <1>18
<1> QED
  BY <1>18, <1>19, <1>20 DEF b

\* Once all is pushed, what the drawer makes up is what the book says.
LEMMA BookIsRight ==
    ASSUME GoodDrawer(taken), Till(Range(taken)), DrawnIn(Drawer!ServerRecords, drawer + lost),
           drawer \in Int, lost \in Int, AllPushed
    PROVE  SettledIsRight
<1> DEFINE r == Drawer!ServerRecords
           M == Range(taken)
<1>1. r = Drawer!Records(M) /\ IsFiniteSet(M) /\ SettlesKnown(M) /\ SettledIn(taken, r) /\ IsList(taken)
  BY DEF Drawer!ServerRecords, GoodDrawer, Drawer!Range, Range
<1>2. EntriesFold(r, M)
  BY <1>1, RecordsAreEntries
<1> HIDE DEF r, M
<1>3. ASSUME NEW count \in Counts(r), IsLatest(r, count), Settling(r, count) # {}
      PROVE  Book(r) = drawer + lost + Total(r,
                 {id \in DOMAIN r : \/ \E a \in Settling(r, count) : JudgedAt(id) > JudgedAt(a) /\ r[id].at < r[count].at
                                    \/ r[id].mistyped /\ r[id].at > r[count].at})
  <2>1. PICK i \in 1..Len(taken) : SettledAt(taken, r, count, i)
    BY <1>1, <1>3 DEF SettledIn
  <2> DEFINE a == taken[i]
             W == TakenAfter(taken, i, r[count].at)
             T == TypedSince(r, count)
             L == {id \in DOMAIN r : \E e \in Settling(r, count) : JudgedAt(id) > JudgedAt(e) /\ r[id].at < r[count].at}
  <2>2. a \in M /\ a.type = "cashAdjusted" /\ Settling(r, count) = {a.id}
        /\ r[count].amount + Total(r, W) = Expected(r, count) + a.amount
    BY <1>1, <2>1, ListIs DEF SettledAt, M
  <2>3. L = W
    BY <1>2, <2>1, LateIs DEF M
  <2>4. r[count].at \in Int /\ r[count].amount \in Int
    BY <1>2, <1>3, CountRow DEF M
  <2>5. {id \in DOMAIN r : \/ \E e \in Settling(r, count) : JudgedAt(id) > JudgedAt(e) /\ r[id].at < r[count].at
                           \/ r[id].mistyped /\ r[id].at > r[count].at} = L \cup T
    BY DEF TypedSince
  <2>6. W \cap T = {} /\ W \cup T \in SUBSET DOMAIN r
    <3>1. \A id \in W : id \in DOMAIN r /\ r[id].at < r[count].at
      BY <1>1, <1>2, TakenAfterIs DEF M
    <3>2. \A id \in T : id \in DOMAIN r /\ r[id].at > r[count].at
      BY DEF TypedSince
    <3>3. \A id \in DOMAIN r : r[id].at \in Int
      <4>1. Till(M) /\ EntriesFold(r, M)
        BY <1>2 DEF M
      <4> QED
        BY <4>1, RowOf
    <3> HIDE DEF W, T
    <3> QED
      BY <2>4, <3>1, <3>2, <3>3
  <2>7. LET x == Expected(r, count)
            s == Total(r, Since(r, count))
            t == Total(r, TypedSince(r, count))
        IN x \in Int /\ s \in Int /\ t \in Int /\ a.amount \in Int /\ Book(r) = x + a.amount + s + t
    <3>1. Till(M)
      BY DEF M
    <3> HIDE DEF a
    <3> QED
      BY <1>1, <1>2, <1>3, <2>2, <3>1, BookIs
  <2>8. drawer + lost = r[count].amount + Total(r, Since(r, count))
    BY <1>3 DEF DrawnIn, r
  <2> HIDE DEF W, T, L
  <2>9. Total(r, W) \in Int /\ Total(r, W \cup T) = Total(r, W) + Total(r, T)
    <3>1. Numbered(r, DOMAIN r)
      <4>1. Till(M)
        BY DEF M
      <4> QED
        BY <1>1, <1>2, <4>1, DebitsAreNumbers
    <3>2. Numbered(r, W \cup T)
      BY <2>6, <3>1, NumberedPart
    <3> QED
      BY <2>6, <3>2, TotalJoin
  <2> DEFINE x == Expected(r, count)
             s == Total(r, Since(r, count))
             t == Total(r, T)
             w == Total(r, W)
             b == a.amount
             c == r[count].amount
             book == Book(r)
             cash == drawer + lost
  <2>10. /\ x \in Int /\ s \in Int /\ t \in Int /\ w \in Int /\ b \in Int /\ c \in Int /\ cash \in Int
         /\ book = x + b + s + t /\ c + w = x + b /\ cash = c + s
    BY <2>2, <2>4, <2>7, <2>8, <2>9 DEF T
  <2>11. Total(r, W \cup T) = w + t
    BY <2>9
  <2> HIDE DEF x, s, t, w, b, c, book, cash
  <2>12. book = cash + (w + t)
    BY <2>10
  <2>13. Book(r) = drawer + lost + Total(r, W \cup T)
    BY <2>11, <2>12 DEF book, cash
  <2> QED
    BY <2>3, <2>5, <2>13
<1> QED
  BY <1>3 DEF SettledIsRight, r

-----------------------------------------------------------------------------
(* What the state of a drawer keeps. *)

IdsBefore == \A op \in Made : op.id \in Person \X Nat => op.id[2] < commands
MadeAtTill == Signatures /\ IsFiniteSet(Made) /\ Till(Made) /\ VoidsKnown(Made) /\ IdsBefore
DrawerInv ==
    /\ MadeAtTill /\ \A d \in Person : lag[d] = 0
    /\ GoodDrawer(taken)
    /\ drawer \in Nat /\ lost \in 0..1 /\ DrawnIn(Drawer!Records(Made), drawer + lost)

\* Operations signed by different keys are told apart.
LEMMA KeyedApart ==
    ASSUME NEW U, \A op \in U : op.by \in Person /\ op.at \in Nat /\ op.seq \in Nat,
           \A a, b \in U : Key(a) = Key(b) => a = b
    PROVE  Distinct(U)
<1>1. \A op \in U : op.at \in Int /\ op.by \in Int /\ op.seq \in Int
  <2> SUFFICES ASSUME NEW op \in U PROVE op.at \in Int /\ op.by \in Int /\ op.seq \in Int
    OBVIOUS
  <2>1. op.by \in Nat /\ op.at \in Nat /\ op.seq \in Nat
    BY PhonesAssumption
  <2> QED
    BY <2>1
<1> QED
  BY <1>1 DEF Distinct

\* All clocks show the same, and nothing was signed later.
LEMMA ClocksAgree ==
    ASSUME DrawerInv, NEW d \in Person
    PROVE  Now(d) \in Nat /\ \A op \in Made : op.at \in Nat /\ op.at < Now(d)
<1>1. commands \in Nat /\ Max(Lags) \in Nat /\ \A p \in Person : lag[p] = 0
  BY LagsAre DEF DrawerInv, MadeAtTill, Signatures, Clocks
<1>2. \A p \in Person : Now(p) = Max(Lags) + 2 + commands
  BY <1>1 DEF Now
<1>3. \A op \in Made : op.by \in Person /\ op.at \in Nat /\ op.at < Now(op.by)
  BY DEF DrawerInv, MadeAtTill, Signatures, Keys, IsSigned
<1> QED
  BY <1>1, <1>2, <1>3

\* What an operation is that someone at the drawer signs.
SignsOne(o, change, d) ==
    /\ Signatures' /\ Made' = Made \cup {o} /\ o \notin Made /\ IsFiniteSet(Made \cup {o}) /\ o.at = Now(d) /\ o.at \in Int
    /\ (\A op \in Made : op.at \in Int /\ op.at < o.at) /\ Tells(o, change) /\ Distinct(Made \cup {o}) /\ AtOnce(Made \cup {o})
    /\ taken' = taken /\ lag' = lag /\ fetched' = fetched /\ commands' = commands + 1 /\ commands \in Nat

\* Running a command signs one operation, later than every other.
LEMMA OneSigned ==
    ASSUME DrawerInv, NEW d \in Person, NEW change, IsAct(change), Drawer!Run(d, <<change>>)
    PROVE  SignsOne(Signed(change, d, 1), change, d)
<1> DEFINE c == <<change>>
           ops == Drawer!Draft(c, d)
           o == Signed(change, d, 1)
<1>1. IsList(c) /\ Len(c) = 1 /\ c[1] = change
  BY OneIs
<1>2. /\ own' = [own EXCEPT ![d] = @ \o ops] /\ commands' = commands + 1 /\ UNCHANGED <<taken, fetched, lag>>
  BY DEF Drawer!Run
<1>3. ops = [i \in 1..Len(c) |-> Signed(c[i], d, i)]
  BY DEF Drawer!Draft, Drawer!Signed, Signed, Drawer!Now, Now, Drawer!Max, Max
<1> HIDE DEF c, ops
<1>4. 1..Len(c) = {1} /\ ops[1] = o
  BY <1>1, <1>3
<1>5. /\ Signatures' /\ Made' = Made \cup Range(ops)
  <2>1. Signatures /\ Max(Lags) \in Nat
    BY LagsAre DEF DrawerInv, MadeAtTill
  <2>2. \A i \in 1..Len(c) : IsAct(c[i])
    BY <1>1, <1>4
  <2>3. RunLeaves(d, c, ops)
    BY <1>2, <1>3 DEF RunLeaves
  <2> QED
    BY <1>1, <2>1, <2>2, <2>3, RunSigns
<1>6. Range(ops) = {o}
  <2>1. DOMAIN ops = {1}
    BY <1>3, <1>4
  <2> QED
    BY <1>4, <2>1 DEF Range
<1>7. o.at = Now(d) /\ Tells(o, change)
  <2> HIDE DEF o
  <2>1. o.at = Now(d) /\ o.type = change.type /\ o.id = change.id /\ o.amount = change.amount /\ o.how = change.how /\ o.from = change.from
        /\ o.basis = change.basis /\ o.answers = change.answers /\ o.settles = change.settles /\ o.mistyped = change.mistyped
        /\ o.source = change.source /\ o.archives = change.archives
    BY DEF o, Signed, IsAct, Fields
  <2> QED
    BY <2>1 DEF Tells
<1> HIDE DEF o
<1>8. Now(d) \in Nat /\ \A op \in Made : op.at \in Nat /\ op.at < Now(d)
  BY ClocksAgree
<1>9. o \notin Made /\ o.at \in Int /\ \A op \in Made : op.at \in Int /\ op.at < o.at
  BY <1>7, <1>8
<1>10. IsFiniteSet(Made) /\ AtOnce(Made) /\ commands \in Nat
  BY DEF DrawerInv, MadeAtTill, Till, Signatures, Clocks
<1>11. IsFiniteSet(Made \cup {o})
  BY <1>10, FS_AddElement
<1>12. AtOnce(Made \cup {o})
  BY <1>9, <1>10 DEF AtOnce
<1>13. Distinct(Made \cup {o})
  <2>1. Distinct(Made')
    <3>1. \A op \in Made' : op.by \in Person /\ op.at \in Nat /\ op.seq \in Nat
      BY <1>5 DEF Signatures, Keys, IsSigned
    <3>2. \A a, b \in Made' : Key(a) = Key(b) => a = b
      BY <1>5 DEF Signatures, Keys, Key
    <3> QED
      BY <3>1, <3>2, KeyedApart
  <2> QED
    BY <1>5, <1>6, <2>1
<1> QED
  BY <1>2, <1>5, <1>6, <1>7, <1>9, <1>10, <1>11, <1>12, <1>13 DEF SignsOne, o

\* What a phone knows of the drawer.
LEMMA PhoneKnows ==
    ASSUME DrawerInv, NEW d \in Person
    PROVE  /\ Drawer!Known(d) \in SUBSET Made /\ Till(Drawer!Known(d)) /\ IsFiniteSet(Drawer!Known(d))
           /\ EntriesFold(Drawer!PhoneRecords(d), Drawer!Known(d))
<1> DEFINE known == Drawer!Known(d)
<1>1. IsList(taken) /\ IsList(own[d])
  BY DEF DrawerInv, MadeAtTill, Signatures, Lists
<1>2. known \in SUBSET Made
  <2>1. \A i \in 1..Len(taken) : taken[i] \in Range(taken)
    BY <1>1, ListIs
  <2>2. known \subseteq Range(taken) \cup Range(own[d])
    BY <2>1 DEF Drawer!Known, Drawer!Range, Range
  <2> HIDE DEF known
  <2> QED
    BY <2>2 DEF Made, InHand
<1> HIDE DEF known
<1>3. Till(known) /\ IsFiniteSet(known)
  BY <1>2, TillPart, FS_Subset DEF DrawerInv, MadeAtTill
<1>4. EntriesFold(Drawer!Records(known), known)
  BY <1>3, RecordsAreEntries
<1> QED
  BY <1>2, <1>3, <1>4 DEF known, Drawer!PhoneRecords

\* The difference a phone shows is a number.
LEMMA DifferenceIs ==
    ASSUME DrawerInv, NEW d \in Person, NEW count \in Counts(Drawer!PhoneRecords(d))
    PROVE  Difference(Drawer!PhoneRecords(d), count) \in Int /\ count # NoLine
<1> DEFINE r == Drawer!PhoneRecords(d)
           M == Drawer!Known(d)
           X == {id \in DOMAIN r : StandsAt(r, id) < r[count].at}
<1>1. Till(M) /\ IsFiniteSet(M) /\ EntriesFold(r, M)
  BY PhoneKnows
<1>2. X \in SUBSET DOMAIN r
  OBVIOUS
<1> HIDE DEF r, M, X
<1>3. r[count].amount \in Int /\ count # NoLine
  BY <1>1, CountRow DEF r
<1>4. Total(r, X) \in Int
  BY <1>1, <1>2, DebitsAreNumbers, NumberedPart, TotalIsNumber
<1>5. Difference(r, count) = r[count].amount - Total(r, X)
  BY DEF Difference, Expected, X, r
<1>6. Difference(r, count) \in Int
  BY <1>3, <1>4, <1>5
<1> QED
  BY <1>3, <1>6 DEF r

\* Ids stay behind.
LEMMA IdsStayBefore ==
    ASSUME NEW U, NEW m \in Nat, \A op \in U : op.id \in Person \X Nat => op.id[2] < m
    PROVE  \A op \in U : op.id \in Person \X Nat => op.id[2] < m + 1
<1> SUFFICES ASSUME NEW op \in U, op.id \in Person \X Nat PROVE op.id[2] < m + 1
  OBVIOUS
<1> DEFINE k == op.id[2]
<1>1. k \in Nat /\ k < m
  OBVIOUS
<1> HIDE DEF k
<1>2. k < m + 1
  BY <1>1
<1> QED
  BY <1>2 DEF k

\* Recording an entry at the till.
LEMMA EntryRuns ==
    ASSUME DrawerInv, NEW d \in Person, NEW change, Cashed(change), Enters(change), change.id = NewId(d),
           NEW o, SignsOne(o, change, d)
    PROVE  LET r == Drawer!Records(Made)
               q == Drawer!Records(Made \cup {o})
           IN MadeAtTill' /\ JoinsAs(q, r, o) /\ After(r, o.at) /\ Numbered(q, DOMAIN q)
              /\ \A count \in Counts(r) : r[count].amount \in Int
<1> DEFINE M == Made
           N == Made \cup {o}
           r == Drawer!Records(M)
           q == Drawer!Records(N)
<1>1. Signatures' /\ Made' = N /\ o \notin M /\ IsFiniteSet(N) /\ o.at \in Int
      /\ (\A op \in M : op.at \in Int /\ op.at < o.at) /\ Distinct(N) /\ AtOnce(N)
      /\ commands' = commands + 1 /\ commands \in Nat
  BY DEF SignsOne
<1>2. Cashed(o) /\ Enters(o) /\ o.id = NewId(d)
  BY DEF SignsOne, Tells, Cashed, Enters
<1>3. IsFiniteSet(M) /\ Till(M) /\ VoidsKnown(M) /\ IdsBefore
  BY DEF DrawerInv, MadeAtTill
<1>4. o.id \in Person \X Nat /\ o.id[2] = commands
  BY <1>1, <1>2 DEF NewId
<1>5. \A op \in M : op.id # o.id
  <2> SUFFICES ASSUME NEW op \in M, op.id = o.id PROVE FALSE
    OBVIOUS
  <2>1. commands < commands
    BY <1>3, <1>4 DEF IdsBefore
  <2> QED
    BY <1>1, <2>1
<1>6. ~VoidsMove(o)
  BY <1>2 DEF VoidsMove, Enters, EntryKinds
<1> HIDE DEF M
<1>7. Till(N)
  <2>1. EntriesOnce(N)
    BY <1>3, <1>5 DEF EntriesOnce, Till, M
  <2>2. VoidsFollow(N)
    BY <1>3, <1>5, <1>6 DEF VoidsFollow, Till, M
  <2>3. \A op \in N : Cashed(op)
    BY <1>2, <1>3 DEF Till, M
  <2> QED
    BY <1>1, <2>1, <2>2, <2>3 DEF Till
<1>8. VoidsKnown(N)
  BY <1>3, <1>6 DEF VoidsKnown, M
<1>9. EntriesFold(r, M) /\ EntriesFold(q, N)
  <2> HIDE DEF N
  <2> QED
    BY <1>1, <1>3, <1>7, RecordsAreEntries
<1> HIDE DEF r, q
<1>10. JoinsAs(q, r, o)
  <2>1. EntriesFold(q, M \cup {o}) /\ Till(M \cup {o})
    BY <1>7, <1>9 DEF M
  <2> QED
    BY <1>1, <1>2, <1>3, <1>9, <2>1, EntryJoins
<1>11. After(r, o.at)
  <2> SUFFICES ASSUME NEW id \in DOMAIN r PROVE r[id].at \in Int /\ r[id].at < o.at
    BY <1>1 DEF After
  <2>1. PICK op \in M : r[id].at = op.at
    BY <1>3, <1>9, RowOf
  <2> QED
    BY <1>1, <2>1
<1>12. Numbered(q, DOMAIN q)
  BY <1>1, <1>7, <1>9, DebitsAreNumbers
<1>13. \A count \in Counts(r) : r[count].amount \in Int
  BY <1>3, <1>9, CountRow
<1>14. IdsBefore'
  <2>1. \A op \in M : op.id \in Person \X Nat => op.id[2] < commands + 1
    BY <1>1, <1>3, IdsStayBefore DEF IdsBefore, M
  <2>2. o.id[2] < commands + 1
    BY <1>1, <1>4
  <2>3. Made' = M \cup {o}
    BY <1>1 DEF M
  <2> QED
    BY <1>1, <2>1, <2>2, <2>3 DEF IdsBefore
<1>15. MadeAtTill'
  <2>1. IsFiniteSet(Made') /\ Till(Made') /\ VoidsKnown(Made')
    BY <1>1, <1>7, <1>8
  <2> QED
    BY <1>1, <1>14, <2>1 DEF MadeAtTill, Till, VoidsKnown
<1> QED
  BY <1>10, <1>11, <1>12, <1>13, <1>15 DEF r, q, M

\* Voiding a move that was mistyped.
LEMMA VoidRuns ==
    ASSUME DrawerInv, NEW d \in Person, NEW change, Cashed(change), VoidsMove(change),
           change.id \in DOMAIN Drawer!PhoneRecords(d), Drawer!PhoneRecords(d)[change.id].mistyped,
           NEW o, SignsOne(o, change, d)
    PROVE  LET r == Drawer!Records(Made)
               q == Drawer!Records(Made \cup {o})
           IN MadeAtTill' /\ MarksIn(q, r, o) /\ (o.id \in DOMAIN r => r[o.id].mistyped)
<1> DEFINE M == Made
           N == Made \cup {o}
           r == Drawer!Records(M)
           q == Drawer!Records(N)
<1>1. Signatures' /\ Made' = N /\ o \notin M /\ IsFiniteSet(N) /\ o.at \in Int
      /\ (\A op \in M : op.at \in Int /\ op.at < o.at) /\ Distinct(N) /\ AtOnce(N)
      /\ commands' = commands + 1 /\ commands \in Nat
  BY DEF SignsOne
<1>2. Cashed(o) /\ VoidsMove(o) /\ o.id = change.id
  BY DEF SignsOne, Tells, Cashed, VoidsMove
<1>3. IsFiniteSet(M) /\ Till(M) /\ VoidsKnown(M) /\ IdsBefore
  BY DEF DrawerInv, MadeAtTill
<1>4. PICK e \in M : Enters(e) /\ e.id = o.id /\ e.mistyped
  <2> DEFINE known == Drawer!Known(d)
             p == Drawer!PhoneRecords(d)
             id == change.id
  <2>1. known \in SUBSET M /\ Till(known) /\ EntriesFold(p, known) /\ id \in DOMAIN p
    BY PhoneKnows
  <2> HIDE DEF known, p, id
  <2>2. PICK e \in known : Enters(e) /\ e.id = id /\ p[id].mistyped = e.mistyped
    BY <2>1, RowOf
  <2> QED
    BY <1>2, <2>1, <2>2 DEF id, p
<1>5. \A op \in M : Enters(op) /\ op.id = o.id => op = e
  BY <1>3, <1>4 DEF Till, EntriesOnce
<1>6. ~Enters(o)
  BY <1>2 DEF VoidsMove, Enters, EntryKinds
<1> HIDE DEF M
<1>7. Till(N)
  <2>1. EntriesOnce(N)
    BY <1>3, <1>6 DEF EntriesOnce, Till, M
  <2>2. VoidsFollow(N)
    BY <1>1, <1>3, <1>4, <1>5, <1>6 DEF VoidsFollow, Till, M
  <2>3. \A op \in N : Cashed(op)
    BY <1>2, <1>3 DEF Till, M
  <2> QED
    BY <1>1, <2>1, <2>2, <2>3 DEF Till
<1>8. VoidsKnown(N)
  BY <1>3, <1>4 DEF VoidsKnown, M
<1>9. EntriesFold(r, M) /\ EntriesFold(q, N)
  <2> HIDE DEF N
  <2> QED
    BY <1>1, <1>3, <1>7, RecordsAreEntries
<1> HIDE DEF r, q
<1>10. MarksIn(q, r, o)
  <2>1. EntriesFold(q, M \cup {o}) /\ Till(M \cup {o})
    BY <1>7, <1>9 DEF M
  <2> QED
    BY <1>2, <1>9, <2>1, VoidMarks
<1>11. r[o.id].mistyped
  BY <1>4, <1>9, RowFor
<1>12. IdsBefore'
  <2>1. \A op \in M : op.id \in Person \X Nat => op.id[2] < commands + 1
    BY <1>1, <1>3, IdsStayBefore DEF IdsBefore, M
  <2>2. o.id \in Person \X Nat => o.id[2] < commands + 1
    BY <1>4, <2>1
  <2>3. Made' = M \cup {o}
    BY <1>1 DEF M
  <2> QED
    BY <1>1, <2>1, <2>2, <2>3 DEF IdsBefore
<1>13. MadeAtTill'
  <2>1. IsFiniteSet(Made') /\ Till(Made') /\ VoidsKnown(Made')
    BY <1>1, <1>7, <1>8
  <2> QED
    BY <1>1, <1>12, <2>1 DEF MadeAtTill, Till, VoidsKnown
<1> QED
  BY <1>10, <1>11, <1>13 DEF r, q, M

\* What a command keeps of a drawer: the invariant, if the drawer makes up.
LEMMA MakesUp ==
    ASSUME DrawerInv, NEW o, NEW change, NEW d, SignsOne(o, change, d), MadeAtTill', drawer' \in Nat, lost' \in 0..1,
           DrawnIn(Drawer!Records(Made \cup {o}), drawer' + lost')
    PROVE  DrawerInv'
<1>1. Made' = Made \cup {o} /\ taken' = taken /\ lag' = lag
  BY DEF SignsOne
<1>2. GoodDrawer(taken)' /\ \A p \in Person : lag'[p] = 0
  BY <1>1 DEF DrawerInv
<1>3. DrawnIn(Drawer!Records(Made), drawer + lost)'
  BY <1>1
<1> QED
  BY <1>2, <1>3 DEF DrawerInv

\* Counting starts over.
LEMMA CountKeeps ==
    ASSUME DrawerInv, NEW d \in Person, NEW change, IsAct(change), Cashed(change), change.type = "cashCounted",
           change.id = NewId(d), change.amount = drawer, Drawer!Run(d, <<change>>), drawer' = drawer, lost' = 0
    PROVE  DrawerInv'
<1> DEFINE o == Signed(change, d, 1)
           r == Drawer!Records(Made)
           q == Drawer!Records(Made \cup {o})
<1>1. SignsOne(o, change, d)
  BY OneSigned
<1> HIDE DEF o
<1>2. MadeAtTill' /\ JoinsAs(q, r, o) /\ After(r, o.at)
  BY <1>1, EntryRuns DEF Enters, EntryKinds
<1>3. o.type = "cashCounted" /\ o.amount = drawer /\ drawer \in Nat
  BY <1>1 DEF SignsOne, Tells, DrawerInv
<1> HIDE DEF r, q
<1>4. DrawnIn(q, drawer)
  <2>1. o.amount \in Int
    BY <1>3
  <2>2. DrawnIn(q, o.amount)
    BY <1>2, <1>3, <2>1, CountDrawn
  <2> QED
    BY <1>3, <2>2
<1>5. drawer' + lost' = drawer
  BY <1>3
<1> QED
  BY <1>1, <1>2, <1>3, <1>4, <1>5, MakesUp DEF q

\* Putting in or taking out what one records is made up for.
LEMMA MoveKeeps ==
    ASSUME DrawerInv, NEW d \in Person, NEW change, IsAct(change), Cashed(change), ~change.mistyped,
           change.type \in {"paymentReceived", "cashMoved"}, change.id = NewId(d), Drawer!Run(d, <<change>>),
           drawer' = drawer + (IF change.type = "cashMoved" THEN -change.amount ELSE change.amount),
           drawer' \in Nat, lost' = lost
    PROVE  DrawerInv'
<1> DEFINE o == Signed(change, d, 1)
           r == Drawer!Records(Made)
           q == Drawer!Records(Made \cup {o})
<1>1. SignsOne(o, change, d)
  BY OneSigned
<1> HIDE DEF o
<1>2. MadeAtTill' /\ JoinsAs(q, r, o) /\ After(r, o.at) /\ Numbered(q, DOMAIN q)
      /\ \A count \in Counts(r) : r[count].amount \in Int
  BY <1>1, EntryRuns DEF Enters, EntryKinds
<1>3. o.type = change.type /\ o.amount = change.amount /\ ~o.mistyped
  <2>1. o.mistyped = change.mistyped
    BY <1>1 DEF SignsOne, Tells
  <2>2. o.type = change.type /\ o.amount = change.amount
    BY <1>1 DEF SignsOne, Tells
  <2> QED
    BY <2>1, <2>2
<1>4. drawer \in Nat /\ lost \in 0..1 /\ DrawnIn(r, drawer + lost) /\ change.amount \in Int
  BY DEF DrawerInv, Cashed
<1> HIDE DEF r, q
<1> DEFINE v == Debits(q[o.id])
<1>5. v = IF change.type = "cashMoved" THEN -change.amount ELSE change.amount
  BY <1>2, <1>3 DEF JoinsAs, Debits
<1>6. v \in Int
  BY <1>2 DEF JoinsAs, Numbered
<1>7. DrawnIn(q, (drawer + lost) + v)
  <2>1. drawer + lost \in Int
    BY <1>4
  <2> QED
    BY <1>2, <1>3, <1>4, <2>1, MoveDrawn
<1> HIDE DEF v
<1>8. drawer' + lost' = (drawer + lost) + v
  BY <1>4, <1>5, <1>6
<1> QED
  BY <1>1, <1>2, <1>4, <1>7, <1>8, MakesUp DEF q

\* What was only typed, or corrects the book, moves nothing.
LEMMA TypedKeeps ==
    ASSUME DrawerInv, NEW d \in Person, NEW change, IsAct(change), Cashed(change), Enters(change),
           change.type # "cashCounted", change.mistyped \/ change.type = "cashAdjusted",
           change.id = NewId(d), Drawer!Run(d, <<change>>), UNCHANGED <<drawer, lost>>
    PROVE  DrawerInv'
<1> DEFINE o == Signed(change, d, 1)
           r == Drawer!Records(Made)
           q == Drawer!Records(Made \cup {o})
<1>1. SignsOne(o, change, d)
  BY OneSigned
<1> HIDE DEF o
<1>2. MadeAtTill' /\ JoinsAs(q, r, o)
  BY <1>1, EntryRuns
<1>3. o.type # "cashCounted" /\ (o.mistyped \/ o.type \notin {"paymentReceived", "cashMoved"})
  <2>1. o.mistyped = change.mistyped
    BY <1>1 DEF SignsOne, Tells
  <2>2. o.type = change.type
    BY <1>1 DEF SignsOne, Tells
  <2> QED
    BY <2>1, <2>2
<1>4. drawer' \in Nat /\ lost' \in 0..1 /\ DrawnIn(r, drawer + lost) /\ drawer' + lost' = drawer + lost
  BY DEF DrawerInv
<1> HIDE DEF r, q
<1>5. DrawnIn(q, drawer + lost)
  BY <1>2, <1>3, <1>4, TypedDrawn
<1> QED
  BY <1>1, <1>2, <1>4, <1>5, MakesUp DEF q

\* Neither does a void.
LEMMA VoidKeeps ==
    ASSUME DrawerInv, NEW d \in Person, NEW change, IsAct(change), Cashed(change), VoidsMove(change),
           change.id \in DOMAIN Drawer!PhoneRecords(d), Drawer!PhoneRecords(d)[change.id].mistyped,
           Drawer!Run(d, <<change>>), UNCHANGED <<drawer, lost>>
    PROVE  DrawerInv'
<1> DEFINE o == Signed(change, d, 1)
           r == Drawer!Records(Made)
           q == Drawer!Records(Made \cup {o})
<1>1. SignsOne(o, change, d)
  BY OneSigned
<1> HIDE DEF o
<1>2. MadeAtTill' /\ MarksIn(q, r, o) /\ (o.id \in DOMAIN r => r[o.id].mistyped)
  BY <1>1, VoidRuns
<1>3. drawer' \in Nat /\ lost' \in 0..1 /\ DrawnIn(r, drawer + lost) /\ drawer' + lost' = drawer + lost
  BY DEF DrawerInv
<1> HIDE DEF r, q
<1>4. DrawnIn(q, drawer + lost)
  BY <1>2, <1>3, VoidDrawn
<1> QED
  BY <1>1, <1>2, <1>3, <1>4, MakesUp DEF q

\* What is made at the drawer has an id.
LEMMA NewIdIs == ASSUME NEW d PROVE NewId(d) # NoLine
BY DEF NewId, NoLine

\* What is done at the till and settles nothing.
LEMMA CashedPlainly ==
    ASSUME NEW c, c.type \in EntryKinds \cup {"cashMoveVoided"}, c.amount \in Int, c.id # NoLine, c.settles = NoLine,
           c.mistyped \in BOOLEAN, c.mistyped => c.type = "cashMoved"
    PROVE  Cashed(c)
<1>1. c.settles # NoLine => c.type = "cashAdjusted"
  OBVIOUS
<1> QED
  BY <1>1 DEF Cashed

\* Every command at the drawer keeps the invariant: a payment,
LEMMA ReceivingKeeps == ASSUME DrawerInv, NEW d \in Person, ReceivePayment(d) PROVE DrawerInv'
<1> DEFINE c == [[Act("paymentReceived") EXCEPT !.amount = 1] EXCEPT !.id = NewId(d)]
<1>1. /\ IsAct(c) /\ c.type = "paymentReceived" /\ c.amount = 1 /\ c.id = NewId(d) /\ c.settles = NoLine
      /\ c.mistyped = FALSE
  BY DEF Act, IsAct, Fields
<1>2. Drawer!Run(d, <<c>>) /\ drawer' = drawer + 1 /\ lost' = lost
  BY DEF ReceivePayment, RecordEntry
<1> HIDE DEF c
<1>3. Cashed(c)
  <2>1. c.type \in EntryKinds \cup {"cashMoveVoided"} /\ c.amount \in Int /\ c.id # NoLine
    BY <1>1, <1>2, NewIdIs DEF EntryKinds
  <2> QED
    <3>1. c.mistyped \in BOOLEAN /\ (c.mistyped => c.type = "cashMoved") /\ c.settles = NoLine
      BY <1>1
    <3> QED
      BY <2>1, <3>1, CashedPlainly
<1>4. drawer' = drawer + (IF c.type = "cashMoved" THEN -c.amount ELSE c.amount) /\ drawer' \in Nat
  BY <1>1, <1>2 DEF DrawerInv
<1> QED
  BY <1>1, <1>2, <1>3, <1>4, MoveKeeps

\* a move,
LEMMA MovingKeeps == ASSUME DrawerInv, NEW d \in Person, MoveCash(d) PROVE DrawerInv'
<1> DEFINE c == [[Act("cashMoved") EXCEPT !.amount = 1] EXCEPT !.id = NewId(d)]
<1>1. /\ IsAct(c) /\ c.type = "cashMoved" /\ c.amount = 1 /\ c.id = NewId(d) /\ c.settles = NoLine
      /\ c.mistyped = FALSE
  BY DEF Act, IsAct, Fields
<1>2. Drawer!Run(d, <<c>>) /\ drawer > 0 /\ drawer' = drawer - 1 /\ lost' = lost
  BY DEF MoveCash, RecordEntry
<1> HIDE DEF c
<1>3. Cashed(c)
  <2>1. c.type \in EntryKinds \cup {"cashMoveVoided"} /\ c.amount \in Int /\ c.id # NoLine
    BY <1>1, <1>2, NewIdIs DEF EntryKinds
  <2> QED
    <3>1. c.mistyped \in BOOLEAN /\ (c.mistyped => c.type = "cashMoved") /\ c.settles = NoLine
      BY <1>1
    <3> QED
      BY <2>1, <3>1, CashedPlainly
<1>4. drawer' = drawer + (IF c.type = "cashMoved" THEN -c.amount ELSE c.amount) /\ drawer' \in Nat
  BY <1>1, <1>2 DEF DrawerInv
<1> QED
  BY <1>1, <1>2, <1>3, <1>4, MoveKeeps

\* a move that is only typed,
LEMMA MistypingKeeps == ASSUME DrawerInv, NEW d \in Person, MistypeMove(d) PROVE DrawerInv'
<1> DEFINE c == [[Act("cashMoved") EXCEPT !.amount = 1, !.mistyped = TRUE] EXCEPT !.id = NewId(d)]
<1>1. /\ IsAct(c) /\ c.type = "cashMoved" /\ c.amount = 1 /\ c.id = NewId(d) /\ c.settles = NoLine
      /\ c.mistyped = TRUE
  BY DEF Act, IsAct, Fields
<1>2. Drawer!Run(d, <<c>>) /\ UNCHANGED <<drawer, lost>>
  BY DEF MistypeMove, RecordEntry, drawerVars
<1> HIDE DEF c
<1>3. Cashed(c) /\ Enters(c)
  <2>1. c.type \in EntryKinds \cup {"cashMoveVoided"} /\ c.amount \in Int /\ c.id # NoLine
    BY <1>1, NewIdIs DEF EntryKinds
  <2>2. Cashed(c)
    <3>1. c.mistyped \in BOOLEAN /\ (c.mistyped => c.type = "cashMoved") /\ c.settles = NoLine
      BY <1>1
    <3> QED
      BY <2>1, <3>1, CashedPlainly
  <2> QED
    BY <1>1, <2>2 DEF Enters, EntryKinds
<1> QED
  BY <1>1, <1>2, <1>3, TypedKeeps

\* its void,
LEMMA VoidingKeeps == ASSUME DrawerInv, NEW d \in Person, VoidMove(d) PROVE DrawerInv'
<1> DEFINE r == Drawer!PhoneRecords(d)
<1>1. PICK id \in DOMAIN r : r[id].mistyped /\ Drawer!Run(d, <<[Act("cashMoveVoided") EXCEPT !.id = id]>>)
  BY DEF VoidMove
<1>2. id # NoLine
  <2> DEFINE known == Drawer!Known(d)
  <2>1. Till(known) /\ EntriesFold(r, known)
    BY PhoneKnows
  <2> HIDE DEF known, r
  <2>2. PICK op \in known : Cashed(op) /\ op.id = id
    BY <2>1, RowOf
  <2> QED
    BY <2>2 DEF Cashed
<1> DEFINE c == [Act("cashMoveVoided") EXCEPT !.id = id]
<1>3. /\ IsAct(c) /\ c.type = "cashMoveVoided" /\ c.amount = 0 /\ c.id = id /\ c.settles = NoLine
      /\ c.mistyped = FALSE
  BY DEF Act, IsAct, Fields
<1>4. Drawer!Run(d, <<c>>) /\ UNCHANGED <<drawer, lost>>
  BY <1>1 DEF VoidMove, drawerVars
<1> HIDE DEF c
<1>5. Cashed(c) /\ VoidsMove(c)
  <2>1. c.type \in EntryKinds \cup {"cashMoveVoided"} /\ c.amount \in Int /\ c.id # NoLine
    BY <1>2, <1>3
  <2>2. Cashed(c)
    <3>1. c.mistyped \in BOOLEAN /\ (c.mistyped => c.type = "cashMoved") /\ c.settles = NoLine
      BY <1>3
    <3> QED
      BY <2>1, <3>1, CashedPlainly
  <2> QED
    BY <1>3, <2>2 DEF VoidsMove
<1>6. c.id \in DOMAIN r /\ r[c.id].mistyped
  BY <1>1, <1>3
<1> QED
  BY <1>3, <1>4, <1>5, <1>6, VoidKeeps

\* a count
LEMMA CountingKeeps == ASSUME DrawerInv, NEW d \in Person, CountCash(d) PROVE DrawerInv'
<1> DEFINE c == [[Act("cashCounted") EXCEPT !.amount = drawer] EXCEPT !.id = NewId(d)]
<1>1. /\ IsAct(c) /\ c.type = "cashCounted" /\ c.amount = drawer /\ c.id = NewId(d) /\ c.settles = NoLine
      /\ c.mistyped = FALSE
  BY DEF Act, IsAct, Fields
<1>2. Drawer!Run(d, <<c>>) /\ drawer' = drawer /\ lost' = 0 /\ drawer \in Nat
  BY DEF CountCash, RecordEntry, DrawerInv
<1> HIDE DEF c
<1>3. Cashed(c)
  <2>1. c.type \in EntryKinds \cup {"cashMoveVoided"} /\ c.amount \in Int /\ c.id # NoLine
    BY <1>1, <1>2, NewIdIs DEF EntryKinds
  <2> QED
    <3>1. c.mistyped \in BOOLEAN /\ (c.mistyped => c.type = "cashMoved") /\ c.settles = NoLine
      BY <1>1
    <3> QED
      BY <2>1, <3>1, CashedPlainly
<1> QED
  BY <1>1, <1>2, <1>3, CountKeeps

\* and a correction;
LEMMA AdjustingKeeps == ASSUME DrawerInv, NEW d \in Person, AdjustCash(d) PROVE DrawerInv'
<1> DEFINE r == Drawer!PhoneRecords(d)
<1>1. PICK count \in Counts(r) :
          RecordEntry(d, [Act("cashAdjusted") EXCEPT !.settles = count, !.amount = Difference(r, count)])
  BY DEF AdjustCash
<1>2. Difference(r, count) \in Int /\ count # NoLine
  BY DifferenceIs
<1> DEFINE c == [[Act("cashAdjusted") EXCEPT !.settles = count, !.amount = Difference(r, count)] EXCEPT !.id = NewId(d)]
<1>3. /\ IsAct(c) /\ c.type = "cashAdjusted" /\ c.amount = Difference(r, count) /\ c.id = NewId(d)
      /\ c.settles = count /\ c.mistyped = FALSE
  BY DEF Act, IsAct, Fields
<1>4. Drawer!Run(d, <<c>>) /\ UNCHANGED <<drawer, lost>>
  BY <1>1 DEF AdjustCash, RecordEntry, drawerVars
<1> HIDE DEF c
<1>5. Cashed(c) /\ Enters(c)
  BY <1>2, <1>3, NewIdIs DEF Cashed, EntryKinds, Enters
<1> QED
  BY <1>3, <1>4, <1>5, TypedKeeps

\* a push keeps it: what was paid, moved and counted is all accepted,
LEMMA DrawerPushKeeps == ASSUME DrawerInv, NEW d \in Person, Drawer!Push(d), UNCHANGED <<drawer, lost>> PROVE DrawerInv'
<1> DEFINE S == Range(taken) \cup Range(own[d])
           list == own[d]
           y == Drawer!Judging!Along(taken, list)
<1>1. Signatures /\ IsFiniteSet(Made) /\ Till(Made) /\ VoidsKnown(Made) /\ IdsBefore /\ GoodDrawer(taken)
  BY DEF DrawerInv, MadeAtTill
<1>2. S \in SUBSET Made
  BY DEF Made, InHand
<1>3. IsList(taken) /\ IsList(list) /\ OnceEach(list) /\ Range(taken) \cap Range(list) = {}
  BY <1>1 DEF Signatures, Lists
<1>4. taken \in Seq(S) /\ list \in Seq(S)
  <2>1. taken \in Seq(Range(taken)) /\ list \in Seq(Range(list)) /\ Range(taken) \subseteq S /\ Range(list) \subseteq S
    BY <1>3 DEF IsList
  <2> HIDE DEF S, list
  <2> QED
    BY <2>1
<1>5. \A i \in 1..Len(taken), j \in 1..Len(list) : taken[i] # list[j]
  <2> HIDE DEF list
  <2> QED
    BY <1>3, ListIs
<1>6. taken' = y /\ own' = [own EXCEPT ![d] = <<>>] /\ UNCHANGED <<fetched, lag, commands>>
  BY DEF Drawer!Push
<1> HIDE DEF S, list
<1>7. /\ <<y, Len(list)>> \in Listing!Sifted(S, taken, list) /\ GoodDrawer(y)
      /\ \A i \in 1..Len(list) : Simple(list[i]) => list[i] \in Range(y)
  <2>1. Till(S)
    BY <1>1, <1>2, TillPart
  <2> QED
    BY <1>1, <1>3, <1>4, <1>5, <2>1, JudgedDrawer
<1> HIDE DEF y
<1>8. PushLeaves(d, S)
  BY <1>6, <1>7 DEF PushLeaves, list
<1>9. /\ Signatures' /\ Range(taken) \subseteq Range(taken')
      /\ Range(taken') \subseteq Range(taken) \cup Range(own[d])
  BY <1>1, <1>8, PushSigns
<1>10. \A p \in Person : own'[p] = IF p = d THEN <<>> ELSE own[p]
  <2>1. own' = [p2 \in Person |-> IF p2 = d THEN <<>> ELSE own[p2]]
    BY <1>1, <1>6 DEF Signatures, Lists
  <2> QED
    BY <2>1
<1>11. Made' \in SUBSET Made
  <2>1. Range(<<>>) = {}
    BY DEF Range
  <2> QED
    BY <1>9, <1>10, <2>1 DEF Made, InHand
<1>12. ASSUME NEW o \in Made, Simple(o) PROVE o \in Made'
  <2>1. CASE o \in Range(taken)
    BY <1>9, <2>1 DEF Made
  <2>2. CASE o \in Range(list)
    <3>1. PICK i \in 1..Len(list) : list[i] = o
      BY <1>3, <2>2, ListIs
    <3> QED
      BY <1>6, <1>7, <1>12, <3>1 DEF Made
  <2>3. ASSUME NEW p \in Person, p # d, o \in Range(own[p]) PROVE o \in Made'
    BY <1>10, <2>3 DEF Made, InHand
  <2> QED
    BY <2>1, <2>2, <2>3 DEF Made, InHand, list
<1>13. Till(Made') /\ IsFiniteSet(Made')
  BY <1>1, <1>11, TillPart, FS_Subset
<1>14. VoidsKnown(Made')
  <2> SUFFICES ASSUME NEW v \in Made', VoidsMove(v) PROVE \E e \in Made' : Enters(e) /\ e.id = v.id
    BY DEF VoidsKnown
  <2>1. PICK e \in Made : Enters(e) /\ e.id = v.id
    BY <1>1, <1>11 DEF VoidsKnown
  <2>2. e.type = "cashMoved"
    BY <1>1, <1>11, <2>1 DEF Till, VoidsFollow, Cashed
  <2> QED
    BY <1>12, <2>1, <2>2 DEF Simple
<1>15. IdsBefore'
  BY <1>1, <1>6, <1>11 DEF IdsBefore
<1>16. MadeAtTill'
  BY <1>9, <1>13, <1>14, <1>15 DEF MadeAtTill, Till, VoidsKnown
<1>17. DrawnIn(Drawer!Records(Made'), drawer + lost)
  <2> DEFINE M == Made
             N == Made'
             r == Drawer!Records(M)
             q == Drawer!Records(N)
  <2>1. EntriesFold(r, M) /\ EntriesFold(q, N)
    BY <1>1, <1>13, RecordsAreEntries
  <2>2. Till(M) /\ N \in SUBSET M /\ (\A o \in M : Simple(o) => o \in N) /\ DrawnIn(r, drawer + lost)
    BY <1>1, <1>11, <1>12 DEF DrawerInv
  <2> HIDE DEF M, N, r, q
  <2>3. DrawnIn(q, drawer + lost)
    BY <2>1, <2>2, LessDrawn
  <2> QED
    BY <2>3 DEF q, N
<1>18. DrawnIn(Drawer!Records(Made), drawer + lost)'
  BY <1>17
<1>19. GoodDrawer(taken)' /\ (\A p \in Person : lag'[p] = 0) /\ drawer' \in Nat /\ lost' \in 0..1
  BY <1>6, <1>7 DEF DrawerInv
<1> QED
  BY <1>16, <1>18, <1>19 DEF DrawerInv

\* and a pull keeps it.
LEMMA DrawerPullKeeps == ASSUME DrawerInv, NEW d \in Person, Drawer!Pull(d), UNCHANGED <<drawer, lost>> PROVE DrawerInv'
<1>1. fetched' = [fetched EXCEPT ![d] = Len(taken)] /\ UNCHANGED <<taken, own, lag, commands>> /\ Signatures
  BY DEF DrawerInv, MadeAtTill, Drawer!Pull
<1>2. Signatures'
  BY <1>1, PullSigns
<1>3. Made' = Made
  BY <1>1 DEF Made, InHand
<1>4. MadeAtTill'
  BY <1>1, <1>2, <1>3 DEF DrawerInv, MadeAtTill, IdsBefore
<1>5. GoodDrawer(taken)' /\ (\A p \in Person : lag'[p] = 0) /\ DrawnIn(Drawer!Records(Made), drawer + lost)'
  BY <1>1, <1>3 DEF DrawerInv
<1> QED
  BY <1>4, <1>5 DEF DrawerInv

\* What is told of the past was done at the till.
LEMMA ToldAtTill ==
    ASSUME NEW story \in DrawerStories, NEW base \in Nat, \A d \in Person : lag[d] = 0,
           NEW tale, tale = Retold(story, base), IsList(tale), Len(tale) = Len(story), Distinct(Range(tale)),
           \A i \in 1..Len(tale) : Tells(tale[i], story[i].change)
    PROVE  Till(Range(tale)) /\ \A op \in Range(tale) : op.id \notin Person \X Nat
<1> DEFINE S == Range(tale)
           n == Len(story)
<1>1. n \in Nat /\ (\A i \in 1..n : story[i].by \in Person /\ IsAct(story[i].change)) /\ DOMAIN story = 1..n
  <2>0. AreStories(DrawerStories)
    BY DrawerAssumption
  <2>1. IsList(story)
    BY <2>0 DEF AreStories, IsList
  <2>2. n \in Nat /\ DOMAIN story = 1..n /\ \A i \in 1..n : story[i] \in Range(story)
    BY <2>1, ListIs
  <2>3. \A s \in Range(story) : s.by \in Person /\ s.change = [f \in DOMAIN Act("any") |-> s.change[f]]
    BY <2>0 DEF AreStories
  <2>4. DOMAIN Act("any") = Fields
    BY DEF Act, Fields
  <2> QED
    BY <2>2, <2>3, <2>4 DEF IsAct
<1>2. \A i \in 1..n : tale[i].at = base + i
  <2> SUFFICES ASSUME NEW i \in 1..n PROVE tale[i].at = base + i
    OBVIOUS
  <2>1. tale[i] = SignedAs(story[i], ToldAt(story, base, i))
    BY DEF Retold
  <2>2. ToldAt(story, base, i) = base + i
    <3>1. lag[story[i].by] = 0
      BY <1>1
    <3> QED
      BY <1>1, <3>1 DEF ToldAt
  <2> DEFINE step == story[i]
             at == ToldAt(story, base, i)
  <2>3. IsAct(step.change)
    BY <1>1
  <2> HIDE DEF step, at
  <2>4. SignedAs(step, at).at = at
    BY <2>3, SignedAsIs
  <2> QED
    BY <2>1, <2>2, <2>4 DEF step, at
<1>3. \A op \in S : \E i \in 1..n : op = tale[i] /\ Tells(op, story[i].change) /\ op.at = base + i
  BY <1>2, ListIs
<1>4. \A i, j \in 1..n :
          LET change == story[i].change  other == story[j].change IN
          /\ change.type \in EntryKinds \union {"cashMoveVoided"}
          /\ change.amount \in Int /\ change.id # NoLine /\ change.id \notin Person \X Nat
          /\ change.settles # NoLine => change.type = "cashAdjusted"
          /\ change.mistyped \in BOOLEAN /\ (change.mistyped => change.type = "cashMoved")
          /\ other.type \in EntryKinds /\ other.id = change.id =>
                 IF change.type = "cashMoveVoided" THEN j < i /\ other.mistyped ELSE i = j
  BY <1>1, DrawerAssumption
<1> HIDE DEF S, n
<1>5. ASSUME NEW op \in S PROVE Cashed(op) /\ op.id \notin Person \X Nat
  <2>1. PICK i \in 1..n : Tells(op, story[i].change)
    BY <1>3
  <2> DEFINE c == story[i].change
  <2>2. /\ c.type \in EntryKinds \union {"cashMoveVoided"}
        /\ c.amount \in Int /\ c.id # NoLine /\ c.id \notin Person \X Nat
        /\ c.settles # NoLine => c.type = "cashAdjusted"
        /\ c.mistyped \in BOOLEAN /\ (c.mistyped => c.type = "cashMoved")
    BY <1>4
  <2>3. /\ op.type = c.type /\ op.amount = c.amount /\ op.id = c.id /\ op.settles = c.settles /\ op.mistyped = c.mistyped
    BY <2>1 DEF Tells
  <2> HIDE DEF c
  <2> QED
    BY <2>2, <2>3 DEF Cashed
<1>6. ASSUME NEW a \in S, NEW b \in S, Enters(b), a.id = b.id
      PROVE  IF VoidsMove(a) THEN b.at < a.at /\ b.mistyped ELSE a = b
  <2>1. PICK i \in 1..n : a = tale[i] /\ Tells(a, story[i].change) /\ a.at = base + i
    BY <1>3
  <2>2. PICK j \in 1..n : b = tale[j] /\ Tells(b, story[j].change) /\ b.at = base + j
    BY <1>3
  <2> DEFINE change == story[i].change
             other == story[j].change
  <2>3. other.type \in EntryKinds /\ other.id = change.id =>
            IF change.type = "cashMoveVoided" THEN j < i /\ other.mistyped ELSE i = j
    BY <1>4
  <2>4. a.type = change.type /\ a.id = change.id /\ b.type = other.type /\ b.id = other.id /\ b.mistyped = other.mistyped
    BY <2>1, <2>2 DEF Tells
  <2> HIDE DEF change, other
  <2>5. IF change.type = "cashMoveVoided" THEN j < i /\ other.mistyped ELSE i = j
    BY <1>6, <2>3, <2>4 DEF Enters
  <2>6. CASE VoidsMove(a)
    <3>1. j < i /\ other.mistyped
      BY <2>4, <2>5, <2>6 DEF VoidsMove
    <3>2. b.at < a.at
      BY <1>1, <2>1, <2>2, <3>1
    <3> QED
      BY <2>4, <2>6, <3>1, <3>2
  <2>7. CASE ~VoidsMove(a)
    BY <2>1, <2>2, <2>4, <2>5, <2>7 DEF VoidsMove
  <2> QED
    BY <2>6, <2>7
<1>7. EntriesOnce(S)
  <2> SUFFICES ASSUME NEW a \in S, NEW b \in S, Enters(a), Enters(b), a.id = b.id PROVE a = b
    BY DEF EntriesOnce
  <2>1. ~VoidsMove(a)
    BY DEF VoidsMove, Enters, EntryKinds
  <2> QED
    BY <1>6, <2>1
<1>8. VoidsFollow(S)
  BY <1>6 DEF VoidsFollow
<1>9. AtOnce(S)
  <2> SUFFICES ASSUME NEW a \in S, NEW b \in S, a.at = b.at PROVE a = b
    BY DEF AtOnce
  <2>1. PICK i \in 1..n : a = tale[i] /\ a.at = base + i
    BY <1>3
  <2>2. PICK j \in 1..n : b = tale[j] /\ b.at = base + j
    BY <1>3
  <2>3. i = j
    BY <1>1, <2>1, <2>2
  <2> QED
    BY <2>1, <2>2, <2>3
<1>10. Distinct(S)
  BY DEF S
<1>11. Till(S)
  BY <1>5, <1>7, <1>8, <1>9, <1>10 DEF Till
<1> QED
  BY <1>5, <1>11 DEF S

\* What is left in a drawer is what its latest count makes up.
LEMMA LeftIs ==
    ASSUME NEW M, IsFiniteSet(M), Till(M), NEW r, EntriesFold(r, M), NEW gone \in Int, NEW cash, cash = Left(r) - gone
    PROVE  DrawnIn(r, cash + gone)
<1> SUFFICES ASSUME NEW count \in Counts(r), IsLatest(r, count)
             PROVE  cash + gone = r[count].amount + Total(r, Since(r, count))
  BY DEF DrawnIn
<1> DEFINE latest == CHOOSE c \in Counts(r) : IsLatest(r, c)
<1>1. latest \in Counts(r) /\ IsLatest(r, latest)
  OBVIOUS
<1>2. Left(r) = r[latest].amount + Total(r, Since(r, latest))
  BY DEF Left
<1> HIDE DEF latest
<1>3. latest = count
  <2>1. PICK a \in M : a.type = "cashCounted" /\ a.id = latest /\ r[latest].at = a.at /\ a.at \in Int
    BY <1>1, CountRow
  <2>2. PICK b \in M : b.type = "cashCounted" /\ b.id = count /\ r[count].at = b.at /\ b.at \in Int
    BY CountRow
  <2>3. r[latest].at <= r[count].at /\ r[count].at <= r[latest].at
    BY <1>1 DEF IsLatest
  <2>4. a.at = b.at
    BY <2>1, <2>2, <2>3
  <2>5. a = b
    BY <2>1, <2>2, <2>4 DEF Till, AtOnce
  <2> QED
    BY <2>1, <2>2, <2>5
<1>4. r[count].amount \in Int
  BY CountRow
<1>5. Total(r, Since(r, count)) \in Int
  <2>1. Since(r, count) \in SUBSET DOMAIN r
    BY DEF Since
  <2> QED
    BY <2>1, DebitsAreNumbers, NumberedPart, TotalIsNumber
<1> DEFINE a == r[count].amount
           t == Total(r, Since(r, count))
<1>6. a \in Int /\ t \in Int /\ cash = (a + t) - gone
  BY <1>2, <1>3, <1>4, <1>5
<1> HIDE DEF a, t
<1>7. cash + gone = a + t
  BY <1>6
<1> QED
  BY <1>7 DEF a, t

\* The drawer opens with its invariant.
LEMMA DrawerOpens == ASSUME DrawerInit PROVE DrawerInv
<1> DEFINE longest == Drawer!Longest
           told(s) == Drawer!Told(s, lag)
<1>1. /\ lag \in [Person -> {0}] /\ commands = longest
      /\ own = [d \in Person |-> <<>>] /\ fetched = [d \in Person |-> Len(taken)]
      /\ \E story \in DrawerStories : taken = Drawer!Judging!Along(<<>>, told(story))
  BY DEF DrawerInit, Drawer!Opens
<1>2. AreStories(DrawerStories)
  BY DrawerAssumption
<1>3. longest \in Nat /\ \A story \in DrawerStories : Len(story) \in Nat /\ Len(story) <= longest
  BY <1>2, LongestIs DEF Drawer!Longest, Drawer!Max, Max
<1>4. PICK story \in DrawerStories : taken = Drawer!Judging!Along(<<>>, told(story))
  BY <1>1
<1> DEFINE base == Max(Lags) + 1 + longest - Len(story)
           tale == told(story)
<1>5. Max(Lags) \in Nat /\ (\A d \in Person : lag[d] = 0) /\ \A d \in Person : lag[d] \in 0..Max(Lags)
  BY <1>1, LagsAre
<1>6. tale = Retold(story, base)
  BY DEF Drawer!Told, Retold, SignedAs, ToldAt, Drawer!Max, Max
<1> HIDE DEF longest, told, tale
<1>7. base \in Nat /\ base >= Max(Lags) + 1 /\ base + Len(story) < Max(Lags) + 2 + commands /\ commands \in Nat
  BY <1>1, <1>3, <1>5
<1> HIDE DEF base
<1>8. /\ IsList(tale) /\ OnceEach(tale) /\ Len(tale) = Len(story)
      /\ \A op \in Range(tale) : IsSigned(op)
      /\ \A a, b \in Range(tale) : Key(a) = Key(b) => a = b
      /\ \A i \in 1..Len(tale) : Tells(tale[i], story[i].change)
  BY <1>2, <1>5, <1>6, <1>7, ToldIs
<1> DEFINE S == Range(tale)
<1>9. Distinct(S)
  <2>1. \A op \in S : op.by \in Person /\ op.at \in Nat /\ op.seq \in Nat
    BY <1>8 DEF IsSigned
  <2> QED
    BY <1>8, <2>1, KeyedApart
<1>10. Till(S) /\ \A op \in S : op.id \notin Person \X Nat
  BY <1>5, <1>6, <1>7, <1>8, <1>9, ToldAtTill
<1>11. tale \in Seq(S) /\ <<>> \in Seq(S)
  BY <1>8 DEF IsList
<1> HIDE DEF S
<1>12. \A i \in 1..Len(<<>>), j \in 1..Len(tale) : <<>>[i] # tale[j]
  OBVIOUS
<1> DEFINE y == Drawer!Judging!Along(<<>>, tale)
<1>13. <<y, Len(tale)>> \in Listing!Sifted(S, <<>>, tale) /\ GoodDrawer(y)
  BY <1>8, <1>10, <1>11, <1>12, NothingTaken, JudgedDrawer
<1>14. taken = y
  BY <1>4 DEF tale
<1> HIDE DEF y
<1>15. taken \in Seq(S) /\ GoodDrawer(taken)
  BY <1>13, <1>14 DEF Listing!Sifted
<1>16. Signatures
  BY <1>1, <1>5, <1>7, <1>8, <1>15, OpensSigns DEF S, GoodDrawer
<1>17. Made = Range(taken) /\ Made \in SUBSET S
  <2>1. Range(taken) \subseteq S
    BY <1>15, RangeOfList
  <2>2. \A d \in Person : Range(own[d]) = {}
    BY <1>1 DEF Range
  <2> QED
    BY <2>1, <2>2 DEF Made, InHand
<1>18. IsFiniteSet(Made) /\ Till(Made) /\ VoidsKnown(Made)
  BY <1>10, <1>15, <1>17, TillPart DEF GoodDrawer
<1>19. MadeAtTill
  BY <1>10, <1>16, <1>17, <1>18 DEF MadeAtTill, IdsBefore
<1>20. drawer \in Nat /\ lost \in 0..1 /\ drawer = Left(Drawer!ServerRecords) - lost
  BY DEF DrawerInit
<1>21. Drawer!ServerRecords = Drawer!Records(Made)
  BY <1>17 DEF Drawer!ServerRecords, Drawer!Range, Range
<1>22. DrawnIn(Drawer!Records(Made), drawer + lost)
  <2> DEFINE M == Made
             r == Drawer!Records(M)
  <2>1. IsFiniteSet(M) /\ Till(M) /\ EntriesFold(r, M) /\ drawer = Left(r) - lost /\ lost \in Int
    BY <1>18, <1>20, <1>21, RecordsAreEntries
  <2> HIDE DEF M, r
  <2>2. DrawnIn(r, drawer + lost)
    BY <2>1, LeftIs
  <2> QED
    BY <2>2 DEF r, M
<1> QED
  BY <1>5, <1>15, <1>19, <1>20, <1>22 DEF DrawerInv

\* The invariant of a drawer: what the latest count makes up, with what was
\* moved since, is in it or lost, whoever made what.
THEOREM DrawerKeeps == DrawerSpec => []DrawerInv
<1>1. DrawerInit => DrawerInv
  BY DrawerOpens
<1>2. DrawerInv /\ [DrawerNext]_<<shopVars, drawerVars>> => DrawerInv'
  <2> SUFFICES ASSUME DrawerInv, [DrawerNext]_<<shopVars, drawerVars>> PROVE DrawerInv'
    OBVIOUS
  <2>0. Cashier \subseteq Person
    BY DrawerAssumption
  <2>1. ASSUME NEW d \in Cashier,
               \/ ReceivePayment(d) \/ MoveCash(d) \/ MistypeMove(d)
               \/ VoidMove(d) \/ CountCash(d) \/ AdjustCash(d)
        PROVE  DrawerInv'
    <3>1. d \in Person
      BY <2>0
    <3> QED
      BY <2>1, <3>1, ReceivingKeeps, MovingKeeps, MistypingKeeps, VoidingKeeps, CountingKeeps, AdjustingKeeps
  <2>2. ASSUME NEW d \in Cashier, Drawer!Push(d) \/ Drawer!Pull(d), UNCHANGED drawerVars PROVE DrawerInv'
    <3>1. d \in Person /\ UNCHANGED <<drawer, lost>>
      BY <2>0, <2>2 DEF drawerVars
    <3> QED
      BY <2>2, <3>1, DrawerPushKeeps, DrawerPullKeeps
  <2>3. CASE UNCHANGED <<shopVars, drawerVars>>
    <3>1. UNCHANGED <<taken, own, fetched, lag, commands, drawer, lost>>
      BY <2>3 DEF shopVars, drawerVars
    <3>2. Made' = Made /\ \A d \in Person : Now(d)' = Now(d)
      BY <3>1 DEF Made, InHand, Now
    <3>3. Signatures'
      <4>1. Signatures
        BY DEF DrawerInv, MadeAtTill
      <4>2. Lists'
        BY <3>1, <4>1 DEF Signatures, Lists, OnceEach, IsList
      <4>3. Clocks'
        BY <3>1, <4>1 DEF Signatures, Clocks
      <4>4. Keys'
        BY <3>1, <3>2, <4>1 DEF Signatures, Keys, IsSigned, Key
      <4> QED
        BY <4>2, <4>3, <4>4 DEF Signatures
    <3>4. MadeAtTill'
      BY <3>1, <3>2, <3>3 DEF DrawerInv, MadeAtTill, IdsBefore
    <3>5. GoodDrawer(taken)' /\ (\A d \in Person : lag'[d] = 0) /\ DrawnIn(Drawer!Records(Made), drawer + lost)'
          /\ drawer' \in Nat /\ lost' \in 0..1
      BY <3>1, <3>2 DEF DrawerInv
    <3> QED
      BY <3>4, <3>5 DEF DrawerInv
  <2> QED
    BY <2>1, <2>2, <2>3 DEF DrawerNext
<1> QED
  BY <1>1, <1>2, PTL DEF DrawerSpec

\* Once the latest count is settled, the book says what is in the drawer
\* (money/rules.ts cashAdjustedRule, cashMoveVoidedRule, countExpected).
THEOREM BookStaysRight == DrawerSpec => []SettledIsRight
<1>1. DrawerInv => SettledIsRight
  <2> SUFFICES ASSUME DrawerInv, AllPushed PROVE SettledIsRight
    BY DEF SettledIsRight
  <2>1. \A d \in Person : Range(own[d]) = {}
    BY DEF AllPushed, Range
  <2>2. Made = Range(taken)
    BY <2>1 DEF Made, InHand
  <2>3. Drawer!ServerRecords = Drawer!Records(Made)
    BY <2>2 DEF Drawer!ServerRecords, Drawer!Range, Range
  <2>4. /\ GoodDrawer(taken) /\ Till(Range(taken)) /\ DrawnIn(Drawer!ServerRecords, drawer + lost)
        /\ drawer \in Int /\ lost \in Int
    BY <2>2, <2>3 DEF DrawerInv, MadeAtTill
  <2> QED
    BY <2>4, BookIsRight
<1> QED
  BY <1>1, DrawerKeeps, PTL

\* Nothing is in the drawer but what people made up for, and nobody has pulled
\* past what the server accepted.
THEOREM DrawerTypes == DrawerSpec => []DrawerTypeOK
<1>1. DrawerInv => DrawerTypeOK
  BY DEF DrawerInv, MadeAtTill, Signatures, Lists, DrawerTypeOK
<1> QED
  BY <1>1, DrawerKeeps, PTL
=============================================================================
