------------------------------ MODULE ShopProofs ------------------------------
(* What the server let happen to a servisan stands in the records everyone   *)
(* folds, and a request is decided once, for any people, clocks, stories and *)
(* numbers of commands.  Neither is inductive alone.  Two orders fold the    *)
(* same operations: as judged, and canonical.  They agree because what a     *)
(* record says of its lines, of a cancel, of where the phone is and of the   *)
(* price depends on the set of operations folded and not on their order      *)
(* (FoldsFrom), as long as the set is Sound: one opening, a line added once  *)
(* and answered once, which the rules make true of what the server accepts.  *)
(* Only the outcome a servisan went home with depends on the order, and an   *)
(* operation the rules still accept then changes it in neither (RecordsStay, *)
(* WentHome).  A request is decided once because its answer's decision makes *)
(* a record the first one made already: the line of the request's own id, or *)
(* the one cancel (Answering).                                               *)
EXTENDS ShopRecords, TLAPS, FiniteSetTheorems, SequenceTheorems

-----------------------------------------------------------------------------
(* What phones sign and keep: who signed an operation and when tells it from *)
(* every other, a phone's clock is ahead of all it signed, and no operation  *)
(* is kept twice or in two places.                                           *)

Listing == INSTANCE Folding WITH Step <- Append, Before <- SortsBefore

Key(op) == <<op.at, op.by, op.seq>>
IsList(s) == s \in Seq(Range(s))
\* Has what an operation carries.
Fields == {"type", "id", "amount", "how", "from", "basis", "answers", "settles", "mistyped", "source",
           "archives", "by", "seq", "at"}
IsAct(op) == op = [f \in Fields |-> op[f]]

OnceEach(s) == \A i, j \in 1..Len(s) : s[i] = s[j] => i = j
InHand == UNION {Range(own[d]) : d \in Person}
Made == Range(taken) \cup InHand

IsSigned(op) == IsAct(op) /\ op.by \in Person /\ op.at \in Nat /\ op.at >= 1 /\ op.at < Now(op.by) /\ op.seq \in Nat
Lists ==
    /\ IsList(taken) /\ OnceEach(taken)
    /\ own = [d \in Person |-> own[d]] /\ \A d \in Person : IsList(own[d]) /\ OnceEach(own[d])
    /\ \A d \in Person : Range(taken) \cap Range(own[d]) = {}
    /\ \A d \in Person : fetched[d] \in 0..Len(taken)
    /\ fetched = [d \in Person |-> fetched[d]]
Clocks == commands \in Nat /\ \A d \in Person : lag[d] \in 0..Max(Lags)
Keys ==
    /\ \A op \in Made : IsSigned(op)
    /\ \A d \in Person : \A op \in Range(own[d]) : op.by = d
    /\ \A a, b \in Made : Key(a) = Key(b) => a = b
Signatures == Lists /\ Clocks /\ Keys

\* The models' two copies of finiteness agree.
LEMMA FiniteIs == \A S : Listing!IsFiniteSet(S) <=> IsFiniteSet(S)
BY DEF Listing!IsFiniteSet, IsFiniteSet

\* The greatest of some integers is one of them.
LEMMA MaxIs ==
    ASSUME NEW S \in SUBSET Int, IsFiniteSet(S), S # {}
    PROVE  Max(S) \in S /\ \A y \in S : y <= Max(S)
<1> DEFINE G == {T \in SUBSET Int : T # {} => \E m \in T : \A y \in T : m >= y}
<1>1. {} \in G
  OBVIOUS
<1>2. ASSUME NEW T \in SUBSET Int, NEW x \in Int \ T, T \in G PROVE T \cup {x} \in G
  <2>1. T \cup {x} \in SUBSET Int
    OBVIOUS
  <2>2. CASE T = {}
    BY <2>2
  <2>3. CASE T # {}
    <3>1. PICK m \in T : \A y \in T : m >= y
      BY <1>2, <2>3
    <3>2. CASE x >= m
      BY <3>1, <3>2
    <3>3. CASE ~(x >= m)
      BY <3>1, <3>3
    <3> QED
      BY <3>2, <3>3
  <2> QED
    BY <2>2, <2>3
<1> HIDE DEF G
<1>3. S \in G
  <2>1. \A T \in SUBSET Int : Listing!IsFiniteSet(T) => T \in G
    BY <1>1, <1>2, Listing!SetInduction
  <2> QED
    BY <2>1, FiniteIs
<1>4. \E m \in S : \A y \in S : m >= y
  BY <1>3 DEF G
<1> DEFINE m == CHOOSE m \in S : \A y \in S : m >= y
<1>5. m \in S /\ \A y \in S : m >= y
  BY <1>4
<1>6. m = Max(S)
  BY DEF Max
<1> HIDE DEF m
<1> QED
  BY <1>5, <1>6

\* What is in a list of a set's members.
LEMMA RangeOfList ==
    ASSUME NEW S, NEW s \in Seq(S)
    PROVE  /\ IsList(s) /\ Range(s) \in SUBSET S
           /\ \A i \in 1..Len(s) : s[i] \in Range(s)
<1>1. DOMAIN s = 1..Len(s) /\ Len(s) \in Nat /\ \A i \in 1..Len(s) : s[i] \in S
  OBVIOUS
<1>2. Range(s) \in SUBSET S /\ \A i \in 1..Len(s) : s[i] \in Range(s)
  BY <1>1 DEF Range
<1>3. s = [i \in 1..Len(s) |-> s[i]]
  OBVIOUS
<1>4. s \in Seq(Range(s))
  BY <1>1, <1>2, <1>3
<1> QED
  BY <1>2, <1>4 DEF IsList

\* A list has a length, and holds what stands at its places.
LEMMA ListIs ==
    ASSUME NEW s, IsList(s)
    PROVE  /\ Len(s) \in Nat /\ DOMAIN s = 1..Len(s) /\ \A i \in 1..Len(s) : s[i] \in Range(s)
           /\ \A op \in Range(s) : \E i \in 1..Len(s) : s[i] = op
<1>1. s \in Seq(Range(s))
  BY DEF IsList
<1>2. DOMAIN s = 1..Len(s) /\ Len(s) \in Nat /\ \A i \in 1..Len(s) : s[i] \in Range(s)
  BY <1>1
<1> QED
  BY <1>2 DEF Range

\* A list with one more at its end.
LEMMA RangeOfMore ==
    ASSUME NEW S, NEW q \in Seq(S), NEW o \in S
    PROVE  /\ Append(q, o) \in Seq(S) /\ Range(Append(q, o)) = Range(q) \cup {o}
           /\ Len(Append(q, o)) = Len(q) + 1 /\ Append(q, o)[Len(q) + 1] = o
           /\ \A i \in 1..Len(q) : Append(q, o)[i] = q[i]
<1>1. q = [i \in 1..Len(q) |-> q[i]] /\ Len(q) \in Nat
  OBVIOUS
<1>2. Append(q, o) \in Seq(S) /\ Len(Append(q, o)) = Len(q) + 1 /\ Append(q, o)[Len(q) + 1] = o
      /\ \A i \in 1..Len(q) : Append(q, o)[i] = q[i]
  OBVIOUS
<1> DEFINE m == Append(q, o)
<1>3. DOMAIN m = 1..(Len(q) + 1) /\ DOMAIN q = 1..Len(q)
  BY <1>2
<1>4. 1..(Len(q) + 1) = 1..Len(q) \cup {Len(q) + 1}
  BY <1>1
<1>5. m[Len(q) + 1] = o /\ \A i \in 1..Len(q) : m[i] = q[i]
  BY <1>2
<1> HIDE DEF m
<1>6. Range(m) = Range(q) \cup {o}
  BY <1>3, <1>4, <1>5 DEF Range
<1> QED
  BY <1>2, <1>6 DEF m

\* Two lists, one after the other.
LEMMA ListsJoin ==
    ASSUME NEW s, NEW t, IsList(s), IsList(t)
    PROVE  /\ IsList(s \o t) /\ Range(s \o t) = Range(s) \cup Range(t) /\ Len(s \o t) = Len(s) + Len(t)
           /\ \A i \in 1..Len(s) : (s \o t)[i] = s[i]
           /\ \A i \in 1..Len(t) : (s \o t)[Len(s) + i] = t[i]
<1> DEFINE S == Range(s) \cup Range(t)
           u == s \o t
<1>1. s \in Seq(S) /\ t \in Seq(S)
  <2>1. s \in Seq(Range(s)) /\ t \in Seq(Range(t)) /\ Range(s) \subseteq S /\ Range(t) \subseteq S
    BY DEF IsList
  <2> HIDE DEF S
  <2> QED
    BY <2>1
<1> HIDE DEF S
<1>2. u \in Seq(S) /\ Len(u) = Len(s) + Len(t) /\ Len(s) \in Nat /\ Len(t) \in Nat
      /\ (\A i \in 1..Len(s) : u[i] = s[i]) /\ \A i \in 1..Len(t) : u[Len(s) + i] = t[i]
  BY <1>1
<1> HIDE DEF u
<1>3. IsList(u) /\ Range(u) \in SUBSET S
  <2>1. u \in Seq(S)
    BY <1>2
  <2> QED
    BY <2>1, RangeOfList
<1>4. ASSUME NEW op \in Range(s) PROVE op \in Range(u)
  <2>1. PICK i \in 1..Len(s) : s[i] = op
    BY ListIs
  <2>2. i \in 1..Len(u)
    BY <1>2
  <2> QED
    BY <1>2, <1>3, <2>1, <2>2, ListIs
<1>5. ASSUME NEW op \in Range(t) PROVE op \in Range(u)
  <2>1. PICK i \in 1..Len(t) : t[i] = op
    BY ListIs
  <2>2. Len(s) + i \in 1..Len(u)
    BY <1>2
  <2>3. u[Len(s) + i] \in Range(u)
    BY <1>3, <2>2, ListIs
  <2> QED
    BY <1>2, <2>1, <2>3
<1>6. Range(u) = Range(s) \cup Range(t)
  BY <1>3, <1>4, <1>5 DEF S
<1> QED
  BY <1>2, <1>3, <1>6 DEF u

\* A phone's clock is ahead of everything signed, and shows the next moment after a command.
LEMMA ClocksGoOn ==
    ASSUME Clocks, NEW d \in Person, Max(Lags) \in Nat
    PROVE  Now(d) \in Nat /\ Now(d) >= 2
BY DEF Clocks, Now

\* Signing changes who, when and which, and nothing else of an operation.
LEMMA SignedIs ==
    ASSUME NEW d, NEW c, IsAct(c), NEW n
    PROVE  LET op == Signed(c, d, n)
           IN /\ IsAct(op) /\ op.by = d /\ op.at = Now(d) /\ op.seq = n
              /\ op.type = c.type /\ op.id = c.id /\ op.amount = c.amount /\ op.how = c.how /\ op.from = c.from
              /\ op.basis = c.basis /\ op.answers = c.answers /\ op.settles = c.settles /\ op.mistyped = c.mistyped
              /\ op.source = c.source /\ op.archives = c.archives
BY DEF Signed, IsAct, Fields

\* What a command leaves: its changes, signed, with the phone's own.
RunLeaves(d, changes, ops) ==
    /\ ops = [i \in 1..Len(changes) |-> Signed(changes[i], d, i)]
    /\ own' = [own EXCEPT ![d] = @ \o ops] /\ commands' = commands + 1 /\ UNCHANGED <<taken, fetched, lag>>
\* A command signs what it makes as no other operation is signed.
LEMMA RunSigns ==
    ASSUME Signatures, Max(Lags) \in Nat, NEW d \in Person,
           NEW changes, IsList(changes), \A i \in 1..Len(changes) : IsAct(changes[i]),
           NEW ops, RunLeaves(d, changes, ops)
    PROVE  /\ Signatures' /\ Made' = Made \cup Range(ops)
           /\ \A op \in Range(ops) : \E i \in 1..Len(changes) : op = ops[i]
<1>1. Len(changes) \in Nat /\ ops = [i \in 1..Len(changes) |-> Signed(changes[i], d, i)]
  BY ListIs DEF RunLeaves
<1>2. IsList(ops) /\ Len(ops) = Len(changes) /\ Range(ops) = {Signed(changes[i], d, i) : i \in 1..Len(changes)}
  <2>1. ops \in Seq({Signed(changes[i], d, i) : i \in 1..Len(changes)}) /\ Len(ops) = Len(changes)
    BY <1>1
  <2>2. Range(ops) = {Signed(changes[i], d, i) : i \in 1..Len(changes)}
    BY <1>1 DEF Range
  <2> QED
    BY <2>1, <2>2 DEF IsList
<1>3. \A i \in 1..Len(ops) : /\ IsAct(ops[i]) /\ ops[i].by = d /\ ops[i].at = Now(d) /\ ops[i].seq = i
  <2> TAKE i \in 1..Len(ops)
  <2>1. i \in 1..Len(changes) /\ i \in Nat /\ ops[i] = Signed(changes[i], d, i)
    BY <1>1, <1>2
  <2>2. IsAct(changes[i])
    BY <2>1
  <2> DEFINE c == changes[i]
  <2>3. IsAct(Signed(c, d, i)) /\ Signed(c, d, i).by = d /\ Signed(c, d, i).at = Now(d) /\ Signed(c, d, i).seq = i
    <3> HIDE DEF c
    <3>1. IsAct(c)
      BY <2>2 DEF c
    <3> QED
      BY <3>1, SignedIs
  <2> QED
    BY <2>1, <2>3
<1>4. \A op \in Range(ops) : IsAct(op) /\ op.by = d /\ op.at = Now(d) /\ op.seq \in Nat
  <2> TAKE op \in Range(ops)
  <2>1. PICK i \in 1..Len(ops) : ops[i] = op
    BY <1>2, ListIs
  <2>2. i \in Nat
    BY <1>1, <1>2
  <2> QED
    BY <1>3, <2>1, <2>2
<1>0. own' = [own EXCEPT ![d] = @ \o ops] /\ commands' = commands + 1 /\ UNCHANGED <<taken, fetched, lag>>
  BY DEF RunLeaves
<1>5. own' = [p \in Person |-> own'[p]] /\ own'[d] = own[d] \o ops /\ \A p \in Person \ {d} : own'[p] = own[p]
  BY <1>0 DEF Signatures, Lists
<1>6. IsList(own'[d]) /\ Range(own'[d]) = Range(own[d]) \cup Range(ops) /\ Len(own'[d]) = Len(own[d]) + Len(ops)
      /\ (\A i \in 1..Len(own[d]) : own'[d][i] = own[d][i])
      /\ (\A i \in 1..Len(ops) : own'[d][Len(own[d]) + i] = ops[i]) /\ Len(own[d]) \in Nat
  <2>1. IsList(own[d]) /\ own'[d] = own[d] \o ops
    BY <1>5 DEF Signatures, Lists
  <2>2. Len(own[d]) \in Nat
    BY <2>1, ListIs
  <2> DEFINE o == own[d]
  <2>3. IsList(o \o ops) /\ Range(o \o ops) = Range(o) \cup Range(ops) /\ Len(o \o ops) = Len(o) + Len(ops)
        /\ (\A i \in 1..Len(o) : (o \o ops)[i] = o[i])
        /\ (\A i \in 1..Len(ops) : (o \o ops)[Len(o) + i] = ops[i])
    <3>1. IsList(o) /\ IsList(ops)
      BY <1>2, <2>1
    <3> HIDE DEF o
    <3> QED
      BY <3>1, ListsJoin
  <2>4. own'[d] = o \o ops
    BY <2>1
  <2> HIDE DEF o
  <2>5. own'[d] = o \o ops /\ o = own[d]
    BY <2>4 DEF o
  <2> QED
    BY <2>2, <2>3, <2>5
<1>7. Now(d)' = Now(d) + 1 /\ Now(d) \in Nat /\ Now(d) >= 1 /\ \A p \in Person : Now(p)' = Now(p) + 1 /\ Now(p) \in Nat
  <2>1. commands' = commands + 1 /\ lag' = lag /\ commands \in Nat /\ \A p \in Person : lag[p] \in 0..Max(Lags)
    BY <1>0 DEF Signatures, Clocks
  <2> DEFINE most == Max(Lags)
  <2>2. most \in Nat
    OBVIOUS
  <2> HIDE DEF most
  <2>3. most = Max(Lags)
    BY DEF most
  <2>4. ASSUME NEW p \in Person PROVE Now(p)' = Now(p) + 1 /\ Now(p) \in Nat /\ Now(p) >= 1
    <3> DEFINE l == lag[p]
    <3>1. l \in 0..most /\ Now(p) = most + 2 + commands - l /\ Now(p)' = most + 2 + (commands + 1) - l
      BY <2>1, <2>3 DEF Now
    <3> HIDE DEF l
    <3> QED
      BY <2>1, <2>2, <3>1
  <2> QED
    BY <2>4
<1>8. \A op \in Range(ops) : \A old \in Made : Key(op) # Key(old)
  <2> TAKE op \in Range(ops)
  <2> TAKE old \in Made
  <2>1. IsSigned(old)
    BY DEF Signatures, Keys
  <2>2. old.by = d => old.at < Now(d) /\ old.at \in Nat
    BY <2>1 DEF IsSigned
  <2> QED
    BY <1>4, <1>7, <2>2 DEF Key
<1>9. Made' = Made \cup Range(ops)
  <2>0. taken' = taken
    BY <1>0
  <2>1. Range(own'[d]) = Range(own[d]) \cup Range(ops)
    BY <1>6
  <2>2. \A p \in Person : p # d => Range(own'[p]) = Range(own[p])
    BY <1>5
  <2>3. ASSUME NEW op \in Made' PROVE op \in Made \cup Range(ops)
    <3>1. CASE op \in Range(taken)
      BY <3>1 DEF Made
    <3>2. CASE \E p \in Person : op \in Range(own'[p])
      BY <2>1, <2>2, <3>2 DEF Made, InHand
    <3> QED
      BY <2>0, <2>3, <3>1, <3>2 DEF Made, InHand
  <2>4. ASSUME NEW op \in Made \cup Range(ops) PROVE op \in Made'
    <3>1. CASE op \in Range(taken)
      BY <2>0, <3>1 DEF Made
    <3>2. CASE op \in Range(ops)
      <4>1. op \in Range(own'[d])
        BY <2>1, <3>2
      <4> QED
        BY <4>1 DEF Made, InHand
    <3>3. CASE \E p \in Person : op \in Range(own[p])
      <4>1. PICK p \in Person : op \in Range(own[p])
        BY <3>3
      <4>2. op \in Range(own'[p])
        BY <2>1, <2>2, <4>1
      <4> QED
        BY <4>2 DEF Made, InHand
    <3> QED
      BY <2>4, <3>1, <3>2, <3>3 DEF Made, InHand
  <2> QED
    BY <2>3, <2>4
<1>10. \A i, j \in 1..Len(ops) : ops[i] = ops[j] => i = j
  BY <1>3
<1>11. \A op \in Range(ops) : op \notin Made
  BY <1>8
<1>12. OnceEach(own'[d])
  <2> SUFFICES ASSUME NEW i \in 1..Len(own'[d]), NEW j \in 1..Len(own'[d]), own'[d][i] = own'[d][j] PROVE i = j
    BY DEF OnceEach
  <2> DEFINE n == Len(own[d])
             k == Len(ops)
  <2>1. n \in Nat /\ k \in Nat /\ i \in 1..(n + k) /\ j \in 1..(n + k)
    BY <1>1, <1>2, <1>6
  <2>2. \A x \in 1..n : own'[d][x] \in Range(own[d])
    BY <1>6, ListIs DEF Signatures, Lists
  <2>3. \A x \in 1..(n + k) : x > n => x - n \in 1..k /\ own'[d][x] = ops[x - n]
    <3> TAKE x \in 1..(n + k)
    <3> HAVE x > n
    <3>1. x - n \in 1..k /\ n + (x - n) = x
      BY <2>1
    <3> QED
      BY <1>6, <3>1
  <2>4. \A x \in 1..k : ops[x] \in Range(ops) /\ ops[x] \notin Range(own[d])
    <3>1. \A x \in 1..k : ops[x] \in Range(ops)
      BY <1>2, ListIs
    <3>2. \A op \in Range(own[d]) : op \in Made
      BY DEF Made, InHand
    <3> QED
      BY <1>11, <3>1, <3>2
  <2>5. CASE i <= n /\ j <= n
    <3>1. i \in 1..n /\ j \in 1..n
      BY <2>1, <2>5
    <3> QED
      BY <1>6, <3>1 DEF Signatures, Lists, OnceEach
  <2>6. CASE i > n /\ j > n
    <3>1. i - n \in 1..k /\ j - n \in 1..k /\ ops[i - n] = ops[j - n]
      BY <2>1, <2>3, <2>6
    <3>2. i - n = j - n
      BY <1>10, <3>1
    <3> QED
      BY <2>1, <3>2
  <2>7. CASE i <= n /\ j > n
    <3>1. i \in 1..n
      BY <2>1, <2>7
    <3>2. j - n \in 1..k /\ own'[d][j] = ops[j - n]
      BY <2>1, <2>3, <2>7
    <3>3. own'[d][i] \in Range(own[d]) /\ own'[d][j] \notin Range(own[d])
      BY <2>2, <2>4, <3>1, <3>2
    <3> QED
      BY <3>3
  <2>8. CASE i > n /\ j <= n
    <3>1. j \in 1..n
      BY <2>1, <2>8
    <3>2. i - n \in 1..k /\ own'[d][i] = ops[i - n]
      BY <2>1, <2>3, <2>8
    <3>3. own'[d][j] \in Range(own[d]) /\ own'[d][i] \notin Range(own[d])
      BY <2>2, <2>4, <3>1, <3>2
    <3> QED
      BY <3>3
  <2> QED
    BY <2>1, <2>5, <2>6, <2>7, <2>8
<1>13. Lists'
  <2>1. \A p \in Person : IsList(own'[p]) /\ OnceEach(own'[p]) /\ Range(taken) \cap Range(own'[p]) = {}
    <3> TAKE p \in Person
    <3>1. CASE p = d
      BY <1>6, <1>11, <1>12, <3>1 DEF Signatures, Lists, Made
    <3>2. CASE p # d
      BY <1>5, <3>2 DEF Signatures, Lists
    <3> QED
      BY <3>1, <3>2
  <2>2. taken' = taken /\ fetched' = fetched
    BY <1>0
  <2>3. (IsList(taken) /\ OnceEach(taken) /\ (\A p \in Person : fetched[p] \in 0..Len(taken))
         /\ fetched = [p \in Person |-> fetched[p]])'
    BY <2>2 DEF Signatures, Lists, OnceEach, IsList
  <2>4. (\A p \in Person : IsList(own[p]) /\ OnceEach(own[p]) /\ Range(taken) \cap Range(own[p]) = {})'
    BY <2>1, <2>2 DEF OnceEach, IsList
  <2> QED
    BY <1>5, <2>3, <2>4 DEF Lists
<1>14. Clocks'
  BY <1>0 DEF Signatures, Clocks
<1>15. Keys'
  <2>1. ASSUME NEW op \in Made' PROVE IsSigned(op)'
    <3>1. CASE op \in Made
      BY <1>7, <3>1 DEF Signatures, Keys, IsSigned
    <3>2. CASE op \in Range(ops)
      BY <1>4, <1>7, <3>2 DEF IsSigned
    <3> QED
      BY <1>9, <3>1, <3>2
  <2>2. ASSUME NEW p \in Person, NEW op \in Range(own'[p]) PROVE op.by = p
    BY <1>4, <1>5, <1>6 DEF Signatures, Keys
  <2>3. ASSUME NEW a \in Made', NEW b \in Made', Key(a) = Key(b) PROVE a = b
    <3>1. CASE a \in Made /\ b \in Made
      BY <2>3, <3>1 DEF Signatures, Keys
    <3>2. CASE a \in Range(ops) /\ b \in Range(ops)
      <4>1. PICK i \in 1..Len(ops) : ops[i] = a
        BY <1>2, <3>2, ListIs
      <4>2. PICK j \in 1..Len(ops) : ops[j] = b
        BY <1>2, <3>2, ListIs
      <4>3. i = j
        BY <1>3, <2>3, <4>1, <4>2 DEF Key
      <4> QED
        BY <4>1, <4>2, <4>3
    <3> QED
      BY <1>8, <1>9, <2>3, <3>1, <3>2
  <2>4. Made' = Range(taken') \cup UNION {Range(own'[p]) : p \in Person}
    BY DEF Made, InHand
  <2> QED
    BY <2>1, <2>2, <2>3 DEF Keys, Key
<1> QED
  BY <1>2, <1>9, <1>13, <1>14, <1>15, ListIs DEF Signatures

\* What a push leaves: the list the server sifted the phone's into.
PushLeaves(d, all) ==
    /\ <<taken', Len(own[d])>> \in Listing!Sifted(all, taken, own[d])
    /\ own' = [own EXCEPT ![d] = <<>>] /\ UNCHANGED <<fetched, lag, commands>>

\* A push signs nothing; the server's list only grows, with what was pushed.
LEMMA PushSigns ==
    ASSUME Signatures, NEW d \in Person, NEW all, PushLeaves(d, all)
    PROVE  /\ Signatures' /\ Range(taken) \subseteq Range(taken')
           /\ Range(taken') \subseteq Range(taken) \cup Range(own[d]) /\ Len(taken) <= Len(taken')
           /\ \A i \in 1..Len(taken) : taken'[i] = taken[i]
<1>1. /\ taken' \in Seq(all) /\ Len(taken) <= Len(taken') /\ \A i \in 1..Len(taken) : taken'[i] = taken[i]
      /\ \A i \in 1..Len(taken') : i > Len(taken) => \E j \in 1..Len(own[d]) : taken'[i] = own[d][j]
      /\ \A i, j \in 1..Len(taken') : taken'[i] = taken'[j] => i = j
  BY DEF PushLeaves, Listing!Sifted
<1>2. IsList(taken') /\ IsList(taken) /\ IsList(own[d])
  <2>1. taken' \in Seq(all)
    BY <1>1
  <2>2. IsList(taken')
    BY <2>1, RangeOfList
  <2> QED
    BY <2>2 DEF Signatures, Lists
<1>3. Len(taken) \in Nat /\ Len(taken') \in Nat
  BY <1>2, ListIs
<1>4. Range(taken) \subseteq Range(taken')
  <2> SUFFICES ASSUME NEW op \in Range(taken) PROVE op \in Range(taken')
    OBVIOUS
  <2>1. PICK i \in 1..Len(taken) : taken[i] = op
    BY <1>2, ListIs
  <2>2. i \in 1..Len(taken')
    BY <1>1, <1>3
  <2> QED
    BY <1>1, <1>2, <2>1, <2>2, ListIs
<1>5. Range(taken') \subseteq Range(taken) \cup Range(own[d])
  <2> SUFFICES ASSUME NEW op \in Range(taken') PROVE op \in Range(taken) \cup Range(own[d])
    OBVIOUS
  <2>1. PICK i \in 1..Len(taken') : taken'[i] = op
    BY <1>2, ListIs
  <2>2. CASE i > Len(taken)
    BY <1>1, <1>2, <2>1, <2>2, ListIs
  <2>3. CASE ~(i > Len(taken))
    <3>1. i \in 1..Len(taken)
      BY <1>3, <2>3
    <3> QED
      BY <1>1, <1>2, <2>1, <3>1, ListIs
  <2> QED
    BY <2>2, <2>3
<1>6. own' = [p \in Person |-> own'[p]] /\ own'[d] = <<>> /\ \A p \in Person \ {d} : own'[p] = own[p]
  BY DEF Signatures, Lists, PushLeaves
<1>7. IsList(<<>>) /\ Range(<<>>) = {} /\ OnceEach(<<>>)
  BY DEF IsList, Range, OnceEach
<1>8. Made' \subseteq Made
  <2>1. \A p \in Person : Range(own'[p]) \subseteq Range(own[p])
    BY <1>6, <1>7
  <2> QED
    BY <1>5, <2>1 DEF Made, InHand
<1>9. ASSUME NEW p \in Person
      PROVE  IsList(own'[p]) /\ OnceEach(own'[p]) /\ Range(taken') \cap Range(own'[p]) = {}
  <2>1. CASE p = d
    BY <1>6, <1>7, <2>1
  <2>2. CASE p # d
    <3>1. Range(own[d]) \cap Range(own[p]) = {}
      BY <2>2 DEF Signatures, Keys
    <3> QED
      BY <1>5, <1>6, <2>2, <3>1 DEF Signatures, Lists
  <2> QED
    BY <2>1, <2>2
<1>10. \A p \in Person : fetched'[p] \in 0..Len(taken')
  BY <1>1, <1>3 DEF Signatures, Lists, PushLeaves
<1>11. OnceEach(taken')
  BY <1>1 DEF OnceEach
<1>12. fetched' = [p \in Person |-> fetched'[p]]
  BY DEF Signatures, Lists, PushLeaves
<1>13. Lists'
  BY <1>2, <1>6, <1>9, <1>10, <1>11, <1>12 DEF Lists, OnceEach, IsList
<1>14. Clocks'
  BY DEF Signatures, Clocks, PushLeaves
<1>15. Keys'
  <2>1. \A p \in Person : Now(p)' = Now(p)
    BY DEF PushLeaves, Now
  <2>2. \A op \in Made' : IsSigned(op)'
    BY <1>8, <2>1 DEF Signatures, Keys, IsSigned
  <2>3. \A p \in Person : \A op \in Range(own'[p]) : op.by = p
    BY <1>6, <1>7 DEF Signatures, Keys
  <2>4. \A a, b \in Made' : Key(a) = Key(b) => a = b
    BY <1>8 DEF Signatures, Keys
  <2> QED
    BY <2>2, <2>3, <2>4 DEF Keys, Key
<1> QED
  BY <1>1, <1>4, <1>5, <1>13, <1>14, <1>15 DEF Signatures

\* A pull signs nothing.
LEMMA PullSigns ==
    ASSUME Signatures, NEW d \in Person, fetched' = [fetched EXCEPT ![d] = Len(taken)],
           UNCHANGED <<taken, own, lag, commands>>
    PROVE  Signatures'
<1>1. Len(taken) \in Nat
  BY ListIs DEF Signatures, Lists
<1>2. Lists'
  BY <1>1 DEF Signatures, Lists, OnceEach, IsList
<1>3. Clocks'
  BY DEF Signatures, Clocks
<1>4. Keys'
  BY DEF Signatures, Keys, Made, InHand, IsSigned, Now, Key
<1> QED
  BY <1>2, <1>3, <1>4 DEF Signatures

-----------------------------------------------------------------------------
(* The story a shop opens with. *)

\* One phone's clock is the furthest behind.
LEMMA LagsAre == Max(Lags) \in Nat /\ Max(Lags) \in Lags /\ \A behind \in Lags : behind <= Max(Lags)
<1>1. \E most \in Lags : \A behind \in Lags : most >= behind
  <2>1. PICK most \in Lags : \A behind \in Lags : behind <= most
    BY PhonesAssumption
  <2>2. \A behind \in Lags : most >= behind
    BY <2>1, PhonesAssumption
  <2> QED
    BY <2>2
<1> DEFINE m == CHOOSE most \in Lags : \A behind \in Lags : most >= behind
<1>2. m \in Lags /\ \A behind \in Lags : m >= behind
  BY <1>1
<1>3. m = Max(Lags)
  BY DEF Max
<1> HIDE DEF m
<1> QED
  BY <1>2, <1>3, PhonesAssumption

\* Some story of the past is the longest.
LEMMA LongestIs ==
    ASSUME NEW stories, AreStories(stories)
    PROVE  LET longest == Max({Len(story) : story \in stories})
           IN longest \in Nat /\ \A story \in stories : Len(story) \in Nat /\ Len(story) <= longest
<1> DEFINE S == {Len(story) : story \in stories}
<1>1. \A story \in stories : Len(story) \in Nat
  <2> SUFFICES ASSUME NEW story \in stories PROVE Len(story) \in Nat
    OBVIOUS
  <2>1. story \in Seq(Range(story))
    BY DEF AreStories
  <2> QED
    BY <2>1
<1>2. S \in SUBSET Int /\ S # {} /\ IsFiniteSet(S)
  <2>0. stories # {} /\ IsFiniteSet(stories)
    BY DEF AreStories
  <2>1. S \in SUBSET Int /\ S # {}
    <3>1. \A n \in S : \E story \in stories : n = Len(story)
      OBVIOUS
    <3>2. PICK story \in stories : TRUE
      BY <2>0
    <3>3. Len(story) \in S
      OBVIOUS
    <3> HIDE DEF S
    <3> QED
      BY <1>1, <3>1, <3>3
  <2>2. IsFiniteSet(S)
    <3> DEFINE f == [story \in stories |-> Len(story)]
    <3>1. f \in Surjection(stories, S)
      BY DEF Surjection
    <3> QED
      BY <2>0, <3>1, FS_Surjection
  <2> QED
    BY <2>1, <2>2
<1>3. Max(S) \in S /\ \A n \in S : n <= Max(S)
  <2> HIDE DEF S
  <2> QED
    BY <1>2, MaxIs
<1> QED
  BY <1>1, <1>3

\* What a change keeps when it is signed.
Tells(op, c) ==
    /\ op.type = c.type /\ op.id = c.id /\ op.amount = c.amount /\ op.how = c.how /\ op.from = c.from
    /\ op.basis = c.basis /\ op.answers = c.answers /\ op.settles = c.settles /\ op.mistyped = c.mistyped
    /\ op.source = c.source /\ op.archives = c.archives

SignedAs(step, at) == [step.change EXCEPT !.by = step.by, !.seq = 1, !.at = at]
ToldAt(story, base, i) == base + i - lag[story[i].by]
Retold(story, base) == [i \in 1..Len(story) |-> SignedAs(story[i], ToldAt(story, base, i))]

\* An operation of a story is signed by whoever the story says.
LEMMA SignedAsIs ==
    ASSUME NEW step, IsAct(step.change), NEW at
    PROVE  LET op == SignedAs(step, at)
           IN IsAct(op) /\ op.by = step.by /\ op.seq = 1 /\ op.at = at /\ Tells(op, step.change)
BY DEF SignedAs, IsAct, Fields, Tells

\* A story, told as operations: each signed once, before any of this history.
LEMMA ToldIs ==
    ASSUME NEW story, NEW stories, AreStories(stories), story \in stories,
           NEW base \in Nat, base >= Max(Lags) + 1, base + Len(story) < Max(Lags) + 2 + commands,
           commands \in Nat, \A d \in Person : lag[d] \in 0..Max(Lags),
           NEW told, told = Retold(story, base)
    PROVE  /\ IsList(told) /\ OnceEach(told) /\ Len(told) = Len(story)
           /\ \A op \in Range(told) : IsSigned(op)
           /\ \A a, b \in Range(told) : Key(a) = Key(b) => a = b
           /\ \A i \in 1..Len(told) : Tells(told[i], story[i].change)
<1> DEFINE n == Len(story)
           made(i) == SignedAs(story[i], ToldAt(story, base, i))
<1>1. n \in Nat /\ \A i \in 1..n : story[i].by \in Person /\ IsAct(story[i].change)
  <2>1. IsList(story)
    BY DEF AreStories, IsList
  <2>2. n \in Nat /\ \A i \in 1..n : story[i] \in Range(story)
    BY <2>1, ListIs
  <2>3. \A s \in Range(story) : s.by \in Person /\ s.change = [f \in DOMAIN Act("any") |-> s.change[f]]
    BY DEF AreStories
  <2>4. DOMAIN Act("any") = Fields
    BY DEF Act, Fields
  <2> QED
    BY <2>2, <2>3, <2>4 DEF IsAct
<1>2. Max(Lags) \in Nat
  BY LagsAre
<1>4. told = [i \in 1..n |-> made(i)]
  BY DEF Retold
<1>3. ASSUME NEW i \in 1..n
      PROVE  /\ IsSigned(made(i)) /\ Tells(made(i), story[i].change)
             /\ made(i).by = story[i].by /\ made(i).at = base + i - lag[story[i].by]
  <2> DEFINE d == story[i].by
             l == lag[d]
             at == ToldAt(story, base, i)
  <2>1. IsAct(story[i].change) /\ d \in Person
    BY <1>1
  <2>2. l \in 0..Max(Lags) /\ at = base + i - l
    BY <2>1 DEF ToldAt
  <2>3. Now(d) = Max(Lags) + 2 + commands - l
    BY DEF Now
  <2>4. i \in Nat /\ i <= n /\ base + n < Max(Lags) + 2 + commands
    BY <1>1
  <2> HIDE DEF l, n, at
  <2>5. at \in Nat /\ at >= 1 /\ at < Now(d)
    BY <1>1, <1>2, <2>2, <2>3, <2>4
  <2> DEFINE op == SignedAs(story[i], at)
  <2>6. IsAct(op) /\ op.by = d /\ op.seq = 1 /\ op.at = at /\ Tells(op, story[i].change)
    BY <2>1, SignedAsIs
  <2>7. made(i) = op
    BY DEF at
  <2> HIDE DEF op, d, made
  <2>8. IsSigned(op)
    BY <2>1, <2>5, <2>6 DEF IsSigned
  <2> QED
    BY <2>2, <2>6, <2>7, <2>8 DEF l, d
<1> HIDE DEF made, n
<1>5. told \in Seq({made(i) : i \in 1..n}) /\ Len(told) = n /\ \A i \in 1..n : told[i] = made(i)
  <2>1. \A i \in 1..n : made(i) \in {made(j) : j \in 1..n}
    OBVIOUS
  <2>2. n \in Nat
    BY <1>1
  <2> DEFINE T == {made(i) : i \in 1..n}
  <2> HIDE DEF T
  <2>3. told \in Seq(T) /\ Len(told) = n /\ \A i \in 1..n : told[i] = made(i)
    <3>1. \A i \in 1..n : made(i) \in T
      BY <2>1 DEF T
    <3> QED
      BY <1>4, <2>2, <3>1
  <2> QED
    BY <2>3 DEF T
<1>6. IsList(told)
  BY <1>5, RangeOfList
<1>7. \A op \in Range(told) : \E i \in 1..n : op = made(i)
  BY <1>5, <1>6, ListIs
<1>8. \A i, j \in 1..n : Key(made(i)) = Key(made(j)) => i = j
  <2> SUFFICES ASSUME NEW i \in 1..n, NEW j \in 1..n, Key(made(i)) = Key(made(j)) PROVE i = j
    OBVIOUS
  <2>1. story[i].by = story[j].by /\ base + i - lag[story[i].by] = base + j - lag[story[j].by]
    BY <1>3 DEF Key
  <2> DEFINE l == lag[story[i].by]
  <2>2. l \in Int /\ i \in Int /\ j \in Int /\ base + i - l = base + j - l
    BY <1>1, <1>2, <2>1
  <2> HIDE DEF l
  <2> QED
    BY <2>2
<1>9. OnceEach(told)
  <2>1. \A i, j \in 1..n : made(i) = made(j) => i = j
    BY <1>8
  <2>2. ASSUME NEW i \in 1..n, NEW j \in 1..n, told[i] = told[j] PROVE i = j
    <3>1. told[i] = made(i) /\ told[j] = made(j)
      BY <1>5
    <3> QED
      BY <2>1, <2>2, <3>1
  <2>3. Len(told) = n
    BY <1>5
  <2> QED
    BY <2>2, <2>3 DEF OnceEach
<1>10. Len(told) = Len(story) /\ \A i \in 1..Len(told) : Tells(told[i], story[i].change)
  BY <1>3, <1>5 DEF n
<1>11. \A op \in Range(told) : IsSigned(op)
  BY <1>3, <1>7
<1>12. \A a, b \in Range(told) : Key(a) = Key(b) => a = b
  BY <1>7, <1>8
<1> QED
  BY <1>6, <1>9, <1>10, <1>11, <1>12

\* Told with a story, the shop opens with every operation signed once.
LEMMA OpensSigns ==
    ASSUME NEW told, IsList(told), \A op \in Range(told) : IsSigned(op),
           \A a, b \in Range(told) : Key(a) = Key(b) => a = b,
           taken \in Seq(Range(told)), OnceEach(taken), commands \in Nat,
           \A d \in Person : lag[d] \in 0..Max(Lags),
           own = [d \in Person |-> <<>>], fetched = [d \in Person |-> Len(taken)]
    PROVE  Signatures
<1>1. IsList(taken) /\ Range(taken) \in SUBSET Range(told) /\ Len(taken) \in Nat
  BY RangeOfList
<1>2. \A d \in Person : own[d] = <<>>
  OBVIOUS
<1>3. IsList(<<>>) /\ OnceEach(<<>>) /\ Range(<<>>) = {}
  <2>1. Range(<<>>) = {}
    BY DEF Range
  <2>2. <<>> \in Seq({})
    OBVIOUS
  <2> QED
    BY <2>1, <2>2 DEF IsList, OnceEach
<1>4. Made = Range(taken)
  BY <1>2, <1>3 DEF Made, InHand
<1>5. Lists
  BY <1>1, <1>2, <1>3 DEF Lists
<1>6. Clocks
  BY DEF Clocks
<1>7. Keys
  BY <1>1, <1>2, <1>3, <1>4 DEF Keys
<1> QED
  BY <1>5, <1>6, <1>7 DEF Signatures

-----------------------------------------------------------------------------
(* What each step of the fold does to a record. *)

TicketFields == {"opened", "outcome", "location", "technician", "total", "returnedAt"}
RecordFields == {"ticket", "lines", "history", "requests"}
IsTicket(t) == t = [f \in TicketFields |-> t[f]] /\ t.opened \in BOOLEAN
IsRecords(r) == r = [f \in RecordFields |-> r[f]] /\ IsTicket(r.ticket)

\* Everything but the price change fields: what a change to the ticket's row leaves.
LEMMA TicketChanges ==
    ASSUME NEW t, IsTicket(t), NEW op
    PROVE  LET u == TicketChange(t, op)
           IN /\ IsTicket(u) /\ u.opened = t.opened /\ u.location = t.location /\ u.total = t.total
              /\ u.outcome = "cancelled" <=> (t.outcome = "cancelled" \/ op.type = "cancelled")
<1>1. CASE op.type = "claimed"
  BY <1>1 DEF IsTicket, TicketFields, TicketChange
<1>2. CASE op.type = "started"
  BY <1>2 DEF IsTicket, TicketFields, TicketChange, PutToWork, Open
<1>3. CASE op.type = "paused"
  BY <1>3 DEF IsTicket, TicketFields, TicketChange, PutToWork, Open
<1>4. CASE op.type = "repaired"
  BY <1>4 DEF IsTicket, TicketFields, TicketChange, Repaired
<1>5. CASE op.type = "cancelled"
  BY <1>5 DEF IsTicket, TicketFields, TicketChange
<1>6. CASE op.type = "returned"
  <2> DEFINE u == Repaired(t)
  <2>1. IsTicket(u) /\ u.opened = t.opened /\ u.location = t.location /\ u.total = t.total
        /\ (u.outcome = "cancelled" <=> t.outcome = "cancelled")
    BY DEF IsTicket, TicketFields, Repaired
  <2>2. TicketChange(t, op) = [u EXCEPT !.returnedAt = SoonerOf(@, op.at)]
    BY <1>6 DEF TicketChange
  <2> HIDE DEF u
  <2> QED
    BY <1>6, <2>1, <2>2 DEF IsTicket, TicketFields
<1>7. CASE op.type \notin {"claimed", "started", "paused", "repaired", "cancelled", "returned"}
  BY <1>7 DEF TicketChange
<1> QED
  BY <1>1, <1>2, <1>3, <1>4, <1>5, <1>6, <1>7

\* Handovers in a set of operations, and where they leave the phone.
Counted(M, type) == Cardinality({op \in M : op.type = type})
LocationAfter(M) == IF Counted(M, "returned") > Counted(M, "reversed") THEN "returned" ELSE "in_store"

\* refreshHandover changes the ticket's location only.
LEMMA SettleDoes ==
    ASSUME NEW r, IsRecords(r)
    PROVE  LET s == SettleHandover(r)  M == Range(r.history)
           IN /\ IsRecords(s) /\ s.lines = r.lines /\ s.history = r.history /\ s.requests = r.requests
              /\ s.ticket.opened = r.ticket.opened /\ s.ticket.outcome = r.ticket.outcome
              /\ s.ticket.total = r.ticket.total
              /\ ~r.ticket.opened => s = r
              /\ r.ticket.opened /\ (\A op \in M : op.type \notin {"returned", "reversed"}) => s = r
              /\ r.ticket.opened /\ ~(\A op \in M : op.type \notin {"returned", "reversed"})
                     => s.ticket.location = LocationAfter(M)
<1> DEFINE M == Range(r.history)
           n(type) == Cardinality({op \in M : op.type = type})
           where == IF n("returned") > n("reversed") THEN "returned" ELSE "in_store"
<1>1. /\ Cardinality(Handovers(r, {"returned"})) = n("returned")
      /\ Cardinality(Handovers(r, {"reversed"})) = n("reversed")
  BY DEF Handovers
<1>2. Handovers(r, {"returned", "reversed"}) = {} <=> \A op \in M : op.type \notin {"returned", "reversed"}
  BY DEF Handovers
<1>3. where = LocationAfter(M)
  BY DEF LocationAfter, Counted
<1>4. SettleHandover(r) = IF (\A op \in M : op.type \notin {"returned", "reversed"}) \/ ~r.ticket.opened THEN r
                          ELSE [r EXCEPT !.ticket.location = where]
  BY <1>1, <1>2 DEF SettleHandover
<1> HIDE DEF where, n, M
<1>5. LET s == [r EXCEPT !.ticket.location = where]
      IN /\ IsRecords(s) /\ s.lines = r.lines /\ s.history = r.history /\ s.requests = r.requests
         /\ s.ticket.opened = r.ticket.opened /\ s.ticket.outcome = r.ticket.outcome
         /\ s.ticket.total = r.ticket.total /\ s.ticket.location = where
  BY DEF IsRecords, RecordFields, IsTicket, TicketFields
<1> QED
  BY <1>3, <1>4, <1>5 DEF M

\* Writing an operation changes the ticket only.
LEMMA WrittenDoes ==
    ASSUME NEW r, IsRecords(r), NEW op
    PROVE  LET w == Written(r, op)
           IN /\ IsRecords(w) /\ w.lines = r.lines /\ w.history = r.history /\ w.requests = r.requests
              /\ ~r.ticket.opened => w = r
              /\ r.ticket.opened => w.ticket = TicketChange(r.ticket, op)
<1>1. IsTicket(TicketChange(r.ticket, op))
  BY TicketChanges DEF IsRecords
<1> QED
  BY <1>1 DEF Written, IsRecords, RecordFields

\* Remembering an operation changes the history only.
LEMMA RememberedDoes ==
    ASSUME NEW r, IsRecords(r), NEW op
    PROVE  LET w == Remembered(r, op)
           IN /\ IsRecords(w) /\ w.lines = r.lines /\ w.ticket = r.ticket /\ w.requests = r.requests
              /\ w.history = Append(r.history, op)
BY DEF Remembered, IsRecords, RecordFields

\* refreshTotal makes the total the sum of the lines that count.
LEMMA PricedDoes ==
    ASSUME NEW r, IsRecords(r)
    PROVE  LET w == Priced(r)
           IN /\ IsRecords(w) /\ w.lines = r.lines /\ w.history = r.history /\ w.requests = r.requests
              /\ ~r.ticket.opened => w = r
              /\ w.ticket.opened = r.ticket.opened /\ w.ticket.outcome = r.ticket.outcome
              /\ w.ticket.location = r.ticket.location
              /\ r.ticket.opened => w.ticket.total = Sum(r.lines, {"intake", "applied"})
<1>1. CASE ~r.ticket.opened
  BY <1>1 DEF Priced, IsRecords
<1>2. CASE r.ticket.opened
  <2> DEFINE x == Sum(r.lines, {"intake", "applied"})
  <2>1. Priced(r) = [r EXCEPT !.ticket.total = x]
    BY <1>2 DEF Priced
  <2> HIDE DEF x
  <2>2. Priced(r).ticket.total = x
    BY <2>1 DEF IsRecords, RecordFields, IsTicket, TicketFields
  <2> QED
    BY <1>2, <2>1, <2>2 DEF IsRecords, RecordFields, IsTicket, TicketFields, x
<1> QED
  BY <1>1, <1>2 DEF IsRecords, IsTicket

\* A decision changes the statuses of lines only.
LEMMA DecideDoes ==
    ASSUME NEW r, IsRecords(r), NEW op
    PROVE  LET w == Decide(r, op)
           IN /\ IsRecords(w) /\ w.ticket = r.ticket /\ w.history = r.history /\ w.requests = r.requests
              /\ w.lines = [id \in DOMAIN r.lines |-> DecideLine(r.lines[id], op)]
BY DEF Decide, IsRecords, RecordFields

\* One entry more.
LEMMA EntryDoes ==
    ASSUME NEW x, NEW v, NEW f
    PROVE  LET g == Filed(f, x, v)
           IN /\ DOMAIN g = DOMAIN f \cup {x} /\ g = [y \in DOMAIN g |-> g[y]] /\ g[x] = v
              /\ \A y \in DOMAIN f : y # x => g[y] = f[y]
BY DEF Filed

Added(r, op, status) ==
    IF status = "proposed" THEN SettleEarlierDecisions(LineOf(op, status), r.history) ELSE LineOf(op, status)
\* Adding a line leaves every other line alone.
LEMMA AddLineDoes ==
    ASSUME NEW r, IsRecords(r), NEW op, NEW status
    PROVE  LET w == AddLine(r, op, status)
           IN /\ IsRecords(w) /\ w.ticket = r.ticket /\ w.history = r.history /\ w.requests = r.requests
              /\ DOMAIN w.lines = DOMAIN r.lines \cup {op.id} /\ w.lines = [id \in DOMAIN w.lines |-> w.lines[id]]
              /\ w.lines[op.id] = Added(r, op, status)
              /\ \A id \in DOMAIN r.lines : id # op.id => w.lines[id] = r.lines[id]
<1> DEFINE v == Added(r, op, status)
           lines == Filed(r.lines, op.id, v)
<1>1. AddLine(r, op, status) = [r EXCEPT !.lines = lines]
  BY DEF AddLine, Added
<1> HIDE DEF v
<1>2. /\ DOMAIN lines = DOMAIN r.lines \cup {op.id} /\ lines = [id \in DOMAIN lines |-> lines[id]]
      /\ lines[op.id] = v /\ \A id \in DOMAIN r.lines : id # op.id => lines[id] = r.lines[id]
  BY DEF Filed
<1> HIDE DEF lines
<1> QED
  BY <1>1, <1>2 DEF IsRecords, RecordFields, v

-----------------------------------------------------------------------------
(* What a set of operations says of the lines and of the ticket. *)

Adds(op) == op.type = "opened" \/ Inserts(op)
Decides(op) == Agrees(op) \/ op.type = "declined"
Begins(op) ==
    IF op.type = "opened" THEN "intake"
    ELSE IF op.type = "proposed" \/ op.how = "waits" THEN "proposed" ELSE "applied"

\* A line with the customer's answer to it, if there is one.
Answered(line, v, M) ==
    /\ \A d \in M : Decides(d) /\ d.id = line.id => v = DecideLine(line, d)
    /\ (\A d \in M : ~(Decides(d) /\ d.id = line.id)) => v = line
OneAnswer(M) == \A a, b \in M : Decides(a) /\ Decides(b) /\ a.id = b.id => a = b
WellPriced(M) ==
    /\ OneAnswer(M)
    /\ \A a, b \in M : Adds(a) /\ Adds(b) /\ a.id = b.id => a = b
    /\ \A a, b \in M : Adds(a) /\ Decides(b) /\ a.id = b.id => Begins(a) = "proposed"
OneOpening(M) == \A a, b \in M : a.type = "opened" /\ b.type = "opened" => a = b
Typed(M) ==
    /\ \A op \in M : op.type \in TicketTypes \cup Answers \cup {"asked"}
    /\ \A op \in M : op.type = "opened" => op.amount \in Int
Sound(M) == Typed(M) /\ OneOpening(M) /\ WellPriced(M)

\* A part of a sound past is sound.
LEMMA SoundPart == ASSUME NEW M, Sound(M), NEW L \in SUBSET M PROVE Sound(L)
BY DEF Sound, Typed, OneOpening, WellPriced, OneAnswer

\* A line is decided by its own decision only, and deciding twice decides once.
LEMMA DecideLineTwice ==
    ASSUME NEW line, line = [f \in {"id", "amount", "status"} |-> line[f]], NEW op
    PROVE  LET v == DecideLine(line, op)
           IN /\ v = [f \in {"id", "amount", "status"} |-> v[f]] /\ v.id = line.id
              /\ ~(Decides(op) /\ op.id = line.id) => v = line
              /\ DecideLine(v, op) = v
<1>1. CASE line.id = op.id /\ Agrees(op)
  <2>1. CASE line.status \in {"proposed", "declined"}
    <3> DEFINE v == [line EXCEPT !.amount = op.amount, !.status = "applied"]
    <3>1. DecideLine(line, op) = v
      BY <1>1, <2>1 DEF DecideLine, ApproveLine, Agrees
    <3>2. v = [f \in {"id", "amount", "status"} |-> v[f]] /\ v.id = line.id /\ v.status = "applied"
      OBVIOUS
    <3> HIDE DEF v
    <3>3. DecideLine(v, op) = v
      BY <1>1, <3>2 DEF DecideLine, ApproveLine, Agrees
    <3> QED
      BY <1>1, <3>1, <3>2, <3>3 DEF Decides
  <2>2. CASE ~(line.status \in {"proposed", "declined"})
    <3>1. DecideLine(line, op) = line
      BY <1>1, <2>2 DEF DecideLine, ApproveLine, Agrees
    <3> QED
      BY <3>1
  <2> QED
    BY <2>1, <2>2
<1>2. CASE line.id = op.id /\ ~Agrees(op) /\ op.type = "declined"
  <2>1. CASE line.status = "proposed"
    <3> DEFINE v == [line EXCEPT !.status = "declined"]
    <3>1. DecideLine(line, op) = v
      BY <1>2, <2>1 DEF DecideLine, DeclineLine
    <3>2. v = [f \in {"id", "amount", "status"} |-> v[f]] /\ v.id = line.id /\ v.status = "declined"
      OBVIOUS
    <3> HIDE DEF v
    <3>3. DecideLine(v, op) = v
      BY <1>2, <3>2 DEF DecideLine, DeclineLine
    <3> QED
      BY <1>2, <3>1, <3>2, <3>3 DEF Decides
  <2>2. CASE line.status # "proposed"
    <3>1. DecideLine(line, op) = line
      BY <1>2, <2>2 DEF DecideLine, DeclineLine
    <3> QED
      BY <3>1
  <2> QED
    BY <2>1, <2>2
<1>3. CASE line.id # op.id \/ ~(Agrees(op) \/ op.type = "declined")
  BY <1>3 DEF DecideLine, Decides
<1> QED
  BY <1>1, <1>2, <1>3

IsLine(line) == line = [f \in {"id", "amount", "status"} |-> line[f]]

\* What folded before it settles a new line as its one answer does.
LEMMA SettledEarly ==
    ASSUME NEW h, IsList(h), OneAnswer(Range(h)), NEW line, IsLine(line)
    PROVE  LET v == SettleEarlierDecisions(line, h) IN IsLine(v) /\ v.id = line.id /\ Answered(line, v, Range(h))
<1> DEFINE S == Range(h)
           Good(q) == LET v == Deciding!Along(line, q) IN IsLine(v) /\ v.id = line.id /\ Answered(line, v, Range(q))
           G == {q \in Seq(S) : Good(q)}
<1>0. \A q \in Seq(S) : IsList(q) /\ Range(q) \in SUBSET S
  BY RangeOfList
<1>1. <<>> \in G
  <2>1. Deciding!Along(line, <<>>) = line
    BY Deciding!AlongNothing
  <2>2. Range(<<>>) = {} /\ <<>> \in Seq(S)
    BY DEF Range
  <2> HIDE DEF S
  <2> QED
    BY <2>1, <2>2 DEF Answered
<1>2. ASSUME NEW q \in Seq(S), NEW o \in S, q \in G PROVE Append(q, o) \in G
  <2> DEFINE v == Deciding!Along(line, q)
             w == Deciding!Along(line, Append(q, o))
  <2>1. w = DecideLine(v, o)
    BY Deciding!AlongMore
  <2>2. IsLine(v) /\ v.id = line.id /\ Answered(line, v, Range(q))
    BY <1>2
  <2>3. Append(q, o) \in Seq(S) /\ Range(Append(q, o)) = Range(q) \cup {o}
    BY RangeOfMore
  <2> HIDE DEF v, w
  <2>4. IsLine(w) /\ w.id = line.id /\ (~(Decides(o) /\ o.id = line.id) => w = v)
    BY <2>1, <2>2, DecideLineTwice DEF IsLine
  <2>5. Answered(line, w, Range(q) \cup {o})
    <3>1. CASE ~(Decides(o) /\ o.id = line.id)
      BY <2>2, <2>4, <3>1 DEF Answered
    <3>2. CASE Decides(o) /\ o.id = line.id
      <4>1. \A d \in Range(q) \cup {o} : Decides(d) /\ d.id = line.id => d = o
        BY <1>0, <3>2 DEF OneAnswer
      <4>2. v = line \/ v = DecideLine(line, o)
        <5>1. CASE \E d \in Range(q) : Decides(d) /\ d.id = line.id
          BY <2>2, <4>1, <5>1 DEF Answered
        <5>2. CASE ~\E d \in Range(q) : Decides(d) /\ d.id = line.id
          BY <2>2, <5>2 DEF Answered
        <5> QED
          BY <5>1, <5>2
      <4>3. w = DecideLine(line, o)
        <5>1. CASE v = line
          BY <2>1, <5>1
        <5>2. CASE v = DecideLine(line, o)
          BY <2>1, <5>2, DecideLineTwice DEF IsLine
        <5> QED
          BY <4>2, <5>1, <5>2
      <4> QED
        BY <3>2, <4>1, <4>3 DEF Answered
    <3> QED
      BY <3>1, <3>2
  <2>6. Good(Append(q, o))
    BY <2>3, <2>4, <2>5 DEF w
  <2> QED
    BY <2>3, <2>6
<1> HIDE DEF G
<1>3. \A q \in Seq(S) : q \in G
  BY <1>1, <1>2, Deciding!ListInduction
<1>4. h \in Seq(S)
  BY DEF IsList
<1>5. h \in G
  BY <1>3, <1>4
<1> QED
  BY <1>5 DEF G, SettleEarlierDecisions

\* A ticket that replays what folded before it.
LEMMA Replayed ==
    ASSUME NEW h, IsList(h), NEW t, IsTicket(t)
    PROVE  LET u == Replaying!Along(t, h)
           IN /\ IsTicket(u) /\ u.opened = t.opened /\ u.location = t.location
              /\ u.outcome = "cancelled" <=> (t.outcome = "cancelled" \/ \E op \in Range(h) : op.type = "cancelled")
<1> DEFINE S == Range(h)
           Good(q) == LET u == Replaying!Along(t, q)
                      IN /\ IsTicket(u) /\ u.opened = t.opened /\ u.location = t.location
                         /\ u.outcome = "cancelled" <=> (t.outcome = "cancelled" \/ \E op \in Range(q) : op.type = "cancelled")
           G == {q \in Seq(S) : Good(q)}
<1>1. <<>> \in G
  <2>1. Replaying!Along(t, <<>>) = t
    BY Replaying!AlongNothing
  <2>2. Range(<<>>) = {} /\ <<>> \in Seq(S)
    BY DEF Range
  <2> HIDE DEF S
  <2> QED
    BY <2>1, <2>2
<1>2. ASSUME NEW q \in Seq(S), NEW o \in S, q \in G PROVE Append(q, o) \in G
  <2> DEFINE u == Replaying!Along(t, q)
             w == Replaying!Along(t, Append(q, o))
  <2>1. w = TicketChange(u, o)
    BY Replaying!AlongMore
  <2>2. IsTicket(u) /\ u.opened = t.opened /\ u.location = t.location
        /\ (u.outcome = "cancelled" <=> (t.outcome = "cancelled" \/ \E op \in Range(q) : op.type = "cancelled"))
    BY <1>2
  <2>3. Append(q, o) \in Seq(S) /\ Range(Append(q, o)) = Range(q) \cup {o}
    BY RangeOfMore
  <2> HIDE DEF u, w
  <2>4. IsTicket(w) /\ w.opened = t.opened /\ w.location = t.location
        /\ (w.outcome = "cancelled" <=> (u.outcome = "cancelled" \/ o.type = "cancelled"))
    BY <2>1, <2>2, TicketChanges
  <2>5. Good(Append(q, o))
    BY <2>2, <2>3, <2>4 DEF w
  <2> QED
    BY <2>3, <2>5
<1> HIDE DEF G
<1>3. \A q \in Seq(S) : q \in G
  BY <1>1, <1>2, Replaying!ListInduction
<1>4. h \in Seq(S)
  BY DEF IsList
<1>5. h \in G
  BY <1>3, <1>4
<1> QED
  BY <1>5 DEF G

-----------------------------------------------------------------------------
(* What a record says of the operations folded into it, in whatever order. *)

LinesFrom(lines, M) ==
    /\ lines = [id \in DOMAIN lines |-> lines[id]]
    /\ DOMAIN lines = {op.id : op \in {op \in M : Adds(op)}}
    /\ \A a \in M : Adds(a) => /\ IsLine(lines[a.id]) /\ lines[a.id].id = a.id
                               /\ Answered(LineOf(a, Begins(a)), lines[a.id], M)
HistoryIs(r, M) == IsList(r.history) /\ Range(r.history) = {op \in M : ~IsRequestOp(op)}
TicketIs(r, M) ==
    /\ r.ticket.opened <=> \E op \in M : op.type = "opened"
    /\ ~r.ticket.opened => r.ticket = NoTicket
    /\ r.ticket.opened => /\ r.ticket.total = Sum(r.lines, {"intake", "applied"})
                          /\ r.ticket.outcome = "cancelled" <=> \E op \in M : op.type = "cancelled"
                          /\ r.ticket.location = LocationAfter(M)
FoldsFrom(r, M) == IsRecords(r) /\ LinesFrom(r.lines, M) /\ HistoryIs(r, M) /\ TicketIs(r, M)

\* A list with one more is a list.
LEMMA ListMore ==
    ASSUME NEW h, IsList(h), NEW o
    PROVE  IsList(Append(h, o)) /\ Range(Append(h, o)) = Range(h) \cup {o}
<1>1. h \in Seq(Range(h) \cup {o})
  BY DEF IsList
<1>2. Append(h, o) \in Seq(Range(h) \cup {o}) /\ Range(Append(h, o)) = Range(h) \cup {o}
  BY <1>1, RangeOfMore
<1> QED
  BY <1>2 DEF IsList

\* What neither adds nor decides a line leaves the lines right.
LEMMA LinesStay ==
    ASSUME NEW lines, NEW M, NEW o, LinesFrom(lines, M), ~Adds(o), ~Decides(o)
    PROVE  LinesFrom(lines, M \cup {o})
<1>1. {op \in M \cup {o} : Adds(op)} = {op \in M : Adds(op)}
  OBVIOUS
<1>2. ASSUME NEW line, NEW v, Answered(line, v, M) PROVE Answered(line, v, M \cup {o})
  BY <1>2 DEF Answered
<1> QED
  BY <1>1, <1>2 DEF LinesFrom

\* A decision leaves the lines right.
LEMMA LinesDecided ==
    ASSUME NEW lines, NEW M, NEW o, LinesFrom(lines, M), o \notin M, Decides(o), Sound(M \cup {o})
    PROVE  LinesFrom([id \in DOMAIN lines |-> DecideLine(lines[id], o)], M \cup {o})
<1> DEFINE more == [id \in DOMAIN lines |-> DecideLine(lines[id], o)]
<1>1. ~Adds(o)
  BY DEF Adds, Decides, Agrees, Inserts
<1>2. {op \in M \cup {o} : Adds(op)} = {op \in M : Adds(op)}
  BY <1>1
<1>3. DOMAIN more = DOMAIN lines /\ more = [id \in DOMAIN more |-> more[id]]
      /\ \A id \in DOMAIN lines : more[id] = DecideLine(lines[id], o)
  OBVIOUS
<1> HIDE DEF more
<1>4. ASSUME NEW a \in M, Adds(a)
      PROVE  /\ IsLine(more[a.id]) /\ more[a.id].id = a.id
             /\ Answered(LineOf(a, Begins(a)), more[a.id], M \cup {o})
  <2> DEFINE line == LineOf(a, Begins(a))
             v == lines[a.id]
             w == more[a.id]
  <2>1. IsLine(v) /\ v.id = a.id /\ Answered(line, v, M) /\ a.id \in DOMAIN lines
    BY <1>4 DEF LinesFrom
  <2>2. w = DecideLine(v, o) /\ line.id = a.id
    BY <1>3, <2>1 DEF LineOf
  <2> HIDE DEF line, v, w
  <2>3. IsLine(w) /\ w.id = a.id /\ (~(Decides(o) /\ o.id = a.id) => w = v)
    BY <2>1, <2>2, DecideLineTwice DEF IsLine
  <2>6. Answered(line, w, M \cup {o})
    <3>1. CASE o.id # a.id
      BY <2>1, <2>2, <2>3, <3>1 DEF Answered
    <3>2. CASE o.id = a.id
      <4>1. \A d \in M \cup {o} : Decides(d) /\ d.id = a.id => d = o
        BY <3>2 DEF Sound, WellPriced, OneAnswer
      <4>2. \A d \in M : ~(Decides(d) /\ d.id = line.id)
        BY <2>2, <4>1
      <4>3. v = line
        BY <2>1, <4>2 DEF Answered
      <4> QED
        BY <2>2, <3>2, <4>1, <4>3 DEF Answered
    <3> QED
      BY <3>1, <3>2
  <2> QED
    BY <2>3, <2>6 DEF w, line
<1> QED
  BY <1>1, <1>2, <1>3, <1>4 DEF LinesFrom, more

\* A new line is right: it replays the decisions folded before it.
LEMMA LinesAdded ==
    ASSUME NEW r, NEW M, NEW o, LinesFrom(r.lines, M), HistoryIs(r, M), o \notin M, Adds(o), Sound(M \cup {o}),
           NEW lines, lines = [id \in DOMAIN lines |-> lines[id]], DOMAIN lines = DOMAIN r.lines \cup {o.id},
           lines[o.id] = Added(r, o, Begins(o)),
           \A id \in DOMAIN r.lines : id # o.id => lines[id] = r.lines[id]
    PROVE  LinesFrom(lines, M \cup {o})
<1>1. {op.id : op \in {op \in M \cup {o} : Adds(op)}} = {op.id : op \in {op \in M : Adds(op)}} \cup {o.id}
  OBVIOUS
<1>2. ~Decides(o)
  BY DEF Adds, Decides, Agrees, Inserts
<1>3. \A a \in M : Adds(a) => a.id # o.id
  BY DEF Sound, WellPriced
<1>4. ASSUME NEW a \in M, Adds(a)
      PROVE  /\ IsLine(lines[a.id]) /\ lines[a.id].id = a.id
             /\ Answered(LineOf(a, Begins(a)), lines[a.id], M \cup {o})
  <2>1. lines[a.id] = r.lines[a.id] /\ IsLine(r.lines[a.id]) /\ r.lines[a.id].id = a.id
        /\ Answered(LineOf(a, Begins(a)), r.lines[a.id], M)
    BY <1>3, <1>4 DEF LinesFrom
  <2> QED
    BY <1>2, <2>1 DEF Answered
<1> DEFINE line == LineOf(o, Begins(o))
           v == lines[o.id]
<1>5. IsLine(line) /\ line.id = o.id
  BY DEF IsLine, LineOf
<1> HIDE DEF line
<1>6. IsLine(v) /\ v.id = o.id /\ Answered(line, v, M \cup {o})
  <2>1. CASE Begins(o) = "proposed"
    <3> DEFINE h == r.history
    <3>1. IsList(h) /\ Range(h) = {op \in M : ~IsRequestOp(op)}
      BY DEF HistoryIs
    <3>2. v = SettleEarlierDecisions(line, h)
      BY <2>1 DEF Added, line
    <3> HIDE DEF h, v
    <3>3. OneAnswer(Range(h))
      BY <3>1 DEF Sound, WellPriced, OneAnswer
    <3>4. IsLine(v) /\ v.id = line.id /\ Answered(line, v, Range(h))
      BY <1>5, <3>1, <3>2, <3>3, SettledEarly
    <3>5. \A d \in M : Decides(d) => d \in Range(h)
      BY <3>1 DEF Decides, Agrees, IsRequestOp, Answers
    <3>6. Range(h) \subseteq M
      BY <3>1
    <3> QED
      BY <1>2, <1>5, <3>4, <3>5, <3>6 DEF Answered
  <2>2. CASE Begins(o) # "proposed"
    <3>1. v = line
      BY <2>2 DEF Added, line
    <3>2. \A d \in M \cup {o} : ~(Decides(d) /\ d.id = o.id)
      BY <2>2 DEF Sound, WellPriced
    <3> QED
      BY <1>5, <3>1, <3>2 DEF Answered
  <2> QED
    BY <2>1, <2>2
<1> QED
  BY <1>1, <1>4, <1>6 DEF LinesFrom, line

\* What counts of the price: one line alone, and a line that never counted.
LEMMA SumOfOne ==
    ASSUME NEW lines, NEW id, NEW statuses, DOMAIN lines = {id}, lines[id].status \in statuses, lines[id].amount \in Int
    PROVE  Sum(lines, statuses) = lines[id].amount
<1> DEFINE f == [i \in {i \in DOMAIN lines : lines[i].status \in statuses} |-> lines[i].amount]
<1>1. DOMAIN f = {id} /\ f[id] = lines[id].amount
  OBVIOUS
<1>2. Sum(lines, statuses) = SumFunction(f)
  BY DEF Sum
<1> HIDE DEF f
<1>3. SumFunction(f) = f[id]
  <2> DEFINE P(g) == g = [s \in SUBSET {id} |-> IF s = {} THEN 0
                                             ELSE LET x == CHOOSE x \in s : TRUE IN f[x] + g[s \ {x}]]
             one == [s \in SUBSET {id} |-> IF s = {} THEN 0 ELSE f[id]]
             h == CHOOSE g : P(g)
  <2>1. SumFunction(f) = h[{id}]
    BY <1>1 DEF SumFunction, SumFunctionOnSet, FoldFunctionOnSet, MapThenFoldSet
  <2>2. P(one)
    <3>1. \A s \in SUBSET {id} : s # {} => (CHOOSE x \in s : TRUE) = id /\ s \ {id} = {}
      OBVIOUS
    <3>2. one[{}] = 0
      OBVIOUS
    <3>3. \A s \in SUBSET {id} : s # {} => f[id] = LET x == CHOOSE x \in s : TRUE IN f[x] + one[s \ {x}]
      <4> HIDE DEF one
      <4>1. f[id] \in Int
        BY <1>1
      <4> SUFFICES ASSUME NEW s \in SUBSET {id}, s # {}
                   PROVE  f[id] = LET x == CHOOSE x \in s : TRUE IN f[x] + one[s \ {x}]
        OBVIOUS
      <4>2. (CHOOSE x \in s : TRUE) = id /\ s \ {id} = {}
        BY <3>1
      <4>3. f[id] = f[id] + one[s \ {id}]
        BY <3>2, <4>1, <4>2
      <4> QED
        BY <4>2, <4>3
    <3>4. one = [s \in SUBSET {id} |-> IF s = {} THEN 0 ELSE LET x == CHOOSE x \in s : TRUE IN f[x] + one[s \ {x}]]
      <4> DEFINE g(s) == LET x == CHOOSE x \in s : TRUE IN f[x] + one[s \ {x}]
      <4>1. \A s \in SUBSET {id} : s # {} => f[id] = g(s)
        BY <3>3
      <4> HIDE DEF g
      <4>2. one = [s \in SUBSET {id} |-> IF s = {} THEN 0 ELSE g(s)]
        BY <4>1
      <4> QED
        BY <4>2 DEF g
    <3> QED
      BY <3>4
  <2>3. P(h)
    <3> HIDE DEF P, one
    <3> QED
      BY <2>2
  <2> HIDE DEF h
  <2>4. h[{}] = 0
    BY <2>3
  <2>5. h[{id}] = f[id] + h[{}]
    <3>1. (CHOOSE x \in {id} : TRUE) = id /\ {id} \ {id} = {} /\ {id} # {}
      OBVIOUS
    <3> QED
      BY <2>3, <3>1
  <2> QED
    BY <1>1, <2>1, <2>4, <2>5
<1> QED
  BY <1>1, <1>2, <1>3

\* A line that never counted.
LEMMA SumWithout ==
    ASSUME NEW lines, NEW op, op.type = "declined", \A id \in DOMAIN lines : IsLine(lines[id])
    PROVE  Sum([id \in DOMAIN lines |-> DecideLine(lines[id], op)], {"intake", "applied"})
               = Sum(lines, {"intake", "applied"})
<1> DEFINE more == [id \in DOMAIN lines |-> DecideLine(lines[id], op)]
           counts(l) == {id \in DOMAIN l : l[id].status \in {"intake", "applied"}}
<1>1. \A id \in DOMAIN lines :
          /\ lines[id].status \in {"intake", "applied"} => more[id] = lines[id]
          /\ more[id].status \in {"intake", "applied"} => more[id] = lines[id]
  BY DEF DecideLine, DeclineLine, Agrees, IsLine
<1>2. DOMAIN more = DOMAIN lines
  OBVIOUS
<1> HIDE DEF more
<1>3. counts(more) = counts(lines) /\ \A id \in counts(lines) : more[id].amount = lines[id].amount
  BY <1>1, <1>2
<1>4. [id \in counts(more) |-> more[id].amount] = [id \in counts(lines) |-> lines[id].amount]
  <2> HIDE DEF counts
  <2> QED
    BY <1>3
<1> QED
  BY <1>4 DEF Sum, more

\* The history is right with one more ticket operation.
LEMMA HistoryMore ==
    ASSUME NEW r, IsRecords(r), NEW M, HistoryIs(r, M), NEW o, ~IsRequestOp(o), NEW w, w.history = Append(r.history, o)
    PROVE  HistoryIs(w, M \cup {o})
<1>1. IsList(r.history) /\ Range(r.history) = {op \in M : ~IsRequestOp(op)}
  BY DEF HistoryIs
<1>2. IsList(w.history) /\ Range(w.history) = Range(r.history) \cup {o}
  BY <1>1, ListMore
<1> QED
  BY <1>1, <1>2 DEF HistoryIs

\* Only handovers move a device.
LEMMA LocationStays ==
    ASSUME NEW M, NEW o, o.type \notin {"returned", "reversed"}
    PROVE  LocationAfter(M \cup {o}) = LocationAfter(M)
<1>1. \A type \in {"returned", "reversed"} : {op \in M \cup {o} : op.type = type} = {op \in M : op.type = type}
  OBVIOUS
<1> QED
  BY <1>1 DEF LocationAfter, Counted

\* The ticket's row, where an operation writes it.
LEMMA WorkFolds ==
    ASSUME NEW r, NEW M, FoldsFrom(r, M), NEW o, o \notin M, Sound(M \cup {o}), o.type \in WorkSteps
    PROVE  FoldsFrom(Remembered(Written(r, o), o), M \cup {o})
<1> DEFINE w == Written(r, o)
           u == Remembered(w, o)
<1>1. IsRecords(r) /\ LinesFrom(r.lines, M) /\ HistoryIs(r, M) /\ TicketIs(r, M)
  BY DEF FoldsFrom
<1>2. /\ IsRecords(w) /\ w.lines = r.lines /\ w.history = r.history
      /\ ~r.ticket.opened => w = r
      /\ r.ticket.opened => w.ticket = TicketChange(r.ticket, o)
  BY <1>1, WrittenDoes
<1> HIDE DEF w
<1>3. IsRecords(u) /\ u.lines = r.lines /\ u.ticket = w.ticket /\ u.history = Append(r.history, o)
  BY <1>2, RememberedDoes
<1> HIDE DEF u
<1>4. ~IsRequestOp(o) /\ ~Adds(o) /\ ~Decides(o) /\ o.type \notin {"opened", "returned", "reversed"}
  BY DEF WorkSteps, IsRequestOp, Answers, Adds, Decides, Agrees, Inserts
<1>5. LinesFrom(u.lines, M \cup {o}) /\ HistoryIs(u, M \cup {o})
  BY <1>1, <1>3, <1>4, LinesStay, HistoryMore
<1>6. TicketIs(u, M \cup {o})
  <2>1. LocationAfter(M \cup {o}) = LocationAfter(M)
    BY <1>4, LocationStays
  <2>2. (\E op \in M \cup {o} : op.type = "opened") <=> (\E op \in M : op.type = "opened")
    BY <1>4
  <2>3. CASE ~r.ticket.opened
    BY <1>1, <1>2, <1>3, <2>1, <2>2, <2>3 DEF TicketIs
  <2>4. CASE r.ticket.opened
    <3>1. w.ticket.opened = r.ticket.opened /\ w.ticket.location = r.ticket.location /\ w.ticket.total = r.ticket.total
          /\ (w.ticket.outcome = "cancelled" <=> (r.ticket.outcome = "cancelled" \/ o.type = "cancelled"))
      <4> DEFINE t == r.ticket
                 v == w.ticket
      <4>1. IsTicket(t) /\ v = TicketChange(t, o)
        BY <1>1, <1>2, <2>4 DEF IsRecords
      <4> HIDE DEF t, v
      <4>2. v.opened = t.opened /\ v.location = t.location /\ v.total = t.total
            /\ (v.outcome = "cancelled" <=> (t.outcome = "cancelled" \/ o.type = "cancelled"))
        BY <4>1, TicketChanges
      <4> QED
        BY <4>2 DEF t, v
    <3> QED
      BY <1>1, <1>3, <2>1, <2>2, <2>4, <3>1 DEF TicketIs
  <2> QED
    BY <2>3, <2>4
<1> QED
  BY <1>3, <1>5, <1>6 DEF FoldsFrom, u, w

\* A handover, or its reversal, keeps the fold right.
LEMMA HandoverFolds ==
    ASSUME NEW r, NEW M, FoldsFrom(r, M), NEW o, o \notin M, Sound(M \cup {o}), o.type \in {"returned", "reversed"}
    PROVE  FoldsFrom(FoldHandover(r, o), M \cup {o})
<1> DEFINE w == Written(r, o)
           v == Remembered(w, o)
           u == SettleHandover(v)
           N == M \cup {o}
<1>1. IsRecords(r) /\ LinesFrom(r.lines, M) /\ HistoryIs(r, M) /\ TicketIs(r, M)
  BY DEF FoldsFrom
<1>2. /\ IsRecords(w) /\ w.lines = r.lines /\ w.history = r.history
      /\ ~r.ticket.opened => w = r
      /\ r.ticket.opened => w.ticket = TicketChange(r.ticket, o)
  BY <1>1, WrittenDoes
<1> HIDE DEF w
<1>3. IsRecords(v) /\ v.lines = r.lines /\ v.ticket = w.ticket /\ v.history = Append(r.history, o)
  BY <1>2, RememberedDoes
<1> HIDE DEF v
<1>4. ~IsRequestOp(o) /\ ~Adds(o) /\ ~Decides(o) /\ o.type \notin {"opened", "cancelled"}
  BY DEF IsRequestOp, Answers, Adds, Decides, Agrees, Inserts
<1>5. LinesFrom(v.lines, N) /\ HistoryIs(v, N)
  BY <1>1, <1>3, <1>4, LinesStay, HistoryMore
<1>6. o \in Range(v.history) /\ Range(v.history) = {op \in N : ~IsRequestOp(op)}
  BY <1>4, <1>5 DEF HistoryIs
<1>7. LocationAfter(Range(v.history)) = LocationAfter(N)
  <2>1. \A type \in {"returned", "reversed"} : {op \in Range(v.history) : op.type = type} = {op \in N : op.type = type}
    BY <1>6 DEF IsRequestOp, Answers
  <2> QED
    BY <2>1 DEF LocationAfter, Counted
<1>8. /\ IsRecords(u) /\ u.lines = v.lines /\ u.history = v.history
      /\ u.ticket.opened = v.ticket.opened /\ u.ticket.outcome = v.ticket.outcome
      /\ u.ticket.total = v.ticket.total
      /\ ~v.ticket.opened => u = v
      /\ v.ticket.opened => u.ticket.location = LocationAfter(N)
  <2>1. ~(\A op \in Range(v.history) : op.type \notin {"returned", "reversed"})
    BY <1>6
  <2> QED
    BY <1>3, <1>7, <2>1, SettleDoes
<1> HIDE DEF u
<1>9. TicketIs(u, N)
  <2>2. (\E op \in N : op.type = "opened") <=> (\E op \in M : op.type = "opened")
    BY <1>4
  <2>3. CASE ~r.ticket.opened
    BY <1>1, <1>2, <1>3, <1>8, <2>2, <2>3 DEF TicketIs
  <2>4. CASE r.ticket.opened
    <3>1. w.ticket.opened = r.ticket.opened /\ w.ticket.total = r.ticket.total
          /\ (w.ticket.outcome = "cancelled" <=> r.ticket.outcome = "cancelled")
      <4> DEFINE t == r.ticket
                 x == w.ticket
      <4>1. IsTicket(t) /\ x = TicketChange(t, o)
        BY <1>1, <1>2, <2>4 DEF IsRecords
      <4> HIDE DEF t, x
      <4>2. x.opened = t.opened /\ x.total = t.total
            /\ (x.outcome = "cancelled" <=> (t.outcome = "cancelled" \/ o.type = "cancelled"))
        BY <4>1, TicketChanges
      <4> QED
        BY <1>4, <4>2 DEF t, x
    <3>2. (\E op \in N : op.type = "cancelled") <=> (\E op \in M : op.type = "cancelled")
      BY <1>4
    <3> QED
      BY <1>1, <1>3, <1>8, <2>2, <2>4, <3>1, <3>2 DEF TicketIs
  <2> QED
    BY <2>3, <2>4
<1>10. FoldsFrom(u, N)
  BY <1>5, <1>8, <1>9 DEF FoldsFrom, HistoryIs
<1> QED
  BY <1>10 DEF u, v, w, FoldHandover

\* A decision on a waiting line by itself.
LEMMA DeclineFolds ==
    ASSUME NEW r, NEW M, FoldsFrom(r, M), NEW o, o \notin M, Sound(M \cup {o}), o.type = "declined"
    PROVE  FoldsFrom(Remembered(Decide(r, o), o), M \cup {o})
<1> DEFINE w == Decide(r, o)
           u == Remembered(w, o)
           N == M \cup {o}
<1>1. IsRecords(r) /\ LinesFrom(r.lines, M) /\ HistoryIs(r, M) /\ TicketIs(r, M)
  BY DEF FoldsFrom
<1>2. IsRecords(w) /\ w.ticket = r.ticket /\ w.history = r.history
      /\ w.lines = [id \in DOMAIN r.lines |-> DecideLine(r.lines[id], o)]
  BY <1>1, DecideDoes
<1> HIDE DEF w
<1>3. IsRecords(u) /\ u.lines = w.lines /\ u.ticket = w.ticket /\ u.history = Append(r.history, o)
  BY <1>2, RememberedDoes
<1> HIDE DEF u
<1>4. ~IsRequestOp(o) /\ ~Adds(o) /\ Decides(o) /\ o.type \notin {"opened", "cancelled", "returned", "reversed"}
  BY DEF IsRequestOp, Answers, Adds, Decides, Agrees, Inserts
<1>5. LinesFrom(u.lines, N) /\ HistoryIs(u, N)
  BY <1>1, <1>2, <1>3, <1>4, LinesDecided, HistoryMore
<1>6. Sum(u.lines, {"intake", "applied"}) = Sum(r.lines, {"intake", "applied"})
  <2>1. \A id \in DOMAIN r.lines : IsLine(r.lines[id])
    BY <1>1 DEF LinesFrom
  <2> QED
    BY <1>2, <1>3, <2>1, SumWithout
<1>7. TicketIs(u, N)
  <2>1. LocationAfter(N) = LocationAfter(M)
    BY <1>4, LocationStays
  <2>2. \A type \in {"opened", "cancelled"} : (\E op \in N : op.type = type) <=> (\E op \in M : op.type = type)
    BY <1>4
  <2> HIDE DEF N
  <2> QED
    BY <1>1, <1>2, <1>3, <1>6, <2>1, <2>2 DEF TicketIs
<1> QED
  BY <1>3, <1>5, <1>7 DEF FoldsFrom, u, w

\* So does what follows every price line,
LEMMA PricedFolds ==
    ASSUME NEW r, NEW M, FoldsFrom(r, M), NEW o, o.type \in {"proposed", "changed"},
           NEW w, IsRecords(w), w.ticket = r.ticket, w.history = r.history, LinesFrom(w.lines, M \cup {o})
    PROVE  FoldsFrom(Remembered(Priced(w), o), M \cup {o})
<1> DEFINE v == Priced(w)
           u == Remembered(v, o)
           N == M \cup {o}
<1>1. IsRecords(r) /\ HistoryIs(r, M) /\ TicketIs(r, M)
  BY DEF FoldsFrom
<1>2. /\ IsRecords(v) /\ v.lines = w.lines /\ v.history = w.history
      /\ ~w.ticket.opened => v = w
      /\ v.ticket.opened = w.ticket.opened /\ v.ticket.outcome = w.ticket.outcome
      /\ v.ticket.location = w.ticket.location
      /\ w.ticket.opened => v.ticket.total = Sum(w.lines, {"intake", "applied"})
  BY PricedDoes
<1> HIDE DEF v
<1>3. IsRecords(u) /\ u.lines = v.lines /\ u.ticket = v.ticket /\ u.history = Append(v.history, o)
  BY <1>2, RememberedDoes
<1> HIDE DEF u
<1>4. ~IsRequestOp(o) /\ o.type \notin {"opened", "cancelled", "returned", "reversed"}
  BY DEF IsRequestOp, Answers
<1>5. HistoryIs(u, N)
  <2>1. u.history = Append(r.history, o)
    BY <1>2, <1>3
  <2> QED
    BY <1>1, <1>4, <2>1, HistoryMore
<1>6. TicketIs(u, N)
  <2>1. LocationAfter(N) = LocationAfter(M)
    BY <1>4, LocationStays
  <2>2. \A type \in {"opened", "cancelled"} : (\E op \in N : op.type = type) <=> (\E op \in M : op.type = type)
    BY <1>4
  <2> HIDE DEF N
  <2> QED
    BY <1>1, <1>2, <1>3, <2>1, <2>2 DEF TicketIs
<1> QED
  BY <1>2, <1>3, <1>5, <1>6 DEF FoldsFrom, u, v

\* a price line,
LEMMA PriceFolds ==
    ASSUME NEW r, NEW M, FoldsFrom(r, M), NEW o, o \notin M, Sound(M \cup {o}), o.type \in {"proposed", "changed"}
    PROVE  FoldsFrom(FoldOp(r, o), M \cup {o})
<1> DEFINE N == M \cup {o}
<1>1. IsRecords(r) /\ LinesFrom(r.lines, M) /\ HistoryIs(r, M)
  BY DEF FoldsFrom
<1>2. CASE Agrees(o)
  <2> DEFINE w == Decide(r, o)
  <2>1. FoldOp(r, o) = Remembered(Priced(w), o)
    BY <1>2 DEF FoldOp, FoldTicket, FoldChanged, Agrees, IsRequestOp, Answers
  <2>2. IsRecords(w) /\ w.ticket = r.ticket /\ w.history = r.history
        /\ w.lines = [id \in DOMAIN r.lines |-> DecideLine(r.lines[id], o)]
    BY <1>1, DecideDoes
  <2> HIDE DEF w
  <2>3. LinesFrom(w.lines, N)
    <3>1. Decides(o)
      BY <1>2 DEF Decides
    <3> QED
      BY <1>1, <2>2, <3>1, LinesDecided
  <2> QED
    BY <2>1, <2>2, <2>3, PricedFolds
<1>3. CASE ~Agrees(o)
  <2> DEFINE w == AddLine(r, o, Begins(o))
  <2>1. FoldOp(r, o) = Remembered(Priced(w), o)
    BY <1>3 DEF FoldOp, FoldTicket, FoldChanged, FoldProposed, IsRequestOp, Answers, Begins
  <2>2. /\ IsRecords(w) /\ w.ticket = r.ticket /\ w.history = r.history
        /\ DOMAIN w.lines = DOMAIN r.lines \cup {o.id} /\ w.lines = [id \in DOMAIN w.lines |-> w.lines[id]]
        /\ w.lines[o.id] = Added(r, o, Begins(o))
        /\ \A id \in DOMAIN r.lines : id # o.id => w.lines[id] = r.lines[id]
    BY <1>1, AddLineDoes
  <2> HIDE DEF w
  <2>3. LinesFrom(w.lines, N)
    <3>1. Adds(o)
      BY <1>3 DEF Adds, Inserts
    <3> DEFINE lines == w.lines
    <3>2. /\ lines = [id \in DOMAIN lines |-> lines[id]] /\ DOMAIN lines = DOMAIN r.lines \cup {o.id}
          /\ lines[o.id] = Added(r, o, Begins(o))
          /\ \A id \in DOMAIN r.lines : id # o.id => lines[id] = r.lines[id]
      BY <2>2
    <3> HIDE DEF lines
    <3>3. LinesFrom(lines, N)
      BY <1>1, <3>1, <3>2, LinesAdded
    <3> QED
      BY <3>3 DEF lines
  <2> QED
    BY <2>1, <2>2, <2>3, PricedFolds
<1> QED
  BY <1>2, <1>3

\* a request or its answer,
LEMMA RequestFolds ==
    ASSUME NEW r, NEW M, FoldsFrom(r, M), NEW o, IsRequestOp(o)
    PROVE  FoldsFrom(FoldOp(r, o), M \cup {o})
<1> DEFINE w == FoldOp(r, o)
           N == M \cup {o}
<1>1. IsRecords(r) /\ LinesFrom(r.lines, M) /\ HistoryIs(r, M) /\ TicketIs(r, M)
  BY DEF FoldsFrom
<1>2. w = FoldRequest(r, o)
  BY DEF FoldOp
<1>3. IsRecords(w) /\ w.ticket = r.ticket /\ w.lines = r.lines /\ w.history = r.history
  BY <1>1, <1>2 DEF FoldRequest, IsRecords, RecordFields
<1> HIDE DEF w
<1>4. o.type \notin {"opened", "cancelled", "returned", "reversed"} /\ ~Adds(o) /\ ~Decides(o)
  BY DEF IsRequestOp, Answers, Adds, Decides, Agrees, Inserts
<1>5. LinesFrom(w.lines, N)
  BY <1>1, <1>3, <1>4, LinesStay
<1>6. HistoryIs(w, N)
  BY <1>1, <1>3 DEF HistoryIs
<1>7. TicketIs(w, N)
  <2>1. LocationAfter(N) = LocationAfter(M)
    BY <1>4, LocationStays
  <2>2. \A type \in {"opened", "cancelled"} : (\E op \in N : op.type = type) <=> (\E op \in M : op.type = type)
    BY <1>4
  <2> HIDE DEF N
  <2> QED
    BY <1>1, <1>3, <2>1, <2>2 DEF TicketIs
<1> QED
  BY <1>3, <1>5, <1>6, <1>7 DEF FoldsFrom, w

\* A device never handed over is in the store.
LEMMA NoHandovers ==
    ASSUME NEW M, \A op \in M : op.type \notin {"returned", "reversed"}
    PROVE  LocationAfter(M) = "in_store"
<1>1. \A type \in {"returned", "reversed"} : {op \in M : op.type = type} = {}
  OBVIOUS
<1>2. Cardinality({}) = 0
  BY FS_EmptySet
<1> QED
  BY <1>1, <1>2 DEF LocationAfter, Counted

\* So does the opening of the ticket, which replays what was folded before it.
LEMMA OpenedFolds ==
    ASSUME NEW r, NEW M, FoldsFrom(r, M), NEW o, o \notin M, Sound(M \cup {o}), o.type = "opened"
    PROVE  FoldsFrom(FoldOp(r, o), M \cup {o})
<1> DEFINE N == M \cup {o}
           h == r.history
           T == [NoTicket EXCEPT !.opened = TRUE, !.total = o.amount]
           lines == Filed(r.lines, o.id, LineOf(o, "intake"))
           w == [r EXCEPT !.ticket = T, !.lines = lines]
           v == FoldOpened(r, o)
           u == Remembered(v, o)
<1>1. IsRecords(r) /\ LinesFrom(r.lines, M) /\ HistoryIs(r, M) /\ TicketIs(r, M)
  BY DEF FoldsFrom
<1>2. FoldOp(r, o) = u
  BY DEF FoldOp, FoldTicket, IsRequestOp, Answers
<1>3. v = IF h = <<>> THEN w ELSE Priced(ReplayEarlierChanges(w))
  BY DEF FoldOpened
<1>4. ~IsRequestOp(o) /\ Adds(o) /\ Begins(o) = "intake"
  BY DEF IsRequestOp, Answers, Adds, Begins
<1>5. IsTicket(T) /\ T.opened = TRUE /\ T.location = "in_store" /\ T.outcome = "received" /\ T.total = o.amount
  BY DEF NoTicket, IsTicket, TicketFields
<1>6. LinesFrom(lines, N) /\ DOMAIN lines = DOMAIN r.lines \cup {o.id} /\ lines[o.id] = LineOf(o, "intake")
  <2>1. DOMAIN lines = DOMAIN r.lines \cup {o.id} /\ lines = [id \in DOMAIN lines |-> lines[id]]
        /\ lines[o.id] = LineOf(o, "intake") /\ \A id \in DOMAIN r.lines : id # o.id => lines[id] = r.lines[id]
    BY DEF Filed
  <2>2. Added(r, o, Begins(o)) = LineOf(o, "intake")
    BY <1>4 DEF Added
  <2> HIDE DEF lines
  <2> QED
    BY <1>1, <1>4, <2>1, <2>2, LinesAdded
<1> HIDE DEF lines, T
<1>7. IsRecords(w) /\ w.ticket = T /\ w.lines = lines /\ w.history = h
  BY <1>1, <1>5 DEF IsRecords, RecordFields
<1> HIDE DEF w, v
<1>8. IsList(h) /\ Range(h) = {op \in M : ~IsRequestOp(op)} /\ {op \in M : ~IsRequestOp(op)} = {op \in N : op # o /\ ~IsRequestOp(op)}
  BY <1>1 DEF HistoryIs
<1>9. /\ IsRecords(v) /\ v.lines = lines /\ v.history = h /\ v.ticket.opened
      /\ v.ticket.total = Sum(lines, {"intake", "applied"})
      /\ v.ticket.outcome = "cancelled" <=> \E op \in N : op.type = "cancelled"
      /\ v.ticket.location = LocationAfter(N)
  <2>1. CASE h = <<>>
    <3>1. v = w
      BY <1>3, <2>1
    <3>2. Range(<<>>) = {}
      BY DEF Range
    <3>3. \A op \in M : IsRequestOp(op)
      BY <1>8, <2>1, <3>2
    <3>4. \A op \in N : op.type \notin {"returned", "reversed", "cancelled"}
      BY <3>3 DEF IsRequestOp, Answers
    <3>5. DOMAIN r.lines = {}
      <4>1. \A op \in M : ~Adds(op)
        BY <3>3 DEF IsRequestOp, Answers, Adds, Inserts
      <4> QED
        BY <1>1, <4>1 DEF LinesFrom
    <3>6. Sum(lines, {"intake", "applied"}) = o.amount
      <4>1. DOMAIN lines = {o.id} /\ lines[o.id].status \in {"intake", "applied"} /\ lines[o.id].amount = o.amount
        BY <1>6, <3>5 DEF LineOf
      <4>2. o.amount \in Int
        BY DEF Sound, Typed
      <4> QED
        BY <4>1, <4>2, SumOfOne
    <3>7. LocationAfter(N) = "in_store"
      <4> HIDE DEF N
      <4> QED
        BY <3>4, NoHandovers
    <3> QED
      BY <1>5, <1>7, <3>1, <3>4, <3>6, <3>7
  <2>2. CASE h # <<>>
    <3> DEFINE rep == Replaying!Along(T, h)
               q == [w EXCEPT !.ticket = rep]
               s == SettleHandover(q)
    <3>1. v = Priced(s)
      BY <1>3, <1>7, <2>2 DEF ReplayEarlierChanges
    <3>2. IsTicket(rep) /\ rep.opened /\ rep.location = "in_store"
          /\ (rep.outcome = "cancelled" <=> \E op \in Range(h) : op.type = "cancelled")
      <4> HIDE DEF h
      <4> QED
        BY <1>5, <1>8, Replayed
    <3> HIDE DEF rep
    <3>3. IsRecords(q) /\ q.ticket = rep /\ q.lines = lines /\ q.history = h
      BY <1>7, <3>2 DEF IsRecords, RecordFields
    <3> HIDE DEF q
    <3>4. /\ IsRecords(s) /\ s.lines = q.lines /\ s.history = q.history
          /\ s.ticket.opened = q.ticket.opened /\ s.ticket.outcome = q.ticket.outcome
          /\ (\A op \in Range(q.history) : op.type \notin {"returned", "reversed"}) => s = q
          /\ ~(\A op \in Range(q.history) : op.type \notin {"returned", "reversed"})
                  => s.ticket.location = LocationAfter(Range(q.history))
      BY <3>2, <3>3, SettleDoes
    <3> HIDE DEF s
    <3>5. /\ IsRecords(v) /\ v.lines = s.lines /\ v.history = s.history
          /\ v.ticket.opened = s.ticket.opened /\ v.ticket.outcome = s.ticket.outcome
          /\ v.ticket.location = s.ticket.location
          /\ s.ticket.opened => v.ticket.total = Sum(s.lines, {"intake", "applied"})
      BY <3>1, <3>4, PricedDoes
    <3>6. LocationAfter(Range(h)) = LocationAfter(N)
      <4>1. \A type \in {"returned", "reversed"} : {op \in Range(h) : op.type = type} = {op \in N : op.type = type}
        BY <1>8 DEF IsRequestOp, Answers
      <4> QED
        BY <4>1 DEF LocationAfter, Counted
    <3>7. s.ticket.location = LocationAfter(N)
      <4>1. CASE \A op \in Range(h) : op.type \notin {"returned", "reversed"}
        <5>1. s = q /\ LocationAfter(Range(h)) = "in_store"
          BY <3>3, <3>4, <4>1, NoHandovers
        <5> QED
          BY <3>2, <3>3, <3>6, <5>1
      <4>2. CASE ~(\A op \in Range(h) : op.type \notin {"returned", "reversed"})
        BY <3>3, <3>4, <3>6, <4>2
      <4> QED
        BY <4>1, <4>2
    <3>8. (\E op \in Range(h) : op.type = "cancelled") <=> (\E op \in N : op.type = "cancelled")
      BY <1>8 DEF IsRequestOp, Answers
    <3> QED
      BY <3>2, <3>3, <3>4, <3>5, <3>7, <3>8
  <2> QED
    BY <2>1, <2>2
<1>10. IsRecords(u) /\ u.lines = v.lines /\ u.ticket = v.ticket /\ u.history = Append(h, o)
  BY <1>9, RememberedDoes
<1> HIDE DEF u
<1>11. HistoryIs(u, N)
  BY <1>1, <1>4, <1>10, HistoryMore
<1>12. TicketIs(u, N)
  <2>1. \E op \in N : op.type = "opened"
    OBVIOUS
  <2> HIDE DEF N
  <2> QED
    BY <1>9, <1>10, <2>1 DEF TicketIs
<1> QED
  BY <1>2, <1>6, <1>9, <1>10, <1>11, <1>12 DEF FoldsFrom

\* So for every operation.
LEMMA OneMoreFolds ==
    ASSUME NEW r, NEW M, FoldsFrom(r, M), NEW o, o \notin M, Sound(M \cup {o})
    PROVE  FoldsFrom(FoldOp(r, o), M \cup {o})
<1>1. CASE IsRequestOp(o)
  BY <1>1, RequestFolds
<1>2. CASE o.type \in WorkSteps
  <2>1. FoldOp(r, o) = Remembered(Written(r, o), o)
    BY <1>2 DEF FoldOp, FoldTicket, IsRequestOp, Answers, WorkSteps
  <2> QED
    BY <1>2, <2>1, WorkFolds
<1>3. CASE o.type \in {"returned", "reversed"}
  <2>1. FoldOp(r, o) = FoldHandover(r, o)
    BY <1>3 DEF FoldOp, FoldTicket, IsRequestOp, Answers
  <2> QED
    BY <1>3, <2>1, HandoverFolds
<1>4. CASE o.type = "declined"
  <2>1. FoldOp(r, o) = Remembered(Decide(r, o), o)
    BY <1>4 DEF FoldOp, FoldTicket, IsRequestOp, Answers
  <2> QED
    BY <1>4, <2>1, DeclineFolds
<1>5. CASE o.type \in {"proposed", "changed"}
  BY <1>5, PriceFolds
<1>6. CASE o.type = "opened"
  BY <1>6, OpenedFolds
<1>7. o.type \in TicketTypes \cup Answers \cup {"asked"}
  BY DEF Sound, Typed
<1> QED
  BY <1>1, <1>2, <1>3, <1>4, <1>5, <1>6, <1>7 DEF TicketTypes, IsRequestOp

-----------------------------------------------------------------------------
(* Both orders: as judged, and canonical. *)

Distinct(U) ==
    /\ \A op \in U : op.at \in Int /\ op.by \in Int /\ op.seq \in Int
    /\ \A a, b \in U : Key(a) = Key(b) => a = b

\* Operations signed apart stand in one canonical order.
LEMMA InLineIs == ASSUME NEW U, Distinct(U) PROVE Shop!Fold!InLine(U)
<1>1. \A a, b \in U : a # b => a.at # b.at \/ a.by # b.by \/ a.seq # b.seq
  BY DEF Distinct, Key
<1>2. \A a, b \in U : a # b => Shop!SortsBefore(a, b) \/ Shop!SortsBefore(b, a)
  BY <1>1 DEF Distinct, Shop!SortsBefore
<1>3. \A a, b \in U : ~(Shop!SortsBefore(a, b) /\ Shop!SortsBefore(b, a))
  BY DEF Distinct, Shop!SortsBefore
<1>4. \A a, b, c \in U : Shop!SortsBefore(a, b) /\ Shop!SortsBefore(b, c) => Shop!SortsBefore(a, c)
  BY DEF Distinct, Shop!SortsBefore
<1> QED
  BY <1>2, <1>3, <1>4 DEF Shop!Fold!InLine

\* The fold's copy of finiteness is the same.
LEMMA FiniteFold == \A S : Shop!Fold!IsFiniteSet(S) <=> IsFiniteSet(S)
BY DEF Shop!Fold!IsFiniteSet, IsFiniteSet

\* Nothing folds to empty records.
LEMMA NothingFolds == FoldsFrom(Empty, {})
<1>1. IsRecords(Empty) /\ Empty.lines = <<>> /\ Empty.history = <<>> /\ Empty.ticket = NoTicket
      /\ NoTicket.opened = FALSE
  BY DEF Empty, NoTicket, IsRecords, RecordFields, IsTicket, TicketFields
<1>2. DOMAIN <<>> = {} /\ <<>> = [id \in DOMAIN <<>> |-> <<>>[id]]
  OBVIOUS
<1>3. IsList(<<>>) /\ Range(<<>>) = {}
  <2>1. Range(<<>>) = {}
    BY DEF Range
  <2>2. <<>> \in Seq({})
    OBVIOUS
  <2> QED
    BY <2>1, <2>2 DEF IsList
<1> QED
  BY <1>1, <1>2, <1>3 DEF FoldsFrom, LinesFrom, HistoryIs, TicketIs

\* However a sound past is listed, its fold is right.
LEMMA AlongFolds ==
    ASSUME NEW q, IsList(q), OnceEach(q), Sound(Range(q))
    PROVE  FoldsFrom(Shop!Fold!Along(Empty, q), Range(q))
<1> DEFINE S == Range(q)
           Good(s) == OnceEach(s) => FoldsFrom(Shop!Fold!Along(Empty, s), Range(s))
           G == {s \in Seq(S) : Good(s)}
<1>1. <<>> \in G
  <2>1. Shop!Fold!Along(Empty, <<>>) = Empty
    BY PhonesAssumption, Shop!Fold!AlongNothing
  <2>2. Range(<<>>) = {} /\ <<>> \in Seq(S)
    BY DEF Range
  <2> HIDE DEF S
  <2> QED
    BY <2>1, <2>2, NothingFolds
<1>2. ASSUME NEW s \in Seq(S), NEW o \in S, s \in G PROVE Append(s, o) \in G
  <2> DEFINE r == Shop!Fold!Along(Empty, s)
             w == Shop!Fold!Along(Empty, Append(s, o))
             more == Append(s, o)
  <2>1. w = FoldOp(r, o)
    BY PhonesAssumption, Shop!Fold!AlongMore
  <2>2. more \in Seq(S) /\ Range(more) = Range(s) \cup {o} /\ Len(more) = Len(s) + 1 /\ more[Len(s) + 1] = o
        /\ \A i \in 1..Len(s) : more[i] = s[i]
    BY RangeOfMore
  <2>3. IsList(s) /\ Range(s) \in SUBSET S
    BY RangeOfList
  <2>4. Good(s)
    BY <1>2
  <2>5. Len(s) \in Nat
    OBVIOUS
  <2> HIDE DEF r, w, more, S
  <2>6. ASSUME OnceEach(more) PROVE FoldsFrom(w, Range(more))
    <3>1. \A i \in 1..Len(s) : i \in 1..Len(more) /\ Len(s) + 1 \in 1..Len(more) /\ i # Len(s) + 1
      BY <2>2, <2>5
    <3>2. OnceEach(s)
      BY <2>2, <2>6, <3>1 DEF OnceEach
    <3>3. o \notin Range(s)
      <4>1. \A i \in 1..Len(s) : s[i] # o
        BY <2>2, <2>6, <3>1 DEF OnceEach
      <4> QED
        BY <2>3, <4>1, ListIs
    <3>4. FoldsFrom(r, Range(s))
      BY <2>4, <3>2 DEF r
    <3>5. Sound(Range(s) \cup {o})
      <4>1. Range(s) \cup {o} \in SUBSET S
        BY <2>3
      <4> QED
        BY <4>1, SoundPart DEF S
    <3>6. FoldsFrom(FoldOp(r, o), Range(s) \cup {o})
      BY <3>3, <3>4, <3>5, OneMoreFolds
    <3> QED
      BY <2>1, <2>2, <3>6
  <2> QED
    BY <2>2, <2>6 DEF w, more
<1> HIDE DEF G
<1>3. \A s \in Seq(S) : s \in G
  BY <1>1, <1>2, PhonesAssumption, Shop!Fold!ListInduction
<1>4. q \in G
  BY <1>3 DEF IsList
<1> QED
  BY <1>4 DEF G

\* A set of operations, folded in canonical order, folds right.
LEMMA SetFolds ==
    ASSUME NEW M, IsFiniteSet(M), Distinct(M), Sound(M)
    PROVE  FoldsFrom(Shop!Records(M), M)
<1> DEFINE G == {T \in SUBSET M : FoldsFrom(Shop!Records(T), T)}
<1>1. {} \in G
  <2>1. Shop!Records({}) = Empty
    BY PhonesAssumption, Shop!Fold!InOrderNothing DEF Shop!Records
  <2> QED
    BY <2>1, NothingFolds
<1>2. ASSUME NEW T \in SUBSET M, NEW o \in M \ T, Shop!Fold!IsFiniteSet(T), T \in G, \A p \in T : Shop!SortsBefore(p, o)
      PROVE  T \cup {o} \in G
  <2>1. Shop!Records(T \cup {o}) = FoldOp(Shop!Records(T), o)
    BY <1>2, InLineIs, PhonesAssumption, Shop!Fold!InOrderMore DEF Shop!Records
  <2>2. FoldsFrom(Shop!Records(T), T)
    BY <1>2
  <2>3. Sound(T \cup {o})
    <3>1. T \cup {o} \in SUBSET M
      OBVIOUS
    <3> QED
      BY <3>1, SoundPart
  <2>4. FoldsFrom(FoldOp(Shop!Records(T), o), T \cup {o})
    BY <2>2, <2>3, OneMoreFolds
  <2> QED
    BY <2>1, <2>4
<1> HIDE DEF G
<1>3. \A S \in SUBSET M : Shop!Fold!IsFiniteSet(S) => S \in G
  BY <1>1, <1>2, InLineIs, PhonesAssumption, Shop!Fold!OrderInduction
<1>4. M \in G
  BY <1>3, FiniteFold
<1> QED
  BY <1>4 DEF G

\* What two records of the same operations agree on.
LEMMA Agreed ==
    ASSUME NEW M, NEW a, NEW b, FoldsFrom(a, M), FoldsFrom(b, M)
    PROVE  /\ a.lines = b.lines /\ a.ticket.opened = b.ticket.opened
           /\ a.ticket.location = b.ticket.location /\ a.ticket.total = b.ticket.total
           /\ (a.ticket.outcome = "cancelled") = (b.ticket.outcome = "cancelled")
<1>1. a.lines = b.lines
  <2> DEFINE x == a.lines
             y == b.lines
  <2>1. DOMAIN x = DOMAIN y /\ x = [id \in DOMAIN x |-> x[id]] /\ y = [id \in DOMAIN y |-> y[id]]
    BY DEF FoldsFrom, LinesFrom
  <2>2. ASSUME NEW id \in DOMAIN x PROVE x[id] = y[id]
    <3>1. PICK op \in M : Adds(op) /\ op.id = id
      BY DEF FoldsFrom, LinesFrom
    <3>2. Answered(LineOf(op, Begins(op)), x[id], M) /\ Answered(LineOf(op, Begins(op)), y[id], M)
      BY <3>1 DEF FoldsFrom, LinesFrom
    <3> QED
      BY <3>2 DEF Answered
  <2> HIDE DEF x, y
  <2>3. x = y
    BY <2>1, <2>2
  <2> QED
    BY <2>3 DEF x, y
<1>2. TicketIs(a, M) /\ TicketIs(b, M) /\ IsRecords(a) /\ IsRecords(b)
  BY DEF FoldsFrom
<1>3. a.ticket.opened \in BOOLEAN /\ b.ticket.opened \in BOOLEAN /\ a.ticket.opened = b.ticket.opened
  BY <1>2 DEF TicketIs, IsRecords, IsTicket
<1>4. CASE ~a.ticket.opened
  BY <1>1, <1>2, <1>3, <1>4 DEF TicketIs
<1>5. CASE a.ticket.opened
  BY <1>1, <1>2, <1>3, <1>5 DEF TicketIs
<1> QED
  BY <1>1, <1>3, <1>4, <1>5

-----------------------------------------------------------------------------
(* A handover, an answer or a customer's no that folds earlier than it was     *)
(* judged changes nothing of a servisan that was done.                         *)

IsLate(x) == x.type = "returned" \/ x.type = "declined" \/ IsRequestOp(x)
Follows(a, b) ==
    /\ IsTicket(a) /\ IsTicket(b)
    /\ a.outcome = "cancelled" <=> b.outcome = "cancelled"
    /\ a.location = "returned" => b.location = "returned"
    /\ a.outcome = "repaired" => b.outcome = "repaired"

\* A change to two tickets keeps the one as far on as the other.
LEMMA ChangeFollows ==
    ASSUME NEW a, NEW b, Follows(a, b), NEW op
    PROVE  Follows(TicketChange(a, op), TicketChange(b, op))
<1> DEFINE u == TicketChange(a, op)
           v == TicketChange(b, op)
<1>1. IsTicket(a) /\ IsTicket(b)
  BY DEF Follows
<1>2. IsTicket(u) /\ IsTicket(v) /\ u.location = a.location /\ v.location = b.location
      /\ (u.outcome = "cancelled" <=> (a.outcome = "cancelled" \/ op.type = "cancelled"))
      /\ (v.outcome = "cancelled" <=> (b.outcome = "cancelled" \/ op.type = "cancelled"))
  BY <1>1, TicketChanges
<1>3. u.outcome = "repaired" => v.outcome = "repaired"
  <2>1. CASE op.type = "claimed"
    BY <1>1, <2>1 DEF IsTicket, TicketFields, TicketChange, Follows
  <2>2. CASE op.type \in {"started", "paused"}
    <3>1. ~Open(a) => ~Open(b)
      BY DEF Open, Follows
    <3>2. CASE Open(a)
      BY <1>1, <2>2, <3>2 DEF IsTicket, TicketFields, TicketChange, PutToWork
    <3>3. CASE ~Open(a)
      BY <1>1, <2>2, <3>1, <3>3 DEF TicketChange, PutToWork, Follows
    <3> QED
      BY <3>2, <3>3
  <2>3. CASE op.type \in {"repaired", "returned"}
    <3>1. IsTicket(Repaired(a)) /\ IsTicket(Repaired(b)) /\ (Repaired(a).outcome = "repaired" => Repaired(b).outcome = "repaired")
      BY <1>1 DEF IsTicket, TicketFields, Repaired, Follows
    <3>2. CASE op.type = "repaired"
      BY <3>1, <3>2 DEF TicketChange
    <3>3. CASE op.type = "returned"
      <4> DEFINE x == Repaired(a)
                 y == Repaired(b)
      <4>1. u = [x EXCEPT !.returnedAt = SoonerOf(@, op.at)] /\ v = [y EXCEPT !.returnedAt = SoonerOf(@, op.at)]
        BY <3>3 DEF TicketChange
      <4>2. IsTicket(x) /\ IsTicket(y) /\ (x.outcome = "repaired" => y.outcome = "repaired")
        BY <3>1
      <4> HIDE DEF x, y, u, v
      <4> QED
        BY <4>1, <4>2 DEF IsTicket, TicketFields
    <3> QED
      BY <2>3, <3>2, <3>3
  <2>4. CASE op.type = "cancelled"
    BY <1>1, <2>4 DEF IsTicket, TicketFields, TicketChange
  <2>5. CASE op.type \notin {"claimed", "started", "paused", "repaired", "returned", "cancelled"}
    BY <2>5 DEF TicketChange, Follows
  <2> QED
    BY <2>1, <2>2, <2>3, <2>4, <2>5
<1> HIDE DEF u, v
<1>4. Follows(u, v)
  BY <1>2, <1>3 DEF Follows
<1> QED
  BY <1>4 DEF u, v

\* A late operation moves a ticket on.
LEMMA LateFollows ==
    ASSUME NEW a, IsTicket(a), NEW x, IsLate(x)
    PROVE  Follows(a, TicketChange(a, x))
<1> DEFINE v == TicketChange(a, x)
<1>1. x.type \notin {"claimed", "started", "paused", "repaired", "cancelled"}
  BY DEF IsLate, IsRequestOp, Answers
<1>2. IsTicket(v) /\ v.location = a.location
      /\ (v.outcome = "cancelled" <=> (a.outcome = "cancelled" \/ x.type = "cancelled"))
  BY TicketChanges
<1>3. a.outcome = "repaired" => v.outcome = "repaired"
  <2>1. CASE x.type = "returned"
    <3> DEFINE y == Repaired(a)
    <3>1. IsTicket(y) /\ (a.outcome = "repaired" => y.outcome = "repaired")
      BY DEF IsTicket, TicketFields, Repaired
    <3>2. v = [y EXCEPT !.returnedAt = SoonerOf(@, x.at)]
      BY <2>1 DEF TicketChange
    <3> HIDE DEF y, v
    <3> QED
      BY <3>1, <3>2 DEF IsTicket, TicketFields
  <2>2. CASE x.type # "returned"
    BY <1>1, <2>2 DEF TicketChange
  <2> QED
    BY <2>1, <2>2
<1> HIDE DEF v
<1>4. Follows(a, v)
  BY <1>1, <1>2, <1>3 DEF Follows
<1> QED
  BY <1>4 DEF v

\* How an operation leaves the outcome and the history.
NewTicket(amount) == [NoTicket EXCEPT !.opened = TRUE, !.total = amount]
\* What a fold's step does to a ticket's outcome.
LEMMA OutcomeAfter ==
    ASSUME NEW r, IsRecords(r), IsList(r.history), NEW o, o.type \in TicketTypes \/ IsRequestOp(o)
    PROVE  LET w == FoldOp(r, o)
           IN /\ IsRecords(w)
              /\ o.type \in TicketTypes => w.requests = r.requests
              /\ IsRequestOp(o) => w.history = r.history /\ w.ticket = r.ticket
              /\ o.type \in TicketTypes => w.history = Append(r.history, o)
              /\ o.type \in {"proposed", "changed", "declined"} => w.ticket.outcome = r.ticket.outcome
              /\ o.type \in WorkSteps \cup {"returned", "reversed"} =>
                     /\ ~r.ticket.opened => w.ticket.outcome = r.ticket.outcome
                     /\ r.ticket.opened => w.ticket.outcome = TicketChange(r.ticket, o).outcome
              /\ o.type = "opened" =>
                     w.ticket.outcome = IF r.history = <<>> THEN "received"
                                        ELSE Replaying!Along(NewTicket(o.amount), r.history).outcome
<1> DEFINE w == FoldOp(r, o)
<1>1. CASE IsRequestOp(o)
  <2>1. w = FoldRequest(r, o)
    BY <1>1 DEF FoldOp
  <2>2. IsRecords(w) /\ w.ticket = r.ticket /\ w.history = r.history
    BY <2>1 DEF FoldRequest, IsRecords, RecordFields
  <2> QED
    BY <1>1, <2>2 DEF IsRequestOp, Answers, TicketTypes, WorkSteps
<1>2. CASE o.type \in WorkSteps
  <2> DEFINE v == Written(r, o)
  <2>1. w = Remembered(v, o)
    BY <1>2 DEF FoldOp, FoldTicket, IsRequestOp, Answers, WorkSteps
  <2>2. IsRecords(v) /\ v.requests = r.requests /\ v.history = r.history /\ (~r.ticket.opened => v = r)
        /\ (r.ticket.opened => v.ticket = TicketChange(r.ticket, o))
    BY WrittenDoes
  <2> HIDE DEF v
  <2>3. IsRecords(w) /\ w.requests = v.requests /\ w.ticket = v.ticket /\ w.history = Append(v.history, o)
    BY <2>1, <2>2, RememberedDoes
  <2> QED
    BY <1>2, <2>2, <2>3 DEF WorkSteps, IsRequestOp, Answers
<1>3. CASE o.type \in {"returned", "reversed"}
  <2> DEFINE v == Written(r, o)
             u == Remembered(v, o)
  <2>1. w = SettleHandover(u)
    BY <1>3 DEF FoldOp, FoldTicket, FoldHandover, IsRequestOp, Answers
  <2>2. IsRecords(v) /\ v.requests = r.requests /\ v.history = r.history /\ (~r.ticket.opened => v = r)
        /\ (r.ticket.opened => v.ticket = TicketChange(r.ticket, o))
    BY WrittenDoes
  <2> HIDE DEF v
  <2>3. IsRecords(u) /\ u.requests = v.requests /\ u.ticket = v.ticket /\ u.history = Append(v.history, o)
    BY <2>2, RememberedDoes
  <2> HIDE DEF u
  <2>4. IsRecords(w) /\ w.requests = u.requests /\ w.ticket.outcome = u.ticket.outcome /\ w.history = u.history
    BY <2>1, <2>3, SettleDoes
  <2> QED
    BY <1>3, <2>2, <2>3, <2>4 DEF IsRequestOp, Answers
<1>4. CASE o.type = "declined"
  <2> DEFINE v == Decide(r, o)
  <2>1. w = Remembered(v, o)
    BY <1>4 DEF FoldOp, FoldTicket, IsRequestOp, Answers
  <2>2. IsRecords(v) /\ v.requests = r.requests /\ v.history = r.history /\ v.ticket = r.ticket
    BY DEF Decide, IsRecords, RecordFields
  <2> HIDE DEF v
  <2>3. IsRecords(w) /\ w.requests = v.requests /\ w.ticket = v.ticket /\ w.history = Append(v.history, o)
    BY <2>1, <2>2, RememberedDoes
  <2> QED
    BY <1>4, <2>2, <2>3 DEF WorkSteps, IsRequestOp, Answers
<1>5. CASE o.type \in {"proposed", "changed"}
  <2>1. PICK v : IsRecords(v) /\ v.requests = r.requests /\ v.history = r.history /\ v.ticket = r.ticket /\ w = Remembered(Priced(v), o)
    <3>1. CASE Agrees(o)
      <4> DEFINE v == Decide(r, o)
      <4>1. w = Remembered(Priced(v), o)
        BY <3>1 DEF FoldOp, FoldTicket, FoldChanged, Agrees, IsRequestOp, Answers
      <4>2. IsRecords(v) /\ v.requests = r.requests /\ v.history = r.history /\ v.ticket = r.ticket
        BY DEF Decide, IsRecords, RecordFields
      <4> HIDE DEF v, w
      <4> QED
        BY <4>1, <4>2
    <3>2. CASE ~Agrees(o)
      <4> DEFINE v == AddLine(r, o, Begins(o))
      <4>1. w = Remembered(Priced(v), o)
        BY <1>5, <3>2 DEF FoldOp, FoldTicket, FoldChanged, FoldProposed, IsRequestOp, Answers, Begins
      <4>2. IsRecords(v) /\ v.requests = r.requests /\ v.history = r.history /\ v.ticket = r.ticket
        <5>1. AddLine(r, o, Begins(o)) = [r EXCEPT !.lines = Filed(@, o.id, Added(r, o, Begins(o)))]
          BY DEF AddLine, Added
        <5> QED
          BY <5>1 DEF IsRecords, RecordFields
      <4> HIDE DEF v, w
      <4> QED
        BY <4>1, <4>2
    <3> QED
      BY <3>1, <3>2
  <2> DEFINE u == Priced(v)
  <2>2. IsRecords(u) /\ u.requests = v.requests /\ u.history = v.history /\ u.ticket.outcome = v.ticket.outcome
    BY <2>1, PricedDoes
  <2>3. w = Remembered(u, o)
    BY <2>1
  <2> HIDE DEF u
  <2>4. IsRecords(w) /\ w.requests = u.requests /\ w.ticket = u.ticket /\ w.history = Append(u.history, o)
    BY <2>2, <2>3, RememberedDoes
  <2> QED
    BY <1>5, <2>1, <2>2, <2>4 DEF WorkSteps, IsRequestOp, Answers
<1>6. CASE o.type = "opened"
  <2> DEFINE t == NewTicket(o.amount)
             lines == Filed(r.lines, o.id, LineOf(o, "intake"))
             v == [r EXCEPT !.ticket = t, !.lines = lines]
             h == r.history
             u == FoldOpened(r, o)
  <2>1. w = Remembered(u, o) /\ u = IF h = <<>> THEN v ELSE Priced(ReplayEarlierChanges(v))
    BY <1>6 DEF FoldOp, FoldTicket, FoldOpened, IsRequestOp, Answers, NewTicket
  <2>2. IsTicket(t) /\ t.outcome = "received"
    BY DEF NewTicket, NoTicket, IsTicket, TicketFields
  <2> HIDE DEF t, lines
  <2>3. IsRecords(v) /\ v.requests = r.requests /\ v.ticket = t /\ v.history = h
    BY <2>2 DEF IsRecords, RecordFields
  <2>6. IsList(h)
    OBVIOUS
  <2> HIDE DEF v, u
  <2>4. IsRecords(u) /\ u.requests = r.requests /\ u.history = h
        /\ u.ticket.outcome = IF h = <<>> THEN "received" ELSE Replaying!Along(t, h).outcome
    <3>1. CASE h = <<>>
      BY <2>1, <2>2, <2>3, <3>1
    <3>2. CASE h # <<>>
      <4> DEFINE rep == Replaying!Along(t, h)
                 q == [v EXCEPT !.ticket = rep]
                 s == SettleHandover(q)
      <4>1. u = Priced(s)
        BY <2>1, <2>3, <3>2 DEF ReplayEarlierChanges
      <4>2. IsTicket(rep)
        <5> HIDE DEF h
        <5> QED
          BY <2>2, <2>6, Replayed
      <4> HIDE DEF rep
      <4>3. IsRecords(q) /\ q.requests = r.requests /\ q.ticket = rep /\ q.history = h
        BY <2>3, <4>2 DEF IsRecords, RecordFields
      <4> HIDE DEF q
      <4>4. IsRecords(s) /\ s.requests = q.requests /\ s.history = q.history /\ s.ticket.outcome = q.ticket.outcome
        BY <4>3, SettleDoes
      <4> HIDE DEF s
      <4>5. IsRecords(u) /\ u.requests = s.requests /\ u.history = s.history /\ u.ticket.outcome = s.ticket.outcome
        BY <4>1, <4>4, PricedDoes
      <4> QED
        BY <3>2, <4>3, <4>4, <4>5 DEF rep
    <3> QED
      BY <3>1, <3>2
  <2>5. IsRecords(w) /\ w.requests = u.requests /\ w.ticket = u.ticket /\ w.history = Append(u.history, o)
    BY <2>1, <2>4, RememberedDoes
  <2> QED
    BY <1>6, <2>4, <2>5 DEF WorkSteps, IsRequestOp, Answers, t
<1>7. IsRequestOp(o) \/ o.type \in WorkSteps \/ o.type \in {"returned", "reversed"}
      \/ o.type = "declined" \/ o.type \in {"proposed", "changed"} \/ o.type = "opened"
  BY DEF TicketTypes
<1> QED
  BY <1>1, <1>2, <1>3, <1>4, <1>5, <1>6, <1>7

\* A device returned stays returned while nothing reverses it.
LEMMA MoreReturned ==
    ASSUME NEW N, IsFiniteSet(N), NEW x, x \notin N, x.type # "reversed", LocationAfter(N) = "returned"
    PROVE  LocationAfter(N \cup {x}) = "returned"
<1> DEFINE In(L, type) == {op \in L : op.type = type}
<1>1. In(N \cup {x}, "reversed") = In(N, "reversed")
  OBVIOUS
<1>2. In(N \cup {x}, "returned") = In(N, "returned") \/ In(N \cup {x}, "returned") = In(N, "returned") \cup {x}
  OBVIOUS
<1>3. IsFiniteSet(In(N, "returned")) /\ IsFiniteSet(In(N, "reversed")) /\ x \notin In(N, "returned")
  <2>1. In(N, "returned") \in SUBSET N /\ In(N, "reversed") \in SUBSET N
    OBVIOUS
  <2> QED
    BY <2>1, FS_Subset
<1> DEFINE n == Cardinality(In(N, "returned"))
           m == Cardinality(In(N, "reversed"))
           k == Cardinality(In(N \cup {x}, "returned"))
<1>4. n \in Nat /\ m \in Nat /\ (k = n \/ k = n + 1)
  <2>1. n \in Nat /\ m \in Nat
    BY <1>3, FS_CardinalityType
  <2>2. Cardinality(In(N, "returned") \cup {x}) = n + 1
    BY <1>3, FS_AddElement
  <2> HIDE DEF In
  <2> QED
    BY <1>2, <2>1, <2>2
<1>5. n > m
  BY DEF LocationAfter, Counted
<1>6. LocationAfter(N \cup {x}) = IF k > m THEN "returned" ELSE "in_store"
  BY <1>1 DEF LocationAfter, Counted
<1> HIDE DEF n, m, k
<1> QED
  BY <1>4, <1>5, <1>6

\* What the two records tell apart, at most.
LEMMA AlmostSame ==
    ASSUME NEW N, IsFiniteSet(N), NEW x, x \notin N, IsLate(x), NEW a, NEW b,
           FoldsFrom(a, N), FoldsFrom(b, N \cup {x}), a.ticket.outcome = "repaired" => b.ticket.outcome = "repaired"
    PROVE  Follows(a.ticket, b.ticket) /\ a.ticket.opened = b.ticket.opened
<1>1. TicketIs(a, N) /\ TicketIs(b, N \cup {x}) /\ IsTicket(a.ticket) /\ IsTicket(b.ticket)
  BY DEF FoldsFrom, IsRecords
<1>2. x.type \notin {"opened", "cancelled", "reversed"}
  BY DEF IsLate, IsRequestOp, Answers
<1>3. (\E op \in N \cup {x} : op.type = "opened") <=> (\E op \in N : op.type = "opened")
  BY <1>2
<1>4. a.ticket.opened = b.ticket.opened
  BY <1>1, <1>3 DEF TicketIs, IsTicket
<1>5. CASE ~a.ticket.opened
  BY <1>1, <1>4, <1>5 DEF TicketIs, Follows
<1>6. CASE a.ticket.opened
  <2>1. (\E op \in N \cup {x} : op.type = "cancelled") <=> (\E op \in N : op.type = "cancelled")
    BY <1>2
  <2>2. a.ticket.outcome = "cancelled" <=> b.ticket.outcome = "cancelled"
    BY <1>1, <1>4, <1>6, <2>1 DEF TicketIs
  <2>3. a.ticket.location = "returned" => b.ticket.location = "returned"
    BY <1>1, <1>2, <1>4, <1>6, MoreReturned DEF TicketIs
  <2> QED
    BY <1>1, <1>4, <2>2, <2>3 DEF Follows
<1> QED
  BY <1>4, <1>5, <1>6

Stays(a, b) ==
    /\ a.ticket.outcome = "repaired" => b.ticket.outcome = "repaired"
    /\ a.history # <<>> => b.history # <<>>
    /\ \A t : IsTicket(t) => Follows(Replaying!Along(t, a.history), Replaying!Along(t, b.history))

\* A list with one more is not empty.
LEMMA NotNothing == ASSUME NEW h, IsList(h), NEW o PROVE Append(h, o) # <<>>
<1>1. h \in Seq(Range(h) \cup {o})
  BY DEF IsList
<1>2. Len(Append(h, o)) = Len(h) + 1 /\ Len(h) \in Nat /\ Len(<<>>) = 0
  BY <1>1
<1> QED
  BY <1>2

\* A replay of one more is one more change.
LEMMA ReplayMore ==
    ASSUME NEW h, IsList(h), NEW t, NEW o
    PROVE  Replaying!Along(t, Append(h, o)) = TicketChange(Replaying!Along(t, h), o)
<1>1. h \in Seq(Range(h) \cup {o})
  BY DEF IsList
<1> QED
  BY <1>1, Replaying!AlongMore

\* Two records that differ by a late operation stay so, whatever both fold next.
LEMMA StaysOn ==
    ASSUME NEW N, IsFiniteSet(N), NEW x, x \notin N, IsLate(x), NEW a, NEW b,
           FoldsFrom(a, N), FoldsFrom(b, N \cup {x}), Stays(a, b),
           NEW o, o \notin N \cup {x}, Sound(N \cup {x, o})
    PROVE  Stays(FoldOp(a, o), FoldOp(b, o))
<1> DEFINE u == FoldOp(a, o)
           v == FoldOp(b, o)
<1>1. Follows(a.ticket, b.ticket) /\ a.ticket.opened = b.ticket.opened
  BY AlmostSame DEF Stays
<1>2. IsRecords(a) /\ IsList(a.history) /\ IsRecords(b) /\ IsList(b.history) /\ TicketIs(a, N) /\ TicketIs(b, N \cup {x})
  BY DEF FoldsFrom, HistoryIs
<1>5. IsRequestOp(o) \/ o.type \in TicketTypes
  BY DEF Sound, Typed, IsRequestOp
<1>3. /\ IsRequestOp(o) => u.history = a.history /\ u.ticket = a.ticket
      /\ o.type \in TicketTypes => u.history = Append(a.history, o)
      /\ o.type \in {"proposed", "changed", "declined"} => u.ticket.outcome = a.ticket.outcome
      /\ o.type \in WorkSteps \cup {"returned", "reversed"} =>
             /\ ~a.ticket.opened => u.ticket.outcome = a.ticket.outcome
             /\ a.ticket.opened => u.ticket.outcome = TicketChange(a.ticket, o).outcome
      /\ o.type = "opened" =>
             u.ticket.outcome = IF a.history = <<>> THEN "received"
                                ELSE Replaying!Along(NewTicket(o.amount), a.history).outcome
  BY <1>2, <1>5, OutcomeAfter
<1>4. /\ IsRequestOp(o) => v.history = b.history /\ v.ticket = b.ticket
      /\ o.type \in TicketTypes => v.history = Append(b.history, o)
      /\ o.type \in {"proposed", "changed", "declined"} => v.ticket.outcome = b.ticket.outcome
      /\ o.type \in WorkSteps \cup {"returned", "reversed"} =>
             /\ ~b.ticket.opened => v.ticket.outcome = b.ticket.outcome
             /\ b.ticket.opened => v.ticket.outcome = TicketChange(b.ticket, o).outcome
      /\ o.type = "opened" =>
             v.ticket.outcome = IF b.history = <<>> THEN "received"
                                ELSE Replaying!Along(NewTicket(o.amount), b.history).outcome
  BY <1>2, <1>5, OutcomeAfter
<1> HIDE DEF u, v
<1>6. u.ticket.outcome = "repaired" => v.ticket.outcome = "repaired"
  <2>1. CASE IsRequestOp(o)
    BY <1>3, <1>4, <2>1 DEF Stays
  <2>2. CASE o.type \in {"proposed", "changed", "declined"}
    BY <1>3, <1>4, <2>2 DEF Stays
  <2>3. CASE o.type \in WorkSteps \cup {"returned", "reversed"}
    <3>1. CASE ~a.ticket.opened
      BY <1>1, <1>3, <1>4, <2>3, <3>1 DEF Stays
    <3>2. CASE a.ticket.opened
      <4>1. Follows(TicketChange(a.ticket, o), TicketChange(b.ticket, o))
        BY <1>1, ChangeFollows
      <4> QED
        BY <1>1, <1>3, <1>4, <2>3, <3>2, <4>1 DEF Follows
    <3> QED
      BY <3>1, <3>2
  <2>4. CASE o.type = "opened"
    <3> DEFINE t == NewTicket(o.amount)
    <3>1. IsTicket(t)
      BY DEF NewTicket, NoTicket, IsTicket, TicketFields
    <3> HIDE DEF t
    <3>2. Follows(Replaying!Along(t, a.history), Replaying!Along(t, b.history))
      BY <3>1 DEF Stays
    <3>3. CASE a.history = <<>>
      BY <1>3, <2>4, <3>3
    <3>4. CASE a.history # <<>>
      <4>1. b.history # <<>>
        BY <3>4 DEF Stays
      <4> QED
        BY <1>3, <1>4, <2>4, <3>2, <3>4, <4>1 DEF Follows, t
    <3> QED
      BY <3>3, <3>4
  <2> QED
    BY <1>5, <2>1, <2>2, <2>3, <2>4 DEF TicketTypes
<1>7. CASE IsRequestOp(o)
  BY <1>3, <1>4, <1>6, <1>7 DEF Stays, u, v
<1>8. CASE o.type \in TicketTypes
  <2>1. u.history = Append(a.history, o) /\ v.history = Append(b.history, o)
    BY <1>3, <1>4, <1>8
  <2>2. v.history # <<>>
    BY <1>2, <2>1, NotNothing
  <2>3. ASSUME NEW t, IsTicket(t) PROVE Follows(Replaying!Along(t, u.history), Replaying!Along(t, v.history))
    <3> DEFINE p == Replaying!Along(t, a.history)
               q == Replaying!Along(t, b.history)
    <3>1. Follows(p, q)
      BY <2>3 DEF Stays
    <3>2. Replaying!Along(t, u.history) = TicketChange(p, o) /\ Replaying!Along(t, v.history) = TicketChange(q, o)
      BY <1>2, <2>1, ReplayMore
    <3> HIDE DEF p, q
    <3> QED
      BY <3>1, <3>2, ChangeFollows
  <2> QED
    BY <1>6, <2>2, <2>3 DEF Stays, u, v
<1> QED
  BY <1>5, <1>7, <1>8

\* A ticket is as far on as itself.
LEMMA FollowsSame == ASSUME NEW t, IsTicket(t) PROVE Follows(t, t)
BY DEF Follows

\* A late operation just folded leaves the records where they were or further on.
LEMMA StaysAtFirst ==
    ASSUME NEW N, NEW r, FoldsFrom(r, N), NEW x, x \notin N, IsLate(x)
    PROVE  Stays(r, FoldOp(r, x))
<1> DEFINE v == FoldOp(r, x)
           t == r.ticket
<1>1. IsRecords(r) /\ IsList(r.history) /\ IsTicket(t)
  BY DEF FoldsFrom, HistoryIs, IsRecords
<1>2. /\ IsRequestOp(x) => v.history = r.history /\ v.ticket = t
      /\ x.type \in TicketTypes => v.history = Append(r.history, x)
      /\ x.type \in {"proposed", "changed", "declined"} => v.ticket.outcome = t.outcome
      /\ x.type \in WorkSteps \cup {"returned", "reversed"} =>
             /\ ~t.opened => v.ticket.outcome = t.outcome
             /\ t.opened => v.ticket.outcome = TicketChange(t, x).outcome
  BY <1>1, OutcomeAfter DEF IsLate, TicketTypes
<1>3. ASSUME NEW old, IsTicket(old) PROVE IsTicket(Replaying!Along(old, r.history))
  BY <1>1, <1>3, Replayed
<1> HIDE DEF v, t
<1>4. CASE IsRequestOp(x)
  BY <1>2, <1>3, <1>4, FollowsSame DEF Stays, v, t
<1>5. CASE x.type \in {"returned", "declined"}
  <2>1. v.history = Append(r.history, x)
    BY <1>2, <1>5 DEF TicketTypes
  <2>2. v.history # <<>>
    BY <1>1, <2>1, NotNothing
  <2>3. t.outcome = "repaired" => v.ticket.outcome = "repaired"
    <3>1. Follows(t, TicketChange(t, x))
      BY <1>1, LateFollows
    <3> QED
      BY <1>2, <1>5, <3>1 DEF Follows
  <2>4. ASSUME NEW old, IsTicket(old)
        PROVE  Follows(Replaying!Along(old, r.history), Replaying!Along(old, v.history))
    <3> DEFINE p == Replaying!Along(old, r.history)
    <3>1. IsTicket(p)
      BY <1>3, <2>4
    <3>2. Replaying!Along(old, v.history) = TicketChange(p, x)
      BY <1>1, <2>1, ReplayMore
    <3> HIDE DEF p
    <3>3. Follows(p, TicketChange(p, x))
      BY <3>1, LateFollows
    <3> QED
      BY <3>2, <3>3 DEF p
  <2> QED
    BY <2>2, <2>3, <2>4 DEF Stays, v, t
<1> QED
  BY <1>4, <1>5 DEF IsLate

\* Some of what was signed apart was signed apart.
LEMMA DistinctPart == ASSUME NEW M, Distinct(M), NEW L \in SUBSET M PROVE Distinct(L)
BY DEF Distinct

\* So a late operation, wherever its place in canonical order, takes nothing back.
LEMMA RecordsStay ==
    ASSUME NEW M, IsFiniteSet(M), NEW x, x \notin M, IsLate(x), Distinct(M \cup {x}), Sound(M \cup {x})
    PROVE  Stays(Shop!Records(M), Shop!Records(M \cup {x}))
<1> DEFINE U == M \cup {x}
           G == {T \in SUBSET U : x \in T => Stays(Shop!Records(T \ {x}), Shop!Records(T))}
<1>1. {} \in G
  OBVIOUS
<1>2. ASSUME NEW T \in SUBSET U, NEW o \in U \ T, Shop!Fold!IsFiniteSet(T), T \in G, \A p \in T : Shop!SortsBefore(p, o),
             x \in T \cup {o}
      PROVE  Stays(Shop!Records((T \cup {o}) \ {x}), Shop!Records(T \cup {o}))
  <2> DEFINE N == T \ {x}
  <2>1. Shop!Fold!InLine(U)
    BY InLineIs
  <2>2. IsFiniteSet(T) /\ IsFiniteSet(N)
    BY <1>2, FiniteFold, FS_Subset
  <2>3. Shop!Records(T \cup {o}) = FoldOp(Shop!Records(T), o)
    BY <1>2, <2>1, PhonesAssumption, Shop!Fold!InOrderMore DEF Shop!Records
  <2>4. FoldsFrom(Shop!Records(T), T) /\ FoldsFrom(Shop!Records(N), N)
    <3>1. T \in SUBSET U /\ N \in SUBSET U
      OBVIOUS
    <3>2. Distinct(T) /\ Distinct(N) /\ Sound(T) /\ Sound(N)
      BY <3>1, DistinctPart, SoundPart
    <3> QED
      BY <2>2, <3>2, SetFolds
  <2>5. CASE o = x
    <3>1. (T \cup {o}) \ {x} = T /\ x \notin T
      BY <1>2, <2>5
    <3> QED
      BY <2>3, <2>4, <2>5, <3>1, StaysAtFirst
  <2>6. CASE o # x
    <3>1. x \in T /\ (T \cup {o}) \ {x} = N \cup {o} /\ N \cup {x} = T /\ x \notin N /\ o \in U \ N
      BY <1>2, <2>6
    <3>2. Stays(Shop!Records(N), Shop!Records(T))
      BY <1>2, <3>1
    <3>3. Shop!Records(N \cup {o}) = FoldOp(Shop!Records(N), o)
      <4>1. N \in SUBSET U /\ \A p \in N : Shop!SortsBefore(p, o)
        BY <1>2
      <4>2. Shop!Fold!IsFiniteSet(N)
        BY <2>2, FiniteFold
      <4> HIDE DEF N, U
      <4> QED
        BY <2>1, <3>1, <4>1, <4>2, PhonesAssumption, Shop!Fold!InOrderMore DEF Shop!Records
    <3>4. Sound(N \cup {x, o}) /\ o \notin N \cup {x}
      <4>1. N \cup {x, o} \in SUBSET U
        BY <1>2
      <4> QED
        BY <2>6, <4>1, SoundPart
    <3> HIDE DEF N, U
    <3>5. Stays(FoldOp(Shop!Records(N), o), FoldOp(Shop!Records(T), o))
      BY <2>2, <2>4, <3>1, <3>2, <3>4, StaysOn
    <3> QED
      BY <2>3, <3>1, <3>3, <3>5
  <2> QED
    BY <2>5, <2>6
<1>3. \A S \in SUBSET U : Shop!Fold!IsFiniteSet(S) => S \in G
  <2>1. \A T \in SUBSET U : \A o \in U \ T :
            Shop!Fold!IsFiniteSet(T) /\ T \in G /\ (\A p \in T : Shop!SortsBefore(p, o)) => T \cup {o} \in G
    BY <1>2
  <2> HIDE DEF G
  <2> QED
    BY <1>1, <2>1, InLineIs, PhonesAssumption, Shop!Fold!OrderInduction
<1>4. U \in G
  <2>1. IsFiniteSet(U)
    BY FS_AddElement
  <2> QED
    BY <1>3, <2>1, FiniteFold
<1>5. U \ {x} = M /\ x \in U
  OBVIOUS
<1> QED
  BY <1>4, <1>5

-----------------------------------------------------------------------------
(* The accepted operations: what the rules make true of them. *)

Done == {"repaired", "cancelled"}
Lived(M) ==
    /\ Sound(M)
    /\ \A op \in M : ~IsRequestOp(op) => \E o \in M : o.type = "opened"
    /\ \A d \in M : Decides(d) => \E a \in M : Adds(a) /\ a.id = d.id
    /\ Counted(M, "reversed") <= Counted(M, "returned") /\ Counted(M, "returned") <= Counted(M, "reversed") + 1
    /\ \A a, b \in M : a.type = "cancelled" /\ b.type = "cancelled" => a = b
WentHome(y) ==
    LocationAfter(Range(y)) = "returned" =>
        /\ Shop!Records(Range(y)).ticket.outcome \in Done
        /\ Shop!Fold!Along(Empty, y).ticket.outcome \in Done
Good(y) == IsList(y) /\ OnceEach(y) /\ IsFiniteSet(Range(y)) /\ Lived(Range(y)) /\ WentHome(y)

\* A line that waits was proposed and is decided by nothing.
LEMMA UndecidedIs ==
    ASSUME NEW r, NEW M, FoldsFrom(r, M), Sound(M), NEW id \in Undecided(r)
    PROVE  /\ \E a \in M : Adds(a) /\ a.id = id
           /\ \A a \in M : Adds(a) /\ a.id = id => Begins(a) = "proposed"
           /\ \A d \in M : ~(Decides(d) /\ d.id = id)
<1> DEFINE v == r.lines[id]
<1>1. id \in DOMAIN r.lines /\ v.status = "proposed" /\ LinesFrom(r.lines, M)
  BY DEF Undecided, FoldsFrom
<1>2. PICK a \in M : Adds(a) /\ a.id = id
  BY <1>1 DEF LinesFrom
<1> DEFINE line == LineOf(a, Begins(a))
<1>3. IsLine(v) /\ Answered(line, v, M) /\ line.id = id /\ line.status = Begins(a)
  BY <1>1, <1>2 DEF LinesFrom, LineOf
<1> HIDE DEF v, line
<1>4. \A d \in M : ~(Decides(d) /\ d.id = id)
  <2> SUFFICES ASSUME NEW d \in M, Decides(d), d.id = id PROVE FALSE
    OBVIOUS
  <2>1. v = DecideLine(line, d)
    BY <1>3 DEF Answered
  <2>2. Begins(a) = "proposed"
    BY <1>2 DEF Sound, WellPriced
  <2>3. v.status # "proposed"
    <3>1. IsLine(line)
      BY DEF IsLine, line, LineOf
    <3> QED
      BY <1>3, <2>1, <2>2, <3>1 DEF DecideLine, ApproveLine, DeclineLine, Decides, IsLine
  <2> QED
    BY <1>1, <2>3
<1>5. v = line
  BY <1>3, <1>4 DEF Answered
<1>6. Begins(a) = "proposed"
  BY <1>1, <1>3, <1>5
<1>7. \A b \in M : Adds(b) /\ b.id = id => b = a
  BY <1>2 DEF Sound, WellPriced
<1> QED
  BY <1>2, <1>4, <1>6, <1>7

\* What the fold allows next leaves the past sound.
LEMMA SoundMore ==
    ASSUME NEW r, NEW M, FoldsFrom(r, M), Lived(M), NEW op, op \notin M, Typed({op}), Allows(r, op)
    PROVE  Sound(M \cup {op}) /\ (~IsRequestOp(op) => \E o \in M \cup {op} : o.type = "opened")
           /\ (Decides(op) => \E a \in M : Adds(a) /\ a.id = op.id)
           /\ (~IsRequestOp(op) /\ op.type # "opened" => r.ticket.opened)
<1>1. Sound(M) /\ (\A o \in M : ~IsRequestOp(o) => \E p \in M : p.type = "opened")
      /\ \A d \in M : Decides(d) => \E a \in M : Adds(a) /\ a.id = d.id
  BY DEF Lived
<1>2. r.ticket.opened <=> \E o \in M : o.type = "opened"
  BY DEF FoldsFrom, TicketIs
<1>3. ~IsRequestOp(op) => TicketAllows(r, op) /\ op.type \in TicketTypes
  BY DEF Allows, Typed, IsRequestOp
<1>4. ~IsRequestOp(op) /\ op.type # "opened" => r.ticket.opened
  BY <1>3 DEF TicketAllows, TicketTypes, WorkSteps
<1>5. op.type = "opened" => ~r.ticket.opened
  BY <1>3 DEF TicketAllows, IsRequestOp, Answers, WorkSteps
<1>6. Typed(M \cup {op})
  BY <1>1 DEF Sound, Typed
<1>7. OneOpening(M \cup {op})
  BY <1>1, <1>2, <1>5 DEF Sound, OneOpening
<1>8. Decides(op) => op.id \in Undecided(r)
  <2>1. Decides(op) => ~IsRequestOp(op) /\ op.type \notin WorkSteps \cup {"opened", "returned", "reversed"}
    BY DEF Decides, Agrees, IsRequestOp, Answers, WorkSteps
  <2> QED
    BY <1>3, <2>1 DEF TicketAllows, PriceAllows, Decides, Agrees
<1>9. Adds(op) => ~Decides(op) /\ (\A a \in M : Adds(a) => a.id # op.id) /\ (\A d \in M : Decides(d) => d.id # op.id)
  <2> SUFFICES ASSUME Adds(op)
               PROVE  ~Decides(op) /\ (\A a \in M : Adds(a) => a.id # op.id) /\ (\A d \in M : Decides(d) => d.id # op.id)
    OBVIOUS
  <2>1. ~Decides(op)
    BY DEF Adds, Decides, Inserts, Agrees
  <2>2. \A a \in M : Adds(a) => a.id # op.id
    <3>1. CASE op.type = "opened"
      <4>1. \A o \in M : IsRequestOp(o)
        BY <1>1, <1>2, <1>5, <3>1
      <4> QED
        BY <4>1 DEF Adds, Inserts, IsRequestOp, Answers
    <3>2. CASE op.type # "opened"
      <4>1. Inserts(op) /\ ~IsRequestOp(op) /\ op.type \in {"proposed", "changed"}
        BY <3>2 DEF Adds, Inserts, IsRequestOp, Answers
      <4>2. ~HasLine(r, op.id)
        BY <1>3, <4>1 DEF TicketAllows, PriceAllows, Inserts, Agrees, WorkSteps
      <4> QED
        BY <4>2 DEF HasLine, FoldsFrom, LinesFrom
    <3> QED
      BY <3>1, <3>2
  <2> QED
    BY <1>1, <2>1, <2>2
<1>10. Decides(op) => /\ \E a \in M : Adds(a) /\ a.id = op.id
                      /\ \A a \in M : Adds(a) /\ a.id = op.id => Begins(a) = "proposed"
                      /\ \A d \in M : ~(Decides(d) /\ d.id = op.id)
  BY <1>1, <1>8, UndecidedIs
<1>11. WellPriced(M \cup {op})
  <2>1. WellPriced(M)
    BY <1>1 DEF Sound
  <2>2. OneAnswer(M \cup {op})
    BY <1>10, <2>1 DEF WellPriced, OneAnswer
  <2>3. \A a, b \in M \cup {op} : Adds(a) /\ Adds(b) /\ a.id = b.id => a = b
    BY <1>9, <2>1 DEF WellPriced
  <2>4. \A a, b \in M \cup {op} : Adds(a) /\ Decides(b) /\ a.id = b.id => Begins(a) = "proposed"
    BY <1>9, <1>10, <2>1 DEF WellPriced
  <2> QED
    BY <2>2, <2>3, <2>4 DEF WellPriced
<1> QED
  BY <1>2, <1>4, <1>6, <1>7, <1>10, <1>11 DEF Sound

\* One more handover, or reversal, counts one more.
LEMMA CountedMore ==
    ASSUME NEW M, IsFiniteSet(M), NEW op, op \notin M
    PROVE  \A type \in {"returned", "reversed"} :
               /\ Counted(M, type) \in Nat
               /\ Counted(M \cup {op}, type) = IF op.type = type THEN Counted(M, type) + 1 ELSE Counted(M, type)
<1> SUFFICES ASSUME NEW type \in {"returned", "reversed"}
             PROVE  /\ Counted(M, type) \in Nat
                    /\ Counted(M \cup {op}, type) = IF op.type = type THEN Counted(M, type) + 1 ELSE Counted(M, type)
  OBVIOUS
<1> DEFINE L == {o \in M : o.type = type}
           K == {o \in M \cup {op} : o.type = type}
<1>1. L \in SUBSET M /\ op \notin L
  OBVIOUS
<1>2. IsFiniteSet(L) /\ Cardinality(L) \in Nat
  BY <1>1, FS_Subset, FS_CardinalityType
<1>3. CASE op.type = type
  <2>1. K = L \cup {op}
    BY <1>3
  <2> HIDE DEF K, L
  <2>2. Cardinality(K) = Cardinality(L) + 1
    BY <1>1, <1>2, <2>1, FS_AddElement
  <2> QED
    BY <1>2, <1>3, <2>2 DEF Counted, K, L
<1>4. CASE op.type # type
  <2>1. K = L
    BY <1>4
  <2> QED
    BY <1>2, <1>4, <2>1 DEF Counted
<1> QED
  BY <1>3, <1>4

\* What the server accepts after a good past leaves a good past.
LEMMA GoodMore ==
    ASSUME NEW y, Good(y), NEW op, op \notin Range(y), Distinct(Range(y) \cup {op}), Typed({op}),
           Allows(Shop!Records(Range(y)), op)
    PROVE  Good(Append(y, op))
<1> DEFINE M == Range(y)
           N == M \cup {op}
           r == Shop!Records(M)
           s == Shop!Records(N)
           p == Shop!Fold!Along(Empty, y)
           q == Shop!Fold!Along(Empty, Append(y, op))
           z == Append(y, op)
           n(type) == Counted(M, type)
<1>1. IsList(y) /\ OnceEach(y) /\ IsFiniteSet(M) /\ Lived(M) /\ Sound(M) /\ WentHome(y)
  BY DEF Good, Lived
<1>2. IsList(z) /\ Range(z) = N
  BY <1>1, ListMore
<1>3. OnceEach(z)
  <2>1. y \in Seq(M \cup {op})
    BY <1>1 DEF IsList
  <2>2. Len(z) = Len(y) + 1 /\ z[Len(y) + 1] = op /\ (\A i \in 1..Len(y) : z[i] = y[i]) /\ Len(y) \in Nat
    BY <2>1
  <2>3. \A i \in 1..Len(y) : y[i] # op
    BY <1>1, ListIs
  <2> HIDE DEF z, M, N
  <2>4. \A i \in 1..Len(z) : i \in 1..Len(y) \/ i = Len(y) + 1
    BY <2>2
  <2> QED
    BY <1>1, <2>2, <2>3, <2>4 DEF OnceEach
<1>4. IsFiniteSet(N)
  BY <1>1, FS_AddElement
<1>5. Distinct(M)
  BY DEF Distinct
<1>6. FoldsFrom(r, M)
  BY <1>1, <1>5, SetFolds
<1>7. Sound(N) /\ (~IsRequestOp(op) => \E o \in N : o.type = "opened")
      /\ (Decides(op) => \E a \in M : Adds(a) /\ a.id = op.id)
      /\ (~IsRequestOp(op) /\ op.type # "opened" => r.ticket.opened)
  <2>1. Allows(r, op) /\ op \notin M
    OBVIOUS
  <2> HIDE DEF M, r
  <2> QED
    BY <1>1, <1>6, <2>1, SoundMore
<1>8. FoldsFrom(s, N)
  BY <1>4, <1>7, SetFolds
<1>9. FoldsFrom(p, M)
  BY <1>1, AlongFolds
<1>10. FoldsFrom(q, N)
  BY <1>2, <1>3, <1>7, AlongFolds
<1>11. q = FoldOp(p, op)
  <2>1. y \in Seq(M \cup {op})
    BY <1>1 DEF IsList
  <2> QED
    BY <2>1, PhonesAssumption, Shop!Fold!AlongMore
<1>12. n("returned") \in Nat /\ n("reversed") \in Nat
       /\ n("reversed") <= n("returned") /\ n("returned") <= n("reversed") + 1
       /\ Counted(N, "returned") = (IF op.type = "returned" THEN n("returned") + 1 ELSE n("returned"))
       /\ Counted(N, "reversed") = (IF op.type = "reversed" THEN n("reversed") + 1 ELSE n("reversed"))
  BY <1>1, CountedMore DEF Lived
<1>13. IsLate(op) => Stays(r, s)
  BY <1>1, <1>7, RecordsStay
<1>14. TicketIs(r, M) /\ TicketIs(s, N) /\ TicketIs(p, M) /\ TicketIs(q, N) /\ IsRecords(p) /\ IsList(p.history)
  BY <1>6, <1>8, <1>9, <1>10 DEF FoldsFrom, HistoryIs
<1> HIDE DEF r, s, p, q, n, z
<1>15. op.type = "returned" => r.ticket.opened /\ r.ticket.location # "returned" /\ r.ticket.outcome \in Done
  BY <1>7 DEF Allows, TicketAllows, HandoverAllows, IsRequestOp, Answers, WorkSteps, Done, r
<1>16. op.type = "reversed" => r.ticket.opened /\ r.ticket.location = "returned"
  BY <1>7 DEF Allows, TicketAllows, HandoverAllows, IsRequestOp, Answers, WorkSteps, r
<1>17. (LocationAfter(M) = "returned" <=> n("returned") > n("reversed"))
       /\ (LocationAfter(N) = "returned" <=> Counted(N, "returned") > Counted(N, "reversed"))
  BY DEF LocationAfter, n
<1>18. Counted(N, "reversed") <= Counted(N, "returned") /\ Counted(N, "returned") <= Counted(N, "reversed") + 1
  <2>1. CASE op.type = "returned"
    <3>1. LocationAfter(M) # "returned"
      BY <1>14, <1>15, <2>1 DEF TicketIs
    <3> QED
      BY <1>12, <1>17, <2>1, <3>1
  <2>2. CASE op.type = "reversed"
    <3>1. LocationAfter(M) = "returned"
      BY <1>14, <1>16, <2>2 DEF TicketIs
    <3> QED
      BY <1>12, <1>17, <2>2, <3>1
  <2>3. CASE op.type \notin {"returned", "reversed"}
    BY <1>12, <2>3
  <2> QED
    BY <2>1, <2>2, <2>3
<1>22. \A a, b \in N : a.type = "cancelled" /\ b.type = "cancelled" => a = b
  <2>1. op.type = "cancelled" => r.ticket.opened /\ r.ticket.outcome # "cancelled"
    BY <1>7 DEF Allows, TicketAllows, WorkAllows, Open, IsRequestOp, Answers, WorkSteps, r
  <2>2. op.type = "cancelled" => \A a \in M : a.type # "cancelled"
    BY <1>14, <2>1 DEF TicketIs
  <2> QED
    BY <1>1, <2>2 DEF Lived
<1>19. Lived(N)
  <2>1. \A o \in N : ~IsRequestOp(o) => \E b \in N : b.type = "opened"
    BY <1>1, <1>7 DEF Lived
  <2>2. \A d \in N : Decides(d) => \E a \in N : Adds(a) /\ a.id = d.id
    BY <1>1, <1>7 DEF Lived
  <2> QED
    BY <1>7, <1>18, <1>22, <2>1, <2>2 DEF Lived
<1>20. ASSUME LocationAfter(N) = "returned" PROVE s.ticket.outcome \in Done /\ q.ticket.outcome \in Done
  <2>1. op.type # "reversed"
    <3> SUFFICES ASSUME op.type = "reversed" PROVE FALSE
      OBVIOUS
    <3>1. LocationAfter(M) = "returned"
      BY <1>14, <1>16 DEF TicketIs
    <3> QED
      BY <1>12, <1>17, <1>20, <3>1
  <2>2. CASE op.type = "returned"
    <3>1. IsLate(op) /\ r.ticket.opened
      BY <1>15, <2>2 DEF IsLate
    <3>2. p.ticket.opened
      BY <1>14, <3>1 DEF TicketIs
    <3>3. q.ticket.outcome \in Done
      <4>1. q.ticket.outcome = TicketChange(p.ticket, op).outcome
        BY <1>11, <1>14, <2>2, <3>2, OutcomeAfter DEF TicketTypes
      <4>2. IsTicket(p.ticket)
        BY <1>14 DEF IsRecords
      <4> DEFINE t == p.ticket
                 u == Repaired(t)
      <4>3. IsTicket(u) /\ u.outcome \in Done
        BY <4>2 DEF Repaired, Done, IsTicket, TicketFields
      <4>4. TicketChange(t, op) = [u EXCEPT !.returnedAt = SoonerOf(@, op.at)]
        BY <2>2 DEF TicketChange
      <4> HIDE DEF t, u
      <4>5. TicketChange(t, op).outcome \in Done
        BY <4>3, <4>4 DEF IsTicket, TicketFields
      <4> QED
        BY <4>1, <4>5 DEF t
    <3>4. s.ticket.outcome \in Done
      <4>1. CASE r.ticket.outcome = "repaired"
        BY <1>13, <3>1, <4>1 DEF Stays, Done
      <4>2. CASE r.ticket.outcome = "cancelled"
        <5>1. \E o \in N : o.type = "cancelled"
          BY <1>14, <3>1, <4>2 DEF TicketIs
        <5>2. s.ticket.opened
          BY <1>14, <3>1 DEF TicketIs
        <5> QED
          BY <1>14, <5>1, <5>2 DEF TicketIs, Done
      <4> QED
        BY <1>15, <2>2, <4>1, <4>2 DEF Done
    <3> QED
      BY <3>3, <3>4
  <2>3. CASE op.type # "returned"
    <3>1. LocationAfter(M) = "returned"
      BY <1>12, <1>17, <1>20, <2>1, <2>3
    <3>2. r.ticket.outcome \in Done /\ p.ticket.outcome \in Done
      BY <1>1, <3>1 DEF WentHome, r, p
    <3>3. r.ticket.opened
      <4>1. n("returned") # 0
        BY <1>12, <1>17, <3>1
      <4>2. \E o \in M : o.type = "returned"
        <5> SUFFICES ASSUME \A o \in M : o.type # "returned" PROVE n("returned") = 0
          BY <4>1
        <5>1. {o \in M : o.type = "returned"} = {}
          OBVIOUS
        <5> QED
          BY <5>1, FS_EmptySet DEF n, Counted
      <4>3. \E o \in M : ~IsRequestOp(o)
        BY <4>2 DEF IsRequestOp, Answers
      <4> QED
        BY <1>1, <1>14, <4>3 DEF Lived, TicketIs
    <3>4. r.ticket.location = "returned"
      BY <1>14, <3>1, <3>3 DEF TicketIs
    <3>5. IsRequestOp(op) \/ op.type = "declined"
      BY <2>1, <2>3, <3>3, <3>4
         DEF Allows, TicketAllows, WorkAllows, PriceAllows, Open, IsRequestOp, WorkSteps, Typed, TicketTypes, r
    <3>6. q.ticket.outcome = p.ticket.outcome
      BY <1>11, <1>14, <3>5, OutcomeAfter DEF TicketTypes
    <3>7. s.ticket.outcome \in Done
      <4>1. CASE r.ticket.outcome = "repaired"
        BY <1>13, <3>5, <4>1 DEF Stays, Done, IsLate
      <4>2. CASE r.ticket.outcome = "cancelled"
        <5>1. \E o \in N : o.type = "cancelled"
          BY <1>14, <3>3, <4>2 DEF TicketIs
        <5>2. s.ticket.opened
          BY <1>14, <3>3 DEF TicketIs
        <5> QED
          BY <1>14, <5>1, <5>2 DEF TicketIs, Done
      <4> QED
        BY <3>2, <4>1, <4>2 DEF Done
    <3> QED
      BY <3>2, <3>6, <3>7
  <2> QED
    BY <2>2, <2>3
<1>21. WentHome(z)
  BY <1>2, <1>20 DEF WentHome, s, q, z
<1> QED
  BY <1>2, <1>3, <1>4, <1>19, <1>21 DEF Good, z

\* So the records as judged are the records as folded.
LEMMA GoodStands ==
    ASSUME NEW y, Good(y), Distinct(Range(y))
    PROVE  LET was == Shop!Fold!Along(Empty, y)  now == Shop!Records(Range(y))
           IN /\ (was.ticket.outcome = "cancelled") = (now.ticket.outcome = "cancelled")
              /\ was.ticket.location = now.ticket.location /\ was.ticket.total = now.ticket.total
              /\ was.lines = now.lines
              /\ was.ticket.location = "returned" => was.ticket.outcome = now.ticket.outcome
<1> DEFINE M == Range(y)
           a == Shop!Fold!Along(Empty, y)
           b == Shop!Records(M)
<1>1. IsList(y) /\ OnceEach(y) /\ IsFiniteSet(M) /\ Sound(M) /\ WentHome(y)
  BY DEF Good, Lived
<1>2. FoldsFrom(a, M)
  BY <1>1, AlongFolds
<1>3. FoldsFrom(b, M)
  BY <1>1, SetFolds
<1> HIDE DEF a, b
<1>4. /\ a.lines = b.lines /\ a.ticket.opened = b.ticket.opened
      /\ a.ticket.location = b.ticket.location /\ a.ticket.total = b.ticket.total
      /\ (a.ticket.outcome = "cancelled") = (b.ticket.outcome = "cancelled")
  BY <1>2, <1>3, Agreed
<1>5. ASSUME a.ticket.location = "returned" PROVE a.ticket.outcome = b.ticket.outcome
  <2>1. TicketIs(a, M)
    BY <1>2 DEF FoldsFrom
  <2>2. LocationAfter(M) = "returned"
    <3>1. a.ticket.opened
      BY <1>5, <2>1 DEF TicketIs, NoTicket
    <3> QED
      BY <1>5, <2>1, <3>1 DEF TicketIs
  <2>3. a.ticket.outcome \in Done /\ b.ticket.outcome \in Done
    BY <1>1, <2>2 DEF WentHome, a, b
  <2> QED
    BY <1>4, <2>3 DEF Done
<1> QED
  BY <1>4, <1>5 DEF a, b

-----------------------------------------------------------------------------
(* What a phone's records say of the requests, sound or not. *)

RequestFields == {"kind", "amount", "basis", "by", "status"}
IsRequest(q) == q = [f \in RequestFields |-> q[f]]
AskedIn(id, q, M) == \E a \in M : a.type = "asked" /\ a.id = id /\ q.kind = a.how /\ q.by = a.by
RequestsFrom(requests, M) ==
    /\ requests = [id \in DOMAIN requests |-> requests[id]]
    /\ \A id \in DOMAIN requests : IsRequest(requests[id]) /\ AskedIn(id, requests[id], M)
Shaped(r, M) == IsRecords(r) /\ IsList(r.history) /\ RequestsFrom(r.requests, M)

\* One more operation keeps the records in shape.
LEMMA ShapedMore ==
    ASSUME NEW r, NEW M, Shaped(r, M), NEW o, Typed({o})
    PROVE  Shaped(FoldOp(r, o), M \cup {o})
<1> DEFINE w == FoldOp(r, o)
           N == M \cup {o}
<1>1. IsRecords(r) /\ IsList(r.history) /\ RequestsFrom(r.requests, M)
  BY DEF Shaped
<1>2. o.type \in TicketTypes \/ IsRequestOp(o)
  BY DEF Typed, IsRequestOp
<1>3. IsRecords(w) /\ (o.type \in TicketTypes => w.requests = r.requests)
      /\ (IsRequestOp(o) => w.history = r.history) /\ (o.type \in TicketTypes => w.history = Append(r.history, o))
  BY <1>1, <1>2, OutcomeAfter
<1>4. IsList(w.history)
  BY <1>1, <1>2, <1>3, ListMore
<1>5. RequestsFrom(w.requests, N)
  <2>1. RequestsFrom(r.requests, N)
    BY <1>1 DEF RequestsFrom, AskedIn
  <2>2. CASE o.type \in TicketTypes
    BY <1>3, <2>1, <2>2
  <2>3. CASE o.type = "asked"
    <3> DEFINE q == Asked(o)
               more == Filed(r.requests, o.id, q)
    <3>1. w.requests = more
      BY <1>1, <2>3 DEF FoldOp, FoldRequest, IsRequestOp, Answers, IsRecords, RecordFields
    <3>2. IsRequest(q) /\ AskedIn(o.id, q, N)
      BY <2>3 DEF Asked, IsRequest, RequestFields, AskedIn
    <3> HIDE DEF q
    <3>3. /\ DOMAIN more = DOMAIN r.requests \cup {o.id} /\ more = [id \in DOMAIN more |-> more[id]]
          /\ more[o.id] = q /\ \A id \in DOMAIN r.requests : id # o.id => more[id] = r.requests[id]
      BY DEF Filed
    <3> HIDE DEF more, N
    <3>4. RequestsFrom(more, N)
      BY <2>1, <3>2, <3>3 DEF RequestsFrom
    <3> QED
      BY <3>1, <3>4
  <2>4. CASE o.type \in Answers /\ Waiting(r, o.id)
    <3> DEFINE old == r.requests[o.id]
               q == [old EXCEPT !.status = o.type]
               more == [r.requests EXCEPT ![o.id] = q]
    <3>1. w.requests = more
      BY <1>1, <2>4 DEF FoldOp, FoldRequest, IsRequestOp, Answers, IsRecords, RecordFields
    <3>2. o.id \in DOMAIN r.requests /\ IsRequest(old) /\ AskedIn(o.id, old, N)
      BY <2>1, <2>4 DEF Waiting, RequestsFrom
    <3> HIDE DEF old
    <3>3. IsRequest(q) /\ q.kind = old.kind /\ q.by = old.by
      BY <3>2 DEF IsRequest, RequestFields
    <3> HIDE DEF q
    <3>4. AskedIn(o.id, q, N)
      BY <3>2, <3>3 DEF AskedIn
    <3>5. DOMAIN more = DOMAIN r.requests /\ more = [id \in DOMAIN more |-> more[id]]
          /\ more[o.id] = q /\ \A id \in DOMAIN r.requests : id # o.id => more[id] = r.requests[id]
      BY <3>2
    <3> HIDE DEF more, N
    <3>6. RequestsFrom(more, N)
      BY <2>1, <3>3, <3>4, <3>5 DEF RequestsFrom
    <3> QED
      BY <3>1, <3>6
  <2>5. CASE o.type \in Answers /\ ~Waiting(r, o.id)
    <3>1. w = r
      BY <2>5 DEF FoldOp, FoldRequest, IsRequestOp, Answers
    <3> QED
      BY <2>1, <3>1
  <2> QED
    BY <1>2, <2>2, <2>3, <2>4, <2>5 DEF IsRequestOp
<1> QED
  BY <1>3, <1>4, <1>5 DEF Shaped

\* The records of any past are in shape.
LEMMA AllShaped ==
    ASSUME NEW M, IsFiniteSet(M), Distinct(M), Typed(M)
    PROVE  Shaped(Shop!Records(M), M)
<1> DEFINE G == {T \in SUBSET M : Shaped(Shop!Records(T), T)}
<1>1. {} \in G
  <2>1. Shop!Records({}) = Empty
    BY PhonesAssumption, Shop!Fold!InOrderNothing DEF Shop!Records
  <2>2. FoldsFrom(Empty, {})
    BY NothingFolds
  <2>3. Empty.requests = <<>> /\ DOMAIN <<>> = {}
    BY DEF Empty
  <2>4. Shaped(Empty, {})
    BY <2>2, <2>3 DEF Shaped, FoldsFrom, HistoryIs, RequestsFrom
  <2> QED
    BY <2>1, <2>4
<1>2. ASSUME NEW T \in SUBSET M, NEW o \in M \ T, Shop!Fold!IsFiniteSet(T), T \in G, \A p \in T : Shop!SortsBefore(p, o)
      PROVE  T \cup {o} \in G
  <2>1. Shop!Records(T \cup {o}) = FoldOp(Shop!Records(T), o)
    BY <1>2, InLineIs, PhonesAssumption, Shop!Fold!InOrderMore DEF Shop!Records
  <2>2. Shaped(Shop!Records(T), T) /\ Typed({o})
    BY <1>2 DEF Typed
  <2>3. Shaped(FoldOp(Shop!Records(T), o), T \cup {o})
    BY <2>2, ShapedMore
  <2> QED
    BY <2>1, <2>3
<1> HIDE DEF G
<1>3. \A S \in SUBSET M : Shop!Fold!IsFiniteSet(S) => S \in G
  BY <1>1, <1>2, InLineIs, PhonesAssumption, Shop!Fold!OrderInduction
<1>4. M \in G
  BY <1>3, FiniteFold
<1> QED
  BY <1>4 DEF G

-----------------------------------------------------------------------------
(* What the server has taken, whoever pushes. *)

\* Judging a list after a good past accepts some of it, and leaves a good past.
LEMMA JudgedGood ==
    ASSUME NEW S, Distinct(S), Typed(S), NEW x \in Seq(S), NEW list \in Seq(S), OnceEach(list), Good(x),
           \A i \in 1..Len(x), j \in 1..Len(list) : x[i] # list[j]
    PROVE  LET y == Shop!Judging!Along(x, list)
           IN <<y, Len(list)>> \in Listing!Sifted(S, x, list) /\ Good(y)
<1> DEFINE G == {p \in Seq(S) \X Nat : Good(p[1])}
           y == Shop!Judging!Along(x, list)
<1>1. \A i, j \in 1..Len(list) : list[i] = list[j] => i = j
  BY DEF OnceEach
<1>2. \A i, j \in 1..Len(x) : x[i] = x[j] => i = j
  BY DEF OnceEach, Good
<1>3. \A z \in Seq(S), o \in S : Shop!Judge(z, o) \in {z, Append(z, o)}
  BY DEF Shop!Judge
<1>4. <<x, 0>> \in G
  OBVIOUS
<1>5. ASSUME NEW z \in Seq(S), NEW n \in Nat, n < Len(list), <<z, n>> \in Shop!Judging!Sifted(S, x, list), <<z, n>> \in G
      PROVE  <<Shop!Judge(z, list[n + 1]), n + 1>> \in G
  <2> DEFINE op == list[n + 1]
  <2>1. op \in S /\ n + 1 \in Nat /\ Good(z)
    BY <1>5
  <2>2. \A i \in 1..Len(z) : z[i] # op
    <3>1. <<z, n>> \in Shop!Judging!Sifted(S, x, list) /\ n < Len(list)
      BY <1>5
    <3> QED
      BY <1>1, <3>1, PhonesAssumption, Shop!Judging!SiftOne
  <2>3. op \notin Range(z) /\ Range(z) \in SUBSET S
    BY <2>2, RangeOfList, ListIs
  <2> HIDE DEF op
  <2>4. CASE ~Allows(Shop!Records(Range(z)), op)
    BY <2>1, <2>4 DEF Shop!Judge, Shop!Range, Range, op
  <2>5. CASE Allows(Shop!Records(Range(z)), op)
    <3>1. Distinct(Range(z) \cup {op}) /\ Typed({op})
      <4>1. Range(z) \cup {op} \in SUBSET S
        BY <2>1, <2>3
      <4> QED
        BY <2>1, <4>1, DistinctPart DEF Typed
    <3>2. Good(Append(z, op)) /\ Append(z, op) \in Seq(S)
      BY <2>1, <2>3, <2>5, <3>1, GoodMore
    <3>3. Shop!Judge(z, op) = Append(z, op)
      BY <2>5 DEF Shop!Judge, Shop!Range, Range
    <3> QED
      BY <2>1, <3>2, <3>3 DEF op
  <2> QED
    BY <2>4, <2>5
<1> HIDE DEF G
<1>6. <<y, Len(list)>> \in Shop!Judging!Sifted(S, x, list) \cap G
  BY <1>1, <1>2, <1>3, <1>4, <1>5, PhonesAssumption, Shop!Judging!Sifting
<1> HIDE DEF y
<1>7. <<y, Len(list)>> \in Listing!Sifted(S, x, list)
  BY <1>6 DEF Shop!Judging!Sifted, Listing!Sifted
<1>8. Good(y)
  BY <1>6 DEF G
<1> QED
  BY <1>7, <1>8 DEF y

\* Nothing is a good past.
LEMMA GoodNothing == Good(<<>>)
<1>1. IsList(<<>>) /\ Range(<<>>) = {} /\ OnceEach(<<>>)
  <2>1. Range(<<>>) = {}
    BY DEF Range
  <2>2. <<>> \in Seq({})
    OBVIOUS
  <2> QED
    BY <2>1, <2>2 DEF IsList, OnceEach
<1>2. \A type : Counted({}, type) = 0
  <2>1. \A type : {op \in {} : op.type = type} = {}
    OBVIOUS
  <2> QED
    BY <2>1, FS_EmptySet DEF Counted
<1>3. Lived({})
  BY <1>2 DEF Lived, Sound, Typed, OneOpening, WellPriced, OneAnswer
<1>4. LocationAfter({}) = "in_store"
  BY <1>2 DEF LocationAfter
<1>5. WentHome(<<>>)
  BY <1>1, <1>4 DEF WentHome
<1> QED
  BY <1>1, <1>3, <1>5, FS_EmptySet DEF Good

\* No two operations are signed alike.
LEMMA MadeDistinct == ASSUME Signatures PROVE Distinct(Made)
<1>1. \A op \in Made : op.at \in Int /\ op.by \in Int /\ op.seq \in Int
  <2> SUFFICES ASSUME NEW op \in Made PROVE op.at \in Int /\ op.by \in Int /\ op.seq \in Int
    OBVIOUS
  <2>1. op.by \in Person /\ op.at \in Nat /\ op.seq \in Nat
    BY DEF Signatures, Keys, IsSigned
  <2>2. op.by \in Nat
    BY <2>1, PhonesAssumption
  <2>3. op.by \in Int /\ op.at \in Int /\ op.seq \in Int
    BY <2>1, <2>2
  <2> QED
    BY <2>3
<1> QED
  BY <1>1 DEF Signatures, Keys, Distinct

\* After a push the server's list is still good.
LEMMA PushGood ==
    ASSUME Signatures, Good(taken), Typed(Made), NEW d \in Person, Shop!Push(d)
    PROVE  PushLeaves(d, Range(taken) \cup Range(own[d])) /\ Good(taken')
<1> DEFINE S == Range(taken) \cup Range(own[d])
           list == own[d]
<1>1. S \subseteq Made
  BY DEF Made, InHand
<1>2. Distinct(S) /\ Typed(S)
  BY <1>1, MadeDistinct, DistinctPart DEF Typed
<1>3. IsList(taken) /\ IsList(list) /\ OnceEach(list) /\ Range(taken) \cap Range(list) = {}
  BY DEF Signatures, Lists
<1>4. taken \in Seq(S) /\ list \in Seq(S)
  <2>1. taken \in Seq(Range(taken)) /\ list \in Seq(Range(list)) /\ Range(taken) \subseteq S /\ Range(list) \subseteq S
    BY <1>3 DEF IsList
  <2> HIDE DEF S, list
  <2> QED
    BY <2>1
<1>5. \A i \in 1..Len(taken), j \in 1..Len(list) : taken[i] # list[j]
  <2> HIDE DEF list
  <2> QED
    BY <1>3, ListIs
<1> HIDE DEF S, list
<1>6. <<Shop!Judging!Along(taken, list), Len(list)>> \in Listing!Sifted(S, taken, list) /\ Good(Shop!Judging!Along(taken, list))
  BY <1>2, <1>3, <1>4, <1>5, JudgedGood
<1>7. /\ taken' = Shop!Judging!Along(taken, list)
      /\ own' = [own EXCEPT ![d] = <<>>] /\ UNCHANGED <<fetched, lag, commands>>
  BY DEF Shop!Push, list
<1> QED
  BY <1>6, <1>7 DEF PushLeaves, S, list

-----------------------------------------------------------------------------
(* What the state of a shop keeps. *)

\* A request's id is made once; an answer's decision is the one asked for, and
\* the request it answers was taken before.
Carries(op, kind) ==
    IF kind = "cancel" THEN op.type = "cancelled"
    ELSE op.type = "changed" /\ op.how = "counts" /\ op.id = op.answers
AskedOnce == \A a, b \in Made : a.type = "asked" /\ b.type = "asked" /\ a.id = b.id => a = b
AskedBefore == \A a \in Made : a.type = "asked" /\ a.id \in Person \X Nat => a.id[2] < commands
Answering ==
    \A op \in Made : op.answers # NoLine =>
        \E a \in Range(taken) : a.type = "asked" /\ a.id = op.answers /\ Carries(op, a.how)
ShopInv ==
    /\ Signatures /\ lag \in [Person -> Lags] /\ Good(taken) /\ Typed(Made)
    /\ AskedOnce /\ AskedBefore /\ Answering

\* No clock is further behind than the furthest.
LEMMA LagsKept == ASSUME lag \in [Person -> Lags] PROVE \A d \in Person : lag[d] \in 0..Max(Lags)
<1> SUFFICES ASSUME NEW d \in Person PROVE lag[d] \in 0..Max(Lags)
  OBVIOUS
<1>1. lag[d] \in Lags
  OBVIOUS
<1>2. lag[d] \in Nat
  BY <1>1, PhonesAssumption
<1>3. lag[d] <= Max(Lags) /\ Max(Lags) \in Nat
  BY <1>1, LagsAre
<1> QED
  BY <1>2, <1>3

\* The shop opens with its invariant.
LEMMA ShopOpens == ASSUME Shop!Opens(Lags) PROVE ShopInv
<1> DEFINE longest == Shop!Longest
           told(s) == Shop!Told(s, lag)
<1>1. /\ lag \in [Person -> Lags] /\ commands = longest
      /\ own = [d \in Person |-> <<>>] /\ fetched = [d \in Person |-> Len(taken)]
      /\ \E story \in Stories : taken = Shop!Judging!Along(<<>>, told(story))
  BY DEF Shop!Opens
<1>2. AreStories(Stories)
  BY ShopAssumption
<1>3. longest \in Nat /\ \A story \in Stories : Len(story) \in Nat /\ Len(story) <= longest
  BY <1>2, LongestIs DEF Shop!Longest, Shop!Max, Max
<1>4. PICK story \in Stories : taken = Shop!Judging!Along(<<>>, told(story))
  BY <1>1
<1> DEFINE base == Max(Lags) + 1 + longest - Len(story)
           tale == told(story)
<1>5. Max(Lags) \in Nat /\ \A d \in Person : lag[d] \in 0..Max(Lags)
  BY <1>1, LagsKept, LagsAre
<1>6. tale = Retold(story, base)
  BY DEF Shop!Told, Retold, SignedAs, ToldAt, Shop!Max, Max
<1> HIDE DEF longest, told, tale
<1>7. base \in Nat /\ base >= Max(Lags) + 1 /\ base + Len(story) < Max(Lags) + 2 + commands /\ commands \in Nat
  BY <1>1, <1>3, <1>5
<1> HIDE DEF base
<1>8. /\ IsList(tale) /\ OnceEach(tale) /\ Len(tale) = Len(story)
      /\ \A op \in Range(tale) : IsSigned(op)
      /\ \A a, b \in Range(tale) : Key(a) = Key(b) => a = b
      /\ \A i \in 1..Len(tale) : Tells(tale[i], story[i].change)
  BY <1>2, <1>5, <1>6, <1>7, ToldIs
<1> DEFINE S == Range(tale)
<1>9. Distinct(S)
  <2>1. \A op \in S : op.at \in Int /\ op.by \in Int /\ op.seq \in Int
    <3> SUFFICES ASSUME NEW op \in S PROVE op.at \in Int /\ op.by \in Int /\ op.seq \in Int
      OBVIOUS
    <3>1. op.by \in Person /\ op.at \in Nat /\ op.seq \in Nat
      BY <1>8 DEF IsSigned
    <3>2. op.by \in Nat
      BY <3>1, PhonesAssumption
    <3>3. op.by \in Int /\ op.at \in Int /\ op.seq \in Int
      BY <3>1, <3>2
    <3> QED
      BY <3>3
  <2> QED
    BY <1>8, <2>1 DEF Distinct
<1>10. \A op \in S : \E i \in 1..Len(tale) : op = tale[i] /\ i \in DOMAIN story /\ Tells(op, story[i].change)
  <2>1. IsList(story)
    BY <1>2 DEF AreStories, IsList
  <2>2. DOMAIN story = 1..Len(tale)
    BY <1>8, <2>1, ListIs
  <2> QED
    BY <1>8, <2>2, ListIs
<1>11. \A i \in DOMAIN story :
           /\ story[i].change.type \in TicketTypes \cup Answers \cup {"asked"}
           /\ story[i].change.amount \in Int /\ story[i].change.answers = NoLine
           /\ story[i].change.type = "asked" => story[i].change.id \notin Person \X Nat
           /\ \A j \in DOMAIN story : story[i].change.type = "asked" /\ story[j].change.type = "asked"
                                      /\ story[j].change.id = story[i].change.id => i = j
  BY ShopAssumption
<1>12. \A op \in S : op.type \in TicketTypes \cup Answers \cup {"asked"} /\ op.amount \in Int /\ op.answers = NoLine
                     /\ (op.type = "asked" => op.id \notin Person \X Nat)
  BY <1>10, <1>11 DEF Tells
<1>13. Typed(S)
  BY <1>12 DEF Typed
<1>14. \A a, b \in S : a.type = "asked" /\ b.type = "asked" /\ a.id = b.id => a = b
  <2> SUFFICES ASSUME NEW a \in S, NEW b \in S, a.type = "asked", b.type = "asked", a.id = b.id PROVE a = b
    OBVIOUS
  <2>1. PICK i \in DOMAIN story : a = tale[i] /\ Tells(a, story[i].change)
    BY <1>10
  <2>2. PICK j \in DOMAIN story : b = tale[j] /\ Tells(b, story[j].change)
    BY <1>10
  <2>3. i = j
    BY <1>11, <2>1, <2>2 DEF Tells
  <2> QED
    BY <2>1, <2>2, <2>3
<1>15. tale \in Seq(S) /\ <<>> \in Seq(S)
  BY <1>8 DEF IsList
<1> HIDE DEF S
<1>16. \A i \in 1..Len(<<>>), j \in 1..Len(tale) : <<>>[i] # tale[j]
  OBVIOUS
<1> DEFINE y == Shop!Judging!Along(<<>>, tale)
<1>17. <<y, Len(tale)>> \in Listing!Sifted(S, <<>>, tale) /\ Good(y)
  BY <1>8, <1>9, <1>13, <1>15, <1>16, GoodNothing, JudgedGood
<1>18. taken = y
  BY <1>4 DEF tale
<1> HIDE DEF y
<1>19. taken \in Seq(S) /\ Good(taken)
  BY <1>17, <1>18 DEF Listing!Sifted
<1>20. Signatures
  BY <1>1, <1>5, <1>7, <1>8, <1>19, OpensSigns DEF S, Good
<1>21. Made \subseteq S
  <2>1. Range(taken) \subseteq S
    BY <1>19, RangeOfList
  <2>2. \A d \in Person : Range(own[d]) = {}
    BY <1>1 DEF Range
  <2> QED
    BY <2>1, <2>2 DEF Made, InHand
<1>22. Typed(Made) /\ AskedOnce /\ AskedBefore /\ Answering
  BY <1>12, <1>13, <1>14, <1>21 DEF Typed, AskedOnce, AskedBefore, Answering
<1> QED
  BY <1>1, <1>19, <1>20, <1>22 DEF ShopInv

-----------------------------------------------------------------------------
(* What a command is, whoever runs it. *)

\* The requests a command raises are new, one at most; a decision in it is the
\* one a waiting request asks for, and follows the answer to it.
IsCommand(c, r, d) ==
    /\ IsList(c) /\ \A i \in 1..Len(c) : IsAct(c[i])
    /\ \A i \in 1..Len(c) : c[i].type \in (TicketTypes \cup Answers \cup {"asked"}) \ {"opened"}
    /\ \A i \in 1..Len(c) : c[i].type = "asked" => c[i].id = NewId(d)
    /\ \A i, j \in 1..Len(c) : c[i].type = "asked" /\ c[j].type = "asked" => i = j
    /\ \A i \in 1..Len(c) : c[i].answers # NoLine =>
           /\ 1 \in 1..Len(c) /\ c[1].type = "approved" /\ Waiting(r, c[1].id)
           /\ c[i].answers = c[1].id /\ Carries(c[i], r.requests[c[1].id].kind)
Plain(op, d) ==
    /\ IsAct(op) /\ op.type \in (TicketTypes \cup Answers \cup {"asked"}) \ {"opened"}
    /\ op.type = "asked" => op.id = NewId(d)
    /\ op.answers = NoLine

\* A list of one.
LEMMA OneIs == ASSUME NEW a PROVE IsList(<<a>>) /\ Len(<<a>>) = 1 /\ <<a>>[1] = a
<1>1. <<a>> \in Seq({a}) /\ Len(<<a>>) = 1 /\ <<a>>[1] = a
  OBVIOUS
<1> QED
  BY <1>1, RangeOfList

\* A command of one plain operation.
LEMMA OneCommand == ASSUME NEW a, NEW r, NEW d, Plain(a, d) PROVE IsCommand(<<a>>, r, d)
<1> DEFINE c == <<a>>
<1>1. IsList(c) /\ Len(c) = 1 /\ c[1] = a
  BY OneIs
<1> HIDE DEF c
<1>2. \A i \in 1..Len(c) : i = 1
  BY <1>1
<1> QED
  BY <1>1, <1>2 DEF IsCommand, Plain, c

\* A list of two.
LEMMA TwoIs ==
    ASSUME NEW a, NEW b
    PROVE  LET c == <<a>> \o <<b>>
           IN IsList(c) /\ Len(c) = 2 /\ c[1] = a /\ c[2] = b /\ \A i \in 1..Len(c) : i = 1 \/ i = 2
<1> DEFINE x == <<a>>
           y == <<b>>
           c == x \o y
<1>1. IsList(x) /\ Len(x) = 1 /\ x[1] = a /\ IsList(y) /\ Len(y) = 1 /\ y[1] = b
  BY OneIs
<1> HIDE DEF x, y
<1>2. /\ IsList(c) /\ Len(c) = Len(x) + Len(y)
      /\ \A i \in 1..Len(x) : c[i] = x[i]
      /\ \A i \in 1..Len(y) : c[Len(x) + i] = y[i]
  BY <1>1, ListsJoin
<1> HIDE DEF c
<1>3. Len(c) = 2 /\ c[1] = a /\ c[1 + 1] = b
  BY <1>1, <1>2
<1>4. \A i \in 1..Len(c) : i = 1 \/ i = 2
  BY <1>3
<1> QED
  BY <1>2, <1>3, <1>4 DEF c, x, y

\* A command of two operations, the second of which may carry out a decision.
LEMMA TwoCommands ==
    ASSUME NEW a, NEW b, NEW r, NEW d, Plain(a, d), a.type # "asked",
           IsAct(b), b.type \in TicketTypes \ {"opened"},
           b.answers # NoLine => /\ a.type = "approved" /\ Waiting(r, a.id)
                                 /\ b.answers = a.id /\ Carries(b, r.requests[a.id].kind)
    PROVE  IsCommand(<<a>> \o <<b>>, r, d)
<1> DEFINE c == <<a>> \o <<b>>
<1>1. IsList(c) /\ Len(c) = 2 /\ c[1] = a /\ c[2] = b /\ \A i \in 1..Len(c) : i = 1 \/ i = 2
  BY TwoIs
<1>2. b.type # "asked"
  BY DEF TicketTypes, WorkSteps
<1> HIDE DEF c
<1>3. 1 \in 1..Len(c)
  BY <1>1
<1> QED
  BY <1>1, <1>2, <1>3 DEF IsCommand, Plain, c

\* An operation, before its fields are filled.
LEMMA ActIs ==
    ASSUME NEW type
    PROVE  LET a == Act(type)
           IN IsAct(a) /\ a.type = type /\ a.answers = NoLine /\ a.how = "counts"
BY DEF Act, IsAct, Fields

\* Deciding a request, with what it carries out, is a command.
LEMMA DecisionIs ==
    ASSUME NEW r, NEW id, NEW d, Answerable(r, id)
    PROVE  IsCommand(<<[Act("approved") EXCEPT !.id = id]>> \o Decision(r, id, DecidingOnce(id, d)), r, d)
<1> DEFINE a == [Act("approved") EXCEPT !.id = id]
           asked == r.requests[id]
           lower == [Act("changed") EXCEPT !.id = id, !.amount = asked.amount]
           change == IF asked.kind = "cancel" THEN Act("cancelled") ELSE lower
           b == [change EXCEPT !.answers = id]
<1>1. IsAct(a) /\ a.type = "approved" /\ a.answers = NoLine /\ a.id = id
  BY DEF Act, IsAct, Fields
<1>2. Plain(a, d)
  <2> HIDE DEF a
  <2> QED
    BY <1>1 DEF Plain, Answers, TicketTypes, WorkSteps
<1>3. IsAct(lower) /\ lower.type = "changed" /\ lower.id = id /\ lower.how = "counts"
  BY DEF Act, IsAct, Fields
<1>4. IsAct(Act("cancelled")) /\ Act("cancelled").type = "cancelled"
  BY ActIs
<1>5. IsAct(change) /\ (asked.kind = "cancel" => change.type = "cancelled")
      /\ (asked.kind # "cancel" => change.type = "changed" /\ change.id = id /\ change.how = "counts")
  <2> HIDE DEF lower
  <2> QED
    BY <1>3, <1>4
<1> HIDE DEF change
<1>6. IsAct(b) /\ b.type = change.type /\ b.answers = id /\ b.id = change.id /\ b.how = change.how
  BY <1>5 DEF IsAct, Fields
<1> HIDE DEF b
<1>7. Carries(b, asked.kind) /\ b.type \in TicketTypes \ {"opened"}
  BY <1>5, <1>6 DEF Carries, TicketTypes, WorkSteps
<1>8. Waiting(r, id)
  BY DEF Answerable
<1>9. IsCommand(<<a>> \o <<b>>, r, d)
  <2> HIDE DEF a
  <2> QED
    BY <1>1, <1>2, <1>6, <1>7, <1>8, TwoCommands
<1> QED
  BY <1>9 DEF Decision, DecidingOnce, b, change

\* What a phone's person may do is a command.
LEMMA CommandIs == ASSUME NEW r, NEW d, NEW c \in Commands(r, d) PROVE IsCommand(c, r, d)
<1> DEFINE t == r.ticket
           Types == (TicketTypes \cup Answers \cup {"asked"}) \ {"opened"}
           answerable == {id \in DOMAIN r.requests : Answerable(r, id)}
           claim == [Act("claimed") EXCEPT !.from = t.technician]
           line(type, how, amount) == NewLine(d, type, how, amount)
           yes(id) == [Act("changed") EXCEPT !.id = id, !.how = "agreed", !.amount = r.lines[id].amount]
           no(id) == [Act("declined") EXCEPT !.id = id]
           ask(kind) == [Act("asked") EXCEPT !.id = NewId(d), !.how = kind, !.basis = Basis(r),
                            !.amount = IF kind = "discount" THEN -1 ELSE 0]
           reply(type, id) == [Act(type) EXCEPT !.id = id]
<1>1. \A type \in Types \ {"asked"} : Plain(Act(type), d)
  BY ActIs DEF Plain
<1>2. Plain(claim, d) /\ claim.type = "claimed"
  <2>1. IsAct(claim) /\ claim.type = "claimed" /\ claim.answers = NoLine
    BY DEF Act, IsAct, Fields
  <2> HIDE DEF claim
  <2> QED
    BY <2>1 DEF Plain, TicketTypes, WorkSteps
<1>3. \A type \in {"proposed", "changed"} : \A how, amount : Plain(line(type, how, amount), d)
  <2> SUFFICES ASSUME NEW type \in {"proposed", "changed"}, NEW how, NEW amount PROVE Plain(line(type, how, amount), d)
    OBVIOUS
  <2> DEFINE op == line(type, how, amount)
  <2>1. IsAct(op) /\ op.type = type /\ op.answers = NoLine
    BY DEF NewLine, Act, IsAct, Fields
  <2> HIDE DEF op
  <2>2. Plain(op, d)
    BY <2>1 DEF Plain, TicketTypes, WorkSteps
  <2> QED
    BY <2>2 DEF op
<1>4. \A id : Plain(yes(id), d) /\ Plain(no(id), d)
  <2> SUFFICES ASSUME NEW id PROVE Plain(yes(id), d) /\ Plain(no(id), d)
    OBVIOUS
  <2> DEFINE x == yes(id)
             y == no(id)
  <2>1. IsAct(x) /\ x.type = "changed" /\ x.answers = NoLine /\ IsAct(y) /\ y.type = "declined" /\ y.answers = NoLine
    BY DEF Act, IsAct, Fields
  <2> HIDE DEF x, y
  <2>2. Plain(x, d) /\ Plain(y, d)
    BY <2>1 DEF Plain, TicketTypes, WorkSteps
  <2> QED
    BY <2>2 DEF x, y
<1>5. \A kind : Plain(ask(kind), d)
  <2> SUFFICES ASSUME NEW kind PROVE Plain(ask(kind), d)
    OBVIOUS
  <2> DEFINE x == ask(kind)
  <2>1. IsAct(x) /\ x.type = "asked" /\ x.answers = NoLine /\ x.id = NewId(d)
    BY DEF Act, IsAct, Fields
  <2> HIDE DEF x
  <2>2. Plain(x, d)
    BY <2>1 DEF Plain
  <2> QED
    BY <2>2 DEF x
<1>6. \A type \in {"rejected", "withdrawn"} : \A id : Plain(reply(type, id), d)
  <2> SUFFICES ASSUME NEW type \in {"rejected", "withdrawn"}, NEW id PROVE Plain(reply(type, id), d)
    OBVIOUS
  <2> DEFINE x == reply(type, id)
  <2>1. IsAct(x) /\ x.type = type /\ x.answers = NoLine
    BY DEF Act, IsAct, Fields
  <2> HIDE DEF x
  <2>2. Plain(x, d)
    BY <2>1 DEF Plain, Answers
  <2> QED
    BY <2>2 DEF x
<1> DEFINE Ones == {"paused", "repaired", "cancelled", "returned", "reversed"}
           A == {<<Act(type)>> : type \in Ones}
           B == {<<claim>>, Start(t, d)}
           C == {<<line("proposed", "waits", 1)>>, <<line("changed", "counts", -1)>>, <<line("changed", "waits", 1)>>}
           D == {<<yes(id)>> : id \in Undecided(r)}
           E == {<<no(id)>> : id \in Undecided(r)}
           F == {<<ask(kind)>> : kind \in Kinds}
           H == {<<reply("approved", id)>> \o Decision(r, id, DecidingOnce(id, d)) : id \in answerable}
           I == {<<reply("rejected", id)>> : id \in answerable}
           J == {<<reply("withdrawn", id)>> : id \in answerable}
<1>7. WorkCommands(r, d) = A \cup B /\ PriceCommands(r, d) = C \cup D \cup E
      /\ RequestCommands(r, d) = F \cup H \cup I \cup J
  <2>1. WorkCommands(r, d) = A \cup B
    BY Zenon DEF WorkCommands
  <2>2. PriceCommands(r, d) = C \cup D \cup E
    <3> HIDE DEF line
    <3> QED
      BY Zenon DEF PriceCommands, line
  <2>3. RequestCommands(r, d) = F \cup H \cup I \cup J
    BY Zenon DEF RequestCommands
  <2> QED
    BY <2>1, <2>2, <2>3
<1>17. \A id \in answerable : IsCommand(<<reply("approved", id)>> \o Decision(r, id, DecidingOnce(id, d)), r, d)
  BY DecisionIs
<1> HIDE DEF claim, line, yes, no, ask, reply, t, answerable
<1>18. c \in A \/ c \in B \/ c \in C \/ c \in D \/ c \in E \/ c \in F \/ c \in H \/ c \in I \/ c \in J
  <2> HIDE DEF A, B, C, D, E, F, H, I, J
  <2> QED
    BY <1>7 DEF Commands
<1>8. CASE c \in A
  <2>1. PICK type \in Ones : c = <<Act(type)>>
    BY <1>8
  <2>2. type \in Types \ {"asked"}
    BY DEF TicketTypes, WorkSteps
  <2> QED
    BY <1>1, <2>1, <2>2, OneCommand
<1>9. ASSUME c = <<claim>> PROVE IsCommand(c, r, d)
  BY <1>2, <1>9, OneCommand
<1>10. ASSUME c = Start(t, d) PROVE IsCommand(c, r, d)
  <2> DEFINE a == Act("started")
  <2>1. Plain(a, d) /\ IsAct(a) /\ a.type \in TicketTypes \ {"opened"} /\ a.answers = NoLine
    BY <1>1, ActIs DEF TicketTypes, WorkSteps
  <2> HIDE DEF a
  <2>2. CASE t.technician = d
    <3>1. c = <<>> \o <<a>>
      BY <1>10, <2>2 DEF Start, a
    <3>2. c = <<a>>
      BY <3>1
    <3> QED
      BY <2>1, <3>2, OneCommand
  <2>3. CASE t.technician # d
    <3>1. c = <<claim>> \o <<a>>
      BY <1>10, <2>3 DEF Start, a, claim
    <3>2. claim.type # "asked"
      BY <1>2
    <3> QED
      BY <1>2, <2>1, <3>1, <3>2, TwoCommands
  <2> QED
    BY <2>2, <2>3
<1>11. CASE c \in B
  BY <1>9, <1>10, <1>11
<1>12. CASE c \in C
  BY <1>3, <1>12, OneCommand
<1>13. CASE c \in D \/ c \in E
  BY <1>4, <1>13, OneCommand
<1>14. CASE c \in F
  BY <1>5, <1>14, OneCommand
<1>15. CASE c \in H
  BY <1>15, <1>17
<1>16. CASE c \in I \/ c \in J
  BY <1>6, <1>16, OneCommand
<1> QED
  BY <1>8, <1>11, <1>12, <1>13, <1>14, <1>15, <1>16, <1>18

-----------------------------------------------------------------------------
(* Every step keeps it. *)

\* What a phone knows is what was accepted and what it made itself.
LEMMA KnownIs ==
    ASSUME ShopInv, NEW d \in Person
    PROVE  Shop!Known(d) \subseteq Range(taken) \cup Range(own[d]) /\ Shaped(Shop!PhoneRecords(d), Shop!Known(d))
<1> DEFINE known == Shop!Known(d)
           S == Range(taken) \cup Range(own[d])
<1>1. IsList(taken) /\ IsList(own[d])
  BY DEF ShopInv, Signatures, Lists
<1>2. known \subseteq S
  <2>1. \A i \in 1..Len(taken) : taken[i] \in Range(taken)
    BY <1>1, ListIs
  <2> QED
    BY <2>1 DEF Shop!Known, Shop!Range, Range
<1>3. IsFiniteSet(S)
  <2>1. \A s : IsList(s) => IsFiniteSet(Range(s))
    <3> SUFFICES ASSUME NEW s, IsList(s) PROVE IsFiniteSet(Range(s))
      OBVIOUS
    <3>1. Len(s) \in Nat /\ s \in Surjection(1..Len(s), Range(s))
      BY ListIs DEF Surjection, IsList
    <3>2. IsFiniteSet(1..Len(s))
      BY <3>1, FS_Interval
    <3> QED
      BY <3>1, <3>2, FS_Surjection
  <2>2. IsFiniteSet(Range(taken)) /\ IsFiniteSet(Range(own[d]))
    BY <1>1, <2>1
  <2> QED
    BY <2>2, FS_Union
<1>4. IsFiniteSet(known)
  BY <1>2, <1>3, FS_Subset
<1>5. known \subseteq Made
  BY <1>2 DEF Made, InHand
<1>6. Distinct(known) /\ Typed(known)
  BY <1>5, MadeDistinct, DistinctPart DEF ShopInv, Typed
<1> HIDE DEF known, S
<1>7. Shaped(Shop!Records(known), known)
  BY <1>4, <1>6, AllShaped
<1> QED
  BY <1>2, <1>7 DEF known, S, Shop!PhoneRecords

\* Running a command keeps the invariant,
LEMMA RunKeeps ==
    ASSUME ShopInv, NEW d \in Person, NEW c \in Commands(Shop!PhoneRecords(d), d), Shop!Run(d, c)
    PROVE  ShopInv'
<1> DEFINE known == Shop!Known(d)
           r == Shop!PhoneRecords(d)
           ops == Shop!Draft(c, d)
<1>1. IsCommand(c, r, d)
  BY CommandIs
<1>2. known \subseteq Range(taken) \cup Range(own[d]) /\ Shaped(r, known)
  BY KnownIs
<1>3. /\ Shop!AllAllowed(ops, known) /\ own' = [own EXCEPT ![d] = @ \o ops]
      /\ commands' = commands + 1 /\ UNCHANGED <<taken, fetched, lag>>
  BY DEF Shop!Run
<1>4. ops = [i \in 1..Len(c) |-> Signed(c[i], d, i)]
  BY DEF Shop!Draft, Shop!Signed, Signed, Shop!Now, Now, Shop!Max, Max
<1>5. 1 \in 1..Len(c) => Allows(r, ops[1])
  <2> SUFFICES ASSUME 1 \in 1..Len(c) PROVE Allows(r, ops[1])
    OBVIOUS
  <2>1. Len(ops) = Len(c)
    <3>1. Len(c) \in Nat
      BY <1>1, ListIs DEF IsCommand
    <3> QED
      BY <1>4, <3>1
  <2>2. Allows(Shop!Records(known \cup {ops[j] : j \in 1..(1 - 1)}), ops[1])
    BY <1>3, <2>1 DEF Shop!AllAllowed
  <2>3. known \cup {ops[j] : j \in 1..(1 - 1)} = known
    OBVIOUS
  <2> QED
    BY <2>2, <2>3 DEF Shop!PhoneRecords
<1> HIDE DEF r, ops, known
<1>6. /\ Signatures' /\ Made' = Made \cup Range(ops)
      /\ \A op \in Range(ops) : \E i \in 1..Len(c) : op = ops[i]
  <2>1. Signatures /\ Max(Lags) \in Nat
    BY LagsAre DEF ShopInv
  <2>2. IsList(c) /\ \A i \in 1..Len(c) : IsAct(c[i])
    BY <1>1 DEF IsCommand
  <2>3. RunLeaves(d, c, ops)
    BY <1>3, <1>4 DEF RunLeaves
  <2> QED
    BY <2>1, <2>2, <2>3, RunSigns
<1>7. \A i \in 1..Len(c) : /\ ops[i].by = d /\ ops[i].type = c[i].type /\ ops[i].id = c[i].id
                           /\ ops[i].how = c[i].how /\ ops[i].answers = c[i].answers
  <2> SUFFICES ASSUME NEW i \in 1..Len(c)
               PROVE  /\ ops[i].by = d /\ ops[i].type = c[i].type /\ ops[i].id = c[i].id
                      /\ ops[i].how = c[i].how /\ ops[i].answers = c[i].answers
    OBVIOUS
  <2> DEFINE x == c[i]
  <2>1. IsAct(x) /\ ops[i] = Signed(x, d, i)
    BY <1>1, <1>4 DEF IsCommand
  <2> HIDE DEF x
  <2>2. /\ ops[i].by = d /\ ops[i].type = x.type /\ ops[i].id = x.id
        /\ ops[i].how = x.how /\ ops[i].answers = x.answers
    BY <2>1 DEF Signed, IsAct, Fields
  <2> QED
    BY <2>2 DEF x
<1>8. taken' = taken /\ lag' = lag /\ commands' = commands + 1 /\ commands \in Nat
  BY <1>3 DEF ShopInv, Signatures, Clocks
<1>9. \A a \in Made, i \in 1..Len(c) : a.type = "asked" /\ ops[i].type = "asked" => a.id # ops[i].id
  <2> SUFFICES ASSUME NEW a \in Made, NEW i \in 1..Len(c), a.type = "asked", ops[i].type = "asked", a.id = ops[i].id
               PROVE  FALSE
    OBVIOUS
  <2>1. a.id = NewId(d)
    BY <1>1, <1>7 DEF IsCommand
  <2>2. a.id \in Person \X Nat /\ a.id[2] = commands
    BY <1>8, <2>1 DEF NewId
  <2>3. commands < commands
    BY <2>2 DEF ShopInv, AskedBefore
  <2> QED
    BY <1>8, <2>3
<1>10. AskedOnce'
  <2>1. \A i, j \in 1..Len(c) : ops[i].type = "asked" /\ ops[j].type = "asked" => i = j
    BY <1>1, <1>7 DEF IsCommand
  <2>2. ASSUME NEW a \in Made', NEW b \in Made', a.type = "asked", b.type = "asked", a.id = b.id PROVE a = b
    <3>1. CASE a \in Made /\ b \in Made
      BY <2>2, <3>1 DEF ShopInv, AskedOnce
    <3>2. CASE a \in Range(ops) /\ b \in Range(ops)
      BY <1>6, <2>1, <2>2, <3>2
    <3>3. CASE a \in Made /\ b \in Range(ops)
      BY <1>6, <1>9, <2>2, <3>3
    <3>4. CASE a \in Range(ops) /\ b \in Made
      BY <1>6, <1>9, <2>2, <3>4
    <3> QED
      BY <1>6, <3>1, <3>2, <3>3, <3>4
  <2> QED
    BY <2>2 DEF AskedOnce
<1>11. AskedBefore'
  <2>1. ASSUME NEW a \in Made', a.type = "asked", a.id \in Person \X Nat PROVE a.id[2] < commands'
    <3>1. CASE a \in Made
      <4>1. a.id[2] < commands /\ a.id[2] \in Nat
        BY <2>1, <3>1 DEF ShopInv, AskedBefore
      <4> DEFINE n == a.id[2]
      <4> HIDE DEF n
      <4>2. n < commands /\ n \in Nat
        BY <4>1 DEF n
      <4>3. n < commands'
        BY <1>8, <4>2
      <4> QED
        BY <4>3 DEF n
    <3>2. CASE a \in Range(ops)
      <4>1. PICK i \in 1..Len(c) : a = ops[i]
        BY <1>6, <3>2
      <4>2. a.id = NewId(d)
        BY <1>1, <1>7, <2>1, <4>1 DEF IsCommand
      <4>3. a.id[2] = commands
        BY <4>2 DEF NewId
      <4> QED
        BY <1>8, <4>3
    <3> QED
      BY <1>6, <3>1, <3>2
  <2> QED
    BY <2>1 DEF AskedBefore
<1>12. Answering'
  <2>1. ASSUME NEW op \in Made', op.answers # NoLine
        PROVE  \E a \in Range(taken) : a.type = "asked" /\ a.id = op.answers /\ Carries(op, a.how)
    <3>1. CASE op \in Made
      BY <2>1, <3>1 DEF ShopInv, Answering
    <3>2. CASE op \in Range(ops)
      <4>1. PICK i \in 1..Len(c) : op = ops[i]
        BY <1>6, <3>2
      <4> DEFINE id == c[1].id
                 q == r.requests[id]
      <4>2. /\ 1 \in 1..Len(c) /\ c[1].type = "approved" /\ Waiting(r, id)
            /\ op.answers = id /\ Carries(c[i], q.kind)
        <5>1. c[i].answers # NoLine /\ op.answers = c[i].answers
          BY <1>7, <2>1, <4>1
        <5> QED
          BY <1>1, <5>1 DEF IsCommand
      <4>3. id \in DOMAIN r.requests
        BY <4>2 DEF Waiting
      <4>4. PICK a \in known : a.type = "asked" /\ a.id = id /\ q.kind = a.how /\ q.by = a.by
        BY <1>2, <4>3 DEF Shaped, RequestsFrom, AskedIn
      <4>5. ops[1].by = d /\ ops[1].type = "approved" /\ ops[1].id = id
        BY <1>7, <4>2
      <4>6. RequestAllows(r, ops[1])
        BY <1>5, <4>2, <4>5 DEF Allows, IsRequestOp, Answers
      <4>7. a.by # d
        BY <4>4, <4>5, <4>6 DEF RequestAllows
      <4>8. a \in Range(taken)
        <5>1. a \in Range(own[d]) => a.by = d
          BY DEF ShopInv, Signatures, Keys
        <5> QED
          BY <1>2, <4>7, <5>1
      <4>9. Carries(op, a.how)
        BY <1>7, <4>1, <4>2, <4>4 DEF Carries
      <4> QED
        BY <4>2, <4>4, <4>8, <4>9
    <3> QED
      BY <1>6, <3>1, <3>2, <2>1
  <2> QED
    BY <1>8, <2>1 DEF Answering
<1>13. Typed(Made')
  <2>1. \A i \in 1..Len(c) : ops[i].type \in (TicketTypes \cup Answers \cup {"asked"}) \ {"opened"}
    BY <1>1, <1>7 DEF IsCommand
  <2>2. \A op \in Range(ops) : op.type \in (TicketTypes \cup Answers \cup {"asked"}) \ {"opened"}
    BY <1>6, <2>1
  <2>3. Typed(Made)
    BY DEF ShopInv
  <2> QED
    BY <1>6, <2>2, <2>3 DEF Typed
<1>14. Good(taken') /\ lag' \in [Person -> Lags]
  BY <1>8 DEF ShopInv
<1> QED
  BY <1>6, <1>10, <1>11, <1>12, <1>13, <1>14 DEF ShopInv

\* a push keeps it,
LEMMA PushKeeps == ASSUME ShopInv, NEW d \in Person, Shop!Push(d) PROVE ShopInv'
<1>1. Signatures /\ Good(taken) /\ Typed(Made)
  BY DEF ShopInv
<1>2. PushLeaves(d, Range(taken) \cup Range(own[d])) /\ Good(taken')
  BY <1>1, PushGood
<1>3. /\ Signatures' /\ Range(taken) \subseteq Range(taken')
      /\ Range(taken') \subseteq Range(taken) \cup Range(own[d])
  BY <1>1, <1>2, PushSigns
<1>4. lag' = lag /\ commands' = commands /\ own' = [own EXCEPT ![d] = <<>>]
  BY <1>2 DEF PushLeaves
<1>5. Made' \subseteq Made
  <2>1. \A p \in Person : Range(own'[p]) \subseteq Range(own[p])
    <3> SUFFICES ASSUME NEW p \in Person PROVE Range(own'[p]) \subseteq Range(own[p])
      OBVIOUS
    <3>1. own' = [p2 \in Person |-> IF p2 = d THEN <<>> ELSE own[p2]]
      BY <1>1, <1>4 DEF Signatures, Lists
    <3>2. Range(<<>>) = {}
      BY DEF Range
    <3> QED
      BY <3>1, <3>2
  <2> QED
    BY <1>3, <2>1 DEF Made, InHand
<1>6. AskedOnce' /\ AskedBefore'
  BY <1>4, <1>5 DEF ShopInv, AskedOnce, AskedBefore
<1>7. Answering'
  BY <1>3, <1>5 DEF ShopInv, Answering
<1>8. Typed(Made')
  BY <1>1, <1>5 DEF Typed
<1> QED
  BY <1>2, <1>3, <1>4, <1>6, <1>7, <1>8 DEF ShopInv

\* and a pull keeps it.
LEMMA PullKeeps == ASSUME ShopInv, NEW d \in Person, Shop!Pull(d) PROVE ShopInv'
<1>1. fetched' = [fetched EXCEPT ![d] = Len(taken)] /\ UNCHANGED <<taken, own, lag, commands>> /\ Signatures
  BY DEF ShopInv, Shop!Pull
<1>2. Signatures'
  BY <1>1, PullSigns
<1>3. Made' = Made
  BY <1>1 DEF Made, InHand
<1> QED
  BY <1>1, <1>2, <1>3 DEF ShopInv, AskedOnce, AskedBefore, Answering

\* The invariant of a shop.
THEOREM ShopKeeps == ShopSpec => []ShopInv
<1>1. ShopInit => ShopInv
  BY ShopOpens DEF ShopInit
<1>2. ShopInv /\ [ShopNext]_shopVars => ShopInv'
  <2> SUFFICES ASSUME ShopInv, [ShopNext]_shopVars PROVE ShopInv'
    OBVIOUS
  <2>1. CASE \E d \in Person : RunShop(d)
    <3>1. PICK d \in Person : RunShop(d)
      BY <2>1
    <3>2. \E c \in Commands(Shop!PhoneRecords(d), d) : Shop!Run(d, c)
      BY <3>1 DEF RunShop
    <3> QED
      BY <3>2, RunKeeps
  <2>2. CASE \E d \in Person : Shop!Push(d)
    BY <2>2, PushKeeps
  <2>3. CASE \E d \in Person : Shop!Pull(d)
    BY <2>3, PullKeeps
  <2>4. CASE UNCHANGED shopVars
    <3>1. UNCHANGED <<taken, own, fetched, lag, commands>>
      BY <2>4 DEF shopVars
    <3>2. Made' = Made /\ \A d \in Person : Now(d)' = Now(d)
      BY <3>1 DEF Made, InHand, Now
    <3>3. Signatures'
      <4>1. Signatures
        BY DEF ShopInv
      <4>2. Lists'
        BY <3>1, <4>1 DEF Signatures, Lists, OnceEach, IsList
      <4>3. Clocks'
        BY <3>1, <4>1 DEF Signatures, Clocks
      <4>4. Keys'
        BY <3>1, <3>2, <4>1 DEF Signatures, Keys, IsSigned, Key
      <4> QED
        BY <4>2, <4>3, <4>4 DEF Signatures
    <3> QED
      BY <3>1, <3>2, <3>3 DEF ShopInv, AskedOnce, AskedBefore, Answering
  <2> QED
    BY <2>1, <2>2, <2>3, <2>4 DEF ShopNext
<1> QED
  BY <1>1, <1>2, PTL DEF ShopSpec

\* However late a phone's clock runs, the server's records stand as judged
\* (repair/applier.ts).
THEOREM StandsAsJudged == ShopSpec => []JudgedStands
<1>1. ShopInv => JudgedStands
  <2> SUFFICES ASSUME ShopInv PROVE JudgedStands
    OBVIOUS
  <2>1. Good(taken) /\ Distinct(Range(taken))
    <3>1. Distinct(Made) /\ Range(taken) \in SUBSET Made
      BY MadeDistinct DEF ShopInv, Made
    <3> QED
      BY <3>1, DistinctPart DEF ShopInv
  <2> DEFINE was == Shop!Fold!Along(Empty, taken)
             now == Shop!Records(Range(taken))
  <2>2. /\ (was.ticket.outcome = "cancelled") = (now.ticket.outcome = "cancelled")
        /\ was.ticket.location = now.ticket.location /\ was.ticket.total = now.ticket.total
        /\ was.lines = now.lines
        /\ was.ticket.location = "returned" => was.ticket.outcome = now.ticket.outcome
    BY <2>1, GoodStands
  <2>3. Judged = was /\ Shop!ServerRecords = now
    BY DEF Judged, Shop!ServerRecords, Shop!Range, Range
  <2> HIDE DEF was, now
  <2> QED
    BY <2>2, <2>3 DEF JudgedStands
<1> QED
  BY <1>1, ShopKeeps, PTL

\* A request is decided once, however many approve it
\* (approvals/commands.ts decidingOnce).
THEOREM OneDecision == ShopSpec => []DecidedOnce
<1>1. ShopInv => DecidedOnce
  <2> SUFFICES ASSUME ShopInv, NEW i \in 1..Len(taken), NEW j \in 1..Len(taken),
                      taken[i].answers # NoLine, taken[i].answers = taken[j].answers
               PROVE  i = j
    BY DEF DecidedOnce
  <2> DEFINE x == taken[i]
             y == taken[j]
             M == Range(taken)
  <2>1. x \in M /\ y \in M /\ M \subseteq Made /\ Good(taken)
    BY ListIs DEF ShopInv, Signatures, Lists, Made
  <2>2. PICK a \in M : a.type = "asked" /\ a.id = x.answers /\ Carries(x, a.how)
    BY <2>1 DEF ShopInv, Answering
  <2>3. PICK b \in M : b.type = "asked" /\ b.id = y.answers /\ Carries(y, b.how)
    BY <2>1 DEF ShopInv, Answering
  <2>4. a = b
    BY <2>1, <2>2, <2>3 DEF ShopInv, AskedOnce
  <2>5. Lived(M) /\ OnceEach(taken)
    BY <2>1 DEF Good
  <2> HIDE DEF x, y, M
  <2>6. x.answers = y.answers
    BY DEF x, y
  <2>7. x = y
    <3>1. CASE a.how = "cancel"
      BY <2>1, <2>2, <2>3, <2>4, <2>5, <3>1 DEF Carries, Lived
    <3>2. CASE a.how # "cancel"
      <4>1. Adds(x) /\ Adds(y) /\ x.id = y.id
        BY <2>2, <2>3, <2>4, <2>6, <3>2 DEF Carries, Adds, Inserts, Agrees
      <4> QED
        BY <2>1, <2>5, <4>1 DEF Lived, Sound, WellPriced
    <3> QED
      BY <3>1, <3>2
  <2> QED
    BY <2>5, <2>7 DEF OnceEach, x, y
<1> QED
  BY <1>1, ShopKeeps, PTL

\* What is recorded is signed by who made it, and nobody has pulled past what
\* the server took.
THEOREM ShopTypes == ShopSpec => []ShopTypeOK
<1>1. ShopInv => ShopTypeOK
  <2> SUFFICES ASSUME ShopInv PROVE ShopTypeOK
    OBVIOUS
  <2>1. \A d \in Person : fetched[d] \in 0..Len(taken) /\ lag[d] \in Lags
    BY DEF ShopInv, Signatures, Lists
  <2>2. \A op \in Made : op.by \in Person /\ op.at >= 1
    BY DEF ShopInv, Signatures, Keys, IsSigned
  <2> QED
    BY <2>1, <2>2 DEF ShopTypeOK, Made, InHand
<1> QED
  BY <1>1, ShopKeeps, PTL
=============================================================================
