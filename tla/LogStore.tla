------------------------------- MODULE LogStore -------------------------------
(***************************************************************************)
(* A device's store: its log of operations, the rows each record's         *)
(* operations built, and the watermark of every module                     *)
(* (packages/core/src/projection/engine.ts, oplog-source.ts, watermarks.ts, *)
(* packages/core/src/sync/read-purge.ts).  A store is a record             *)
(* [log, rows, mark]; each operator is what one call of the code does to   *)
(* it inside its caller's transaction.  Projection and PullPhase use it.   *)
(*                                                                         *)
(* The rows of a record are modelled by the operations applied to them     *)
(* since they were last cleared, each with the version of the applier that *)
(* did it.  All types of a record are read with one permission and belong  *)
(* to one module, as in every module of packages/modules.                  *)
(***************************************************************************)
EXTENDS Integers, FiniteSets, Sequences, SequencesExt

CONSTANTS
    Op,          \* operations
    OwnOp,       \* those this device wrote
    Record,      \* entities
    Module,      \* projection modules
    RecordOf,    \* per op, its record
    ModuleOf,    \* per record, the module whose tables hold it
    Place        \* per op, its place in canonical order (timestamp, device, seq)

ASSUME StoreConstants ==
    /\ OwnOp \subseteq Op
    /\ RecordOf \in [Op -> Record] /\ ModuleOf \in [Record -> Module]
    /\ Place \in [Op -> Nat]
    /\ \A o, p \in Op : Place[o] = Place[p] => o = p

----------------------------------------------------------------------------
(* A log row: its arrival number (0 for an own op), whether the server     *)
(* refused it, whether it still has its text.                              *)

OwnRow == [arrival |-> 0, refused |-> FALSE, text |-> TRUE]
PulledRow(n) == [OwnRow EXCEPT !.arrival = n]

Held(d) == DOMAIN d.log
Arrivals(d) == {d.log[o].arrival : o \in Held(d)} \ {0}
Biggest(S) == CHOOSE n \in S : \A m \in S : m <= n

\* What folds into r: neither refused ops, nor links without text, nor
\* anything at all of a record the device may not read.
Foldable(d, folds, r) ==
    {o \in Held(d) : RecordOf[o] = r /\ r \in folds /\ ~d.log[o].refused /\ d.log[o].text}

\* Canonical order: the nth operation has n - 1 before it.
InOrder(S) ==
    [n \in 1..Cardinality(S) |-> CHOOSE o \in S : Cardinality({p \in S : Place[p] < Place[o]}) = n - 1]
Folded(S, v) == LET order == InOrder(S) IN [i \in DOMAIN order |-> <<order[i], v>>]

Refold(d, folds, v, r) == [d EXCEPT !.rows[r] = Folded(Foldable(d, folds, r), v)]
RefoldAll(d, folds, v, R) ==
    [d EXCEPT !.rows = [r \in Record |-> IF r \in R THEN Folded(Foldable(d, folds, r), v) ELSE @[r]]]

\* Mutant: only ops of other devices count as newer.
HasNewerPulled(d, o) ==
    \E p \in Held(d) : RecordOf[p] = RecordOf[o] /\ Place[p] > Place[o] /\ d.log[p].arrival > 0
HasNewer(d, o) == \E p \in Held(d) : RecordOf[p] = RecordOf[o] /\ Place[p] > Place[o]

HighestContiguous(d, from) ==
    Biggest({from} \cup {n \in Arrivals(d) : n > from /\ (from + 1)..n \subseteq Arrivals(d)})

Counted(d, o) ==
    IF d.log[o].arrival = 0 THEN d
    ELSE [d EXCEPT !.mark[ModuleOf[RecordOf[o]]] = HighestContiguous(d, @)]

\* applyOp: held, head or out of order.
Apply(d, folds, v, o) ==
    LET r == RecordOf[o] IN
    Counted(IF r \notin folds THEN d
            ELSE IF HasNewer(d, o) THEN Refold(d, folds, v, r)
            ELSE [d EXCEPT !.rows[r] = Append(@, <<o, v>>)], o)

\* nextArrivalSeq: after every arrival and every watermark.
NextArrival(d) == 1 + Biggest({0} \cup Arrivals(d) \cup {d.mark[m] : m \in Module})

WithRow(d, o, row) ==
    [d EXCEPT !.log = [p \in Held(d) \cup {o} |-> IF p = o THEN row ELSE d.log[p]]]
Pulled(d, folds, v, o) == Apply(WithRow(d, o, PulledRow(NextArrival(d))), folds, v, o)
Appended(d, folds, v, o) == Apply(WithRow(d, o, OwnRow), folds, v, o)

\* catchUpPulledWatermarks: every module to the newest number given out.
CatchUp(d) ==
    [d EXCEPT !.mark = [m \in Module |-> Biggest({@[m], NextArrival(d) - 1})]]
\* purgePulledOps: the pulled ops of records in R come out of the log.
Purged(d, folds, v, R) ==
    LET gone == {o \in Held(d) : d.log[o].arrival > 0 /\ RecordOf[o] \in R}
        left == [d EXCEPT !.log = [o \in Held(d) \ gone |-> d.log[o]]]
    IN  IF gone = {} THEN d
        ELSE CatchUp(RefoldAll(left, folds, v, {RecordOf[o] : o \in gone}))

OwnRecords(d, R) == {RecordOf[o] : o \in {p \in Held(d) : d.log[p].arrival = 0 /\ RecordOf[p] \in R}}

EmptyStore == [log |-> <<>>, rows |-> [r \in Record |-> <<>>], mark |-> [m \in Module |-> 0]]

\* Every pulled operation in the log is at or below its module's watermark.
AllCounted(d) == \A o \in Held(d) : d.log[o].arrival <= d.mark[ModuleOf[RecordOf[o]]]

\* The rows of every record are the fold of its operations in canonical order.
FoldsTo(d, folds, r) == [i \in DOMAIN d.rows[r] |-> d.rows[r][i][1]] = InOrder(Foldable(d, folds, r))
RowsMatch(d, folds) == \A r \in Record : FoldsTo(d, folds, r)
=============================================================================
