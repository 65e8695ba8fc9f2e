---------------------------- MODULE PullPhaseProofs ----------------------------
(* A pull leaves nothing behind, keeps nothing it may not read, and keeps    *)
(* the rows the fold of what it may, for any log, page size, read sets and   *)
(* devices.  The three hold together or not at all: that purging a read set  *)
(* leaves the device's own changes alone rests on what a log row's arrival   *)
(* number says, that a cleared text comes back on the sidecar having named   *)
(* the device itself, that an answer covers what the cursor passes on the    *)
(* server never going back to sending no read set (PullInv).  The batch is   *)
(* followed from one of its steps to the next (Carries).                     *)
EXTENDS PullPhase, LogStoreProofs

ReadSets == (SUBSET Perm) \cup {Unknown}
CatchUps == [reads : SUBSET Perm, through : Nat, cursor : Nat]

\* The device's log: its own changes have no arrival number, pulled ones have,
\* and only a change the server has taken can have lost its text.
LogOK(d, marked) ==
    \A o \in Held(d) :
        /\ ~d.log[o].refused /\ (o \in OwnOp <=> d.log[o].arrival = 0)
        /\ d.log[o].text \/ o \in marked

\* A record's rows are the fold of what may be folded, or, of one that may not
\* be read, rows of own changes from before the first read set.
RowOK(d, R, U, r) ==
    \/ FoldsTo(d, Readable(R), r)
    \/ /\ r \notin Readable(R)
       /\ \A i \in DOMAIN d.rows[r] : d.rows[r][i][1] \in U /\ RecordOf[d.rows[r][i][1]] = r
RowsOK(d, R, U) == \A r \in Record : RowOK(d, R, U, r)

ServerOK ==
    /\ stream \in Seq(Op) /\ enrolled \in SUBSET Device /\ Me \in enrolled
    /\ granted \in SUBSET Perm /\ modern \in BOOLEAN
    /\ \A o \in Elem(stream) : o \in OwnOp => o \in Held(db)

DeviceOK ==
    /\ StoreOK(db) /\ Numbered(db) /\ LogOK(db, sent) /\ sent \in SUBSET OwnOp
    /\ quarantine \in SUBSET (Op \ OwnOp) /\ IsFiniteSet(quarantine) /\ quarantine \cap Held(db) = {}
    /\ registry \in SUBSET Device /\ \A o \in quarantine : AuthorOf[o] \notin registry
    /\ unfollowed \in SUBSET (OwnOp \cap Held(db))

IsSync(s) == s = [cursor |-> s.cursor, readSet |-> s.readSet, backfill |-> s.backfill, version |-> s.version]
SyncOK(s, known, len) ==
    /\ IsSync(s) /\ s.cursor \in Nat /\ s.readSet \in ReadSets /\ s.backfill \in CatchUps
    /\ s.cursor <= len /\ s.backfill.through <= s.cursor /\ s.backfill.cursor <= len
    /\ s.backfill.reads = {} => s.backfill = NoBackfill
    /\ s.readSet = Unknown => s.backfill = NoBackfill
    /\ s.version # 0 => Me \in known

\* The read set in memory is the stored one, unless the phone was enrolled
\* again and has pulled nothing since.
ReadsOK ==
    /\ deviceReads \in ReadSets /\ resets \in Nat
    /\ sync.readSet # Unknown \/ deviceReads # Unknown => modern
    /\ deviceReads = sync.readSet \/ (resets > 0 /\ sync.cursor = 0 /\ sync.readSet = Unknown)
    /\ resets = 0 /\ sync.readSet = Unknown => Held(db) \cap OwnOp \subseteq unfollowed
    /\ resets = 0 /\ sync.readSet = Unknown /\ sync.cursor = 0 => quarantine = {} /\ Held(db) \subseteq OwnOp

PhaseOK ==
    /\ phase \in {"idle", "pull", "catch-up"}
    /\ phase = "idle" => page = NoPage
    /\ phase = "catch-up" => sync.backfill # NoBackfill

From == IF phase = "pull" THEN sync.cursor ELSE sync.backfill.cursor
\* Where the answer being handled says it has given everything.
Covered(i) ==
    /\ i \in DOMAIN stream /\ From < i /\ InScope(stream[i], page.readSet)
    /\ phase = "pull" => i <= page.next
    /\ phase # "pull" =>
           /\ i <= sync.backfill.through /\ ReadOf[RecordOf[stream[i]]] \in sync.backfill.reads \cap page.readSet
           /\ page.more => i <= page.next
PageOK ==
    /\ page.ops \in Seq(Op) /\ page.readSet \in ReadSets /\ page.next \in Nat
    /\ page.next >= From /\ page.next <= Len(stream)
    /\ \A o \in Elem(page.ops) : o \in Elem(stream) /\ InScope(o, page.readSet)
    /\ phase = "pull" /\ page.next = 0 => Elem(page.ops) = {}
    /\ \A i : Covered(i) => stream[i] \in Elem(page.ops)
    /\ page.readSet = Unknown => sync.readSet = Unknown /\ deviceReads = Unknown
    /\ page.readSet # Unknown => modern
    /\ page.devices \in SUBSET Device /\ (page.devices = {} \/ Me \in page.devices)
    /\ page.devices = {} => Me \in registry

PullInv ==
    /\ ServerOK /\ DeviceOK /\ SyncOK(sync, registry, Len(stream)) /\ ReadsOK /\ PhaseOK
    /\ page # NoPage => PageOK
    /\ NothingSkipped /\ OnlyReadable
    /\ resets = 0 => RowsOK(db, sync.readSet, unfollowed)

----------------------------------------------------------------------------
(* What becomes of the device's store.                                       *)

LEMMA ReadableFacts ==
    ASSUME PullConstants
    PROVE  /\ \A R \in SUBSET Perm : R # Unknown /\ \A r \in Record : r \in Readable(R) <=> (ReadOf[r] = Everyone \/ ReadOf[r] \in R)
           /\ Readable(Unknown) = Record
           /\ \A r \in Record : ReadOf[r] \in Perm \/ ReadOf[r] = Everyone
           /\ Everyone \notin Perm
BY DEF PullConstants, Readable, Unknown

\* An operation that comes into a record keeps the rows of all.
LEMMA RowsKeptByApply ==
    ASSUME StoreConstants, NEW d, StoreOK(d), NEW w, StoreOK(w), w.rows = d.rows, NEW o \in Held(w),
           NEW R, NEW U, NEW e, AppliedOf(w, e, Readable(R), 1, o), RowsOK(d, R, U),
           \A s \in Record \ {RecordOf[o]} : Foldable(w, Readable(R), s) = Foldable(d, Readable(R), s),
           RecordOf[o] \in Readable(R) =>
               /\ o \notin Foldable(d, Readable(R), RecordOf[o])
               /\ Foldable(w, Readable(R), RecordOf[o]) = Foldable(d, Readable(R), RecordOf[o]) \cup {o}
    PROVE  RowsOK(e, R, U)
<1> DEFINE F == Readable(R)
           r == RecordOf[o]
           S == Foldable(d, F, r)
<1>1. r \in Record /\ S \in SUBSET Op
  <2>1. S \in SUBSET Op
    BY FoldableIsFinite
  <2>2. o \in Op
    BY DEF StoreOK
  <2> QED
    BY <2>1, <2>2 DEF StoreConstants
<1>2. \A s : Foldable(e, F, s) = Foldable(w, F, s)
  BY DEF AppliedOf, Foldable, Held
<1>3. ASSUME NEW s \in Record \ {r} PROVE RowOK(e, R, U, s)
  <2>1. e.rows[s] = d.rows[s] /\ Foldable(e, F, s) = Foldable(d, F, s)
    BY <1>2 DEF AppliedOf
  <2>2. RowOK(d, R, U, s)
    BY DEF RowsOK
  <2> QED
    BY <2>1, <2>2 DEF RowOK, FoldsTo
<1>4. RowOK(e, R, U, r)
  <2>1. RowOK(d, R, U, r)
    BY <1>1 DEF RowsOK
  <2>2. CASE r \in F
    <3>1. FoldsTo(d, F, r)
      BY <2>1, <2>2 DEF RowOK
    <3>2. RowsLack(w, F, o, S)
      BY <2>2, <3>1 DEF RowsLack, FoldsTo, OpsOf
    <3>3. FoldsTo(e, F, r)
      BY <1>1, <2>2, <3>2 DEF AppliedOf
    <3> QED
      BY <3>3 DEF RowOK
  <2>3. CASE r \notin F
    <3>1. e.rows[r] = d.rows[r]
      BY <2>3 DEF AppliedOf
    <3>2. Foldable(e, F, r) = {} /\ Foldable(d, F, r) = {}
      BY <2>3 DEF Foldable
    <3> HIDE DEF F, r
    <3> QED
      BY <2>1, <3>1, <3>2 DEF RowOK, FoldsTo, F
  <2> QED
    BY <2>2, <2>3
<1> QED
  BY <1>3, <1>4 DEF RowsOK

\* What an operation that enters the log, or comes back into it, leaves.
Entered(d, e, folds, o) ==
    /\ StoreOK(e) /\ Numbered(e)
    /\ Held(e) = Held(d) \cup {o} /\ e.log[o].text /\ ~e.log[o].refused
    /\ \A p \in Held(d) \ {o} : e.log[p] = d.log[p]
    /\ \A R, U : folds = Readable(R) /\ RowsOK(d, R, U) => RowsOK(e, R, U)

LEMMA PulledIs ==
    ASSUME StoreConstants, NEW d, StoreOK(d), Numbered(d), NEW folds, NEW o \in Op \ Held(d),
           NEW e, e = Pulled(d, folds, 1, o)
    PROVE  Entered(d, e, folds, o) /\ e.log[o].arrival > 0
<1> DEFINE n == NextArrival(d)
           row == PulledRow(n)
           w == WithRow(d, o, row)
<1>1. n \in Nat \ {0}
  BY NextIs
<1> HIDE DEF n
<1>2. row = [arrival |-> n, refused |-> FALSE, text |-> TRUE]
  <2>1. OwnRow = [arrival |-> 0, refused |-> FALSE, text |-> TRUE]
    BY DEF OwnRow
  <2>2. PulledRow(n) = [OwnRow EXCEPT !.arrival = n]
    BY DEF PulledRow
  <2> QED
    BY <2>1, <2>2
<1>3. row \in LogRow
  BY <1>1, <1>2 DEF LogRow
<1>4. e = Apply(w, folds, 1, o) /\ w = WithRow(d, o, PulledRow(NextArrival(d)))
  BY DEF Pulled, n
<1>5. w = WithRow(d, o, row)
  OBVIOUS
<1> HIDE DEF row, w
<1>6. /\ Held(w) = Held(d) \cup {o} /\ w.rows = d.rows
      /\ w.log[o] = row /\ \A p \in Held(d) \ {o} : w.log[p] = d.log[p]
  BY <1>3, <1>5, WithRowIs
<1>7. StoreOK(w)
  BY <1>3, <1>5, WithRowIs
<1>8. AppliedOf(w, e, folds, 1, o)
  BY <1>4, <1>6, <1>7, AppliedIs
<1>9. StoreOK(e) /\ e.log = w.log /\ e.mark = Counted(w, o).mark
  BY <1>8 DEF AppliedOf
<1>10. Numbered(e)
  BY <1>4, <1>9, PulledIsNumbered
<1>11. ASSUME NEW R, NEW U, folds = Readable(R), RowsOK(d, R, U) PROVE RowsOK(e, R, U)
  <2>1. \A s \in Record \ {RecordOf[o]} : Foldable(w, folds, s) = Foldable(d, folds, s)
    BY <1>6 DEF Foldable
  <2>2. RecordOf[o] \in folds => /\ o \notin Foldable(d, folds, RecordOf[o])
                                 /\ Foldable(w, folds, RecordOf[o]) = Foldable(d, folds, RecordOf[o]) \cup {o}
    BY <1>2, <1>6 DEF Foldable
  <2> QED
    BY <1>6, <1>7, <1>8, <1>11, <2>1, <2>2, RowsKeptByApply
<1>12. e.log[o] = row /\ Held(e) = Held(w) /\ \A p \in Held(d) \ {o} : e.log[p] = d.log[p]
  BY <1>6, <1>9 DEF Held
<1>13. e.log[o].text /\ ~e.log[o].refused /\ e.log[o].arrival > 0
  BY <1>1, <1>2, <1>12
<1> QED
  BY <1>6, <1>9, <1>10, <1>11, <1>12, <1>13 DEF Entered

\* An own change has no number.
LEMMA AppendedIs ==
    ASSUME StoreConstants, NEW d, StoreOK(d), Numbered(d), NEW folds, NEW o \in Op \ Held(d),
           NEW e, e = Appended(d, folds, 1, o)
    PROVE  Entered(d, e, folds, o) /\ e.log[o].arrival = 0
<1> DEFINE row == OwnRow
           w == WithRow(d, o, row)
<1>1. row = [arrival |-> 0, refused |-> FALSE, text |-> TRUE]
  BY DEF OwnRow
<1>2. row \in LogRow
  BY <1>1 DEF LogRow
<1>3. e = Apply(w, folds, 1, o)
  BY DEF Appended
<1>4. w = WithRow(d, o, row)
  OBVIOUS
<1> HIDE DEF row, w
<1>5. /\ Held(w) = Held(d) \cup {o} /\ w.rows = d.rows /\ w.mark = d.mark
      /\ w.log[o] = row /\ \A p \in Held(d) \ {o} : w.log[p] = d.log[p]
  BY <1>2, <1>4, WithRowIs
<1>6. StoreOK(w)
  BY <1>2, <1>4, WithRowIs
<1>7. AppliedOf(w, e, folds, 1, o)
  BY <1>3, <1>5, <1>6, AppliedIs
<1>8. StoreOK(e) /\ e.log = w.log /\ e.mark = d.mark
  <2>1. Counted(w, o) = w
    BY <1>1, <1>5 DEF Counted
  <2> QED
    BY <1>5, <1>7, <2>1 DEF AppliedOf
<1>9. e.log[o] = row /\ Held(e) = Held(w) /\ \A p \in Held(d) \ {o} : e.log[p] = d.log[p]
  BY <1>5, <1>8 DEF Held
<1>10. Numbered(e)
  <2>1. Arrivals(e) = Arrivals(d)
    BY <1>1, <1>5, <1>9 DEF Arrivals
  <2>2. \A p \in Held(e) : e.log[p].arrival = 0 \/ (p \in Held(d) /\ e.log[p].arrival = d.log[p].arrival)
    BY <1>1, <1>5, <1>9
  <2> QED
    BY <1>8, <2>1, <2>2, OwnIsNumbered
<1>11. ASSUME NEW R, NEW U, folds = Readable(R), RowsOK(d, R, U) PROVE RowsOK(e, R, U)
  <2>1. \A s \in Record \ {RecordOf[o]} : Foldable(w, folds, s) = Foldable(d, folds, s)
    BY <1>5 DEF Foldable
  <2>2. RecordOf[o] \in folds => /\ o \notin Foldable(d, folds, RecordOf[o])
                                 /\ Foldable(w, folds, RecordOf[o]) = Foldable(d, folds, RecordOf[o]) \cup {o}
    BY <1>1, <1>5 DEF Foldable
  <2> QED
    BY <1>5, <1>6, <1>7, <1>11, <2>1, <2>2, RowsKeptByApply
<1>12. e.log[o].text /\ ~e.log[o].refused /\ e.log[o].arrival = 0
  BY <1>1, <1>9
<1> QED
  BY <1>5, <1>8, <1>9, <1>10, <1>11, <1>12 DEF Entered

\* The text of an own change comes back.
TextBack(d, w, o) ==
    /\ w.rows = d.rows /\ w.mark = d.mark /\ Held(w) = Held(d)
    /\ w.log = [p \in Held(w) |-> w.log[p]] /\ w = [log |-> w.log, rows |-> w.rows, mark |-> w.mark]
    /\ w.log[o] = [d.log[o] EXCEPT !.text = TRUE]
    /\ \A p \in Held(d) \ {o} : w.log[p] = d.log[p]

LEMMA TextComesBack ==
    ASSUME NEW d, StoreOK(d), NEW o \in Held(d), NEW w, w = [d EXCEPT !.log[o].text = TRUE]
    PROVE  TextBack(d, w, o)
<1> DEFINE log == [d.log EXCEPT ![o] = [@ EXCEPT !.text = TRUE]]
<1>1. /\ w.rows = d.rows /\ w.mark = d.mark /\ Held(w) = Held(d)
      /\ w.log = [p \in Held(w) |-> w.log[p]] /\ w = [log |-> w.log, rows |-> w.rows, mark |-> w.mark]
      /\ w.log[o] = [d.log[o] EXCEPT !.text = TRUE]
      /\ \A p \in Held(d) \ {o} : w.log[p] = d.log[p]
  <2>1. w = [log |-> log, rows |-> d.rows, mark |-> d.mark]
    <3>1. w = [d EXCEPT !.log = log]
      OBVIOUS
    <3> HIDE DEF log
    <3>2. d = [log |-> d.log, rows |-> d.rows, mark |-> d.mark]
      BY DEF StoreOK
    <3> QED
      BY <3>1, <3>2
  <2>2. d.log = [p \in Held(d) |-> d.log[p]]
    BY DEF StoreOK
  <2>3. /\ DOMAIN log = Held(d) /\ log[o] = [d.log[o] EXCEPT !.text = TRUE]
        /\ \A p \in Held(d) \ {o} : log[p] = d.log[p]
        /\ log = [p \in Held(d) |-> log[p]]
    BY <2>2
  <2> HIDE DEF log
  <2>4. w.log = log /\ w.rows = d.rows /\ w.mark = d.mark
    BY <2>1
  <2> QED
    BY <2>1, <2>3, <2>4 DEF Held
<1> QED
  BY <1>1 DEF TextBack

LEMMA RestoredIs ==
    ASSUME StoreConstants, NEW d, StoreOK(d), Numbered(d), NEW folds, NEW o \in Held(d),
           ~d.log[o].text, ~d.log[o].refused, d.log[o].arrival = 0,
           NEW w, TextBack(d, w, o), NEW e, e = Apply(w, folds, 1, o)
    PROVE  Entered(d, e, folds, o) /\ e.log[o].arrival = 0
<1>1. /\ w.rows = d.rows /\ w.mark = d.mark /\ Held(w) = Held(d)
      /\ w.log = [p \in Held(w) |-> w.log[p]] /\ w = [log |-> w.log, rows |-> w.rows, mark |-> w.mark]
      /\ w.log[o] = [d.log[o] EXCEPT !.text = TRUE]
      /\ \A p \in Held(d) \ {o} : w.log[p] = d.log[p]
  BY DEF TextBack
<1>3. w.log[o] \in LogRow /\ w.log[o].arrival = 0 /\ w.log[o].text /\ ~w.log[o].refused
  BY <1>1 DEF StoreOK, LogRow
<1>4. StoreOK(w)
  <2>1. PICK k \in Nat : Within(d, k)
    BY DEF StoreOK
  <2>2. Within(w, k)
    BY <1>1, <1>3, <2>1 DEF Within
  <2> QED
    BY <1>1, <1>3, <2>2 DEF StoreOK
<1>5. AppliedOf(w, e, folds, 1, o)
  BY <1>1, <1>4, AppliedIs
<1>6. StoreOK(e) /\ e.log = w.log /\ e.mark = d.mark
  <2>1. Counted(w, o) = w
    BY <1>3 DEF Counted
  <2> QED
    BY <1>1, <1>5, <2>1 DEF AppliedOf
<1>7. Held(e) = Held(w) /\ \A p \in Held(d) \ {o} : e.log[p] = d.log[p]
  BY <1>1, <1>6 DEF Held
<1>8. Numbered(e)
  <2>1. Held(e) = Held(d) /\ \A p \in Held(d) : e.log[p].arrival = d.log[p].arrival
    BY <1>1, <1>3, <1>6, <1>7
  <2>2. Arrivals(e) = Arrivals(d)
    BY <2>1 DEF Arrivals
  <2> QED
    BY <1>6, <2>1, <2>2, OwnIsNumbered
<1>9. ASSUME NEW R, NEW U, folds = Readable(R), RowsOK(d, R, U) PROVE RowsOK(e, R, U)
  <2>1. \A s \in Record \ {RecordOf[o]} : Foldable(w, folds, s) = Foldable(d, folds, s)
    BY <1>1 DEF Foldable
  <2>2. RecordOf[o] \in folds => /\ o \notin Foldable(d, folds, RecordOf[o])
                                 /\ Foldable(w, folds, RecordOf[o]) = Foldable(d, folds, RecordOf[o]) \cup {o}
    BY <1>1, <1>3 DEF Foldable
  <2>3. w.rows = d.rows /\ o \in Held(w)
    BY <1>1
  <2> QED
    BY <1>4, <1>5, <1>9, <2>1, <2>2, <2>3, RowsKeptByApply
<1>10. e.log[o].text /\ ~e.log[o].refused /\ e.log[o].arrival = 0
  BY <1>3, <1>6
<1> QED
  BY <1>1, <1>6, <1>7, <1>8, <1>9, <1>10 DEF Entered

\* clearHeldText takes the text of marked changes in R, and nothing else.
ClearedOf(d, e, marked, R) ==
    /\ StoreOK(e) /\ Held(e) = Held(d) /\ e.rows = d.rows /\ e.mark = d.mark
    /\ \A o \in Held(d) : e.log[o] = [d.log[o] EXCEPT !.text = @ /\ ~(o \in marked /\ RecordOf[o] \in R)]

LEMMA ClearedIs ==
    ASSUME NEW d, StoreOK(d), NEW marked, NEW R, NEW e, e = Cleared(d, marked, R)
    PROVE  ClearedOf(d, e, marked, R)
<1> DEFINE log == [o \in Held(d) |-> IF o \in marked /\ RecordOf[o] \in R THEN [d.log[o] EXCEPT !.text = FALSE] ELSE d.log[o]]
<1>1. e = [log |-> log, rows |-> d.rows, mark |-> d.mark]
  <2>1. e = [d EXCEPT !.log = log]
    BY DEF Cleared
  <2>2. d = [log |-> d.log, rows |-> d.rows, mark |-> d.mark]
    BY DEF StoreOK
  <2> HIDE DEF log
  <2> QED
    BY <2>1, <2>2
<1>2. \A o \in Held(d) : log[o] = [d.log[o] EXCEPT !.text = @ /\ ~(o \in marked /\ RecordOf[o] \in R)]
  <2> TAKE o \in Held(d)
  <2>1. d.log[o] \in LogRow
    BY DEF StoreOK
  <2>2. d.log[o] = [arrival |-> d.log[o].arrival, refused |-> d.log[o].refused, text |-> d.log[o].text] /\ d.log[o].text \in BOOLEAN
    BY <2>1 DEF LogRow
  <2> QED
    BY <2>2
<1>3. log = [o \in Held(d) |-> log[o]] /\ DOMAIN log = Held(d)
  OBVIOUS
<1> HIDE DEF log
<1>4. /\ e.log = log /\ e.rows = d.rows /\ e.mark = d.mark /\ Held(e) = Held(d)
      /\ e = [log |-> e.log, rows |-> e.rows, mark |-> e.mark]
  BY <1>1, <1>3 DEF Held
<1>5. \A o \in Held(d) : e.log[o] \in LogRow /\ e.log[o].arrival = d.log[o].arrival
  <2> TAKE o \in Held(d)
  <2>1. d.log[o] \in LogRow
    BY DEF StoreOK
  <2> QED
    BY <1>2, <1>4, <2>1 DEF LogRow
<1>6. StoreOK(e)
  <2>1. PICK k \in Nat : Within(d, k)
    BY DEF StoreOK
  <2>2. Within(e, k)
    BY <1>4, <1>5, <2>1 DEF Within
  <2> QED
    BY <1>3, <1>4, <1>5, <2>2 DEF StoreOK
<1> QED
  BY <1>2, <1>4, <1>6 DEF ClearedOf

\* Clearing text disturbs no count, and no row of a record outside R.
LEMMA ClearedKeeps ==
    ASSUME StoreConstants, NEW d, StoreOK(d), NEW marked, NEW R, NEW e, ClearedOf(d, e, marked, R)
    PROVE  /\ \A o \in Held(d) : /\ e.log[o].arrival = d.log[o].arrival /\ e.log[o].refused = d.log[o].refused
                                 /\ e.log[o].text <=> (d.log[o].text /\ ~(o \in marked /\ RecordOf[o] \in R))
           /\ Numbered(d) => Numbered(e)
           /\ \A folds, r : r \notin R => Foldable(e, folds, r) = Foldable(d, folds, r)
<1>1. ASSUME NEW o \in Held(d)
      PROVE  /\ e.log[o].arrival = d.log[o].arrival /\ e.log[o].refused = d.log[o].refused
             /\ e.log[o].text <=> (d.log[o].text /\ ~(o \in marked /\ RecordOf[o] \in R))
  <2>1. d.log[o] \in LogRow
    BY DEF StoreOK
  <2>2. d.log[o] = [arrival |-> d.log[o].arrival, refused |-> d.log[o].refused, text |-> d.log[o].text]
    BY <2>1 DEF LogRow
  <2>3. e.log[o] = [d.log[o] EXCEPT !.text = d.log[o].text /\ ~(o \in marked /\ RecordOf[o] \in R)]
    BY DEF ClearedOf
  <2> QED
    BY <2>2, <2>3
<1>2. StoreOK(e) /\ Held(e) = Held(d) /\ e.mark = d.mark
  BY DEF ClearedOf
<1>3. Arrivals(e) = Arrivals(d)
  BY <1>1, <1>2 DEF Arrivals
<1>4. Numbered(d) => Numbered(e)
  BY <1>1, <1>2, <1>3, OwnIsNumbered
<1>5. \A folds, r : r \notin R => Foldable(e, folds, r) = Foldable(d, folds, r)
  BY <1>1, <1>2 DEF Foldable
<1> QED
  BY <1>1, <1>4, <1>5

LEMMA EnteredLog ==
    ASSUME NEW d, NEW marked, LogOK(d, marked), NEW e, NEW folds, NEW o, Entered(d, e, folds, o),
           o \in OwnOp <=> e.log[o].arrival = 0
    PROVE  LogOK(e, marked)
BY DEF LogOK, Entered

----------------------------------------------------------------------------
(* What the transaction works on, from one of its steps to the next.         *)

IsWork(w) ==
    w = [db |-> w.db, quarantine |-> w.quarantine, registry |-> w.registry, sync |-> w.sync,
         folds |-> w.folds, restarted |-> w.restarted]

WorkOK(w) ==
    /\ IsWork(w) /\ StoreOK(w.db) /\ Numbered(w.db) /\ LogOK(w.db, sent)
    /\ w.quarantine \in SUBSET (Op \ OwnOp) /\ IsFiniteSet(w.quarantine) /\ w.quarantine \cap Held(w.db) = {}
    /\ w.registry \in SUBSET Device /\ Me \in w.registry
    /\ Held(db) \cap OwnOp \subseteq Held(w.db)

\* What is set aside waits for its signer's key.
Waiting(w) == \A o \in w.quarantine : AuthorOf[o] \notin w.registry
\* The operation has arrived: it is held with its text, or set aside.
Got(w, o) == (o \in Held(w.db) /\ w.db.log[o].text) \/ o \in w.quarantine

\* What handling operations of O makes of w.
Carries(w, x, O) ==
    /\ WorkOK(x) /\ x.registry = w.registry /\ x.sync = w.sync /\ x.folds = w.folds /\ x.restarted = w.restarted
    /\ \A o : Got(w, o) => Got(x, o)
    /\ Held(w.db) \subseteq Held(x.db)
    /\ \A o \in Held(x.db) \cup x.quarantine : o \in Held(w.db) \cup w.quarantine \cup O
    /\ \A o \in x.quarantine : o \in w.quarantine \/ AuthorOf[o] \notin w.registry
    /\ \A R, U : w.folds = Readable(R) /\ RowsOK(w.db, R, U) => RowsOK(x.db, R, U)

LEMMA CarriesNothing == ASSUME NEW w, WorkOK(w), NEW O PROVE Carries(w, w, O)
BY DEF Carries

LEMMA CarriesOn ==
    ASSUME NEW w, NEW x, NEW y, NEW O, Carries(w, x, O), Carries(x, y, O)
    PROVE  Carries(w, y, O)
<1>1. /\ WorkOK(y) /\ y.registry = w.registry /\ y.sync = w.sync /\ y.folds = w.folds /\ y.restarted = w.restarted
      /\ \A o : Got(w, o) => Got(y, o)
  BY DEF Carries
<1>2. Held(w.db) \subseteq Held(y.db) /\ \A o \in Held(y.db) \cup y.quarantine : o \in Held(w.db) \cup w.quarantine \cup O
  BY DEF Carries
<1>3. \A o \in y.quarantine : o \in w.quarantine \/ AuthorOf[o] \notin w.registry
  BY DEF Carries
<1>4. ASSUME NEW R, NEW U, w.folds = Readable(R), RowsOK(w.db, R, U) PROVE RowsOK(y.db, R, U)
  BY <1>4 DEF Carries
<1> QED
  BY <1>1, <1>2, <1>3, <1>4 DEF Carries

\* w with another store and quarantine.
Changed(w, e, q) ==
    [db |-> e, quarantine |-> q, registry |-> w.registry, sync |-> w.sync, folds |-> w.folds, restarted |-> w.restarted]

\* An operation enters the log of the work, or comes back into it.
LEMMA EntersWork ==
    ASSUME NEW w, WorkOK(w), NEW O, NEW o \in O, NEW e, Entered(w.db, e, w.folds, o), LogOK(e, sent),
           NEW q, q \in SUBSET w.quarantine, q \cap Held(e) = {}, w.quarantine \subseteq q \cup {o},
           NEW x, x = Changed(w, e, q)
    PROVE  Carries(w, x, O) /\ Got(x, o) /\ x.quarantine = q
<1>1. /\ x.db = e /\ x.quarantine = q /\ x.registry = w.registry /\ x.sync = w.sync /\ x.folds = w.folds
      /\ x.restarted = w.restarted /\ IsWork(x)
  BY DEF Changed, IsWork
<1>2. /\ StoreOK(e) /\ Numbered(e) /\ Held(e) = Held(w.db) \cup {o} /\ e.log[o].text
      /\ \A p \in Held(w.db) \ {o} : e.log[p] = w.db.log[p]
      /\ \A R, U : w.folds = Readable(R) /\ RowsOK(w.db, R, U) => RowsOK(e, R, U)
  BY DEF Entered
<1>3. IsFiniteSet(q)
  BY FS_Subset DEF WorkOK
<1>4. WorkOK(x)
  BY <1>1, <1>2, <1>3 DEF WorkOK
<1>5. Got(x, o) /\ \A p : Got(w, p) => Got(x, p)
  BY <1>1, <1>2 DEF Got
<1>6. \A p \in Held(x.db) \cup x.quarantine : p \in Held(w.db) \cup w.quarantine \cup O
  BY <1>1, <1>2
<1>7. (\A p \in x.quarantine : p \in w.quarantine) /\ Held(w.db) \subseteq Held(x.db)
  BY <1>1, <1>2
<1>8. \A R, U : w.folds = Readable(R) /\ RowsOK(w.db, R, U) => RowsOK(x.db, R, U)
  BY <1>1, <1>2
<1> QED
  BY <1>1, <1>4, <1>5, <1>6, <1>7, <1>8 DEF Carries

\* releaseQuarantined, for one operation.
LEMMA ReleaseOneIs ==
    ASSUME StoreConstants, PullConstants, NEW w, WorkOK(w), NEW O \in SUBSET (Op \ OwnOp), NEW o \in O,
           NEW x, x = ReleaseOne(w, o)
    PROVE  /\ Carries(w, x, O) /\ x.quarantine \subseteq w.quarantine
           /\ AuthorOf[o] \in w.registry => o \notin x.quarantine
<1>1. CASE AuthorOf[o] \notin w.registry
  <2>1. x = w
    BY <1>1 DEF ReleaseOne
  <2> QED
    BY <1>1, <2>1, CarriesNothing
<1> DEFINE q == w.quarantine \ {o}
           out == [w EXCEPT !.quarantine = q]
<1>2. CASE AuthorOf[o] \in w.registry /\ o \in Held(w.db)
  <2>1. x = out
    BY <1>2 DEF ReleaseOne
  <2>2. o \notin w.quarantine
    BY <1>2 DEF WorkOK
  <2>3. q = w.quarantine
    BY <2>2
  <2>4. out = w
    BY <2>3 DEF WorkOK, IsWork
  <2> QED
    BY <2>1, <2>2, <2>4, CarriesNothing
<1>3. CASE AuthorOf[o] \in w.registry /\ o \notin Held(w.db)
  <2> DEFINE e == Pulled(w.db, w.folds, 1, o)
  <2>1. x = Changed(w, e, q)
    <3>1. x = [out EXCEPT !.db = Pulled(out.db, w.folds, 1, o)]
      BY <1>3 DEF ReleaseOne
    <3> HIDE DEF q
    <3>2. out = Changed(w, w.db, q)
      BY DEF WorkOK, IsWork, Changed
    <3>3. out.db = w.db
      BY <3>2 DEF Changed
    <3>4. x = [out EXCEPT !.db = e]
      BY <3>1, <3>3
    <3> HIDE DEF e
    <3> QED
      BY <3>2, <3>4 DEF Changed
  <2> HIDE DEF e
  <2>2. Entered(w.db, e, w.folds, o) /\ e.log[o].arrival > 0
    <3>1. o \in Op \ Held(w.db) /\ StoreOK(w.db) /\ Numbered(w.db)
      BY <1>3 DEF WorkOK
    <3> QED
      BY <3>1, PulledIs DEF e
  <2>3. LogOK(e, sent)
    <3>1. o \notin OwnOp /\ e.log[o].arrival # 0
      BY <2>2
    <3> QED
      BY <2>2, <3>1, EnteredLog DEF WorkOK
  <2>4. q \in SUBSET w.quarantine /\ q \cap Held(e) = {} /\ w.quarantine \subseteq q \cup {o}
    BY <2>2 DEF WorkOK, Entered
  <2>5. o \notin q
    OBVIOUS
  <2> HIDE DEF q
  <2>6. q \in SUBSET w.quarantine
    BY <2>4
  <2>7. Carries(w, x, O) /\ x.quarantine = q
    BY <2>1, <2>2, <2>3, <2>4, <2>6, EntersWork
  <2> QED
    BY <2>4, <2>5, <2>7
<1> QED
  BY <1>1, <1>2, <1>3

\* An op of the answer, for one operation: one of the device's own is held.
LEMMA TakeOneIs ==
    ASSUME StoreConstants, PullConstants, NEW w, WorkOK(w), Waiting(w), NEW O \in SUBSET Op, NEW o \in O,
           o \in OwnOp => o \in Held(w.db), sent \in SUBSET OwnOp,
           NEW x, x = TakeOne(w, o)
    PROVE  Carries(w, x, O) /\ Got(x, o)
<1>1. CASE o \in Held(w.db) /\ w.db.log[o].text
  <2>1. x = w
    BY <1>1 DEF TakeOne
  <2> QED
    BY <1>1, <2>1, CarriesNothing DEF Got
<1>2. CASE o \in Held(w.db) /\ ~w.db.log[o].text
  <2>1. o \in OwnOp /\ w.db.log[o].arrival = 0 /\ ~w.db.log[o].refused
    BY <1>2 DEF WorkOK, LogOK
  <2>2. AuthorOf[o] \in w.registry
    BY <2>1 DEF PullConstants, WorkOK
  <2> DEFINE back == [w.db EXCEPT !.log[o].text = TRUE]
             e == Apply(back, w.folds, 1, o)
  <2>3. x = [w EXCEPT !.db = e]
    BY <1>2, <2>2 DEF TakeOne
  <2>4. TextBack(w.db, back, o)
    BY <1>2, TextComesBack DEF WorkOK
  <2> HIDE DEF back
  <2>5. Entered(w.db, e, w.folds, o) /\ e.log[o].arrival = 0
    BY <1>2, <2>1, <2>4, RestoredIs DEF WorkOK
  <2> HIDE DEF e
  <2>6. LogOK(e, sent)
    BY <2>1, <2>5, EnteredLog DEF WorkOK
  <2>7. w.quarantine \cap Held(e) = {}
    BY <1>2, <2>5 DEF WorkOK, Entered
  <2>8. x = Changed(w, e, w.quarantine)
    BY <2>3 DEF WorkOK, IsWork, Changed
  <2>9. w.quarantine \in SUBSET w.quarantine /\ w.quarantine \subseteq w.quarantine \cup {o}
    OBVIOUS
  <2> QED
    BY <2>5, <2>6, <2>7, <2>8, <2>9, EntersWork
<1>3. CASE o \notin Held(w.db) /\ AuthorOf[o] \notin w.registry
  <2>1. x = [w EXCEPT !.quarantine = w.quarantine \cup {o}]
    BY <1>3 DEF TakeOne
  <2>2. /\ x.db = w.db /\ x.quarantine = w.quarantine \cup {o} /\ x.registry = w.registry /\ x.sync = w.sync
        /\ x.folds = w.folds /\ x.restarted = w.restarted /\ IsWork(x)
    BY <2>1 DEF WorkOK, IsWork
  <2>3. IsFiniteSet(w.quarantine \cup {o})
    BY FS_AddElement DEF WorkOK
  <2>4. WorkOK(x)
    BY <1>3, <2>2, <2>3 DEF WorkOK
  <2>5. Got(x, o) /\ \A p : Got(w, p) => Got(x, p)
    BY <2>2 DEF Got
  <2>6. \A p \in x.quarantine : p \in w.quarantine \/ AuthorOf[p] \notin w.registry
    BY <1>3, <2>2
  <2> QED
    BY <2>2, <2>4, <2>5, <2>6 DEF Carries
<1>4. CASE o \notin Held(w.db) /\ AuthorOf[o] \in w.registry
  <2> DEFINE e == Pulled(w.db, w.folds, 1, o)
  <2>1. x = [w EXCEPT !.db = e]
    BY <1>4 DEF TakeOne
  <2>2. Entered(w.db, e, w.folds, o) /\ e.log[o].arrival > 0
    <3>1. o \in Op \ Held(w.db) /\ StoreOK(w.db) /\ Numbered(w.db)
      BY <1>4 DEF WorkOK
    <3> QED
      BY <3>1, PulledIs
  <2> HIDE DEF e
  <2>3. LogOK(e, sent)
    <3>1. o \notin OwnOp /\ e.log[o].arrival # 0
      BY <1>4, <2>2
    <3> QED
      BY <2>2, <3>1, EnteredLog DEF WorkOK
  <2>4. w.quarantine \cap Held(e) = {}
    <3>1. o \notin w.quarantine
      BY <1>4 DEF Waiting
    <3> QED
      BY <2>2, <3>1 DEF WorkOK, Entered
  <2>5. x = Changed(w, e, w.quarantine)
    BY <2>1 DEF WorkOK, IsWork, Changed
  <2>6. w.quarantine \in SUBSET w.quarantine /\ w.quarantine \subseteq w.quarantine \cup {o}
    OBVIOUS
  <2> QED
    BY <2>2, <2>3, <2>4, <2>5, <2>6, EntersWork
<1> QED
  BY <1>1, <1>2, <1>3, <1>4

----------------------------------------------------------------------------
(* Releasing and taking, one operation after another.                        *)

IsTaken(w, k, g) == g = [n \in 0..k |-> IF n = 0 THEN w ELSE TakeOne(g[n - 1], page.ops[n])]
IsReleased(w, order, k, g) == g = [n \in 0..k |-> IF n = 0 THEN w ELSE ReleaseOne(g[n - 1], order[n])]

LEMMA TakenExists == ASSUME NEW w, NEW k \in Nat PROVE \E g : IsTaken(w, k, g)
<1> DEFINE Bad == {m \in Nat : ~ \E g : g = [n \in 0..m |-> IF n = 0 THEN w ELSE TakeOne(g[n - 1], page.ops[n])]}
<1> SUFFICES Bad = {}
  BY DEF IsTaken
<1> SUFFICES ASSUME Bad # {} PROVE FALSE
  OBVIOUS
<1>1. PICK m \in Bad : \A n \in Bad : m <= n
  <2>1. Bad \in SUBSET Nat
    OBVIOUS
  <2> QED
    BY <2>1, LeastNumber
<1>2. CASE m = 0
  <2>1. [n \in 0..0 |-> w] = [n \in 0..0 |-> IF n = 0 THEN w ELSE TakeOne([j \in 0..0 |-> w][n - 1], page.ops[n])]
    OBVIOUS
  <2> QED
    BY <1>2, <2>1
<1>3. CASE m # 0
  <2>1. m \in Nat /\ m - 1 \in Nat /\ m - 1 \notin Bad
    BY <1>1, <1>3
  <2>2. PICK g : g = [n \in 0..(m - 1) |-> IF n = 0 THEN w ELSE TakeOne(g[n - 1], page.ops[n])]
    BY <2>1
  <2> DEFINE last == TakeOne(g[m - 1], page.ops[m])
             h == [n \in 0..m |-> IF n = m THEN last ELSE g[n]]
  <2>3. \A n \in 0..m : h[n] = IF n = 0 THEN w ELSE TakeOne(h[n - 1], page.ops[n])
    <3> TAKE n \in 0..m
    <3>1. CASE n = m
      <4>1. h[n] = last /\ h[n - 1] = g[m - 1] /\ n # 0
        <5> HIDE DEF last
        <5> QED
          BY <1>3, <2>1, <3>1
      <4> QED
        BY <3>1, <4>1
    <3>2. CASE n # m
      <4>1. n \in 0..(m - 1) /\ h[n] = g[n]
        BY <2>1, <3>2
      <4>2. n # 0 => h[n - 1] = g[n - 1]
        BY <2>1, <3>2
      <4> HIDE DEF h
      <4> QED
        BY <2>2, <4>1, <4>2
    <3> QED
      BY <3>1, <3>2
  <2>4. h = [n \in 0..m |-> h[n]]
    OBVIOUS
  <2> HIDE DEF h
  <2>5. h = [n \in 0..m |-> IF n = 0 THEN w ELSE TakeOne(h[n - 1], page.ops[n])]
    BY <2>3, <2>4
  <2> QED
    BY <1>1, <2>5
<1> QED
  BY <1>2, <1>3

LEMMA ReleasedExists == ASSUME NEW w, NEW order, NEW k \in Nat PROVE \E g : IsReleased(w, order, k, g)
<1> DEFINE Bad == {m \in Nat : ~ \E g : g = [n \in 0..m |-> IF n = 0 THEN w ELSE ReleaseOne(g[n - 1], order[n])]}
<1> SUFFICES Bad = {}
  BY DEF IsReleased
<1> SUFFICES ASSUME Bad # {} PROVE FALSE
  OBVIOUS
<1>1. PICK m \in Bad : \A n \in Bad : m <= n
  <2>1. Bad \in SUBSET Nat
    OBVIOUS
  <2> QED
    BY <2>1, LeastNumber
<1>2. CASE m = 0
  <2>1. [n \in 0..0 |-> w] = [n \in 0..0 |-> IF n = 0 THEN w ELSE ReleaseOne([j \in 0..0 |-> w][n - 1], order[n])]
    OBVIOUS
  <2> QED
    BY <1>2, <2>1
<1>3. CASE m # 0
  <2>1. m \in Nat /\ m - 1 \in Nat /\ m - 1 \notin Bad
    BY <1>1, <1>3
  <2>2. PICK g : g = [n \in 0..(m - 1) |-> IF n = 0 THEN w ELSE ReleaseOne(g[n - 1], order[n])]
    BY <2>1
  <2> DEFINE last == ReleaseOne(g[m - 1], order[m])
             h == [n \in 0..m |-> IF n = m THEN last ELSE g[n]]
  <2>3. \A n \in 0..m : h[n] = IF n = 0 THEN w ELSE ReleaseOne(h[n - 1], order[n])
    <3> TAKE n \in 0..m
    <3>1. CASE n = m
      <4>1. h[n] = last /\ h[n - 1] = g[m - 1] /\ n # 0
        <5> HIDE DEF last
        <5> QED
          BY <1>3, <2>1, <3>1
      <4> QED
        BY <3>1, <4>1
    <3>2. CASE n # m
      <4>1. n \in 0..(m - 1) /\ h[n] = g[n]
        BY <2>1, <3>2
      <4>2. n # 0 => h[n - 1] = g[n - 1]
        BY <2>1, <3>2
      <4> HIDE DEF h
      <4> QED
        BY <2>2, <4>1, <4>2
    <3> QED
      BY <3>1, <3>2
  <2>4. h = [n \in 0..m |-> h[n]]
    OBVIOUS
  <2> HIDE DEF h
  <2>5. h = [n \in 0..m |-> IF n = 0 THEN w ELSE ReleaseOne(h[n - 1], order[n])]
    BY <2>3, <2>4
  <2> QED
    BY <1>1, <2>5
<1> QED
  BY <1>2, <1>3

LEMMA StillWaiting == ASSUME NEW w, NEW x, NEW O, Carries(w, x, O), Waiting(w) PROVE Waiting(x)
BY DEF Carries, Waiting

\* A page of operations leaves each of them held or set aside.
LEMMA TakeOpsIs ==
    ASSUME StoreConstants, PullConstants, NEW w, WorkOK(w), Waiting(w), page.ops \in Seq(Op),
           \A o \in Elem(page.ops) : o \in OwnOp => o \in Held(w.db), sent \in SUBSET OwnOp,
           NEW x, x = TakeOps(w)
    PROVE  Carries(w, x, Elem(page.ops)) /\ Waiting(x) /\ \A o \in Elem(page.ops) : Got(x, o)
<1> DEFINE k == Len(page.ops)
           O == Elem(page.ops)
           g == CHOOSE g : g = [n \in 0..k |-> IF n = 0 THEN w ELSE TakeOne(g[n - 1], page.ops[n])]
<1>1. k \in Nat /\ O \in SUBSET Op /\ \A n \in 1..k : page.ops[n] \in O
  BY DEF Elem
<1>2. g = [n \in 0..k |-> IF n = 0 THEN w ELSE TakeOne(g[n - 1], page.ops[n])]
  <2> HIDE DEF k
  <2>1. PICK f : IsTaken(w, k, f)
    BY <1>1, TakenExists
  <2>2. f = [n \in 0..k |-> IF n = 0 THEN w ELSE TakeOne(f[n - 1], page.ops[n])]
    BY <2>1 DEF IsTaken
  <2> QED
    BY <2>2
<1>3. x = g[k]
  BY DEF TakeOps
<1>4. O = {page.ops[n] : n \in 1..k}
  BY DEF Elem
<1> HIDE DEF g, k, O
<1> DEFINE Done(n) == Carries(w, g[n], O) /\ \A i \in 1..n : Got(g[n], page.ops[i])
           Bad == {n \in 0..k : ~Done(n)}
<1>5. Bad = {}
  <2> SUFFICES ASSUME Bad # {} PROVE FALSE
    OBVIOUS
  <2>1. PICK m \in Bad : \A n \in Bad : m <= n
    <3>1. Bad \in SUBSET Nat
      BY <1>1
    <3> QED
      BY <3>1, LeastNumber
  <2>2. m # 0
    <3>1. g[0] = w
      BY <1>1, <1>2
    <3>2. Done(0)
      BY <3>1, CarriesNothing
    <3> QED
      BY <2>1, <3>2
  <2>3. m \in 1..k /\ m - 1 \in 0..k /\ Done(m - 1)
    <3>1. m \in 1..k /\ m - 1 \in 0..k
      BY <1>1, <2>1, <2>2
    <3>2. m - 1 \notin Bad
      BY <1>1, <2>1, <3>1
    <3> QED
      BY <3>1, <3>2
  <2> DEFINE y == g[m - 1]
             o == page.ops[m]
             z == g[m]
  <2>4. z = TakeOne(y, o)
    BY <1>1, <1>2, <2>3
  <2>5. o \in O /\ Carries(w, y, O)
    BY <1>1, <2>3
  <2>6. WorkOK(y) /\ (o \in OwnOp => o \in Held(y.db))
    BY <2>5 DEF Carries, O
  <2>7. Waiting(y)
    BY <2>5, StillWaiting
  <2>8. \A i \in 1..(m - 1) : Got(y, page.ops[i])
    BY <2>3
  <2> HIDE DEF y, o, z
  <2>9. Carries(y, z, O) /\ Got(z, o)
    BY <1>1, <2>4, <2>5, <2>6, <2>7, TakeOneIs
  <2>10. Carries(w, z, O)
    BY <2>5, <2>9, CarriesOn
  <2>11. \A i \in 1..m : Got(z, page.ops[i])
    <3> TAKE i \in 1..m
    <3>1. CASE i = m
      BY <2>9, <3>1 DEF o
    <3>2. CASE i # m
      <4>1. i \in 1..(m - 1)
        BY <1>1, <2>3, <3>2
      <4>2. Got(y, page.ops[i])
        BY <2>8, <4>1
      <4> QED
        BY <2>9, <4>2 DEF Carries
    <3> QED
      BY <3>1, <3>2
  <2>12. Done(m)
    BY <2>10, <2>11 DEF z
  <2> QED
    BY <2>1, <2>12
<1>6. Done(k)
  BY <1>1, <1>5
<1>7. Waiting(x)
  BY <1>3, <1>6, StillWaiting
<1> QED
  BY <1>3, <1>4, <1>6, <1>7 DEF O

\* When keys have come, what they verify is set aside no longer.
LEMMA ReleaseIs ==
    ASSUME StoreConstants, PullConstants, NEW w, WorkOK(w), page.devices = {} => Waiting(w),
           NEW x, x = Release(w)
    PROVE  Carries(w, x, w.quarantine) /\ Waiting(x)
<1>1. CASE page.devices = {}
  <2>1. x = w
    BY <1>1 DEF Release
  <2> QED
    BY <1>1, <2>1, CarriesNothing
<1>2. CASE page.devices # {}
  <2> DEFINE O == w.quarantine
             k == Cardinality(O)
             order == InOrder(O)
             g == CHOOSE g : g = [n \in 0..k |-> IF n = 0 THEN w ELSE ReleaseOne(g[n - 1], order[n])]
  <2>1. k \in Nat /\ order \in [1..k -> O] /\ \A o \in O : \E n \in 1..k : order[n] = o
    <3>1. O \in SUBSET Op /\ IsFiniteSet(O)
      BY DEF WorkOK
    <3> QED
      BY <3>1, OrderHolds
  <2>2. g = [n \in 0..k |-> IF n = 0 THEN w ELSE ReleaseOne(g[n - 1], order[n])]
    <3> HIDE DEF k, order
    <3>1. PICK f : IsReleased(w, order, k, f)
      BY <2>1, ReleasedExists
    <3>2. f = [n \in 0..k |-> IF n = 0 THEN w ELSE ReleaseOne(f[n - 1], order[n])]
      BY <3>1 DEF IsReleased
    <3> QED
      BY <3>2
  <2>3. x = g[k]
    BY <1>2 DEF Release
  <2> HIDE DEF g, k, order
  <2> DEFINE Done(n) == /\ Carries(w, g[n], O) /\ g[n].quarantine \subseteq O
                        /\ \A i \in 1..n : AuthorOf[order[i]] \in w.registry => order[i] \notin g[n].quarantine
             Bad == {n \in 0..k : ~Done(n)}
  <2>4. Bad = {}
    <3> SUFFICES ASSUME Bad # {} PROVE FALSE
      OBVIOUS
    <3>1. PICK m \in Bad : \A n \in Bad : m <= n
      <4>1. Bad \in SUBSET Nat
        BY <2>1
      <4> QED
        BY <4>1, LeastNumber
    <3>2. m # 0
      <4>1. g[0] = w
        BY <2>1, <2>2
      <4>2. Done(0)
        BY <4>1, CarriesNothing
      <4> QED
        BY <3>1, <4>2
    <3>3. m \in 1..k /\ m - 1 \in 0..k /\ Done(m - 1)
      <4>1. m \in 1..k /\ m - 1 \in 0..k
        BY <2>1, <3>1, <3>2
      <4>2. m - 1 \notin Bad
        BY <2>1, <3>1, <4>1
      <4> QED
        BY <4>1, <4>2
    <3> DEFINE y == g[m - 1]
               o == order[m]
               z == g[m]
    <3>4. z = ReleaseOne(y, o)
      BY <2>1, <2>2, <3>3
    <3>5. o \in O /\ Carries(w, y, O) /\ y.quarantine \subseteq O
      BY <2>1, <3>3
    <3>6. \A i \in 1..(m - 1) : AuthorOf[order[i]] \in w.registry => order[i] \notin y.quarantine
      BY <3>3
    <3>7. WorkOK(y) /\ y.registry = w.registry
      BY <3>5 DEF Carries
    <3>8. O \in SUBSET (Op \ OwnOp)
      BY DEF WorkOK
    <3> HIDE DEF y, o, z, O, Bad
    <3>9. Carries(y, z, O) /\ z.quarantine \subseteq y.quarantine /\ (AuthorOf[o] \in y.registry => o \notin z.quarantine)
      <4>1. o \in O /\ WorkOK(y)
        BY <3>5, <3>7
      <4> QED
        BY <3>4, <3>8, <4>1, ReleaseOneIs
    <3>10. Carries(w, z, O)
      BY <3>5, <3>9, CarriesOn
    <3>11. \A i \in 1..m : AuthorOf[order[i]] \in w.registry => order[i] \notin z.quarantine
      <4> TAKE i \in 1..m
      <4>1. CASE i = m
        BY <3>7, <3>9, <4>1 DEF o
      <4>2. CASE i # m
        <5>1. i \in 1..(m - 1)
          BY <2>1, <3>3, <4>2
        <5> QED
          BY <3>6, <3>9, <5>1
      <4> QED
        BY <4>1, <4>2
    <3>12. Done(m)
      BY <3>5, <3>9, <3>10, <3>11 DEF z
    <3> QED
      BY <3>1, <3>12 DEF Bad
  <2>5. Done(k)
    <3> HIDE DEF O
    <3>1. k \in 0..k
      BY <2>1
    <3>2. k \in Bad \/ Done(k)
      BY <3>1
    <3> HIDE DEF Bad
    <3>3. k \notin Bad
      BY <2>4
    <3> QED
      BY <3>2, <3>3
  <2>6. Waiting(x)
    <3>1. x.quarantine \subseteq O /\ x.registry = w.registry
      BY <2>3, <2>5 DEF Carries
    <3>2. ASSUME NEW o \in x.quarantine, AuthorOf[o] \in x.registry PROVE FALSE
      <4>1. PICK n \in 1..k : order[n] = o
        BY <2>1, <3>1, <3>2
      <4> QED
        BY <2>3, <2>5, <3>1, <3>2, <4>1
    <3> QED
      BY <3>2 DEF Waiting
  <2> QED
    BY <2>3, <2>5, <2>6
<1> QED
  BY <1>1, <1>2

----------------------------------------------------------------------------
(* Following a read set: what falls out of it and what comes into it.        *)

\* What dropping the records in D makes of w.
Dropped(w, x, D) ==
    /\ WorkOK(x) /\ x.registry = w.registry /\ x.sync = w.sync /\ x.folds = w.folds /\ x.restarted = w.restarted
    /\ x.quarantine = {o \in w.quarantine : RecordOf[o] \notin D}
    /\ Held(x.db) = {o \in Held(w.db) : o \in OwnOp \/ RecordOf[o] \notin D}
    /\ \A o : Got(w, o) /\ RecordOf[o] \notin D => Got(x, o)
    /\ \A r \in Record \ D : x.db.rows[r] = w.db.rows[r] /\ \A F : Foldable(x.db, F, r) = Foldable(w.db, F, r)
    /\ \A r \in Record \cap D :
           \/ FoldsTo(x.db, w.folds, r)
           \/ x.db.rows[r] = w.db.rows[r] /\ \A o \in Held(w.db) : RecordOf[o] # r

\* The store purged, its texts cleared, and what it holds of D folded again.
LEMMA PurgedAndCleared ==
    ASSUME StoreConstants, NEW d, StoreOK(d), Numbered(d), LogOK(d, sent), NEW folds, NEW D,
           NEW p, PurgedOf(d, p, folds, 1, D), NEW c, ClearedOf(p, c, sent, D),
           NEW e, e = RefoldAll(c, folds, 1, OwnRecords(c, D))
    PROVE  /\ StoreOK(e) /\ Numbered(e) /\ LogOK(e, sent)
           /\ Held(e) = {o \in Held(d) : o \in OwnOp \/ RecordOf[o] \notin D}
           /\ \A o \in Held(e) : RecordOf[o] \notin D => e.log[o].text = d.log[o].text
           /\ \A r \in Record \ D : e.rows[r] = d.rows[r] /\ \A F : Foldable(e, F, r) = Foldable(d, F, r)
           /\ \A r \in Record \cap D :
                  \/ FoldsTo(e, folds, r)
                  \/ e.rows[r] = d.rows[r] /\ \A o \in Held(d) : RecordOf[o] # r
<1>1. /\ StoreOK(p) /\ Held(p) = Remaining(d, D) /\ \A o \in Held(p) : p.log[o] = d.log[o]
      /\ \A s \in Record \ D : p.rows[s] = d.rows[s]
  BY DEF PurgedOf
<1>2. StoreOK(c) /\ Held(c) = Held(p) /\ c.rows = p.rows
  BY DEF ClearedOf
<1>3. \A o \in Held(p) : /\ c.log[o].arrival = p.log[o].arrival /\ c.log[o].refused = p.log[o].refused
                         /\ c.log[o].text <=> (p.log[o].text /\ ~(o \in sent /\ RecordOf[o] \in D))
  BY <1>1, ClearedKeeps
<1>4. Numbered(c)
  <2>1. Numbered(p)
    BY PurgedIsNumbered
  <2> QED
    BY <1>1, <2>1, ClearedKeeps
<1>5. \A F, r : r \notin D => Foldable(c, F, r) = Foldable(p, F, r)
  BY <1>1, ClearedKeeps
<1>6. /\ e.log = c.log /\ e.mark = c.mark /\ StoreOK(e)
      /\ \A r \in Record : e.rows[r] = IF r \in OwnRecords(c, D) THEN Folded(Foldable(c, folds, r), 1) ELSE c.rows[r]
  BY <1>2, RefoldAllIs
<1>7. \A r \in OwnRecords(c, D) \cap Record : FoldsTo(e, folds, r)
  BY <1>2, RefoldedFolds
<1>8. Held(e) = Held(c) /\ \A F, r : Foldable(e, F, r) = Foldable(c, F, r)
  BY <1>6 DEF Held, Foldable
<1>9. Held(e) = {o \in Held(d) : o \in OwnOp \/ RecordOf[o] \notin D}
  <2>1. \A o \in Held(d) : (o \in OwnOp <=> d.log[o].arrival = 0) /\ (d.log[o].arrival = 0 <=> ~(d.log[o].arrival > 0))
    BY DEF LogOK, StoreOK, LogRow
  <2> QED
    BY <1>1, <1>2, <1>8, <2>1 DEF Remaining
<1>10. LogOK(e, sent)
  <2>1. \A o \in Held(e) : /\ o \in Held(d) /\ o \in Held(p) /\ e.log[o].arrival = d.log[o].arrival
                           /\ e.log[o].refused = d.log[o].refused
                           /\ e.log[o].text <=> (d.log[o].text /\ ~(o \in sent /\ RecordOf[o] \in D))
    BY <1>1, <1>2, <1>3, <1>6, <1>8, <1>9
  <2> QED
    BY <2>1 DEF LogOK
<1>11. Numbered(e)
  <2>1. Arrivals(e) = Arrivals(c)
    BY <1>6, <1>8 DEF Arrivals
  <2>2. \A o \in Held(e) : e.log[o].arrival = 0 \/ (o \in Held(c) /\ e.log[o].arrival = c.log[o].arrival)
    BY <1>6, <1>8
  <2> QED
    BY <1>2, <1>4, <1>6, <2>1, <2>2, OwnIsNumbered
<1>12. \A o \in Held(e) : RecordOf[o] \notin D => e.log[o].text = d.log[o].text
  <2>1. \A o \in Held(e) : o \in Held(p) /\ e.log[o] = c.log[o] /\ p.log[o] = d.log[o]
    BY <1>1, <1>2, <1>6, <1>8
  <2>2. \A o \in Held(p) : c.log[o].text \in BOOLEAN /\ p.log[o].text \in BOOLEAN
    BY <1>1, <1>2 DEF StoreOK, LogRow
  <2> QED
    BY <1>3, <2>1, <2>2
<1>13. ASSUME NEW r \in Record \ D
       PROVE  e.rows[r] = d.rows[r] /\ \A F : Foldable(e, F, r) = Foldable(d, F, r)
  <2>1. r \notin OwnRecords(c, D)
    BY DEF OwnRecords
  <2>2. \A F : Foldable(p, F, r) = Foldable(d, F, r)
    BY <1>1 DEF Foldable, Remaining
  <2>3. e.rows[r] = d.rows[r]
    BY <1>1, <1>2, <1>6, <2>1
  <2> QED
    BY <1>5, <1>8, <2>2, <2>3
<1>14. ASSUME NEW r \in Record \cap D
       PROVE  FoldsTo(e, folds, r) \/ (e.rows[r] = d.rows[r] /\ \A o \in Held(d) : RecordOf[o] # r)
  <2>1. CASE r \in OwnRecords(c, D)
    BY <1>7, <2>1
  <2>2. CASE r \notin OwnRecords(c, D)
    <3>1. \A o \in Held(c) : RecordOf[o] # r
      <4>1. \A o \in Held(c) : RecordOf[o] = r => c.log[o].arrival # 0
        BY <2>2 DEF OwnRecords
      <4>2. \A o \in Held(c) : c.log[o].arrival \in Nat /\ c.log[o].arrival = d.log[o].arrival
        BY <1>1, <1>2, <1>3 DEF StoreOK, LogRow
      <4>3. \A o \in Held(c) : ~(d.log[o].arrival > 0 /\ RecordOf[o] \in D)
        BY <1>1, <1>2 DEF Remaining
      <4> QED
        BY <4>1, <4>2, <4>3
    <3>2. e.rows[r] = p.rows[r]
      BY <1>2, <1>6, <2>2
    <3>3. Foldable(e, folds, r) = {} /\ Foldable(p, folds, r) = {}
      BY <1>2, <1>8, <3>1 DEF Foldable
    <3>4. CASE FoldsTo(p, folds, r)
      BY <3>2, <3>3, <3>4 DEF FoldsTo
    <3>5. CASE p.rows[r] = d.rows[r] /\ \A o \in Held(d) : RecordOf[o] = r => o \in Held(p)
      BY <1>2, <3>1, <3>2, <3>5
    <3>6. FoldsTo(p, folds, r) \/ (p.rows[r] = d.rows[r] /\ \A o \in Held(d) : RecordOf[o] = r => o \in Held(p))
      BY DEF PurgedOf
    <3> QED
      BY <3>4, <3>5, <3>6
  <2> QED
    BY <2>1, <2>2
<1> QED
  BY <1>6, <1>9, <1>10, <1>11, <1>12, <1>13, <1>14

LEMMA DropIs ==
    ASSUME StoreConstants, PullConstants, NEW w, WorkOK(w), NEW R, NEW x, x = Drop(w, R)
    PROVE  Dropped(w, x, ReadWith(R))
<1> DEFINE D == ReadWith(R)
           p == Purged(w.db, w.folds, 1, D)
           c == Cleared(p, sent, D)
           e == RefoldAll(c, w.folds, 1, OwnRecords(c, D))
           q == {o \in w.quarantine : RecordOf[o] \notin D}
<1>1. CASE R = {}
  <2>1. x = w /\ D = {}
    BY <1>1 DEF Drop, ReadWith
  <2>2. w.quarantine = {o \in w.quarantine : RecordOf[o] \notin {}}
    OBVIOUS
  <2>3. Held(w.db) = {o \in Held(w.db) : o \in OwnOp \/ RecordOf[o] \notin {}}
    OBVIOUS
  <2> HIDE DEF D
  <2>4. Dropped(w, w, D)
    BY <2>1, <2>2, <2>3 DEF Dropped
  <2> QED
    BY <2>1, <2>4 DEF D
<1>2. CASE R # {}
  <2>1. x = [w EXCEPT !.db = e, !.quarantine = q]
    BY <1>2 DEF Drop
  <2>2. StoreOK(w.db) /\ Numbered(w.db) /\ LogOK(w.db, sent)
    BY DEF WorkOK
  <2> HIDE DEF D, p
  <2>3. PurgedOf(w.db, p, w.folds, 1, D)
    BY <2>2, PurgedIs DEF p
  <2>4. StoreOK(p)
    BY <2>3 DEF PurgedOf
  <2> HIDE DEF c
  <2>5. ClearedOf(p, c, sent, D)
    BY <2>4, ClearedIs DEF c
  <2> HIDE DEF e
  <2>6. e = RefoldAll(c, w.folds, 1, OwnRecords(c, D))
    BY DEF e
  <2>7. /\ StoreOK(e) /\ Numbered(e) /\ LogOK(e, sent)
        /\ Held(e) = {o \in Held(w.db) : o \in OwnOp \/ RecordOf[o] \notin D}
        /\ \A o \in Held(e) : RecordOf[o] \notin D => e.log[o].text = w.db.log[o].text
        /\ \A r \in Record \ D : e.rows[r] = w.db.rows[r] /\ \A F : Foldable(e, F, r) = Foldable(w.db, F, r)
        /\ \A r \in Record \cap D :
               \/ FoldsTo(e, w.folds, r)
               \/ e.rows[r] = w.db.rows[r] /\ \A o \in Held(w.db) : RecordOf[o] # r
    BY <2>2, <2>3, <2>5, <2>6, PurgedAndCleared
  <2> HIDE DEF q
  <2>8. x = Changed(w, e, q)
    BY <2>1 DEF Changed, WorkOK, IsWork
  <2>9. /\ x.db = e /\ x.quarantine = q /\ x.registry = w.registry /\ x.sync = w.sync /\ x.folds = w.folds
        /\ x.restarted = w.restarted /\ IsWork(x)
    BY <2>8 DEF Changed, IsWork
  <2>10. q = {o \in w.quarantine : RecordOf[o] \notin D}
    BY DEF q
  <2>11. WorkOK(x)
    <3>1. IsFiniteSet(q)
      BY <2>10, FS_Subset DEF WorkOK
    <3>2. q \in SUBSET (Op \ OwnOp) /\ q \cap Held(e) = {}
      BY <2>7, <2>10 DEF WorkOK
    <3>3. Held(db) \cap OwnOp \subseteq Held(e)
      BY <2>7 DEF WorkOK
    <3> QED
      BY <2>7, <2>9, <3>1, <3>2, <3>3 DEF WorkOK
  <2>12. \A o : Got(w, o) /\ RecordOf[o] \notin D => Got(x, o)
    BY <2>7, <2>9, <2>10 DEF Got
  <2>13. Dropped(w, x, D)
    BY <2>7, <2>9, <2>10, <2>11, <2>12 DEF Dropped
  <2> QED
    BY <2>13 DEF D
<1> QED
  BY <1>1, <1>2

\* What growing by the records in A makes of w.
Grown(w, x, A) ==
    /\ WorkOK(x) /\ x.registry = w.registry /\ x.sync = w.sync /\ x.folds = w.folds /\ x.restarted
    /\ x.quarantine = w.quarantine /\ x.db.log = w.db.log
    /\ \A r \in Record \ A : x.db.rows[r] = w.db.rows[r]
    /\ \A r \in Record \cap A :
           \/ FoldsTo(x.db, w.folds, r)
           \/ x.db.rows[r] = w.db.rows[r] /\ \A o \in Held(w.db) : RecordOf[o] = r => o \notin OwnOp

LEMMA GrowIs ==
    ASSUME StoreConstants, PullConstants, NEW w, WorkOK(w), NEW R, R # {}, w.sync.readSet # Unknown,
           NEW x, x = Grow(w, R)
    PROVE  Grown(w, x, ReadWith(R))
<1> DEFINE A == ReadWith(R)
           e == RefoldAll(w.db, w.folds, 1, OwnRecords(w.db, A))
<1>1. x = [w EXCEPT !.db = e, !.restarted = TRUE]
  BY DEF Grow
<1>2. StoreOK(w.db) /\ Numbered(w.db) /\ LogOK(w.db, sent)
  BY DEF WorkOK
<1> HIDE DEF A
<1>3. /\ e.log = w.db.log /\ e.mark = w.db.mark /\ StoreOK(e)
      /\ \A r \in Record : e.rows[r] = IF r \in OwnRecords(w.db, A) THEN Folded(Foldable(w.db, w.folds, r), 1) ELSE w.db.rows[r]
  BY <1>2, RefoldAllIs
<1>4. \A r \in OwnRecords(w.db, A) \cap Record : FoldsTo(e, w.folds, r)
  BY <1>2, RefoldedFolds
<1> HIDE DEF e
<1>5. /\ x.db = e /\ x.quarantine = w.quarantine /\ x.registry = w.registry /\ x.sync = w.sync /\ x.folds = w.folds
      /\ x.restarted /\ IsWork(x)
  BY <1>1 DEF WorkOK, IsWork
<1>6. Held(e) = Held(w.db)
  BY <1>3 DEF Held
<1>7. Numbered(e)
  <2>1. Arrivals(e) = Arrivals(w.db)
    BY <1>3, <1>6 DEF Arrivals
  <2>2. \A o \in Held(e) : e.log[o].arrival = 0 \/ (o \in Held(w.db) /\ e.log[o].arrival = w.db.log[o].arrival)
    BY <1>3, <1>6
  <2> QED
    BY <1>2, <1>3, <2>1, <2>2, OwnIsNumbered
<1>8. LogOK(e, sent)
  BY <1>2, <1>3, <1>6 DEF LogOK
<1>9. WorkOK(x)
  BY <1>3, <1>5, <1>6, <1>7, <1>8 DEF WorkOK
<1>10. ASSUME NEW r \in Record \ A PROVE e.rows[r] = w.db.rows[r]
  <2>1. r \notin OwnRecords(w.db, A)
    BY DEF OwnRecords
  <2> QED
    BY <1>3, <2>1
<1>11. ASSUME NEW r \in Record \cap A
       PROVE  FoldsTo(e, w.folds, r) \/ (e.rows[r] = w.db.rows[r] /\ \A o \in Held(w.db) : RecordOf[o] = r => o \notin OwnOp)
  <2>1. CASE r \in OwnRecords(w.db, A)
    BY <1>4, <2>1
  <2>2. CASE r \notin OwnRecords(w.db, A)
    <3>1. e.rows[r] = w.db.rows[r]
      BY <1>3, <2>2
    <3>2. \A o \in Held(w.db) : RecordOf[o] = r => w.db.log[o].arrival # 0
      BY <2>2 DEF OwnRecords
    <3> QED
      BY <1>2, <3>1, <3>2 DEF LogOK
  <2> QED
    BY <2>1, <2>2
<1>12. Grown(w, x, A)
  BY <1>3, <1>5, <1>9, <1>10, <1>11 DEF Grown
<1> QED
  BY <1>12 DEF A

\* A record has no rows when it folds nothing.
LEMMA NothingFolds ==
    ASSUME NEW d, NEW F, NEW r, Foldable(d, F, r) = {}
    PROVE  FoldsTo(d, F, r) <=> DOMAIN d.rows[r] = {}
<1>1. Cardinality({}) = 0
  BY FS_EmptySet
<1>2. InOrder({}) = [n \in {} |-> {}]
  <2>1. 1..Cardinality({}) = {}
    BY <1>1
  <2> QED
    BY <2>1 DEF InOrder
<1>3. DOMAIN InOrder({}) = {}
  BY <1>2
<1>4. ASSUME DOMAIN d.rows[r] = {} PROVE FoldsTo(d, F, r)
  <2>1. [i \in DOMAIN d.rows[r] |-> d.rows[r][i][1]] = [n \in {} |-> {}]
    BY <1>4
  <2> QED
    BY <1>2, <2>1 DEF FoldsTo
<1>5. ASSUME FoldsTo(d, F, r) PROVE DOMAIN d.rows[r] = {}
  <2>1. [i \in DOMAIN d.rows[r] |-> d.rows[r][i][1]] = InOrder({})
    BY <1>5 DEF FoldsTo
  <2>2. DOMAIN [i \in DOMAIN d.rows[r] |-> d.rows[r][i][1]] = {}
    BY <1>3, <2>1
  <2> QED
    BY <2>2
<1> QED
  BY <1>4, <1>5

\* A record of which nothing is held has no rows.
LEMMA NothingHeld ==
    ASSUME NEW d, NEW R, NEW U, NEW r, RowOK(d, R, U, r), U \subseteq Held(d), \A o \in Held(d) : RecordOf[o] # r
    PROVE  DOMAIN d.rows[r] = {}
<1>1. \A F : Foldable(d, F, r) = {}
  BY DEF Foldable
<1>2. CASE FoldsTo(d, Readable(R), r)
  BY <1>1, <1>2, NothingFolds
<1>3. CASE \A i \in DOMAIN d.rows[r] : d.rows[r][i][1] \in U /\ RecordOf[d.rows[r][i][1]] = r
  BY <1>3
<1> QED
  BY <1>2, <1>3 DEF RowOK

Gone(w) == ReadWith(Before(w) \ page.readSet)
Come(w) == page.readSet \ Before(w)
FollowedSync(w) ==
    [cursor |-> w.sync.cursor, readSet |-> page.readSet,
     backfill |-> IF Come(w) # {} THEN Restart(w, Kept(w.sync.backfill, page.readSet), Come(w))
                  ELSE Kept(w.sync.backfill, page.readSet),
     version |-> w.sync.version]

\* What following the answer's read set makes of w.
Followed(w, x) ==
    /\ WorkOK(x) /\ x.registry = w.registry /\ x.folds = Readable(page.readSet)
    /\ x.restarted <=> Come(w) # {}
    /\ x.sync = FollowedSync(w)
    /\ x.quarantine = {o \in w.quarantine : RecordOf[o] \notin Gone(w)}
    /\ Held(x.db) = {o \in Held(w.db) : o \in OwnOp \/ RecordOf[o] \notin Gone(w)}
    /\ \A o : Got(w, o) /\ RecordOf[o] \notin Gone(w) => Got(x, o)

\* The rows as the old read set has them, and what that takes.
RowsFollowed(w, U) ==
    /\ U \subseteq Held(w.db) /\ RowsOK(w.db, w.sync.readSet, U)
    /\ \A o \in Held(w.db) : o \notin OwnOp => RecordOf[o] \in Readable(w.sync.readSet)
    /\ w.sync.readSet = Unknown /\ w.sync.cursor = 0 => Held(w.db) \subseteq U

\* The store after a growth, or after none.
GrewTo(w, m, y, A) ==
    /\ WorkOK(y) /\ y.registry = w.registry /\ y.sync = w.sync /\ y.folds = Readable(page.readSet)
    /\ y.restarted <=> Come(w) # {}
    /\ y.quarantine = m.quarantine /\ y.db.log = m.db.log
    /\ \A r \in Record \ A : y.db.rows[r] = m.db.rows[r]
    /\ \A r \in Record \cap A :
           \/ FoldsTo(y.db, Readable(page.readSet), r)
           \/ y.db.rows[r] = m.db.rows[r] /\ \A o \in Held(m.db) : RecordOf[o] = r => o \notin OwnOp

\* What was readable, what is, and what came and went.
LEMMA ReadSetFacts ==
    ASSUME PullConstants, NEW w, w.sync.readSet \in ReadSets, page.readSet \in SUBSET Perm
    PROVE  /\ page.readSet # Unknown
           /\ w.sync.readSet = Unknown => Come(w) = {}
           /\ \A r \in Record : r \in Readable(page.readSet) => r \notin Gone(w)
           /\ \A r \in Record : r \in ReadWith(Come(w)) => r \in Readable(page.readSet) /\ r \notin Readable(w.sync.readSet)
           /\ \A r \in Record : w.sync.readSet # Unknown /\ r \notin Gone(w) /\ r \notin ReadWith(Come(w)) =>
                  (r \in Readable(page.readSet) <=> r \in Readable(w.sync.readSet))
           /\ \A r \in Record : w.sync.readSet = Unknown /\ w.sync.cursor # 0 /\ r \notin Gone(w) => r \in Readable(page.readSet)
           /\ \A r \in Record : r \notin Readable(page.readSet) /\ r \in Readable(w.sync.readSet) =>
                  r \in Gone(w) \/ (w.sync.readSet = Unknown /\ w.sync.cursor = 0)
<1>1. page.readSet # Unknown /\ Everyone \notin page.readSet
  BY DEF PullConstants, Unknown
<1>2. \A r \in Record : ReadOf[r] \in Perm \cup {Everyone}
  BY DEF PullConstants
<1>3. CASE w.sync.readSet = Unknown
  <2>1. Before(w) = IF w.sync.cursor = 0 THEN page.readSet ELSE Perm
    BY <1>3 DEF Before
  <2>2. Come(w) = {}
    BY <2>1 DEF Come
  <2>3. ReadWith(Come(w)) = {}
    BY <2>2 DEF ReadWith
  <2>4. w.sync.cursor # 0 => Before(w) = Perm
    BY <2>1
  <2>5. w.sync.cursor = 0 => Before(w) = page.readSet
    BY <2>1
  <2>6. Gone(w) = IF w.sync.cursor = 0 THEN {} ELSE {r \in Record : ReadOf[r] \in Perm \ page.readSet}
    BY <2>4, <2>5 DEF Gone, ReadWith
  <2>7. Readable(page.readSet) = {r \in Record : ReadOf[r] = Everyone \/ ReadOf[r] \in page.readSet}
    BY <1>1 DEF Readable
  <2>8. Readable(w.sync.readSet) = Record
    BY <1>3 DEF Readable
  <2> QED
    BY <1>1, <1>2, <1>3, <2>2, <2>3, <2>6, <2>7, <2>8 DEF PullConstants
<1>4. CASE w.sync.readSet # Unknown
  <2> DEFINE R == w.sync.readSet
             N == page.readSet
  <2>1. R \in SUBSET Perm /\ Before(w) = R
    BY <1>4 DEF Before, ReadSets
  <2>2. Gone(w) = {r \in Record : ReadOf[r] \in R \ N} /\ ReadWith(Come(w)) = {r \in Record : ReadOf[r] \in N \ R}
    BY <2>1 DEF Gone, Come, ReadWith
  <2>3. Readable(N) = {r \in Record : ReadOf[r] = Everyone \/ ReadOf[r] \in N}
    BY <1>1 DEF Readable
  <2>4. Readable(R) = {r \in Record : ReadOf[r] = Everyone \/ ReadOf[r] \in R}
    BY <1>4 DEF Readable
  <2>5. Everyone \notin R /\ Everyone \notin N
    BY <2>1, <1>1 DEF PullConstants
  <2> HIDE DEF R, N
  <2> QED
    BY <1>1, <1>2, <1>4, <2>2, <2>3, <2>4, <2>5 DEF R, N
<1> QED
  BY <1>3, <1>4

\* x is w with another read set and another catch-up.
SyncTo(w, x, R, b) ==
    /\ x.sync = [cursor |-> w.sync.cursor, readSet |-> R, backfill |-> b, version |-> w.sync.version]
    /\ x.db = w.db /\ x.quarantine = w.quarantine /\ x.registry = w.registry
    /\ x.folds = w.folds /\ x.restarted = w.restarted /\ IsWork(x)

LEMMA SyncMoves ==
    ASSUME NEW w, IsWork(w), IsSync(w.sync), NEW R, NEW b, NEW x, x = [w EXCEPT !.sync.readSet = R, !.sync.backfill = b]
    PROVE  SyncTo(w, x, R, b)
<1> DEFINE s == [w.sync EXCEPT !.readSet = R]
           t == [s EXCEPT !.backfill = b]
           v == [w EXCEPT !.sync.readSet = R]
<1>1. s = [cursor |-> w.sync.cursor, readSet |-> R, backfill |-> w.sync.backfill, version |-> w.sync.version]
  BY DEF IsSync
<1>2. v = [w EXCEPT !.sync = s]
  OBVIOUS
<1> HIDE DEF s, v
<1>3. v.sync = s
  BY <1>2 DEF IsWork
<1>4. [v EXCEPT !.sync.backfill = b] = [v EXCEPT !.sync = t]
  BY <1>3
<1>5. t = [cursor |-> w.sync.cursor, readSet |-> R, backfill |-> b, version |-> w.sync.version]
  BY <1>1
<1> HIDE DEF t
<1>6. [v EXCEPT !.sync = t] = [w EXCEPT !.sync = t]
  BY <1>2 DEF IsWork
<1>7. x = [w EXCEPT !.sync = t]
  BY <1>4, <1>6 DEF v
<1> QED
  BY <1>5, <1>7 DEF SyncTo, IsWork

LEMMA FollowIs ==
    ASSUME StoreConstants, PullConstants, NEW w, WorkOK(w), w.restarted = FALSE, IsSync(w.sync),
           w.sync.readSet \in ReadSets, page.readSet \in SUBSET Perm, NEW x, x = Follow(w)
    PROVE  Followed(w, x) /\ \A U : RowsFollowed(w, U) => RowsOK(x.db, page.readSet, U)
<1> DEFINE now == page.readSet
           v == [w EXCEPT !.folds = Readable(now)]
           m == Drop(v, Before(w) \ now)
           y == Grow(m, Come(w))
           G == Gone(w)
           A == ReadWith(Come(w))
<1>1. /\ now # Unknown /\ (w.sync.readSet = Unknown => Come(w) = {})
      /\ \A r \in Record : r \in Readable(now) => r \notin G
      /\ \A r \in Record : r \in A => r \in Readable(now) /\ r \notin Readable(w.sync.readSet)
      /\ \A r \in Record : w.sync.readSet # Unknown /\ r \notin G /\ r \notin A =>
             (r \in Readable(now) <=> r \in Readable(w.sync.readSet))
      /\ \A r \in Record : w.sync.readSet = Unknown /\ w.sync.cursor # 0 /\ r \notin G => r \in Readable(now)
  BY ReadSetFacts
<1>2. x = [y EXCEPT !.sync.readSet = now,
                    !.sync.backfill = IF y.restarted THEN Restart(w, Kept(w.sync.backfill, now), Come(w))
                                      ELSE Kept(w.sync.backfill, now)]
  BY <1>1 DEF Follow, Come
<1>3. /\ v.db = w.db /\ v.quarantine = w.quarantine /\ v.registry = w.registry /\ v.sync = w.sync
      /\ v.folds = Readable(now) /\ v.restarted = w.restarted /\ IsWork(v)
  BY DEF WorkOK, IsWork
<1>4. WorkOK(v)
  <2> HIDE DEF v
  <2> QED
    BY <1>3 DEF WorkOK
<1> HIDE DEF v
<1>5. Dropped(v, m, G)
  <2>1. m = Drop(v, Before(w) \ now)
    OBVIOUS
  <2> HIDE DEF m
  <2> QED
    BY <1>4, <2>1, DropIs DEF Gone
<1> HIDE DEF m
<1>6. /\ WorkOK(m) /\ m.registry = w.registry /\ m.sync = w.sync /\ m.folds = Readable(now) /\ m.restarted = FALSE
      /\ m.quarantine = {o \in w.quarantine : RecordOf[o] \notin G}
      /\ Held(m.db) = {o \in Held(w.db) : o \in OwnOp \/ RecordOf[o] \notin G}
      /\ \A o : Got(w, o) /\ RecordOf[o] \notin G => Got(m, o)
  BY <1>3, <1>5 DEF Dropped, Got
<1>7. /\ \A r \in Record \ G : m.db.rows[r] = w.db.rows[r] /\ \A F : Foldable(m.db, F, r) = Foldable(w.db, F, r)
      /\ \A r \in Record \cap G :
             \/ FoldsTo(m.db, Readable(now), r)
             \/ m.db.rows[r] = w.db.rows[r] /\ \A o \in Held(w.db) : RecordOf[o] # r
  BY <1>3, <1>5 DEF Dropped
<1>8. ASSUME Come(w) = {} PROVE GrewTo(w, m, y, A)
  <2>1. y = m
    BY <1>8 DEF Grow
  <2>2. /\ WorkOK(y) /\ y.registry = w.registry /\ y.sync = w.sync /\ y.folds = Readable(now) /\ y.restarted = FALSE
        /\ y.quarantine = m.quarantine /\ y.db = m.db
    BY <1>6, <2>1
  <2> HIDE DEF y
  <2>3. A = {}
    BY <1>8 DEF ReadWith
  <2> QED
    BY <1>6, <1>8, <2>2, <2>3 DEF GrewTo
<1>9. ASSUME Come(w) # {} PROVE GrewTo(w, m, y, A)
  <2>1. y = Grow(m, Come(w))
    OBVIOUS
  <2>2. m.sync.readSet # Unknown
    BY <1>1, <1>6, <1>9
  <2> HIDE DEF y
  <2>3. Grown(m, y, A)
    BY <1>6, <1>9, <2>1, <2>2, GrowIs
  <2>4. Held(y.db) = Held(m.db) /\ y.db.log = m.db.log
    BY <2>3 DEF Grown, Held
  <2> QED
    BY <1>6, <1>9, <2>3, <2>4 DEF Grown, GrewTo
<1>10. GrewTo(w, m, y, A)
  BY <1>8, <1>9
<1> HIDE DEF y
<1>11. Followed(w, x) /\ x.db = y.db
  <2>1. x.sync = FollowedSync(w) /\ x.db = y.db /\ x.quarantine = y.quarantine /\ x.registry = y.registry
        /\ x.folds = y.folds /\ x.restarted = y.restarted /\ IsWork(x)
    <3> DEFINE b == IF y.restarted THEN Restart(w, Kept(w.sync.backfill, now), Come(w)) ELSE Kept(w.sync.backfill, now)
    <3>1. IsWork(y) /\ y.sync = w.sync /\ IsSync(w.sync)
      BY <1>10 DEF GrewTo, WorkOK
    <3>2. b = FollowedSync(w).backfill
      BY <1>10 DEF GrewTo, FollowedSync
    <3>3. x = [y EXCEPT !.sync.readSet = now, !.sync.backfill = b]
      BY <1>2
    <3> HIDE DEF b
    <3>4. SyncTo(y, x, now, b)
      <4>1. IsWork(y) /\ IsSync(y.sync)
        BY <3>1
      <4> HIDE DEF now
      <4> QED
        BY <3>3, <4>1, SyncMoves
    <3>5. FollowedSync(w) = [cursor |-> w.sync.cursor, readSet |-> now, backfill |-> b, version |-> w.sync.version]
      BY <3>2 DEF FollowedSync
    <3> QED
      BY <3>1, <3>4, <3>5 DEF SyncTo
  <2>2. WorkOK(x)
    BY <1>10, <2>1 DEF WorkOK, GrewTo
  <2>3. \A o : Got(w, o) /\ RecordOf[o] \notin G => Got(x, o)
    BY <1>6, <1>10, <2>1 DEF Got, GrewTo, Held
  <2>4. Held(x.db) = {o \in Held(w.db) : o \in OwnOp \/ RecordOf[o] \notin G}
    BY <1>6, <1>10, <2>1 DEF GrewTo, Held
  <2> QED
    BY <1>6, <1>10, <2>1, <2>2, <2>3, <2>4 DEF Followed, GrewTo
<1>12. ASSUME NEW U, RowsFollowed(w, U), NEW r \in Record PROVE RowOK(x.db, now, U, r)
  <2>1. RowOK(w.db, w.sync.readSet, U, r) /\ U \subseteq Held(w.db)
    BY <1>12 DEF RowsFollowed, RowsOK
  <2>2. \A F : Foldable(y.db, F, r) = Foldable(m.db, F, r)
    BY <1>10 DEF GrewTo, Foldable, Held
  <2>3. CASE r \in G
    <3>1. r \notin Readable(now) /\ r \notin A
      BY <1>1, <2>3
    <3>2. y.db.rows[r] = m.db.rows[r]
      BY <1>10, <3>1 DEF GrewTo
    <3>3. CASE FoldsTo(m.db, Readable(now), r)
      BY <1>11, <2>2, <3>2, <3>3 DEF FoldsTo, RowOK
    <3>4. CASE m.db.rows[r] = w.db.rows[r] /\ \A o \in Held(w.db) : RecordOf[o] # r
      <4>1. DOMAIN w.db.rows[r] = {}
        BY <2>1, <3>4, NothingHeld
      <4>2. Foldable(y.db, Readable(now), r) = {}
        BY <3>1 DEF Foldable
      <4>3. FoldsTo(y.db, Readable(now), r)
        BY <3>2, <3>4, <4>1, <4>2, NothingFolds
      <4> QED
        BY <1>11, <4>3 DEF RowOK
    <3> QED
      BY <1>7, <2>3, <3>3, <3>4
  <2>4. CASE r \in A
    <3>1. r \in Readable(now) /\ r \notin Readable(w.sync.readSet) /\ r \notin G
      BY <1>1, <2>4
    <3>2. CASE FoldsTo(y.db, Readable(now), r)
      BY <1>11, <3>2 DEF RowOK
    <3>3. CASE y.db.rows[r] = m.db.rows[r] /\ \A o \in Held(m.db) : RecordOf[o] = r => o \notin OwnOp
      <4>1. \A o \in Held(w.db) : RecordOf[o] # r
        <5>1. \A o \in Held(w.db) : RecordOf[o] = r => o \in OwnOp
          BY <1>12, <3>1 DEF RowsFollowed
        <5>2. \A o \in Held(w.db) : o \in OwnOp => o \in Held(m.db)
          BY <1>6
        <5> QED
          BY <3>3, <5>1, <5>2
      <4>2. DOMAIN w.db.rows[r] = {}
        BY <2>1, <4>1, NothingHeld
      <4>3. y.db.rows[r] = w.db.rows[r]
        BY <1>7, <3>1, <3>3
      <4>4. Foldable(y.db, Readable(now), r) = {}
        <5>1. Foldable(m.db, Readable(now), r) = Foldable(w.db, Readable(now), r)
          BY <1>7, <3>1
        <5>2. Foldable(w.db, Readable(now), r) = {}
          BY <4>1 DEF Foldable
        <5> QED
          BY <2>2, <5>1, <5>2
      <4>5. FoldsTo(y.db, Readable(now), r)
        BY <4>2, <4>3, <4>4, NothingFolds
      <4> QED
        BY <1>11, <4>5 DEF RowOK
    <3> QED
      BY <1>10, <2>4, <3>2, <3>3 DEF GrewTo
  <2>5. CASE r \notin G /\ r \notin A
    <3>1. y.db.rows[r] = w.db.rows[r] /\ \A F : Foldable(y.db, F, r) = Foldable(w.db, F, r)
      <4>1. y.db.rows[r] = m.db.rows[r]
        BY <1>10, <2>5 DEF GrewTo
      <4>2. m.db.rows[r] = w.db.rows[r] /\ \A F : Foldable(m.db, F, r) = Foldable(w.db, F, r)
        BY <1>7, <2>5
      <4> QED
        BY <2>2, <4>1, <4>2
    <3>2. CASE w.sync.readSet # Unknown
      <4>1. r \in Readable(now) <=> r \in Readable(w.sync.readSet)
        BY <1>1, <2>5, <3>2
      <4>2. Foldable(w.db, Readable(now), r) = Foldable(w.db, Readable(w.sync.readSet), r)
        BY <4>1 DEF Foldable
      <4>3. RowOK(w.db, now, U, r)
        BY <2>1, <4>1, <4>2 DEF RowOK, FoldsTo
      <4> QED
        BY <1>11, <3>1, <4>3 DEF RowOK, FoldsTo
    <3>3. CASE w.sync.readSet = Unknown
      <4>1. r \in Readable(Unknown)
        BY DEF Readable
      <4>2. FoldsTo(w.db, Readable(Unknown), r)
        BY <2>1, <3>3, <4>1 DEF RowOK
      <4>3. CASE r \in Readable(now)
        <5>1. Foldable(w.db, Readable(now), r) = Foldable(w.db, Readable(Unknown), r)
          BY <4>1, <4>3 DEF Foldable
        <5> QED
          BY <1>11, <3>1, <4>2, <5>1 DEF RowOK, FoldsTo
      <4>4. CASE r \notin Readable(now)
        <5>1. Held(w.db) \subseteq U
          BY <1>1, <1>12, <2>5, <3>3, <4>4 DEF RowsFollowed
        <5> DEFINE S == Foldable(w.db, Readable(Unknown), r)
        <5>2. S \in SUBSET Op /\ IsFiniteSet(S)
          BY FoldableIsFinite DEF WorkOK
        <5>3. \A o \in S : o \in Held(w.db) /\ RecordOf[o] = r
          BY DEF Foldable
        <5>4. [i \in DOMAIN w.db.rows[r] |-> w.db.rows[r][i][1]] = InOrder(S)
          BY <4>2 DEF FoldsTo
        <5> HIDE DEF S
        <5>5. InOrder(S) \in [1..Cardinality(S) -> S]
          BY <5>2, OrderHolds
        <5>6. \A i \in DOMAIN w.db.rows[r] : w.db.rows[r][i][1] \in S
          <6> DEFINE f == [i \in DOMAIN w.db.rows[r] |-> w.db.rows[r][i][1]]
          <6>1. f \in [1..Cardinality(S) -> S]
            BY <5>4, <5>5
          <6>2. \A i \in DOMAIN w.db.rows[r] : i \in DOMAIN f /\ f[i] = w.db.rows[r][i][1]
            OBVIOUS
          <6> HIDE DEF f
          <6> QED
            BY <6>1, <6>2
        <5> QED
          BY <1>11, <3>1, <4>4, <5>1, <5>3, <5>6 DEF RowOK
      <4> QED
        BY <4>3, <4>4
    <3> QED
      BY <3>2, <3>3
  <2> QED
    BY <2>3, <2>4, <2>5
<1> QED
  BY <1>11, <1>12 DEF RowsOK

----------------------------------------------------------------------------
(* What an answer holds.                                                     *)

LEMMA AscendingHolds ==
    ASSUME NEW S \in SUBSET Nat, IsFiniteSet(S)
    PROVE  /\ Cardinality(S) \in Nat /\ Ascending(S) \in [1..Cardinality(S) -> S]
           /\ \A s \in S : \E n \in 1..Cardinality(S) : Ascending(S)[n] = s
<1> DEFINE Ahead(i) == {j \in S : j < i}
           k == Cardinality(S)
           rank == [i \in S |-> i]
<1>1. /\ \A s \in S : Cardinality(Ahead(s)) + 1 \in 1..k
      /\ \A s, t \in S : Cardinality(Ahead(s)) = Cardinality(Ahead(t)) => s = t
      /\ \A n \in 1..k : \E s \in S : Cardinality(Ahead(s)) = n - 1
  <2>1. \A s \in S : rank[s] \in Nat /\ rank[s] = s
    OBVIOUS
  <2>2. \A s, t \in S : rank[s] = rank[t] => s = t
    OBVIOUS
  <2> HIDE DEF rank
  <2>3. PlacesTaken(S, rank)
    BY <2>1, <2>2, EveryPlaceIsTaken
  <2>4. \A s \in S : Ahead(s) = AheadOf(S, rank, s)
    BY <2>1 DEF AheadOf
  <2> HIDE DEF Ahead
  <2> QED
    BY <2>3, <2>4 DEF PlacesTaken
<1>2. Ascending(S) = [n \in 1..k |-> CHOOSE s \in S : Cardinality(Ahead(s)) = n - 1]
  BY DEF Ascending
<1>3. k \in Nat /\ \A s \in S : Cardinality(Ahead(s)) \in Nat
  <2>1. \A s \in S : Ahead(s) \in SUBSET S
    OBVIOUS
  <2> QED
    BY <2>1, FS_Subset, FS_CardinalityType
<1> HIDE DEF Ahead, k
<1>4. \A n \in 1..k : Ascending(S)[n] \in S /\ Cardinality(Ahead(Ascending(S)[n])) = n - 1
  BY <1>1, <1>2
<1>5. ASSUME NEW s \in S PROVE \E n \in 1..k : Ascending(S)[n] = s
  <2> DEFINE n == Cardinality(Ahead(s)) + 1
  <2>1. n \in 1..k /\ n - 1 = Cardinality(Ahead(s))
    BY <1>1, <1>3
  <2>2. Ascending(S)[n] \in S /\ Cardinality(Ahead(Ascending(S)[n])) = n - 1
    BY <1>4, <2>1
  <2> QED
    BY <1>1, <2>1, <2>2
<1>6. Ascending(S) \in [1..k -> S]
  BY <1>2, <1>4
<1> QED
  BY <1>3, <1>5, <1>6 DEF k

\* The first n of a set leave nothing out below their last.
LEMMA FirstIsClosed ==
    ASSUME NEW S \in SUBSET Nat, IsFiniteSet(S), NEW n \in Nat, NEW i \in S, NEW j \in FirstOf(S, n), i <= j
    PROVE  i \in FirstOf(S, n)
<1> DEFINE A == {m \in S : m < i}
           B == {m \in S : m < j}
<1>1. A \in SUBSET B /\ B \in SUBSET S
  <2>1. j \in S
    BY DEF FirstOf
  <2>2. \A m \in S : m < i => m < j
    BY <2>1
  <2> QED
    BY <2>2
<1>2. IsFiniteSet(B) /\ IsFiniteSet(A) /\ Cardinality(A) <= Cardinality(B)
  <2>1. IsFiniteSet(B)
    BY <1>1, FS_Subset
  <2> HIDE DEF A, B
  <2> QED
    BY <1>1, <2>1, FS_Subset
<1>3. Cardinality(A) \in Nat /\ Cardinality(B) \in Nat
  BY <1>2, FS_CardinalityType
<1>4. Cardinality(B) < n
  BY DEF FirstOf
<1> HIDE DEF A, B
<1>5. Cardinality(A) < n
  BY <1>2, <1>3, <1>4
<1> QED
  BY <1>5 DEF FirstOf, A

LEMMA AnswerIs ==
    ASSUME PullConstants, ServerOK, SyncOK(sync, registry, Len(stream)), ReadsOK, PhaseOK, phase # "idle",
           NEW echoed \in {0, sync.version}, NEW times, NEW back,
           phase = "pull" => back = NoBackfill, phase # "pull" => back = sync.backfill,
           page' = Answer(From, back, echoed, times),
           UNCHANGED <<stream, enrolled, granted, modern, sync, registry, deviceReads, phase>>
    PROVE  PageOK'
<1> DEFINE from == From
           all == Selected(from, back)
           served == FirstOf(all, Limit)
           order == Ascending(served)
<1>1. from \in Nat /\ from <= Len(stream) /\ Len(stream) \in Nat /\ DOMAIN stream = 1..Len(stream)
  BY DEF From, SyncOK, CatchUps, ServerOK
<1>2. From' = from
  BY DEF From
<1>3. ServedReads \in ReadSets /\ (ServedReads = Unknown <=> ~modern) /\ (modern => ServedReads = granted)
  BY ReadableFacts DEF ServedReads, ReadSets, ServerOK
<1> HIDE DEF from
<1>4. all \in SUBSET (1..Len(stream)) /\ \A i \in all : i > from /\ InScope(stream[i], ServedReads)
  BY <1>1 DEF Selected
<1>5. \A i \in 1..Len(stream) : /\ i > from /\ InScope(stream[i], ServedReads)
                                /\ back # NoBackfill => RecordOf[stream[i]] \in ReadWith(back.reads \cap granted) /\ i <= back.through
                                => i \in all
  BY <1>1 DEF Selected
<1>6. IsFiniteSet(all) /\ all \in SUBSET Nat
  <2>1. IsFiniteSet(1..Len(stream))
    BY <1>1, FS_Interval
  <2>2. 1..Len(stream) \in SUBSET Nat
    BY <1>1
  <2>3. IsFiniteSet(all)
    BY <1>4, <2>1, FS_Subset
  <2> QED
    BY <1>4, <2>2, <2>3
<1> HIDE DEF all
<1>7. served \in SUBSET all /\ IsFiniteSet(served) /\ served \in SUBSET Nat
  <2>1. served \in SUBSET all
    BY DEF FirstOf
  <2> HIDE DEF served
  <2> QED
    BY <1>6, <2>1, FS_Subset
<1>8. Limit \in Nat
  BY DEF PullConstants
<1>9. \A i \in all, j \in served : i <= j => i \in served
  BY <1>6, <1>8, FirstIsClosed
<1> HIDE DEF served
<1>10. Cardinality(served) \in Nat /\ order \in [1..Cardinality(served) -> served]
       /\ \A s \in served : \E n \in 1..Cardinality(served) : order[n] = s
  BY <1>7, AscendingHolds
<1> HIDE DEF order
<1>11. /\ page'.ops = [i \in DOMAIN order |-> stream[order[i]]] /\ page'.next = IF served = {} THEN from ELSE Biggest(served)
       /\ page'.more = (served # all) /\ page'.readSet = ServedReads
       /\ page'.devices = IF echoed = DirectoryVersion THEN {} ELSE Snapshot
  BY DEF Answer, all, served, order, from
<1>12. page'.ops \in Seq(Op) /\ Elem(page'.ops) = {stream[i] : i \in served}
  <2> DEFINE k == Cardinality(served)
             ops == [i \in 1..k |-> stream[order[i]]]
  <2>1. page'.ops = ops
    BY <1>10, <1>11
  <2>2. \A i \in served : stream[i] \in Op
    BY <1>1, <1>4, <1>7 DEF ServerOK
  <2>3. ops \in [1..k -> Op] /\ k \in Nat
    BY <1>10, <2>2
  <2>4. ops \in Seq(Op)
    <3> HIDE DEF ops, k
    <3> QED
      BY <2>3
  <2>5. Elem(ops) = {stream[order[i]] : i \in 1..k}
    BY DEF Elem
  <2>6. {stream[order[i]] : i \in 1..k} = {stream[i] : i \in served}
    BY <1>10
  <2> QED
    BY <2>1, <2>4, <2>5, <2>6
<1>13. /\ page'.next \in Nat /\ page'.next >= from /\ page'.next <= Len(stream)
       /\ \A i \in all : i <= page'.next => i \in served
       /\ page'.next = 0 => served = {}
  <2>1. CASE served = {}
    BY <1>1, <1>4, <1>11, <2>1
  <2>2. CASE served # {}
    <3>1. \A n \in served : n <= Len(stream)
      BY <1>1, <1>4, <1>7
    <3>2. Biggest(served) \in served
      BY <1>1, <1>7, <2>2, <3>1, BiggestIs
    <3>3. page'.next = Biggest(served)
      BY <1>11, <2>2
    <3>4. page'.next \in served
      BY <3>2, <3>3
    <3>5. page'.next \in 1..Len(stream) /\ page'.next > from
      BY <1>4, <1>7, <3>4
    <3> QED
      BY <1>1, <1>9, <3>4, <3>5
  <2> QED
    BY <2>1, <2>2
<1>14. \A o \in Elem(page'.ops) : o \in Elem(stream') /\ InScope(o, page'.readSet)
  <2>1. \A i \in served : stream[i] \in Elem(stream) /\ InScope(stream[i], ServedReads)
    BY <1>1, <1>4, <1>7 DEF Elem
  <2>2. stream' = stream
    OBVIOUS
  <2> QED
    BY <1>11, <1>12, <2>1, <2>2
<1>15. ASSUME NEW i, Covered(i)' PROVE stream[i] \in Elem(page'.ops)
  <2>1. i \in 1..Len(stream) /\ i > from /\ InScope(stream[i], ServedReads)
    BY <1>1, <1>2, <1>11, <1>15 DEF Covered, InScope
  <2>2. CASE phase = "pull"
    <3>1. i \in all
      BY <1>5, <2>1, <2>2
    <3>2. i <= page'.next
      BY <1>15, <2>2 DEF Covered
    <3> QED
      BY <1>12, <1>13, <3>1, <3>2
  <2>3. CASE phase # "pull"
    <3>1. /\ i <= sync.backfill.through /\ ReadOf[RecordOf[stream[i]]] \in sync.backfill.reads \cap ServedReads
          /\ page'.more => i <= page'.next
      BY <1>11, <1>15, <2>3 DEF Covered
    <3>2. ServedReads = granted
      <4>1. sync.backfill.reads \in SUBSET Perm
        BY DEF SyncOK, CatchUps
      <4>2. ServedReads # Unknown
        BY <3>1, <4>1 DEF Unknown, PullConstants
      <4> QED
        BY <1>3, <4>2 DEF ServerOK
    <3>3. RecordOf[stream[i]] \in ReadWith(back.reads \cap granted)
      <4>1. RecordOf[stream[i]] \in Record
        BY <2>1 DEF InScope, Readable
      <4> QED
        BY <2>3, <3>1, <3>2, <4>1 DEF ReadWith
    <3>4. i \in all
      BY <1>5, <2>1, <2>3, <3>1, <3>3
    <3>5. i \in served
      BY <1>11, <1>13, <3>1, <3>4
    <3> QED
      BY <1>12, <3>5
  <2> QED
    BY <2>2, <2>3
<1>16. Snapshot \in SUBSET Device /\ Me \in Snapshot
  BY DEF Snapshot, ServerOK, PullConstants
<1>17. DirectoryVersion # 0
  <2>1. IsFiniteSet(enrolled)
    BY FS_Subset DEF ServerOK, PullConstants
  <2>2. Cardinality(enrolled) \in Nat /\ Cardinality(enrolled) # 0
    BY <2>1, FS_CardinalityType, FS_EmptySet DEF ServerOK
  <2> QED
    BY <2>2 DEF DirectoryVersion
<1>18. page'.devices = {} => Me \in registry
  BY <1>11, <1>16, <1>17 DEF SyncOK
<1>19. page'.readSet = Unknown => sync.readSet = Unknown /\ deviceReads = Unknown
  BY <1>3, <1>11 DEF ReadsOK
<1>20. page'.readSet # Unknown => modern
  BY <1>3, <1>11
<1>21. phase' = "pull" /\ page'.next = 0 => Elem(page'.ops) = {}
  BY <1>12, <1>13
<1>22. \A i : Covered(i)' => stream'[i] \in Elem(page'.ops)
  BY <1>15
<1>23. page'.devices \in SUBSET Device /\ (page'.devices = {} \/ Me \in page'.devices)
  BY <1>11, <1>16
<1>24. \A o \in Elem(page.ops)' : o \in Elem(stream)' /\ InScope(o, page.readSet)'
  BY <1>14
<1> QED
  BY <1>2, <1>3, <1>11, <1>12, <1>13, <1>18, <1>19, <1>20, <1>21, <1>22, <1>23, <1>24 DEF PageOK

----------------------------------------------------------------------------
(* A page is applied.                                                        *)

\* The catch-up still has to ask for the position.
StillAsks(b, i) == ReadOf[RecordOf[stream[i]]] \in b.reads /\ b.cursor < i /\ i <= b.through

\* What the transaction works on before the answer's read set is followed.
Started(w) ==
    /\ WorkOK(w) /\ Waiting(w) /\ w.folds = Folds /\ w.restarted = FALSE
    /\ IsSync(w.sync) /\ w.sync.cursor = sync.cursor /\ w.sync.readSet = sync.readSet /\ w.sync.backfill = sync.backfill
    /\ \A o \in Held(w.db) \cup w.quarantine : o \in Held(db) \cup quarantine
    /\ \A o : (o \in Held(db) /\ db.log[o].text) \/ o \in quarantine => Got(w, o)
    /\ \A R, U : Folds = Readable(R) /\ RowsOK(db, R, U) => RowsOK(w.db, R, U)

LEMMA BatchStarts ==
    ASSUME StoreConstants, PullConstants, PullInv, PageOK
    PROVE  Started(Release(TakeSidecar(Work)))
<1> DEFINE w == TakeSidecar(Work)
           x == Release(w)
<1>1. /\ w.db = db /\ w.quarantine = quarantine /\ w.registry = Known /\ w.folds = Folds /\ w.restarted = FALSE
      /\ w.sync.cursor = sync.cursor /\ w.sync.readSet = sync.readSet /\ w.sync.backfill = sync.backfill
      /\ IsSync(w.sync) /\ IsWork(w)
  <2>0. IsSync(sync)
    BY DEF PullInv, SyncOK
  <2>1. CASE page.devices = {}
    BY <2>0, <2>1 DEF TakeSidecar, Work, Known, IsWork
  <2>2. CASE page.devices # {}
    <3>1. w = [Work EXCEPT !.registry = page.devices, !.sync.version = page.version]
      BY <2>2 DEF TakeSidecar
    <3> DEFINE s == [sync EXCEPT !.version = page.version]
    <3>2. s = [cursor |-> sync.cursor, readSet |-> sync.readSet, backfill |-> sync.backfill, version |-> page.version]
      BY <2>0 DEF IsSync
    <3>3. w = [db |-> db, quarantine |-> quarantine, registry |-> page.devices, sync |-> s, folds |-> Folds, restarted |-> FALSE]
      BY <3>1 DEF Work
    <3> HIDE DEF w, s
    <3> QED
      BY <2>2, <3>2, <3>3 DEF Known, IsWork, IsSync
  <2> QED
    BY <2>1, <2>2
<1> HIDE DEF w
<1>2. WorkOK(w)
  <2>1. Known \in SUBSET Device /\ Me \in Known
    BY DEF Known, PageOK, PullInv, DeviceOK
  <2> QED
    BY <1>1, <2>1 DEF WorkOK, PullInv, DeviceOK
<1>3. page.devices = {} => Waiting(w)
  BY <1>1 DEF Waiting, Known, PullInv, DeviceOK
<1>4. Carries(w, x, w.quarantine) /\ Waiting(x)
  BY <1>2, <1>3, ReleaseIs
<1> HIDE DEF x
<1>5. /\ WorkOK(x) /\ x.sync = w.sync /\ x.folds = w.folds /\ x.restarted = w.restarted
      /\ \A o : Got(w, o) => Got(x, o)
      /\ \A o \in Held(x.db) \cup x.quarantine : o \in Held(w.db) \cup w.quarantine
      /\ \A R, U : w.folds = Readable(R) /\ RowsOK(w.db, R, U) => RowsOK(x.db, R, U)
  BY <1>4 DEF Carries
<1>6. \A o : (o \in Held(db) /\ db.log[o].text) \/ o \in quarantine => Got(x, o)
  BY <1>1, <1>5 DEF Got
<1>7. \A R, U : Folds = Readable(R) /\ RowsOK(db, R, U) => RowsOK(x.db, R, U)
  BY <1>1, <1>5
<1>8. Started(x)
  BY <1>1, <1>4, <1>5, <1>6, <1>7 DEF Started
<1> QED
  BY <1>8 DEF x, w

\* And after: what is read and held is what the answer's read set allows, and
\* the catch-up asks for all that came into it.
Midway(w) ==
    /\ WorkOK(w) /\ Waiting(w) /\ w.folds = Readable(page.readSet)
    /\ SyncOK(w.sync, w.registry, Len(stream)) /\ w.sync.cursor = sync.cursor /\ w.sync.readSet = page.readSet
    /\ \A o \in Held(w.db) \cup w.quarantine : o \in Held(db) \cup quarantine
    /\ resets = 0 => \A o \in Held(w.db) \cup w.quarantine : o \notin OwnOp => RecordOf[o] \in Readable(page.readSet)
    /\ resets = 0 => RowsOK(w.db, page.readSet, unfollowed)
    /\ \A i \in 1..sync.cursor : InScope(stream[i], page.readSet) => Got(w, stream[i]) \/ StillAsks(w.sync.backfill, i)
    /\ ~w.restarted /\ w.sync.backfill # NoBackfill =>
           /\ w.sync.backfill.reads \subseteq sync.backfill.reads \cap page.readSet
           /\ w.sync.backfill.cursor = sync.backfill.cursor /\ w.sync.backfill.through = sync.backfill.through

LEMMA PositionIs ==
    ASSUME ServerOK, SyncOK(sync, registry, Len(stream)), NEW i \in 1..sync.cursor
    PROVE  i \in DOMAIN stream /\ i \in Nat /\ stream[i] \in Op /\ i <= Len(stream)
<1>1. Len(stream) \in Nat /\ DOMAIN stream = 1..Len(stream) /\ sync.cursor <= Len(stream) /\ sync.cursor \in Nat
  BY DEF ServerOK, SyncOK
<1>2. i \in DOMAIN stream
  BY <1>1
<1> QED
  BY <1>1, <1>2 DEF ServerOK

\* An older server sends no read set, and the device has none.
LEMMA NothingFollowed ==
    ASSUME StoreConstants, PullConstants, PullInv, PageOK, page.readSet = Unknown, NEW w, Started(w)
    PROVE  Follow(w) = w /\ Midway(w)
<1>1. Follow(w) = w
  BY DEF Follow
<1>2. sync.readSet = Unknown /\ deviceReads = Unknown /\ Folds = Readable(Unknown) /\ Readable(Unknown) = Record
  BY DEF PageOK, Folds, Readable
<1>3. /\ WorkOK(w) /\ Waiting(w) /\ w.folds = Readable(page.readSet)
      /\ w.sync.cursor = sync.cursor /\ w.sync.readSet = page.readSet /\ w.sync.backfill = sync.backfill /\ IsSync(w.sync)
      /\ \A o \in Held(w.db) \cup w.quarantine : o \in Held(db) \cup quarantine
  BY <1>2 DEF Started
<1>4. SyncOK(w.sync, w.registry, Len(stream)) /\ sync.backfill = NoBackfill
  BY <1>2, <1>3 DEF PullInv, SyncOK, WorkOK
<1>5. \A o \in Held(w.db) \cup w.quarantine : RecordOf[o] \in Record
  BY <1>3 DEF WorkOK, StoreOK, StoreConstants
<1>6. resets = 0 => RowsOK(w.db, page.readSet, unfollowed)
  BY <1>2 DEF Started, PullInv
<1>7. ASSUME NEW i \in 1..sync.cursor, InScope(stream[i], page.readSet) PROVE Got(w, stream[i])
  <2>1. (stream[i] \in Held(db) /\ db.log[stream[i]].text) \/ stream[i] \in quarantine \/ Awaited(i)
    BY <1>2, <1>7 DEF PullInv, NothingSkipped
  <2>2. ~Awaited(i)
    BY <1>4 DEF Awaited, NoBackfill
  <2> QED
    BY <2>1, <2>2 DEF Started
<1>8. Midway(w)
  BY <1>2, <1>3, <1>4, <1>5, <1>6, <1>7 DEF Midway
<1> QED
  BY <1>1, <1>8

LEMMA KeptIs ==
    ASSUME NEW b \in CatchUps, NEW R \in SUBSET Perm, b.reads = {} => b = NoBackfill, NEW k, k = Kept(b, R)
    PROVE  /\ k \in CatchUps /\ k.reads = b.reads \cap R
           /\ k.reads = {} => k = NoBackfill
           /\ k.reads # {} => k.cursor = b.cursor /\ k.through = b.through
<1>1. b = [reads |-> b.reads, through |-> b.through, cursor |-> b.cursor] /\ b.reads \in SUBSET Perm /\ b.through \in Nat /\ b.cursor \in Nat
  BY DEF CatchUps
<1>2. CASE b.reads \cap R = {}
  <2>1. k = NoBackfill
    BY <1>2 DEF Kept
  <2> QED
    BY <1>2, <2>1 DEF NoBackfill, CatchUps
<1>3. CASE b.reads \cap R # {}
  <2>1. k = [b EXCEPT !.reads = b.reads \cap R]
    BY <1>3 DEF Kept
  <2>2. k = [reads |-> b.reads \cap R, through |-> b.through, cursor |-> b.cursor]
    BY <1>1, <2>1
  <2> QED
    BY <1>1, <1>3, <2>2 DEF CatchUps
<1> QED
  BY <1>2, <1>3

\* The watermarks of a device that followed a read set.
LEMMA FollowedSyncIs ==
    ASSUME PullConstants, NEW w, SyncOK(w.sync, w.registry, Len(stream)), page.readSet \in SUBSET Perm, Len(stream) \in Nat,
           NEW s, s = FollowedSync(w)
    PROVE  /\ SyncOK(s, w.registry, Len(stream)) /\ s.cursor = w.sync.cursor /\ s.readSet = page.readSet
           /\ Come(w) = {} /\ s.backfill # NoBackfill =>
                  /\ s.backfill.reads \subseteq w.sync.backfill.reads \cap page.readSet
                  /\ s.backfill.cursor = w.sync.backfill.cursor /\ s.backfill.through = w.sync.backfill.through
           /\ \A i \in 1..w.sync.cursor : InScope(stream[i], page.readSet) /\ StillAsks(w.sync.backfill, i) => StillAsks(s.backfill, i)
           /\ \A i \in 1..w.sync.cursor : ReadOf[RecordOf[stream[i]]] \in Come(w) => StillAsks(s.backfill, i)
<1> DEFINE b == w.sync.backfill
           now == page.readSet
           k == Kept(b, now)
           c == w.sync.cursor
           t == Biggest({k.through, c})
<1>1. /\ b \in CatchUps /\ (b.reads = {} => b = NoBackfill) /\ c \in Nat /\ c <= Len(stream) /\ b.through <= c
      /\ b.cursor <= Len(stream) /\ (w.sync.version # 0 => Me \in w.registry)
  BY DEF SyncOK
<1>2. /\ k \in CatchUps /\ k.reads = b.reads \cap now /\ (k.reads = {} => k = NoBackfill)
      /\ (k.reads # {} => k.cursor = b.cursor /\ k.through = b.through)
  BY <1>1, KeptIs
<1>3. k.through <= c /\ k.cursor <= Len(stream) /\ k.through \in Nat /\ k.cursor \in Nat
  BY <1>1, <1>2 DEF NoBackfill, CatchUps
<1>4. t = c
  <2> HIDE DEF k, c
  <2>1. {k.through, c} \in SUBSET Nat /\ \A n \in {k.through, c} : n <= c
    BY <1>1, <1>3
  <2>2. t \in {k.through, c} /\ \A n \in {k.through, c} : n <= t
    BY <1>1, <2>1, BiggestIs
  <2> QED
    BY <1>1, <1>3, <2>2
<1>5. s = [cursor |-> c, readSet |-> now,
           backfill |-> IF Come(w) # {} THEN [reads |-> k.reads \cup Come(w), through |-> c, cursor |-> 0] ELSE k,
           version |-> w.sync.version]
  BY <1>4 DEF FollowedSync, Restart
<1>6. Come(w) \in SUBSET Perm /\ now # Unknown /\ now \in ReadSets
  BY DEF Come, PullConstants, Unknown, ReadSets
<1> HIDE DEF k, t
<1>7. IsSync(s) /\ s.cursor = c /\ s.readSet = now /\ s.version = w.sync.version
  BY <1>5 DEF IsSync
<1>8. CASE Come(w) = {}
  <2>1. s.backfill = k
    BY <1>5, <1>8
  <2>2. SyncOK(s, w.registry, Len(stream))
    BY <1>1, <1>2, <1>3, <1>6, <1>7, <2>1 DEF SyncOK
  <2>3. ASSUME NEW i \in 1..c, InScope(stream[i], now), StillAsks(b, i) PROVE StillAsks(s.backfill, i)
    <3>1. ReadOf[RecordOf[stream[i]]] \in b.reads /\ ReadOf[RecordOf[stream[i]]] \in Perm
      BY <1>1, <2>3 DEF StillAsks, CatchUps
    <3>2. ReadOf[RecordOf[stream[i]]] \in now
      BY <1>6, <2>3, <3>1 DEF InScope, Readable, PullConstants
    <3>3. ReadOf[RecordOf[stream[i]]] \in k.reads
      BY <1>2, <3>1, <3>2
    <3> QED
      BY <1>2, <2>1, <2>3, <3>3 DEF StillAsks
  <2>4. s.backfill # NoBackfill => /\ s.backfill.reads \subseteq b.reads \cap now
                                   /\ s.backfill.cursor = b.cursor /\ s.backfill.through = b.through
    BY <1>2, <2>1
  <2> QED
    BY <1>7, <1>8, <2>2, <2>3, <2>4
<1>9. CASE Come(w) # {}
  <2>1. s.backfill = [reads |-> k.reads \cup Come(w), through |-> c, cursor |-> 0]
    BY <1>5, <1>9
  <2>2. /\ s.backfill \in CatchUps /\ s.backfill.reads # {} /\ s.backfill.through = c /\ s.backfill.cursor = 0
        /\ s.backfill.reads = k.reads \cup Come(w)
    BY <1>1, <1>2, <1>6, <1>9, <2>1 DEF CatchUps
  <2>3. SyncOK(s, w.registry, Len(stream))
    BY <1>1, <1>6, <1>7, <2>2 DEF SyncOK
  <2>4. ASSUME NEW i \in 1..c, InScope(stream[i], now), StillAsks(b, i) PROVE StillAsks(s.backfill, i)
    <3>1. ReadOf[RecordOf[stream[i]]] \in b.reads /\ ReadOf[RecordOf[stream[i]]] \in Perm
      BY <1>1, <2>4 DEF StillAsks, CatchUps
    <3>2. ReadOf[RecordOf[stream[i]]] \in now
      BY <1>6, <2>4, <3>1 DEF InScope, Readable, PullConstants
    <3>3. ReadOf[RecordOf[stream[i]]] \in s.backfill.reads
      BY <1>2, <2>2, <3>1, <3>2
    <3> QED
      BY <1>1, <2>2, <3>3 DEF StillAsks
  <2>5. \A i \in 1..c : ReadOf[RecordOf[stream[i]]] \in Come(w) => StillAsks(s.backfill, i)
    BY <1>1, <2>2 DEF StillAsks
  <2> QED
    BY <1>7, <1>9, <2>3, <2>4, <2>5
<1> QED
  BY <1>8, <1>9

LEMMA FollowedIsMidway ==
    ASSUME StoreConstants, PullConstants, PullInv, PageOK, page.readSet # Unknown, NEW w, Started(w), NEW x, x = Follow(w)
    PROVE  Midway(x)
<1>1. page.readSet \in SUBSET Perm /\ Len(stream) \in Nat
  BY DEF PageOK, ReadSets, PullInv, ServerOK
<1>2. /\ WorkOK(w) /\ Waiting(w) /\ w.restarted = FALSE /\ IsSync(w.sync) /\ w.sync.cursor = sync.cursor
      /\ w.sync.readSet = sync.readSet /\ w.sync.backfill = sync.backfill
      /\ \A o \in Held(w.db) \cup w.quarantine : o \in Held(db) \cup quarantine
  BY DEF Started
<1>3. SyncOK(w.sync, w.registry, Len(stream))
  BY <1>2 DEF PullInv, SyncOK, WorkOK
<1>4. w.sync.readSet \in ReadSets
  BY <1>3 DEF SyncOK
<1>5. Followed(w, x) /\ \A U : RowsFollowed(w, U) => RowsOK(x.db, page.readSet, U)
  BY <1>1, <1>2, <1>4, FollowIs
<1>6. /\ WorkOK(x) /\ x.registry = w.registry /\ x.folds = Readable(page.readSet)
      /\ (x.restarted <=> Come(w) # {}) /\ x.sync = FollowedSync(w)
      /\ x.quarantine = {o \in w.quarantine : RecordOf[o] \notin Gone(w)}
      /\ Held(x.db) = {o \in Held(w.db) : o \in OwnOp \/ RecordOf[o] \notin Gone(w)}
      /\ \A o : Got(w, o) /\ RecordOf[o] \notin Gone(w) => Got(x, o)
  BY <1>5 DEF Followed
<1> DEFINE s == x.sync
<1>7. /\ SyncOK(s, w.registry, Len(stream)) /\ s.cursor = w.sync.cursor /\ s.readSet = page.readSet
      /\ (Come(w) = {} /\ s.backfill # NoBackfill =>
              /\ s.backfill.reads \subseteq w.sync.backfill.reads \cap page.readSet
              /\ s.backfill.cursor = w.sync.backfill.cursor /\ s.backfill.through = w.sync.backfill.through)
      /\ \A i \in 1..w.sync.cursor : InScope(stream[i], page.readSet) /\ StillAsks(w.sync.backfill, i) => StillAsks(s.backfill, i)
      /\ \A i \in 1..w.sync.cursor : ReadOf[RecordOf[stream[i]]] \in Come(w) => StillAsks(s.backfill, i)
  BY <1>1, <1>3, <1>6, FollowedSyncIs
<1>8. /\ w.sync.readSet = Unknown => Come(w) = {}
      /\ \A r \in Record : r \in Readable(page.readSet) => r \notin Gone(w)
      /\ \A r \in Record : w.sync.readSet # Unknown /\ r \notin Gone(w) /\ r \notin ReadWith(Come(w)) =>
             (r \in Readable(page.readSet) <=> r \in Readable(w.sync.readSet))
      /\ \A r \in Record : r \notin Readable(page.readSet) /\ r \in Readable(w.sync.readSet) =>
             r \in Gone(w) \/ (w.sync.readSet = Unknown /\ w.sync.cursor = 0)
  BY <1>1, <1>4, ReadSetFacts
<1>9. \A o \in Held(w.db) \cup w.quarantine : RecordOf[o] \in Record
  BY <1>2 DEF WorkOK, StoreOK, StoreConstants
<1>10. ASSUME resets = 0, NEW o \in Held(w.db) \cup w.quarantine, o \notin OwnOp
       PROVE  RecordOf[o] \in Readable(w.sync.readSet) /\ ~(w.sync.readSet = Unknown /\ w.sync.cursor = 0)
  <2>1. RecordOf[o] \in Readable(w.sync.readSet)
    BY <1>2, <1>10 DEF PullInv, OnlyReadable, OnlyReadableHeld
  <2>2. ~(w.sync.readSet = Unknown /\ w.sync.cursor = 0)
    BY <1>2, <1>10 DEF PullInv, ReadsOK
  <2> QED
    BY <2>1, <2>2
<1>11. ASSUME resets = 0, NEW o \in Held(x.db) \cup x.quarantine, o \notin OwnOp
       PROVE  RecordOf[o] \in Readable(page.readSet)
  <2>1. o \in Held(w.db) \cup w.quarantine /\ RecordOf[o] \notin Gone(w)
    BY <1>6, <1>11
  <2> QED
    BY <1>8, <1>9, <1>10, <1>11, <2>1
<1>12. ASSUME resets = 0 PROVE RowsOK(x.db, page.readSet, unfollowed)
  <2>1. unfollowed \subseteq Held(w.db)
    BY <1>2 DEF PullInv, DeviceOK, WorkOK
  <2>2. RowsOK(w.db, w.sync.readSet, unfollowed)
    <3>1. Folds = Readable(sync.readSet) /\ RowsOK(db, sync.readSet, unfollowed)
      BY <1>12 DEF PullInv, ReadsOK, Folds
    <3> QED
      BY <1>2, <3>1 DEF Started
  <2>3. ASSUME w.sync.readSet = Unknown, w.sync.cursor = 0 PROVE Held(w.db) \subseteq unfollowed
    BY <1>2, <1>12, <2>3 DEF PullInv, ReadsOK
  <2>4. RowsFollowed(w, unfollowed)
    BY <1>10, <1>12, <2>1, <2>2, <2>3 DEF RowsFollowed
  <2> QED
    BY <1>5, <2>4
<1>13. ASSUME NEW i \in 1..sync.cursor, InScope(stream[i], page.readSet)
       PROVE  Got(x, stream[i]) \/ StillAsks(s.backfill, i)
  <2> DEFINE o == stream[i]
             r == RecordOf[o]
  <2>1. r \in Record /\ r \in Readable(page.readSet) /\ r \notin Gone(w) /\ o \notin ElsewhereOp
    BY <1>8, <1>13 DEF InScope, Readable
  <2>2. CASE r \in Readable(sync.readSet)
    <3>1. (o \in Held(db) /\ db.log[o].text) \/ o \in quarantine \/ Awaited(i)
      BY <1>13, <2>1, <2>2 DEF PullInv, NothingSkipped, InScope
    <3>2. CASE Awaited(i)
      BY <1>2, <1>7, <1>13, <3>2 DEF Awaited, StillAsks
    <3>3. CASE (o \in Held(db) /\ db.log[o].text) \/ o \in quarantine
      <4>1. Got(w, o)
        BY <3>3 DEF Started
      <4> QED
        BY <1>6, <2>1, <4>1
    <3> QED
      BY <3>1, <3>2, <3>3
  <2>3. CASE r \notin Readable(sync.readSet)
    <3>1. w.sync.readSet # Unknown
      BY <1>2, <2>1, <2>3 DEF Readable
    <3>2. r \in ReadWith(Come(w))
      BY <1>2, <1>8, <2>1, <2>3, <3>1
    <3>3. ReadOf[r] \in Come(w)
      BY <3>2 DEF ReadWith
    <3> QED
      BY <1>2, <1>7, <3>3
  <2> QED
    BY <2>2, <2>3
<1>14. Waiting(x)
  BY <1>2, <1>6 DEF Waiting
<1>15. SyncOK(x.sync, x.registry, Len(stream)) /\ x.sync.cursor = sync.cursor /\ x.sync.readSet = page.readSet
  BY <1>2, <1>6, <1>7
<1>16. ~x.restarted /\ x.sync.backfill # NoBackfill =>
           /\ x.sync.backfill.reads \subseteq sync.backfill.reads \cap page.readSet
           /\ x.sync.backfill.cursor = sync.backfill.cursor /\ x.sync.backfill.through = sync.backfill.through
  BY <1>2, <1>6, <1>7
<1>17. \A o \in Held(x.db) \cup x.quarantine : o \in Held(db) \cup quarantine
  BY <1>2, <1>6
<1> QED
  BY <1>6, <1>11, <1>12, <1>13, <1>14, <1>15, <1>16, <1>17 DEF Midway

\* Where the step leaves the catch-up.
MovedBackfill(w) ==
    IF phase = "pull" \/ w.restarted \/ w.sync.backfill = NoBackfill THEN w.sync.backfill
    ELSE IF page.more THEN [reads |-> w.sync.backfill.reads, through |-> w.sync.backfill.through, cursor |-> page.next]
    ELSE NoBackfill

LEMMA MoveCursorIs ==
    ASSUME NEW w, IsWork(w), IsSync(w.sync), w.sync.backfill \in CatchUps, NEW x, x = MoveCursor(w)
    PROVE  /\ x.db = w.db /\ x.quarantine = w.quarantine /\ x.registry = w.registry /\ IsWork(x)
           /\ x.sync = [cursor |-> IF phase = "pull" THEN page.next ELSE w.sync.cursor, readSet |-> w.sync.readSet,
                        backfill |-> MovedBackfill(w), version |-> w.sync.version]
<1> DEFINE s == w.sync
           b == s.backfill
<1>1. /\ s = [cursor |-> s.cursor, readSet |-> s.readSet, backfill |-> s.backfill, version |-> s.version]
      /\ b = [reads |-> b.reads, through |-> b.through, cursor |-> b.cursor]
  BY DEF IsSync, CatchUps
<1>2. w = [db |-> w.db, quarantine |-> w.quarantine, registry |-> w.registry, sync |-> s,
           folds |-> w.folds, restarted |-> w.restarted]
  BY DEF IsWork
<1>3. CASE phase = "pull"
  <2> DEFINE t == [s EXCEPT !.cursor = page.next]
  <2>1. x = [w EXCEPT !.sync = t]
    BY <1>3 DEF MoveCursor
  <2>2. t = [cursor |-> page.next, readSet |-> s.readSet, backfill |-> s.backfill, version |-> s.version]
    BY <1>1
  <2> HIDE DEF t, s
  <2> QED
    BY <1>2, <1>3, <2>1, <2>2 DEF MovedBackfill, IsWork, s
<1>4. CASE phase # "pull" /\ (w.restarted \/ w.sync.backfill = NoBackfill)
  <2>1. x = w
    BY <1>4 DEF MoveCursor
  <2> QED
    BY <1>1, <1>4, <2>1 DEF MovedBackfill
<1>5. CASE phase # "pull" /\ ~(w.restarted \/ w.sync.backfill = NoBackfill) /\ page.more
  <2> DEFINE c == [b EXCEPT !.cursor = page.next]
             t == [s EXCEPT !.backfill = c]
  <2>1. x = [w EXCEPT !.sync = [s EXCEPT !.backfill = [b EXCEPT !.cursor = page.next]]]
    BY <1>5 DEF MoveCursor
  <2>2. c = [reads |-> b.reads, through |-> b.through, cursor |-> page.next]
    BY <1>1
  <2>3. x = [w EXCEPT !.sync = t]
    BY <2>1
  <2> HIDE DEF c
  <2>4. t = [cursor |-> s.cursor, readSet |-> s.readSet, backfill |-> c, version |-> s.version]
    BY <1>1
  <2> HIDE DEF t
  <2>5. c = MovedBackfill(w)
    BY <1>5, <2>2 DEF MovedBackfill
  <2> HIDE DEF s
  <2> QED
    BY <1>2, <1>5, <2>3, <2>4, <2>5 DEF IsWork, s
<1>6. CASE phase # "pull" /\ ~(w.restarted \/ w.sync.backfill = NoBackfill) /\ ~page.more
  <2> DEFINE t == [s EXCEPT !.backfill = NoBackfill]
  <2>1. x = [w EXCEPT !.sync = t]
    BY <1>6 DEF MoveCursor
  <2>2. t = [cursor |-> s.cursor, readSet |-> s.readSet, backfill |-> NoBackfill, version |-> s.version]
    BY <1>1
  <2> HIDE DEF t
  <2>3. NoBackfill = MovedBackfill(w)
    BY <1>6 DEF MovedBackfill
  <2> HIDE DEF s
  <2> QED
    BY <1>2, <1>6, <2>1, <2>2, <2>3 DEF IsWork, s
<1> QED
  BY <1>3, <1>4, <1>5, <1>6

\* What the transaction commits.
Ended(x) ==
    /\ WorkOK(x) /\ Waiting(x)
    /\ SyncOK(x.sync, x.registry, Len(stream)) /\ x.sync.readSet = page.readSet
    /\ x.sync.cursor = IF phase = "pull" THEN page.next ELSE sync.cursor
    /\ \A o \in Held(x.db) \cup x.quarantine : o \in Held(db) \cup quarantine \cup Elem(page.ops)
    /\ resets = 0 => \A o \in Held(x.db) \cup x.quarantine : o \notin OwnOp => RecordOf[o] \in Readable(page.readSet)
    /\ resets = 0 => RowsOK(x.db, page.readSet, unfollowed)
    /\ \A i \in 1..x.sync.cursor : InScope(stream[i], page.readSet) => Got(x, stream[i]) \/ StillAsks(x.sync.backfill, i)

LEMMA BatchEnds ==
    ASSUME StoreConstants, PullConstants, PullInv, PageOK, phase # "idle", NEW w, Midway(w),
           NEW x, x = MoveCursor(TakeOps(w))
    PROVE  Ended(x)
<1> DEFINE y == TakeOps(w)
           O == Elem(page.ops)
<1>1. Carries(w, y, O) /\ Waiting(y) /\ \A o \in O : Got(y, o)
  <2>1. \A o \in O : o \in OwnOp => o \in Held(w.db)
    BY DEF PageOK, PullInv, ServerOK, Midway, WorkOK
  <2>2. page.ops \in Seq(Op) /\ sent \in SUBSET OwnOp
    BY DEF PageOK, PullInv, DeviceOK
  <2> QED
    BY <2>1, <2>2, TakeOpsIs DEF Midway
<1>2. x = MoveCursor(y)
  OBVIOUS
<1> HIDE DEF y
<1>3. /\ WorkOK(y) /\ y.registry = w.registry /\ y.sync = w.sync /\ y.restarted = w.restarted
      /\ \A o : Got(w, o) => Got(y, o)
      /\ \A o \in Held(y.db) \cup y.quarantine : o \in Held(w.db) \cup w.quarantine \cup O
      /\ \A R, U : w.folds = Readable(R) /\ RowsOK(w.db, R, U) => RowsOK(y.db, R, U)
  BY <1>1 DEF Carries
<1>4. SyncOK(w.sync, w.registry, Len(stream)) /\ IsWork(y)
  BY <1>3 DEF Midway, WorkOK
<1> DEFINE b == w.sync.backfill
           c == MovedBackfill(y)
<1>5. /\ x.db = y.db /\ x.quarantine = y.quarantine /\ x.registry = w.registry /\ IsWork(x)
      /\ x.sync = [cursor |-> IF phase = "pull" THEN page.next ELSE sync.cursor, readSet |-> page.readSet,
                   backfill |-> c, version |-> w.sync.version]
  <2>1. IsSync(y.sync) /\ y.sync.backfill \in CatchUps
    BY <1>3, <1>4 DEF SyncOK
  <2>2. w.sync.cursor = sync.cursor /\ w.sync.readSet = page.readSet
    BY DEF Midway
  <2> QED
    BY <1>2, <1>3, <1>4, <2>1, <2>2, MoveCursorIs
<1>6. /\ page.next \in Nat /\ page.next >= From /\ page.next <= Len(stream) /\ Len(stream) \in Nat
      /\ sync.cursor \in Nat /\ sync.cursor <= Len(stream)
  BY DEF PageOK, PullInv, SyncOK, ServerOK
<1>7. /\ b \in CatchUps /\ b.through <= sync.cursor /\ b.cursor <= Len(stream)
      /\ b.reads = {} => b = NoBackfill
      /\ page.readSet = Unknown => b = NoBackfill
      /\ w.sync.version # 0 => Me \in w.registry
  BY <1>4 DEF SyncOK, Midway
<1>8. /\ c = b \/ c = NoBackfill
         \/ (phase # "pull" /\ page.more /\ b # NoBackfill /\ c = [reads |-> b.reads, through |-> b.through, cursor |-> page.next])
  BY <1>3 DEF MovedBackfill
<1>9. /\ c \in CatchUps /\ c.through <= sync.cursor /\ c.cursor <= Len(stream)
      /\ c.reads = {} => c = NoBackfill
      /\ page.readSet = Unknown => c = NoBackfill
  <2> HIDE DEF c
  <2>1. CASE c = b
    BY <1>7, <2>1
  <2>2. CASE c = NoBackfill
    BY <1>6, <2>2 DEF NoBackfill, CatchUps
  <2>3. CASE b # NoBackfill /\ c = [reads |-> b.reads, through |-> b.through, cursor |-> page.next]
    BY <1>6, <1>7, <2>3 DEF CatchUps
  <2> QED
    BY <1>8, <2>1, <2>2, <2>3
<1> HIDE DEF c
<1>10. /\ IsSync(x.sync) /\ x.sync.readSet = page.readSet /\ x.sync.backfill = c /\ x.sync.version = w.sync.version
       /\ x.sync.cursor = IF phase = "pull" THEN page.next ELSE sync.cursor
  BY <1>5 DEF IsSync
<1>11. SyncOK(x.sync, x.registry, Len(stream))
  <2>1. phase = "pull" => page.next >= sync.cursor
    BY <1>6 DEF From
  <2>2. x.sync.cursor \in Nat /\ x.sync.cursor <= Len(stream) /\ c.through <= x.sync.cursor
    <3>1. c.through \in Nat
      BY <1>9 DEF CatchUps
    <3> QED
      BY <1>6, <1>9, <1>10, <2>1, <3>1
  <2>3. page.readSet \in ReadSets
    BY DEF PageOK
  <2> QED
    BY <1>5, <1>7, <1>9, <1>10, <2>2, <2>3 DEF SyncOK
<1>12. WorkOK(x) /\ Waiting(x)
  BY <1>1, <1>3, <1>5 DEF WorkOK, Waiting
<1>13. \A o \in Held(x.db) \cup x.quarantine : o \in Held(db) \cup quarantine \cup O
  BY <1>3, <1>5 DEF Midway
<1>14. ASSUME resets = 0, NEW o \in Held(x.db) \cup x.quarantine, o \notin OwnOp
       PROVE  RecordOf[o] \in Readable(page.readSet)
  <2>1. o \in Held(w.db) \cup w.quarantine \/ o \in O
    BY <1>3, <1>5, <1>14
  <2>2. CASE o \in O
    BY <2>2 DEF PageOK, InScope
  <2>3. CASE o \in Held(w.db) \cup w.quarantine
    BY <1>14, <2>3 DEF Midway
  <2> QED
    BY <2>1, <2>2, <2>3
<1>15. resets = 0 => RowsOK(x.db, page.readSet, unfollowed)
  BY <1>3, <1>5 DEF Midway
<1>16. ASSUME NEW i \in 1..x.sync.cursor, InScope(stream[i], page.readSet)
       PROVE  Got(x, stream[i]) \/ StillAsks(c, i)
  <2>1. i \in DOMAIN stream /\ i \in Nat
    <3>1. DOMAIN stream = 1..Len(stream)
      BY DEF PullInv, ServerOK
    <3> QED
      BY <1>6, <1>10, <1>16, <3>1
  <2>2. \A o : Got(y, o) => Got(x, o)
    BY <1>5 DEF Got
  <2>3. Covered(i) => Got(x, stream[i])
    BY <1>1, <2>2 DEF PageOK
  <2>4. CASE i > sync.cursor
    <3>1. phase = "pull" /\ i <= page.next
      BY <1>6, <1>10, <1>16, <2>4
    <3>2. Covered(i)
      BY <1>16, <2>1, <2>4, <3>1 DEF Covered, From
    <3> QED
      BY <2>3, <3>2
  <2>5. CASE i <= sync.cursor
    <3>1. i \in 1..sync.cursor
      BY <1>6, <1>16, <2>1, <2>5
    <3>2. Got(w, stream[i]) \/ StillAsks(b, i)
      BY <1>16, <3>1 DEF Midway
    <3>3. CASE Got(w, stream[i])
      BY <1>3, <2>2, <3>3
    <3>4. CASE StillAsks(b, i) /\ c = b
      BY <3>4
    <3>5. CASE StillAsks(b, i) /\ c # b
      <4>1. phase # "pull" /\ ~w.restarted /\ b # NoBackfill /\ c = (IF page.more THEN [reads |-> b.reads, through |-> b.through, cursor |-> page.next] ELSE NoBackfill)
        BY <1>3, <3>5 DEF MovedBackfill, c
      <4>2. /\ b.reads \subseteq sync.backfill.reads \cap page.readSet
            /\ b.cursor = sync.backfill.cursor /\ b.through = sync.backfill.through
        BY <4>1 DEF Midway
      <4>3. /\ ReadOf[RecordOf[stream[i]]] \in b.reads /\ b.cursor < i /\ i <= b.through
        BY <3>5 DEF StillAsks
      <4>4. CASE page.more /\ ~(i <= page.next)
        BY <1>6, <2>1, <4>1, <4>3, <4>4 DEF StillAsks
      <4>5. CASE ~page.more \/ i <= page.next
        <5>1. Covered(i)
          BY <1>16, <2>1, <4>1, <4>2, <4>3, <4>5 DEF Covered, From
        <5> QED
          BY <2>3, <5>1
      <4> QED
        BY <4>4, <4>5
    <3> QED
      BY <3>2, <3>3, <3>4, <3>5
  <2> QED
    BY <1>6, <2>1, <2>4, <2>5
<1> QED
  BY <1>10, <1>11, <1>12, <1>13, <1>14, <1>15, <1>16 DEF Ended

LEMMA BatchIs ==
    ASSUME StoreConstants, PullConstants, PullInv, PageOK, phase # "idle"
    PROVE  Ended(Batch)
<1> DEFINE w == Release(TakeSidecar(Work))
           x == Follow(w)
<1>1. Started(w)
  BY BatchStarts
<1>2. Batch = MoveCursor(TakeOps(x))
  BY DEF Batch
<1> HIDE DEF w
<1>3. Midway(x)
  <2>1. CASE page.readSet = Unknown
    BY <1>1, <2>1, NothingFollowed
  <2>2. CASE page.readSet # Unknown
    BY <1>1, <2>2, FollowedIsMidway
  <2> QED
    BY <2>1, <2>2
<1> HIDE DEF x
<1> QED
  BY <1>2, <1>3, BatchEnds

----------------------------------------------------------------------------
(* Every step keeps the invariant.                                           *)

LEMMA StartHolds == ASSUME StoreConstants, PullConstants, PullInit PROVE PullInv
<1>1. Held(db) = {} /\ Numbered(db) /\ StoreOK(db) /\ \A F : RowsMatch(db, F)
  BY EmptyIsSound DEF PullInit, Sound
<1>2. Elem(stream) = {} /\ stream \in Seq(Op) /\ Len(stream) = 0
  BY DEF PullInit, Elem
<1>3. ServerOK
  BY <1>2 DEF PullInit, ServerOK, PullConstants
<1>4. DeviceOK
  BY <1>1, FS_EmptySet DEF PullInit, DeviceOK, LogOK
<1>5. SyncOK(sync, registry, Len(stream))
  BY <1>2 DEF PullInit, SyncOK, IsSync, ReadSets, CatchUps, NoBackfill
<1>6. ReadsOK
  BY <1>1 DEF PullInit, ReadsOK, ReadSets
<1>7. PhaseOK /\ page = NoPage
  BY DEF PullInit, PhaseOK
<1>8. NothingSkipped /\ OnlyReadable
  <2>1. sync.cursor = 0 /\ quarantine = {}
    BY DEF PullInit
  <2>2. \A i \in 1..0 : FALSE
    OBVIOUS
  <2> QED
    BY <1>1, <2>1, <2>2 DEF NothingSkipped, OnlyReadable, OnlyReadableHeld
<1>9. RowsOK(db, sync.readSet, unfollowed)
  BY <1>1 DEF RowsOK, RowOK, RowsMatch
<1> QED
  BY <1>3, <1>4, <1>5, <1>6, <1>7, <1>8, <1>9 DEF PullInv

\* t is the server's log, with o at its end or without.
Grows(t, o) ==
    /\ t \in Seq(Op) /\ Len(t) \in Nat /\ Len(stream) \in Nat /\ Len(stream) <= Len(t)
    /\ \A i \in DOMAIN stream : i \in DOMAIN t /\ t[i] = stream[i]
    /\ \A i \in DOMAIN t : i \in Nat /\ (i <= Len(stream) => i \in DOMAIN stream)
    /\ Elem(stream) \subseteq Elem(t) /\ Elem(t) \subseteq Elem(stream) \cup {o}
    /\ DOMAIN stream = 1..Len(stream)

LEMMA StreamGrows ==
    ASSUME ServerOK, NEW o \in Op, NEW t, t = stream \/ t = Append(stream, o)
    PROVE  Grows(t, o)
<1>1. stream \in Seq(Op) /\ Len(stream) \in Nat /\ DOMAIN stream = 1..Len(stream)
  BY DEF ServerOK
<1>2. CASE t = stream
  BY <1>1, <1>2 DEF Grows
<1>3. CASE t = Append(stream, o)
  <2>1. t \in Seq(Op) /\ Len(t) = Len(stream) + 1 /\ DOMAIN t = 1..(Len(stream) + 1)
    BY <1>1, <1>3
  <2>2. \A i \in 1..(Len(stream) + 1) : t[i] = IF i <= Len(stream) THEN stream[i] ELSE o
    BY <1>1, <1>3
  <2>3. \A i \in 1..Len(stream) : i \in DOMAIN t /\ t[i] = stream[i]
    BY <1>1, <2>1, <2>2
  <2>4. \A i \in DOMAIN t : i \in Nat /\ (i <= Len(stream) => i \in DOMAIN stream)
    BY <1>1, <2>1
  <2>5. Elem(stream) \subseteq Elem(t)
    BY <1>1, <2>3 DEF Elem
  <2>6. Elem(t) \subseteq Elem(stream) \cup {o}
    BY <1>1, <2>1, <2>2 DEF Elem
  <2> QED
    BY <1>1, <2>1, <2>3, <2>4, <2>5, <2>6 DEF Grows
<1> QED
  BY <1>2, <1>3

\* A log that grows takes nothing from the answer being handled.
LEMMA PageStays ==
    ASSUME PullInv, PageOK, NEW o, Grows(stream', o), modern => modern',
           UNCHANGED <<sync, registry, deviceReads, phase, page>>
    PROVE  PageOK'
<1>1. sync.cursor \in Nat /\ sync.cursor <= Len(stream) /\ sync.backfill.through \in Nat /\ sync.backfill.through <= sync.cursor
  BY DEF PullInv, SyncOK, CatchUps
<1>2. /\ page.ops \in Seq(Op) /\ page.readSet \in ReadSets /\ page.next \in Nat
      /\ page.next >= From /\ page.next <= Len(stream)
      /\ \A p \in Elem(page.ops) : p \in Elem(stream) /\ InScope(p, page.readSet)
      /\ phase = "pull" /\ page.next = 0 => Elem(page.ops) = {}
      /\ \A i : Covered(i) => stream[i] \in Elem(page.ops)
      /\ page.readSet = Unknown => sync.readSet = Unknown /\ deviceReads = Unknown
      /\ page.readSet # Unknown => modern
      /\ page.devices \in SUBSET Device /\ (page.devices = {} \/ Me \in page.devices)
      /\ page.devices = {} => Me \in registry
  BY DEF PageOK
<1>3. From' = From
  BY DEF From
<1>4. ASSUME NEW i, Covered(i)' PROVE Covered(i) /\ stream'[i] = stream[i]
  <2>1. i \in DOMAIN stream' /\ From < i
    BY <1>3, <1>4 DEF Covered
  <2>2. i \in Nat
    BY <2>1 DEF Grows
  <2>3. i <= Len(stream)
    <3>1. CASE phase = "pull"
      <4>1. i <= page.next
        BY <1>4, <3>1 DEF Covered
      <4> QED
        BY <1>2, <2>2, <4>1 DEF Grows
    <3>2. CASE phase # "pull"
      <4>1. i <= sync.backfill.through
        BY <1>4, <3>2 DEF Covered
      <4> QED
        BY <1>1, <2>2, <4>1 DEF Grows
    <3> QED
      BY <3>1, <3>2
  <2>4. i \in DOMAIN stream /\ stream'[i] = stream[i]
    BY <2>1, <2>3 DEF Grows
  <2> QED
    BY <1>3, <1>4, <2>1, <2>4 DEF Covered
<1>5. \A i : Covered(i)' => stream'[i] \in Elem(page'.ops)
  BY <1>2, <1>4
<1>6. page.next <= Len(stream') /\ \A p \in Elem(page.ops) : p \in Elem(stream')
  BY <1>2 DEF Grows
<1> QED
  BY <1>2, <1>3, <1>5, <1>6 DEF PageOK

\* Nothing is left behind as long as what is held stays held with its text.
LEMMA NoneSkipped ==
    ASSUME PullInv, NEW o, Grows(stream', o), UNCHANGED <<sync, registry, quarantine>>,
           sync.cursor # 0 => \A p \in Held(db) : db.log[p].text /\ RecordOf[p] \in Readable(sync.readSet)
                                                   => p \in Held(db') /\ db'.log[p].text
    PROVE  NothingSkipped'
<1>1. sync.cursor \in Nat /\ sync.cursor <= Len(stream)
  BY DEF PullInv, SyncOK
<1>2. ASSUME NEW i \in 1..sync.cursor, InScope(stream'[i], sync.readSet)
      PROVE  (stream'[i] \in Held(db') /\ db'.log[stream'[i]].text) \/ stream'[i] \in quarantine \/ Awaited(i)'
  <2>1. stream'[i] = stream[i]
    <3>1. i \in DOMAIN stream
      BY <1>1 DEF Grows
    <3> QED
      BY <3>1 DEF Grows
  <2>2. (stream[i] \in Held(db) /\ db.log[stream[i]].text) \/ stream[i] \in quarantine \/ Awaited(i)
    BY <1>2, <2>1 DEF PullInv, NothingSkipped
  <2>3. Awaited(i) => Awaited(i)'
    BY <2>1 DEF Awaited
  <2>4. RecordOf[stream[i]] \in Readable(sync.readSet) /\ sync.cursor # 0
    BY <1>1, <1>2, <2>1 DEF InScope
  <2> QED
    BY <2>1, <2>2, <2>3, <2>4
<1>3. \A p \in quarantine : AuthorOf[p] \notin registry
  BY DEF PullInv, NothingSkipped
<1>4. sync' = sync /\ quarantine' = quarantine /\ registry' = registry
  OBVIOUS
<1> QED
  BY <1>2, <1>3, <1>4 DEF NothingSkipped

\* A step of the server.
LEMMA ServerMoves ==
    ASSUME StoreConstants, PullConstants, PullInv, NEW o, Grows(stream', o), ServerOK', modern => modern',
           UnchangedDevice, UNCHANGED <<unfollowed, resets>>
    PROVE  PullInv'
<1>1. UNCHANGED <<db, sent, sync, registry, quarantine, deviceReads, phase, page>>
  BY DEF UnchangedDevice, deviceVars
<1>2. DeviceOK'
  BY <1>1 DEF PullInv, DeviceOK
<1>3. SyncOK(sync, registry, Len(stream))'
  <2>1. SyncOK(sync, registry, Len(stream)) /\ Len(stream) <= Len(stream') /\ Len(stream) \in Nat /\ Len(stream') \in Nat
    BY DEF PullInv, Grows
  <2> QED
    BY <1>1, <2>1 DEF SyncOK, CatchUps
<1>4. ReadsOK' /\ PhaseOK' /\ OnlyReadable'
  BY <1>1 DEF PullInv, ReadsOK, PhaseOK, OnlyReadable, OnlyReadableHeld
<1>5. page' # NoPage => PageOK'
  BY <1>1, PageStays DEF PullInv
<1>6. NothingSkipped'
  BY <1>1, NoneSkipped
<1>7. resets' = 0 => RowsOK(db, sync.readSet, unfollowed)'
  BY <1>1 DEF PullInv
<1> QED
  BY <1>2, <1>3, <1>4, <1>5, <1>6, <1>7 DEF PullInv

LEMMA ServerSteps ==
    ASSUME StoreConstants, PullConstants, PullInv,
           \/ \E o \in Op : Accept(o)
           \/ \E d \in Device : Enrol(d)
           \/ \E R \in SUBSET Perm : Grant(R)
           \/ UpgradeServer
    PROVE  PullInv'
<1>0. ServerOK /\ StoreOK(db)
  BY DEF PullInv, DeviceOK
<1>1. ASSUME NEW o \in Op, Accept(o) PROVE PullInv'
  <2>1. Grows(stream', o) /\ o \notin OwnOp
    BY <1>0, <1>1, StreamGrows DEF Accept
  <2>2. ServerOK'
    BY <1>0, <1>1, <2>1 DEF Accept, ServerOK, UnchangedDevice, deviceVars, Grows
  <2> QED
    BY <1>1, <2>1, <2>2, ServerMoves DEF Accept, bounds
<1>2. ASSUME stream' = stream, db' = db, enrolled' \in SUBSET Device, Me \in enrolled', granted' \in SUBSET Perm, modern' \in BOOLEAN,
             modern => modern', UnchangedDevice, UNCHANGED <<unfollowed, resets>>
      PROVE  PullInv'
  <2>1. ServerOK'
    BY <1>0, <1>2 DEF ServerOK
  <2>2. PICK o : Grows(stream', o)
    <3>1. stream \in Seq(Op) /\ Len(stream) \in Nat /\ DOMAIN stream = 1..Len(stream)
      BY <1>0 DEF ServerOK
    <3>2. Grows(stream', 0)
      BY <1>2, <3>1 DEF Grows
    <3> QED
      BY <3>2
  <2> QED
    BY <1>2, <2>1, <2>2, ServerMoves
<1>3. ASSUME NEW d \in Device, Enrol(d) PROVE PullInv'
  BY <1>0, <1>2, <1>3 DEF Enrol, ServerOK, UnchangedDevice, deviceVars, bounds
<1>4. ASSUME NEW R \in SUBSET Perm, Grant(R) PROVE PullInv'
  BY <1>0, <1>2, <1>4 DEF Grant, ServerOK, UnchangedDevice, deviceVars
<1>5. ASSUME UpgradeServer PROVE PullInv'
  BY <1>0, <1>2, <1>5 DEF UpgradeServer, ServerOK, UnchangedDevice, deviceVars, bounds
<1> QED
  BY <1>1, <1>3, <1>4, <1>5

\* A command saves a change.
LEMMA SaveKeeps ==
    ASSUME StoreConstants, PullConstants, PullInv, NEW o \in Op, Save(o)
    PROVE  PullInv'
<1>1. /\ o \in OwnOp \ Held(db) /\ db' = Appended(db, Folds, 1, o)
      /\ unfollowed' = IF sync.readSet = Unknown THEN unfollowed \cup {o} ELSE unfollowed
      /\ UNCHANGED <<stream, enrolled, granted, modern, sent, sync, registry, quarantine, deviceReads, phase, page, resets>>
  BY DEF Save, serverVars
<1>2. /\ StoreOK(db) /\ Numbered(db) /\ LogOK(db, sent) /\ sent \in SUBSET OwnOp
      /\ quarantine \in SUBSET (Op \ OwnOp) /\ IsFiniteSet(quarantine) /\ quarantine \cap Held(db) = {}
      /\ registry \in SUBSET Device /\ (\A p \in quarantine : AuthorOf[p] \notin registry)
      /\ unfollowed \in SUBSET (OwnOp \cap Held(db))
  BY DEF PullInv, DeviceOK
<1> DEFINE e == db'
<1>3. Entered(db, e, Folds, o) /\ e.log[o].arrival = 0
  <2>1. o \in Op \ Held(db)
    BY <1>1
  <2> QED
    BY <1>1, <1>2, <2>1, AppendedIs
<1>4. LogOK(e, sent)
  BY <1>1, <1>2, <1>3, EnteredLog
<1>5. /\ StoreOK(e) /\ Numbered(e) /\ Held(e) = Held(db) \cup {o} /\ e.log[o].text
      /\ \A p \in Held(db) \ {o} : e.log[p] = db.log[p]
      /\ \A R, U : Folds = Readable(R) /\ RowsOK(db, R, U) => RowsOK(e, R, U)
  BY <1>3 DEF Entered
<1>6. DeviceOK'
  BY <1>1, <1>2, <1>4, <1>5 DEF DeviceOK
<1>7. ServerOK' /\ SyncOK(sync, registry, Len(stream))' /\ PhaseOK'
  BY <1>1, <1>5 DEF PullInv, ServerOK, PhaseOK
<1>8. ReadsOK'
  BY <1>1, <1>5 DEF PullInv, ReadsOK
<1>9. PICK q : Grows(stream', q)
  <2>1. stream \in Seq(Op) /\ Len(stream) \in Nat /\ DOMAIN stream = 1..Len(stream)
    BY DEF PullInv, ServerOK
  <2>2. Grows(stream', 0)
    BY <1>1, <2>1 DEF Grows
  <2> QED
    BY <2>2
<1>10. page' # NoPage => PageOK'
  BY <1>1, <1>9, PageStays DEF PullInv
<1>11. NothingSkipped'
  <2>1. \A p \in Held(db) : db.log[p].text => p \in Held(e) /\ e.log[p].text
    BY <1>5
  <2> QED
    BY <1>1, <1>9, <2>1, NoneSkipped
<1>12. OnlyReadable'
  BY <1>1, <1>5 DEF PullInv, OnlyReadable, OnlyReadableHeld
<1>13. resets' = 0 => RowsOK(e, sync.readSet, unfollowed')
  <2> SUFFICES ASSUME resets = 0 PROVE RowsOK(e, sync.readSet, unfollowed')
    BY <1>1
  <2>1. Folds = Readable(sync.readSet) /\ RowsOK(db, sync.readSet, unfollowed)
    BY DEF PullInv, ReadsOK, Folds
  <2>2. RowsOK(e, sync.readSet, unfollowed)
    BY <1>5, <2>1
  <2>3. unfollowed \subseteq unfollowed'
    BY <1>1
  <2> QED
    BY <2>2, <2>3 DEF RowsOK, RowOK
<1>14. RowsOK(db, sync.readSet, unfollowed)' = RowsOK(e, sync.readSet, unfollowed')
  BY <1>1
<1> QED
  BY <1>6, <1>7, <1>8, <1>10, <1>11, <1>12, <1>13, <1>14 DEF PullInv

\* A push's answer takes the text of what may not be read, of nothing else.
LEMMA PushKeeps ==
    ASSUME StoreConstants, PullConstants, PullInv, NEW o \in Op, Push(o)
    PROVE  PullInv'
<1>1. /\ phase = "idle" /\ o \in Held(db) \cap OwnOp
      /\ stream' = stream \/ stream' = Append(stream, o)
      /\ UNCHANGED <<enrolled, granted, modern, sync, registry, quarantine, deviceReads, phase, page, unfollowed, resets>>
  BY DEF Push
<1>2. \/ sent' = sent \cup {o} /\ db' = Cleared(db, sent', Record \ Folds)
      \/ sent' = sent /\ db' = db
  BY DEF Push
<1>3. /\ StoreOK(db) /\ Numbered(db) /\ LogOK(db, sent) /\ sent \in SUBSET OwnOp
      /\ quarantine \in SUBSET (Op \ OwnOp) /\ IsFiniteSet(quarantine) /\ quarantine \cap Held(db) = {}
      /\ registry \in SUBSET Device /\ (\A p \in quarantine : AuthorOf[p] \notin registry)
      /\ unfollowed \in SUBSET (OwnOp \cap Held(db))
  BY DEF PullInv, DeviceOK
<1> DEFINE e == db'
<1>4. /\ StoreOK(e) /\ Numbered(e) /\ LogOK(e, sent') /\ sent' \in SUBSET OwnOp /\ Held(e) = Held(db)
      /\ e.rows = db.rows
      /\ \A p \in Held(db) : RecordOf[p] \in Folds => (db.log[p].text => e.log[p].text)
      /\ \A F, r : r \notin Record \ Folds => Foldable(e, F, r) = Foldable(db, F, r)
  <2>1. CASE sent' = sent /\ db' = db
    BY <1>3, <2>1
  <2>2. CASE sent' = sent \cup {o} /\ db' = Cleared(db, sent', Record \ Folds)
    <3> DEFINE N == Record \ Folds
               marked == sent'
    <3>1. ClearedOf(db, e, marked, N)
      BY <1>3, <2>2, ClearedIs
    <3> HIDE DEF e, N, marked
    <3>2. /\ \A p \in Held(db) : /\ e.log[p].arrival = db.log[p].arrival /\ e.log[p].refused = db.log[p].refused
                                 /\ e.log[p].text <=> (db.log[p].text /\ ~(p \in marked /\ RecordOf[p] \in N))
          /\ Numbered(e)
          /\ \A F, r : r \notin N => Foldable(e, F, r) = Foldable(db, F, r)
      BY <1>3, <3>1, ClearedKeeps
    <3>3. StoreOK(e) /\ Held(e) = Held(db) /\ e.rows = db.rows
      BY <3>1 DEF ClearedOf
    <3>4. marked = sent \cup {o}
      BY <2>2 DEF marked
    <3>5. LogOK(e, marked)
      BY <1>3, <3>2, <3>3, <3>4 DEF LogOK
    <3>6. \A p \in Held(db) : RecordOf[p] \in Folds => (db.log[p].text => e.log[p].text)
      BY <3>2 DEF N
    <3>7. marked \in SUBSET OwnOp
      BY <1>1, <1>3, <3>4
    <3> QED
      BY <3>2, <3>3, <3>5, <3>6, <3>7 DEF N, marked, e
  <2> QED
    BY <1>2, <2>1, <2>2
<1>5. DeviceOK'
  BY <1>1, <1>3, <1>4 DEF DeviceOK
<1>6. Grows(stream', o)
  BY <1>1, StreamGrows DEF PullInv
<1>7. ServerOK'
  BY <1>1, <1>4, <1>6 DEF PullInv, ServerOK, Grows
<1>8. SyncOK(sync, registry, Len(stream))'
  <2>1. SyncOK(sync, registry, Len(stream)) /\ Len(stream) <= Len(stream') /\ Len(stream) \in Nat /\ Len(stream') \in Nat
    BY <1>6 DEF PullInv, Grows
  <2> QED
    BY <1>1, <2>1 DEF SyncOK, CatchUps
<1>9. ReadsOK' /\ PhaseOK' /\ page' = NoPage
  BY <1>1, <1>4 DEF PullInv, ReadsOK, PhaseOK
<1>10. OnlyReadable'
  BY <1>1, <1>4 DEF PullInv, OnlyReadable, OnlyReadableHeld
<1>11. NothingSkipped'
  <2>1. sync.cursor # 0 => Folds = Readable(sync.readSet)
    BY DEF PullInv, ReadsOK, Folds
  <2>2. sync.cursor # 0 => \A p \in Held(db) : db.log[p].text /\ RecordOf[p] \in Readable(sync.readSet)
                                                   => p \in Held(db') /\ db'.log[p].text
    BY <1>4, <2>1
  <2> QED
    BY <1>1, <1>6, <2>2, NoneSkipped
<1>12. ASSUME resets = 0 PROVE RowsOK(e, sync.readSet, unfollowed)
  <2>1. Folds = Readable(sync.readSet) /\ RowsOK(db, sync.readSet, unfollowed)
    BY <1>12 DEF PullInv, ReadsOK, Folds
  <2>2. \A r : Foldable(e, Folds, r) = Foldable(db, Folds, r)
    <3>1. \A r : r \in Folds => r \notin Record \ Folds
      OBVIOUS
    <3>2. \A r : r \notin Folds => Foldable(e, Folds, r) = {} /\ Foldable(db, Folds, r) = {}
      BY DEF Foldable
    <3> QED
      BY <1>4, <3>1, <3>2
  <2> QED
    BY <1>4, <2>1, <2>2 DEF RowsOK, RowOK, FoldsTo
<1>13. resets' = 0 => RowsOK(db, sync.readSet, unfollowed)'
  BY <1>1, <1>12
<1> QED
  BY <1>5, <1>7, <1>8, <1>9, <1>10, <1>11, <1>13 DEF PullInv

\* A step that gives up the answer being handled.
LEMMA GiveUpKeeps ==
    ASSUME PullInv, phase' = "idle", page' = NoPage, deviceReads' = deviceReads \/ deviceReads' = sync.readSet,
           UNCHANGED <<stream, enrolled, granted, modern, db, sent, sync, registry, quarantine, unfollowed, resets>>
    PROVE  PullInv'
<1>1. ServerOK' /\ DeviceOK' /\ SyncOK(sync, registry, Len(stream))'
  BY DEF PullInv, ServerOK, DeviceOK
<1>2. PhaseOK'
  BY DEF PhaseOK
<1>3. ReadsOK'
  <2>1. sync.readSet \in ReadSets
    BY DEF PullInv, SyncOK
  <2> QED
    BY <2>1 DEF PullInv, ReadsOK
<1>4. NothingSkipped' /\ OnlyReadable'
  BY DEF PullInv, NothingSkipped, Awaited, OnlyReadable, OnlyReadableHeld
<1>5. (resets = 0 => RowsOK(db, sync.readSet, unfollowed))'
  BY DEF PullInv
<1> QED
  BY <1>1, <1>2, <1>3, <1>4, <1>5 DEF PullInv

LEMMA FailKeeps == ASSUME PullInv, Fail \/ StopForUpdate \/ UpdateApp PROVE PullInv'
<1>1. CASE Fail
  BY <1>1, GiveUpKeeps DEF Fail, serverVars
<1>2. CASE StopForUpdate
  BY <1>2, GiveUpKeeps DEF StopForUpdate, OnlyPhase, serverVars, deviceVars, bounds
<1>3. CASE UpdateApp
  BY <1>3, GiveUpKeeps DEF UpdateApp, serverVars, bounds
<1> QED
  BY <1>1, <1>2, <1>3

\* An enrolment starts the watermarks over.
LEMMA ReenrolKeeps == ASSUME PullConstants, PullInv, Reenrol PROVE PullInv'
<1>1. /\ phase = "idle" /\ resets' = resets + 1
      /\ sync' = [cursor |-> 0, readSet |-> Unknown, backfill |-> NoBackfill, version |-> 0]
      /\ UNCHANGED <<stream, enrolled, granted, modern, db, sent, registry, quarantine, deviceReads, phase, page, unfollowed>>
  BY DEF Reenrol, serverVars
<1>2. ServerOK' /\ DeviceOK'
  BY <1>1 DEF PullInv, ServerOK, DeviceOK
<1>3. Len(stream) \in Nat
  BY DEF PullInv, ServerOK
<1>4. SyncOK(sync', registry, Len(stream))
  BY <1>1, <1>3 DEF SyncOK, IsSync, ReadSets, CatchUps, NoBackfill
<1>5. SyncOK(sync, registry, Len(stream))'
  BY <1>1, <1>4
<1>6. PhaseOK' /\ page' = NoPage
  BY <1>1 DEF PullInv, PhaseOK
<1>7. resets' # 0 /\ resets' > 0 /\ resets' \in Nat
  BY <1>1 DEF PullInv, ReadsOK
<1>8. ReadsOK'
  BY <1>1, <1>7 DEF PullInv, ReadsOK
<1>9. NothingSkipped' /\ OnlyReadable'
  <2>1. \A i \in 1..0 : FALSE
    OBVIOUS
  <2>2. \A o \in quarantine : AuthorOf[o] \notin registry
    BY DEF PullInv, NothingSkipped
  <2>3. NothingSkipped'
    BY <1>1, <2>1, <2>2 DEF NothingSkipped
  <2> QED
    BY <1>7, <2>3 DEF OnlyReadable
<1> QED
  BY <1>2, <1>5, <1>6, <1>7, <1>8, <1>9 DEF PullInv

\* Requests, and their answers.
LEMMA AskKeeps == ASSUME StoreConstants, PullConstants, PullInv, StartPull \/ Ask \/ AskAgain PROVE PullInv'
<1>1. UNCHANGED <<stream, enrolled, granted, modern, db, sent, sync, registry, quarantine, deviceReads, unfollowed, resets>>
  BY DEF StartPull, Ask, AskAgain, OnlyPhase, serverVars, deviceVars, bounds
<1>2. ServerOK' /\ DeviceOK' /\ SyncOK(sync, registry, Len(stream))' /\ ReadsOK'
  BY <1>1 DEF PullInv, ServerOK, DeviceOK, ReadsOK
<1>3. NothingSkipped' /\ OnlyReadable'
  BY <1>1 DEF PullInv, NothingSkipped, Awaited, OnlyReadable, OnlyReadableHeld
<1>4. (resets = 0 => RowsOK(db, sync.readSet, unfollowed))'
  BY <1>1 DEF PullInv
<1>5. CASE StartPull
  <2>1. PhaseOK' /\ page' = NoPage
    BY <1>5 DEF StartPull, PullInv, PhaseOK
  <2> QED
    BY <1>2, <1>3, <1>4, <2>1 DEF PullInv
<1>6. CASE Ask \/ AskAgain
  <2>1. phase # "idle" /\ phase' = phase
    BY <1>6 DEF Ask, AskAgain, PullInv, PhaseOK
  <2> DEFINE back == IF phase = "pull" THEN NoBackfill ELSE sync.backfill
  <2>2. PICK echoed \in {0, sync.version}, times \in {1, 2} : page' = Answer(From, back, echoed, times)
    BY <1>6 DEF Ask, AskAgain, From
  <2>3. (phase = "pull" => back = NoBackfill) /\ (phase # "pull" => back = sync.backfill)
    OBVIOUS
  <2> HIDE DEF back
  <2>4. PageOK'
    <3>1. ServerOK /\ SyncOK(sync, registry, Len(stream)) /\ ReadsOK /\ PhaseOK
      BY DEF PullInv
    <3> QED
      BY <1>1, <2>1, <2>2, <2>3, <3>1, AnswerIs
  <2>5. PhaseOK'
    BY <1>1, <2>1 DEF PullInv, PhaseOK
  <2> QED
    BY <1>2, <1>3, <1>4, <2>4, <2>5 DEF PullInv
<1> QED
  BY <1>5, <1>6

\* A page is applied.
LEMMA ApplyKeeps == ASSUME StoreConstants, PullConstants, PullInv, ApplyPage PROVE PullInv'
<1> DEFINE x == Batch
<1>1. /\ page # NoPage /\ page' = NoPage
      /\ db' = x.db /\ quarantine' = x.quarantine /\ registry' = x.registry /\ sync' = x.sync
      /\ deviceReads' = IF page.readSet = Unknown THEN deviceReads ELSE page.readSet
      /\ UNCHANGED <<stream, enrolled, granted, modern, sent, unfollowed, resets>>
  BY DEF ApplyPage, Ready, serverVars, bounds
<1>2. phase' = "pull" \/ (phase' = "catch-up" /\ x.sync.backfill # NoBackfill) \/ phase' = "idle"
  BY DEF ApplyPage
<1>3. PageOK /\ phase # "idle"
  BY <1>1 DEF PullInv, PhaseOK
<1>4. Ended(x)
  BY <1>3, BatchIs
<1> HIDE DEF x
<1>5. /\ WorkOK(x) /\ Waiting(x)
      /\ SyncOK(x.sync, x.registry, Len(stream)) /\ x.sync.readSet = page.readSet
      /\ x.sync.cursor = (IF phase = "pull" THEN page.next ELSE sync.cursor)
      /\ \A o \in Held(x.db) \cup x.quarantine : o \in Held(db) \cup quarantine \cup Elem(page.ops)
      /\ (resets = 0 => \A o \in Held(x.db) \cup x.quarantine : o \notin OwnOp => RecordOf[o] \in Readable(page.readSet))
      /\ (resets = 0 => RowsOK(x.db, page.readSet, unfollowed))
      /\ \A i \in 1..x.sync.cursor : InScope(stream[i], page.readSet) => Got(x, stream[i]) \/ StillAsks(x.sync.backfill, i)
  BY <1>4 DEF Ended
<1>6. /\ StoreOK(x.db) /\ Numbered(x.db) /\ LogOK(x.db, sent)
      /\ x.quarantine \in SUBSET (Op \ OwnOp) /\ IsFiniteSet(x.quarantine) /\ x.quarantine \cap Held(x.db) = {}
      /\ x.registry \in SUBSET Device /\ Held(db) \cap OwnOp \subseteq Held(x.db)
  BY <1>5 DEF WorkOK
<1>7. ServerOK'
  BY <1>1, <1>6 DEF PullInv, ServerOK
<1>8. DeviceOK'
  BY <1>1, <1>5, <1>6 DEF PullInv, DeviceOK, Waiting
<1>9. SyncOK(sync, registry, Len(stream))'
  BY <1>1, <1>5
<1>10. PhaseOK'
  BY <1>1, <1>2 DEF PhaseOK
<1>11. ReadsOK'
  <2>1. page.readSet \in ReadSets /\ (page.readSet # Unknown => modern)
        /\ (page.readSet = Unknown => sync.readSet = Unknown /\ deviceReads = Unknown)
    BY <1>3 DEF PageOK
  <2>2. deviceReads' = page.readSet /\ sync'.readSet = page.readSet
    BY <1>1, <1>5, <2>1
  <2>3. Elem(page.ops) \cap OwnOp \subseteq Held(db)
    BY <1>3 DEF PageOK, PullInv, ServerOK
  <2>4. quarantine \cap OwnOp = {}
    BY DEF PullInv, DeviceOK
  <2>5. resets = 0 /\ page.readSet = Unknown => Held(x.db) \cap OwnOp \subseteq unfollowed
    BY <1>5, <2>1, <2>3, <2>4 DEF PullInv, ReadsOK
  <2>6. ASSUME resets = 0, page.readSet = Unknown, x.sync.cursor = 0
        PROVE  x.quarantine = {} /\ Held(x.db) \subseteq OwnOp
    <3>1. phase = "pull"
      BY <1>3, <2>1, <2>6 DEF PullInv, PhaseOK, SyncOK
    <3>2. page.next = 0 /\ sync.cursor = 0
      BY <1>3, <1>5, <2>6, <3>1 DEF PageOK, From, PullInv, SyncOK
    <3>3. Elem(page.ops) = {}
      BY <1>3, <3>1, <3>2 DEF PageOK
    <3>4. quarantine = {} /\ Held(db) \subseteq OwnOp
      BY <2>1, <2>6, <3>2 DEF PullInv, ReadsOK
    <3>5. \A o \in Held(x.db) \cup x.quarantine : o \in OwnOp
      BY <1>5, <3>3, <3>4
    <3> QED
      BY <1>6, <3>5
  <2> QED
    BY <1>1, <2>1, <2>2, <2>5, <2>6 DEF PullInv, ReadsOK
<1>12. NothingSkipped'
  <2>1. ASSUME NEW i \in 1..x.sync.cursor, InScope(stream[i], page.readSet)
        PROVE  (stream[i] \in Held(x.db) /\ x.db.log[stream[i]].text) \/ stream[i] \in x.quarantine \/ Awaited(i)'
    <3>1. StillAsks(x.sync.backfill, i) => Awaited(i)'
      BY <1>1 DEF StillAsks, Awaited
    <3> QED
      BY <1>5, <2>1, <3>1 DEF Got
  <2> QED
    BY <1>1, <1>5, <2>1 DEF NothingSkipped, Waiting
<1>13. OnlyReadable'
  BY <1>1, <1>5 DEF OnlyReadable, OnlyReadableHeld
<1>14. (resets = 0 => RowsOK(db, sync.readSet, unfollowed))'
  BY <1>1, <1>5
<1> QED
  BY <1>1, <1>7, <1>8, <1>9, <1>10, <1>11, <1>12, <1>13, <1>14 DEF PullInv

LEMMA StutterKeeps == ASSUME PullInv, UNCHANGED pullVars PROVE PullInv'
<1>1. UNCHANGED <<stream, enrolled, granted, modern, db, sent, sync, registry, quarantine, deviceReads, phase, page, unfollowed, resets>>
  BY DEF pullVars, serverVars, deviceVars, bounds
<1>2. ServerOK' /\ DeviceOK' /\ SyncOK(sync, registry, Len(stream))' /\ ReadsOK' /\ PhaseOK'
  BY <1>1 DEF PullInv, ServerOK, DeviceOK, ReadsOK, PhaseOK
<1>3. NothingSkipped' /\ OnlyReadable'
  BY <1>1 DEF PullInv, NothingSkipped, Awaited, OnlyReadable, OnlyReadableHeld
<1>4. (resets = 0 => RowsOK(db, sync.readSet, unfollowed))'
  BY <1>1 DEF PullInv
<1>5. page' # NoPage => PageOK'
  BY <1>1 DEF PullInv, PageOK, Covered, From
<1> QED
  BY <1>2, <1>3, <1>4, <1>5 DEF PullInv

LEMMA StepKeeps == ASSUME StoreConstants, PullConstants, PullInv, [PullNext]_pullVars PROVE PullInv'
<1>1. ASSUME NEW o \in Op, Accept(o) \/ Save(o) \/ Push(o) PROVE PullInv'
  BY <1>1, ServerSteps, SaveKeeps, PushKeeps
<1>2. ASSUME (\E d \in Device : Enrol(d)) \/ (\E R \in SUBSET Perm : Grant(R)) \/ UpgradeServer PROVE PullInv'
  BY <1>2, ServerSteps
<1>3. CASE Reenrol
  BY <1>3, ReenrolKeeps
<1>4. CASE Pulling
  BY <1>4, AskKeeps, ApplyKeeps, FailKeeps DEF Pulling
<1>5. CASE Fail \/ UpdateApp
  BY <1>5, FailKeeps
<1>6. CASE UNCHANGED pullVars
  BY <1>6, StutterKeeps
<1> QED
  BY <1>1, <1>2, <1>3, <1>4, <1>5, <1>6 DEF PullNext, Environment

----------------------------------------------------------------------------
\* Every state of the device and the server it pulls from keeps PullInv.
LEMMA PullInvHolds == PullSpec => []PullInv
<1>1. PullInit => PullInv
  BY StoreConstants, PullConstants, StartHolds
<1>2. PullInv /\ [PullNext]_pullVars => PullInv'
  BY StoreConstants, PullConstants, StepKeeps
<1> QED
  BY <1>1, <1>2, PTL DEF PullSpec

\* The cursor never leaves anything behind (pull.ts, runPullPhase): whatever
\* the device may read up to it is held with its text, set aside until its
\* signer's key comes, or in the range of the stored catch-up.
THEOREM NothingIsSkipped == PullSpec => []NothingSkipped
<1>1. PullInv => NothingSkipped
  BY DEF PullInv
<1> QED
  BY <1>1, PullInvHolds, PTL

\* Least privilege (pull.ts followReadSet, read-purge.ts): until the phone is
\* enrolled again, what it pulled and holds or set aside is of a type the
\* read set it follows allows.
THEOREM OnlyReadableStays == PullSpec => []OnlyReadable
<1>1. PullInv => OnlyReadable
  BY DEF PullInv
<1> QED
  BY <1>1, PullInvHolds, PTL

\* Through pages, failed pages, changes of what may be read and pushes the
\* rows stay the canonical fold of what the log holds and the read set lets
\* the device fold, and each pulled operation is counted (engine.ts, pull.ts).
THEOREM RowsStayFolded == PullSpec => []RowsFollowReads
<1>1. PullInv => RowsFollowReads
  <2>1. PullInv => AllCounted(db)
    BY DEF PullInv, DeviceOK, Numbered
  <2>2. PullInv /\ resets = 0 => RowsOK(db, sync.readSet, unfollowed)
    BY DEF PullInv
  <2> QED
    BY <2>1, <2>2 DEF RowsFollowReads, RowsOK, RowOK
<1> QED
  BY <1>1, PullInvHolds, PTL
=============================================================================
