------------------------------ MODULE Projection ------------------------------
(***************************************************************************)
(* The projection engine and its rebuild (packages/core/src/projection) on *)
(* one device: it appends, pulls, has changes refused, narrows and widens  *)
(* what it reads, and re-folds every record after an app update, a page of *)
(* records per transaction, while all of that goes on.                     *)
(***************************************************************************)
EXTENDS LogStore

CONSTANTS
    Walk,        \* per record, its place in (entityType, entityId) order
    PageSize,    \* records per rebuild batch
    MaxArrivals, \* bound: arrival numbers given out
    MaxVersions  \* bound: app versions

ASSUME ProjectionConstants ==
    /\ Walk \in [Record -> Nat \ {0}]  \* a fresh cursor is before every record
    /\ \A r, s \in Record : Walk[r] = Walk[s] => r = s
    /\ PageSize \in Nat \ {0} /\ MaxVersions \in Nat /\ MaxArrivals \in Nat

----------------------------------------------------------------------------
(* "cursor" is the stored rebuild_cursor of a module: none, or  *)
(* the version it rebuilds to and the records re-folded so far.  "batch"   *)
(* is a call of runRebuild that has read the cursor and awaits its page.   *)

NoCursor == [to |-> 0, after |-> 0]
NoBatch == [module |-> {}, cursor |-> NoCursor]

VARIABLES
    store,      \* the device's log, rows and watermarks
    reads,      \* the records the device may read
    version,    \* of the running app's appliers
    built,      \* per module, the version recorded as rebuilt, or 0
    cursor,     \* per module, the rebuild under way
    batch       \* the rebuild call under way

projectionVars == <<store, reads, version, built, cursor, batch>>

ProjectionInit ==
    /\ store = EmptyStore /\ reads = Record /\ version = 1
    /\ built = [m \in Module |-> 0] /\ cursor = [m \in Module |-> NoCursor]
    /\ batch = NoBatch

Keep == UNCHANGED <<version, built, cursor, batch>>

AppendOwn(o) ==
    /\ o \in OwnOp \ Held(store)
    /\ store' = Appended(store, reads, version, o)
    /\ UNCHANGED reads /\ Keep

PullForeign(o) ==
    /\ o \in Op \ (OwnOp \cup Held(store)) /\ RecordOf[o] \in reads
    /\ NextArrival(store) <= MaxArrivals
    /\ store' = Pulled(store, reads, version, o)
    /\ UNCHANGED reads /\ Keep

\* refoldRefused, in the transaction that marks the op refused.
RefuseOwn(o) ==
    /\ o \in Held(store) \cap OwnOp /\ ~store.log[o].refused
    /\ LET refused == [store EXCEPT !.log[o].refused = TRUE]
       IN  store' = Refold(refused, reads, version, RecordOf[o])
    /\ UNCHANGED reads /\ Keep

Narrow(r) ==
    /\ r \in reads /\ reads' = reads \ {r}
    /\ LET left == Purged(store, reads', version, {r})
       IN  store' = RefoldAll(left, reads', version, OwnRecords(left, {r}))
    /\ Keep

Widen(r) ==
    /\ r \notin reads /\ reads' = reads \cup {r}
    /\ store' = RefoldAll(store, reads', version, OwnRecords(store, {r}))
    /\ Keep

\* A new app: the process starts again, what is stored stays.
UpdateApp ==
    /\ version < MaxVersions /\ version' = version + 1
    /\ batch' = NoBatch
    /\ UNCHANGED <<store, reads, built, cursor>>

Outdated(m) == built[m] # version \/ cursor[m] # NoCursor
\* Mutant: a cursor another version left is carried on from.
ResumedAny(m) ==
    IF cursor[m] # NoCursor THEN [cursor[m] EXCEPT !.to = version] ELSE [to |-> version, after |-> 0]
Resumed(m) == IF cursor[m].to = version THEN cursor[m] ELSE [to |-> version, after |-> 0]

\* runRebuild up to its page: resume, or write a fresh cursor.
StartBatch(m) ==
    /\ batch = NoBatch /\ Outdated(m)
    /\ cursor' = [cursor EXCEPT ![m] = Resumed(m)]
    /\ batch' = [module |-> {m}, cursor |-> Resumed(m)]
    /\ UNCHANGED <<store, reads, version, built>>

\* readEntityPage: the next records in walk order with an op of a folded type.
ToWalk(m, after) ==
    {r \in Record : /\ ModuleOf[r] = m /\ r \in reads /\ Walk[r] > after
                    /\ \E o \in Held(store) : RecordOf[o] = r}
Page(m, after) ==
    {r \in ToWalk(m, after) : Cardinality({s \in ToWalk(m, after) : Walk[s] < Walk[r]}) < PageSize}

\* One batch transaction: the page re-folded, and the cursor moved or cleared.
CommitBatch(m) ==
    /\ batch.module = {m} /\ batch' = NoBatch
    /\ LET page == Page(m, batch.cursor.after)
           done == Cardinality(page) < PageSize
       IN  IF cursor[m] # batch.cursor THEN UNCHANGED <<store, built, cursor>>
           ELSE /\ store' = RefoldAll(store, reads, version, page)
                /\ cursor' = [cursor EXCEPT ![m] =
                       IF done THEN NoCursor
                       ELSE [to |-> version, after |-> Biggest({Walk[r] : r \in page})]]
                /\ built' = IF done THEN [built EXCEPT ![m] = version] ELSE built
    /\ UNCHANGED <<reads, version>>

\* The batch's transaction fails: the cursor stays, a later call resumes.
FailBatch == batch # NoBatch /\ batch' = NoBatch /\ UNCHANGED <<store, reads, version, built, cursor>>

ProjectionNext ==
    \/ \E o \in Op : AppendOwn(o) \/ PullForeign(o) \/ RefuseOwn(o)
    \/ \E r \in Record : Narrow(r) \/ Widen(r)
    \/ \E m \in Module : StartBatch(m) \/ CommitBatch(m)
    \/ UpdateApp \/ FailBatch

ProjectionSpec == ProjectionInit /\ [][ProjectionNext]_projectionVars

----------------------------------------------------------------------------
\* Order-independent convergence (engine.ts): whatever the order operations
\* came in, were refused or stopped being readable, and however far a rebuild
\* is, the rows are the canonical fold of what the log holds.
RowsAreCanonical == RowsMatch(store, reads)

\* A rebuild that recorded its version (rebuild.ts) missed no record: nothing
\* is left that an older version's appliers folded, although operations kept
\* arriving and the rebuild was interrupted, resumed or overtaken by an update.
RebuiltIsCurrent ==
    \A r \in Record : ~Outdated(ModuleOf[r]) =>
        \A i \in DOMAIN store.rows[r] : store.rows[r][i][2] = version
=============================================================================
