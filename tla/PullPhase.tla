------------------------------- MODULE PullPhase -------------------------------
(***************************************************************************)
(* The pull phase (packages/core/src/sync/pull.ts) against the server's    *)
(* pull (apps/server/src/sync/pull.ts), for one device.  The server's log  *)
(* grows, devices enrol, and the owner changes what the device may read,   *)
(* while the device asks for pages one at a time and applies each in one   *)
(* transaction.  The device's log, rows and watermarks are a LogStore.      *)
(*                                                                         *)
(* A type's read permission stands for the type: an operation is read with *)
(* ReadOf its record.  An operation another store keeps is never served.   *)
(* Every wire op parses; an op of a newer app is one of NewOp.             *)
(***************************************************************************)
EXTENDS LogStore

CONSTANTS
    ElsewhereOp,  \* operations of another store
    NewOp,        \* operations the installed app cannot fold before its update
    Perm,         \* read permissions
    Everyone,     \* what a type needs that every device reads
    ReadOf,       \* per record, the permission its types are read with, or Everyone
    Device, Me,   \* signers
    Early,        \* devices enrolled from the start
    AuthorOf,     \* per op, its signer
    Limit,        \* ops per page
    MaxGrants,    \* bound: changes of what the device may read
    MaxLost,      \* bound: lost answers, failed transactions
    MaxResets     \* bound: re-enrolments of this device

ASSUME PullConstants ==
    /\ ElsewhereOp \cup NewOp \subseteq Op \ OwnOp /\ Everyone \notin Perm
    /\ ReadOf \in [Record -> Perm \cup {Everyone}]
    /\ Me \in Early /\ Early \subseteq Device /\ AuthorOf \in [Op -> Device]
    /\ \A o \in OwnOp : AuthorOf[o] = Me
    /\ IsFiniteSet(Device)
    /\ Limit \in Nat \ {0} /\ MaxGrants \in Nat /\ MaxLost \in Nat /\ MaxResets \in Nat

Unknown == {Everyone}         \* readSet null
NoBackfill == [reads |-> {}, through |-> 0, cursor |-> 0]
NoPage == [at |-> "none"]

VARIABLES
    stream,     \* the server's log: operations by serverSeq
    enrolled,   \* its devices
    granted,    \* the read permissions it computes for this device
    modern,     \* FALSE: an older server, that sends no read set and fewer keys
    db,         \* the device's store: log, rows, watermarks
    sent,       \* own operations marked synced
    sync,       \* sync_state: cursor, readSet, backfill, version
    registry,   \* devices whose keys it knows
    quarantine, \* operations set aside
    deviceReads,\* the read set in memory, which every fold asks
    app,        \* "old" or "new"
    phase,      \* "idle", "pull" or "catch-up"
    page,       \* the answer being handled
    unfollowed, \* own changes saved before the device followed a read set
    grants, lost, resets  \* so far

serverVars == <<stream, enrolled, granted, modern>>
deviceVars == <<db, sent, sync, registry, quarantine, deviceReads, app>>
bounds == <<unfollowed, grants, lost, resets>>
pullVars == <<serverVars, deviceVars, phase, page, bounds>>

----------------------------------------------------------------------------
(* The server.                                                             *)

Elem(s) == {s[i] : i \in DOMAIN s}

\* typesReadableWith: the records a read set covers.
Readable(R) == {r \in Record : ReadOf[r] = Everyone \/ R = Unknown \/ ReadOf[r] \in R}
ReadWith(R) == {r \in Record : ReadOf[r] \in R}

\* directoryVersion: counts devices, above any version of the older server.
DirectoryVersion == (IF modern THEN 100 ELSE 0) + Cardinality(enrolled)
\* deviceSnapshot; the older server named only the store's own devices.
Snapshot == IF modern THEN enrolled ELSE enrolled \cap Early

InScope(o, R) == o \notin ElsewhereOp /\ RecordOf[o] \in Readable(R)

\* What the answer says this device may read.
ServedReads == IF modern THEN granted ELSE Unknown
\* The positions a request selects, of which a page holds the first Limit.
Selected(from, back) ==
    {i \in DOMAIN stream :
        /\ i > from /\ InScope(stream[i], ServedReads)
        /\ back # NoBackfill =>
              /\ RecordOf[stream[i]] \in ReadWith(back.reads \cap granted)
              /\ i <= back.through}
FirstOf(S, n) == {i \in S : Cardinality({j \in S : j < i}) < n}
Ascending(S) == [n \in 1..Cardinality(S) |-> CHOOSE i \in S : Cardinality({j \in S : j < i}) = n - 1]

\* runPull.
Answer(from, back, echoed, times) ==
    LET all == Selected(from, back)
        served == FirstOf(all, Limit)
    IN  [at |-> "answered", times |-> times,
         ops |-> LET order == Ascending(served) IN [i \in DOMAIN order |-> stream[order[i]]],
         next |-> IF served = {} THEN from ELSE Biggest(served),
         more |-> served # all,
         readSet |-> ServedReads,
         devices |-> IF echoed = DirectoryVersion THEN {} ELSE Snapshot,
         version |-> DirectoryVersion]

UnchangedDevice == UNCHANGED <<deviceVars, phase, page>>

\* Another device's operation, or the system's, is accepted.
Accept(o) ==
    /\ o \in Op \ (OwnOp \cup Elem(stream)) /\ AuthorOf[o] \in enrolled
    /\ stream' = Append(stream, o)
    /\ UNCHANGED <<enrolled, granted, modern, bounds>> /\ UnchangedDevice

Enrol(d) ==
    /\ d \notin enrolled /\ enrolled' = enrolled \cup {d}
    /\ UNCHANGED <<stream, granted, modern, bounds>> /\ UnchangedDevice

\* The owner changes roles or staff: deviceReadSet answers otherwise.
Grant(R) ==
    /\ grants < MaxGrants /\ grants' = grants + 1
    /\ R # granted /\ granted' = R
    /\ UNCHANGED <<stream, enrolled, modern, unfollowed, lost, resets>> /\ UnchangedDevice

\* Today's server is deployed.
UpgradeServer ==
    /\ ~modern /\ modern' = TRUE
    /\ UNCHANGED <<stream, enrolled, granted, bounds>> /\ UnchangedDevice

----------------------------------------------------------------------------
(* The device's own changes, and its app.                                  *)

Folds == Readable(deviceReads)

\* A command saves a change.
Save(o) ==
    /\ o \in OwnOp \ Held(db)
    /\ db' = Appended(db, Folds, 1, o)
    /\ unfollowed' = IF sync.readSet = Unknown THEN unfollowed \cup {o} ELSE unfollowed
    /\ UNCHANGED <<serverVars, sent, sync, registry, quarantine, deviceReads, app, phase, page,
                   grants, lost, resets>>

\* clearHeldText: what the server has and this device may not read keeps
\* only its place in the chain.
Cleared(d, marked, R) ==
    [d EXCEPT !.log = [o \in Held(d) |->
        IF o \in marked /\ RecordOf[o] \in R THEN [@[o] EXCEPT !.text = FALSE] ELSE @[o]]]

\* A push between two pulls: the server takes the change; the answer, if it
\* arrives, marks it synced and held text is cleared.
Push(o) ==
    /\ phase = "idle" /\ o \in (Held(db) \cap OwnOp) \ sent
    /\ stream' = IF o \in Elem(stream) THEN stream ELSE Append(stream, o)
    /\ \/ /\ sent' = sent \cup {o}
          /\ db' = Cleared(db, sent', Record \ Folds)
          /\ UNCHANGED lost
       \/ /\ lost < MaxLost /\ lost' = lost + 1 /\ o \notin Elem(stream)
          /\ UNCHANGED <<sent, db>>
    /\ UNCHANGED <<enrolled, granted, modern, sync, registry, quarantine, deviceReads, app, phase, page,
                   unfollowed, grants, resets>>

UpdateApp ==
    /\ app = "old" /\ app' = "new" /\ phase' = "idle" /\ page' = NoPage
    /\ deviceReads' = sync.readSet
    /\ UNCHANGED <<serverVars, db, sent, sync, registry, quarantine, bounds>>

\* resetSyncStateForNewDevice, between two cycles.
Reenrol ==
    /\ resets < MaxResets /\ resets' = resets + 1 /\ phase = "idle"
    /\ sync' = [cursor |-> 0, readSet |-> Unknown, backfill |-> NoBackfill, version |-> 0]
    /\ UNCHANGED <<serverVars, db, sent, registry, quarantine, deviceReads, app, phase, page,
                   unfollowed, grants, lost>>

----------------------------------------------------------------------------
(* The phase.                                                              *)

OnlyPhase == UNCHANGED <<serverVars, deviceVars, bounds>>

StartPull == phase = "idle" /\ phase' = "pull" /\ UNCHANGED page /\ OnlyPhase

\* pullPage: the request goes out, and the server answers it.
Ask ==
    /\ phase # "idle" /\ page = NoPage
    /\ page' = IF phase = "pull" THEN Answer(sync.cursor, NoBackfill, sync.version, 1)
               ELSE Answer(sync.backfill.cursor, sync.backfill, sync.version, 1)
    /\ UNCHANGED phase /\ OnlyPhase

Known == IF page.devices = {} THEN registry ELSE page.devices
UnknownSigner == \E o \in Elem(page.ops) : AuthorOf[o] \notin Known

\* The one forced re-pull, with version 0.
AskAgain ==
    /\ page # NoPage /\ UnknownSigner /\ page.times = 1
    /\ page' = IF phase = "pull" THEN Answer(sync.cursor, NoBackfill, 0, 2)
               ELSE Answer(sync.backfill.cursor, sync.backfill, 0, 2)
    /\ UNCHANGED phase /\ OnlyPhase

Unfoldable == app = "old" /\ Elem(page.ops) \cap NewOp # {}
Ready == page # NoPage /\ (UnknownSigner => page.times = 2)

\* AppUpdateRequiredError: nothing of the page is applied.
StopForUpdate ==
    /\ Ready /\ Unfoldable
    /\ phase' = "idle" /\ page' = NoPage /\ OnlyPhase

\* Mutant: the read set in memory is not put back.
FailForgetful ==
    /\ page # NoPage /\ lost < MaxLost /\ lost' = lost + 1
    /\ phase' = "idle" /\ page' = NoPage
    /\ \/ UNCHANGED deviceReads
       \/ Ready /\ ~Unfoldable /\ deviceReads' = page.readSet
    /\ UNCHANGED <<serverVars, db, sent, sync, registry, quarantine, app, unfollowed, grants, resets>>
\* The request is lost, or the batch's transaction fails and rolls back:
\* the read set in memory goes back to the stored one.
Fail ==
    /\ page # NoPage /\ lost < MaxLost /\ lost' = lost + 1
    /\ phase' = "idle" /\ page' = NoPage
    /\ \/ UNCHANGED deviceReads
       \/ Ready /\ ~Unfoldable /\ deviceReads' = sync.readSet
    /\ UNCHANGED <<serverVars, db, sent, sync, registry, quarantine, app, unfollowed, grants, resets>>

\* The transaction, as a chain of changes to what it works on.
Work == [db |-> db, quarantine |-> quarantine, registry |-> registry, sync |-> sync,
         folds |-> Folds, restarted |-> FALSE]

\* 1. replaceDeviceRegistry.
TakeSidecar(w) ==
    IF page.devices = {} THEN w
    ELSE [w EXCEPT !.registry = page.devices, !.sync.version = page.version]

\* 2. releaseQuarantined: an op whose signer is now known enters the log.
ReleaseOne(w, o) ==
    LET out == [w EXCEPT !.quarantine = @ \ {o}] IN
    IF AuthorOf[o] \notin w.registry THEN w
    ELSE IF o \in Held(w.db) THEN out
    ELSE [out EXCEPT !.db = Pulled(@, w.folds, 1, o)]
Release(w) ==
    IF page.devices = {} THEN w
    ELSE LET order == InOrder(w.quarantine)
             released[n \in 0..Cardinality(w.quarantine)] ==
                 IF n = 0 THEN w ELSE ReleaseOne(released[n - 1], order[n])
         IN  released[Cardinality(w.quarantine)]

\* 3. followReadSet.  A device with no read set yet read everything, unless it
\* has pulled nothing.
\* Mutant: it counts as having followed this one already.
BeforeAsNow(w) == IF w.sync.readSet # Unknown THEN w.sync.readSet ELSE page.readSet
Before(w) ==
    IF w.sync.readSet # Unknown THEN w.sync.readSet
    ELSE IF w.sync.cursor = 0 THEN page.readSet ELSE Perm
Drop(w, R) ==
    IF R = {} THEN w
    ELSE LET dropped == ReadWith(R)
             purged == Cleared(Purged(w.db, w.folds, 1, dropped), sent, dropped)
         IN  [w EXCEPT !.db = RefoldAll(purged, w.folds, 1, OwnRecords(purged, dropped)),
                       !.quarantine = {o \in @ : RecordOf[o] \notin dropped}]
\* Mutant: own changes are folded again, but no catch-up is planned.
GrowPlansNothing(w, R) ==
    IF R = {} \/ w.sync.readSet = Unknown THEN w
    ELSE [w EXCEPT !.db = RefoldAll(@, w.folds, 1, OwnRecords(@, ReadWith(R)))]
Grow(w, R) ==
    IF R = {} \/ w.sync.readSet = Unknown THEN w
    ELSE [w EXCEPT !.db = RefoldAll(@, w.folds, 1, OwnRecords(@, ReadWith(R))),
                   !.restarted = TRUE]
Kept(b, R) == IF b.reads \cap R = {} THEN NoBackfill ELSE [b EXCEPT !.reads = @ \cap R]
\* Mutant: the catch-up goes up to where it was planned to, not to the cursor.
RestartBehind(w, b, added) ==
    [reads |-> b.reads \cup added, through |-> b.through, cursor |-> 0]
Restart(w, b, added) ==
    [reads |-> b.reads \cup added, through |-> Biggest({b.through, w.sync.cursor}), cursor |-> 0]
Follow(w0) ==
    IF page.readSet = Unknown THEN w0 ELSE
    LET now == page.readSet
        added == now \ Before(w0)
        w == [w0 EXCEPT !.folds = Readable(now)]
        moved == Grow(Drop(w, Before(w0) \ now), added)
        kept == Kept(w0.sync.backfill, now)
    IN  [moved EXCEPT !.sync.readSet = now,
                      !.sync.backfill = IF moved.restarted THEN Restart(w0, kept, added) ELSE kept]

\* Mutant: a held op is always skipped.
TakeOneUnheld(w, o) ==
    IF o \in Held(w.db) THEN w
    ELSE IF AuthorOf[o] \notin w.registry THEN [w EXCEPT !.quarantine = @ \cup {o}]
    ELSE [w EXCEPT !.db = Pulled(@, w.folds, 1, o)]
\* 4. The ops: skipped when held, restored when only the text is gone, set
\* aside when unverified, else inserted and applied.
TakeOne(w, o) ==
    IF o \in Held(w.db)
    THEN IF w.db.log[o].text \/ AuthorOf[o] \notin w.registry THEN w
         ELSE [w EXCEPT !.db = Apply([@ EXCEPT !.log[o].text = TRUE], w.folds, 1, o)]
    ELSE IF AuthorOf[o] \notin w.registry THEN [w EXCEPT !.quarantine = @ \cup {o}]
    ELSE [w EXCEPT !.db = Pulled(@, w.folds, 1, o)]

TakeOps(w) ==
    LET taken[n \in 0..Len(page.ops)] == IF n = 0 THEN w ELSE TakeOne(taken[n - 1], page.ops[n])
    IN  taken[Len(page.ops)]

\* 5. The cursor, or the catch-up's.
MoveCursor(w) ==
    IF phase = "pull" THEN [w EXCEPT !.sync.cursor = page.next]
    ELSE IF w.restarted \/ w.sync.backfill = NoBackfill THEN w
    ELSE IF page.more THEN [w EXCEPT !.sync.backfill.cursor = page.next]
    ELSE [w EXCEPT !.sync.backfill = NoBackfill]

\* Mutant: the sidecar is stored after the ops are judged.
BatchSidecarLast == TakeSidecar(MoveCursor(TakeOps(Follow(Release(Work)))))
Batch == MoveCursor(TakeOps(Follow(Release(TakeSidecar(Work)))))

\* applyBatchAtomically, and where the phase goes from there: on while there
\* is more, then the catch-up, then idle.  shouldContinue may end it too.
ApplyPage ==
    /\ Ready /\ ~Unfoldable
    /\ LET w == Batch IN
       /\ db' = w.db /\ quarantine' = w.quarantine /\ registry' = w.registry /\ sync' = w.sync
       /\ deviceReads' = IF page.readSet = Unknown THEN deviceReads ELSE page.readSet
       /\ \/ phase' = CASE phase = "pull" /\ page.more -> "pull"
                        [] w.sync.backfill # NoBackfill -> "catch-up"
                        [] OTHER -> "idle"
          \/ (page.more \/ phase = "catch-up") /\ phase' = "idle"
    /\ page' = NoPage
    /\ UNCHANGED <<serverVars, sent, app, bounds>>

----------------------------------------------------------------------------
PullInit ==
    /\ stream = <<>> /\ enrolled \in {Early, Device} /\ granted \in SUBSET Perm
    /\ modern \in BOOLEAN
    /\ db = EmptyStore /\ sent = {} /\ quarantine = {} /\ registry = {}
    /\ sync = [cursor |-> 0, readSet |-> Unknown, backfill |-> NoBackfill, version |-> 0]
    /\ deviceReads = Unknown
    /\ app = (IF NewOp = {} THEN "new" ELSE "old") /\ phase = "idle" /\ page = NoPage
    /\ unfollowed = {} /\ grants = 0 /\ lost = 0 /\ resets = 0

Environment ==
    \/ \E o \in Op : Accept(o) \/ Save(o) \/ Push(o)
    \/ \E d \in Device : Enrol(d)
    \/ \E R \in SUBSET Perm : Grant(R)
    \/ UpgradeServer \/ Reenrol
Pulling == StartPull \/ Ask \/ AskAgain \/ StopForUpdate \/ ApplyPage
PullNext == Environment \/ Pulling \/ Fail \/ UpdateApp

PullSpec == PullInit /\ [][PullNext]_pullVars
\* The loop runs a pull again and again (SyncLoop), every request is sent and
\* every answer handled or failed in the end, the server is upgraded and the
\* app updated.  Handled is what all steps that use an answer up have in common.
Handled == page # NoPage /\ page' = NoPage /\ lost' = lost
FairPull ==
    /\ PullSpec /\ WF_pullVars(StartPull) /\ WF_pullVars(Ask) /\ WF_page(Handled)
    /\ WF_pullVars(UpgradeServer) /\ WF_pullVars(UpdateApp)

----------------------------------------------------------------------------
Awaited(i) ==
    /\ ReadOf[RecordOf[stream[i]]] \in sync.backfill.reads
    /\ sync.backfill.cursor < i /\ i <= sync.backfill.through
\* The cursor never leaves anything behind: whatever the device may read up
\* to its cursor it holds with its text, or has set aside until the signer
\* is known, or a stored catch-up still has to ask for it; and what is set
\* aside waits only while its signer's key has not come.
NothingSkipped ==
    /\ \A i \in 1..sync.cursor : InScope(stream[i], sync.readSet) =>
           \/ stream[i] \in Held(db) /\ db.log[stream[i]].text
           \/ stream[i] \in quarantine
           \/ Awaited(i)
    /\ \A o \in quarantine : AuthorOf[o] \notin registry

\* Least privilege: nothing pulled of a type outside the read set the device
\* follows is in its log or waits in its quarantine.
OnlyReadableHeld ==
    \A o \in Held(db) \cup quarantine :
        o \notin OwnOp => RecordOf[o] \in Readable(sync.readSet)
\* The same, until the phone is enrolled again.
OnlyReadable == resets = 0 => OnlyReadableHeld

\* After every page, failed page, own change and push, the rows are the fold
\* of what the log holds and the stored read set lets the device fold, and
\* each pulled operation is counted by its module's watermark.  Left out: the
\* device's own changes from before its first read set, whose rows stay, and
\* a phone enrolled again, whose stored read set starts over while its rows do not.
RowsFollowReads ==
    /\ resets = 0 =>
           \A r \in Record :
               \/ FoldsTo(db, Readable(sync.readSet), r)
               \/ r \notin Readable(sync.readSet) /\ \A i \in DOMAIN db.rows[r] : db.rows[r][i][1] \in unfollowed
    /\ AllCounted(db)

\* When nothing changes any more the device holds all it may read.
UpToDate ==
    /\ sync.readSet = granted
    /\ \A o \in Elem(stream) :
           InScope(o, granted) => o \in Held(db) /\ db.log[o].text
EndsUpToDate == <>[]UpToDate
=============================================================================
