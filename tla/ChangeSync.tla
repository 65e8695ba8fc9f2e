----------------------------- MODULE ChangeSync -----------------------------
(***************************************************************************)
(* One phone and the server: a change is saved by a command, pushed by the *)
(* sync loop, judged by PushPipeline and marked from the answer, while     *)
(* answers get lost, the process dies, the owner revokes the registration  *)
(* and the phone is enrolled again under a new one.                        *)
(*                                                                         *)
(* A registration is a number in 1..MaxRegs; registration 0 is none.  An   *)
(* op's id says what it is: <<"change", n>>, <<"genesis", r>> or           *)
(* <<"transfer", r>>.  What the other devices of the tenant push does not  *)
(* appear: PushPipeline is checked and proved for arbitrary pushes.        *)
(***************************************************************************)
EXTENDS Integers, Sequences, FiniteSets, SequencesExt

CONSTANTS
    SystemDevice, Genesis, RefusalCodes, MaxSystemOps,   \* as in PushPipeline
    BatchSize,     \* MAX_PUSH_OPS
    MaxRegs,       \* bound: registrations of the phone
    MaxIds,        \* bound: changes a user starts to save
    MaxFaults,     \* bound: crashes, lost messages, failed transactions
    Revocable,     \* may the owner revoke a registration in use
    LateAnswers,   \* may a push still be in flight when re-enrolment starts
    EnrolFaults    \* subset of {"fail", "crash"}: how a re-enrolment may end early

Reg == 1..MaxRegs
Id == ({"change"} \X (1..MaxIds)) \cup ({"genesis", "transfer"} \X Reg)
Changes == {"change"} \X (1..MaxIds)
OpHash == Id \X Reg \X Nat
Op == [id : Id, dev : Reg, seq : Nat \ {0}, sig : Reg, prev : {Genesis} \cup OpHash, hash : OpHash]

\* What PushPipeline asks of its constants, and the bounds are numbers.
ASSUME SyncConstants ==
    /\ BatchSize \in Nat \ {0} /\ MaxSystemOps \in Nat
    /\ MaxRegs \in Nat /\ MaxIds \in Nat /\ MaxFaults \in Nat
    /\ SystemDevice \notin Reg
    /\ RefusalCodes \cap {"none", "DEVICE_REVOKED", "CHAIN_HALTED", "BAD_SIGNATURE",
                          "CHAIN_GAP", "CHAIN_BROKEN"} = {}

VARIABLES
    log, refused, head, status, counter, sysHead, anomalies, tx,  \* the server
    rows,       \* the phone's operations table, its own ops: [op, st]
    opened,     \* rows of the command whose transaction is open
    minted,     \* how many change ids were minted
    saved,      \* history: the changes whose command committed
    meta,       \* meta_kv deviceId: the registration the app runs as
    key,        \* whose signing seed the keystore holds; the newest registration
    token,      \* whose device token the keystore holds
    draft,      \* meta_kv enrolment draft
    phase,      \* how far the running enrolment got (lost with the process)
    persisted,  \* of "halted" (pushHalted) and "disabled" (syncDisabled): stored
    held,       \* the same, as the running sync loop holds them in memory
    flight,     \* per registration: the push its loop awaits
    stale,      \* pushes nobody awaits any more that the server may still run
    faults      \* faults so far

phoneRows == <<rows, opened, minted, saved>>
identity == <<meta, key, token, draft, phase>>
loop == <<persisted, held>>
wire == <<flight, stale>>
server == <<log, refused, head, status, counter, sysHead, anomalies, tx>>
vars == <<server, phoneRows, identity, loop, wire, faults>>

Server == INSTANCE PushPipeline
              WITH Devices <- Reg, ForeignIds <- {}, MaxBatch <- BatchSize

Idle == [stage |-> "idle"]
Running(r) == meta = r /\ phase = "idle"
Fault == faults < MaxFaults /\ faults' = faults + 1
-----------------------------------------------------------------------------
(* Saving: appendLocalOps in one transaction on the phone's one connection.*)

\* readChainHead: the last row under the registration, whatever its status.
Own(r, all) == {w \in all : w.op.dev = r}
\* Mutant: the head is read from the rows still to be sent.
PhoneHeadOfLocal(r, all) ==
    LET own == {w \in Own(r, all) : w.st = "local"} IN
    IF own = {} THEN [seq |-> 0, hash |-> Genesis]
    ELSE LET last == CHOOSE w \in own : \A v \in own : v.op.seq <= w.op.seq
         IN  [seq |-> last.op.seq, hash |-> last.op.hash]
PhoneHead(r, all) ==
    IF Own(r, all) = {} THEN [seq |-> 0, hash |-> Genesis]
    ELSE LET last == CHOOSE w \in Own(r, all) : \A v \in Own(r, all) : v.op.seq <= w.op.seq
         IN  [seq |-> last.op.seq, hash |-> last.op.hash]

\* completeDraft: the next op of r's chain, signed with the keystore's seed.
SignedOp(id, r, h) ==
    [id |-> id, dev |-> r, seq |-> h.seq + 1, prev |-> h.hash,
     hash |-> <<id, r, h.seq + 1>>, sig |-> key]
LocalRow(op) == [op |-> op, st |-> "local"]

\* The transaction is not open: a read or write inside one of its own waits.
Free == opened = {}

BeginCommand(r) ==
    /\ Running(r) /\ Free /\ minted < MaxIds
    /\ minted' = minted + 1
    /\ opened' = {LocalRow(SignedOp(<<"change", minted'>>, r, PhoneHead(r, rows)))}
    /\ UNCHANGED <<server, rows, saved, identity, loop, wire, faults>>

CommitCommand ==
    /\ ~Free
    /\ rows' = rows \cup opened
    /\ saved' = saved \cup {w.op.id : w \in opened}
    /\ opened' = {}
    /\ UNCHANGED <<server, minted, identity, loop, wire, faults>>

\* A projection or a rule threw: the command leaves nothing.
RollbackCommand ==
    /\ ~Free
    /\ opened' = {}
    /\ UNCHANGED <<server, rows, minted, saved, identity, loop, wire, faults>>
-----------------------------------------------------------------------------
(* Pushing: runPushPhase.                                                  *)

\* Mutant: a bare read sees what a command has not committed.
DirtyRead == rows \cup opened
\* readPushBatch reads inside a transaction of its own, so it waits while a
\* command's is open, and takes the first local rows in seq order; two rows of
\* one seq come in either order.
ReadableRows == IF Free THEN rows ELSE {}
LocalRows == {w \in ReadableRows : w.st = "local"}
FirstRows(n) ==
    {b \in [1..n -> LocalRows] :
        /\ \A i, j \in 1..n : i < j => b[i] # b[j] /\ b[i].op.seq <= b[j].op.seq
        /\ \A w \in LocalRows :
              \/ \E i \in 1..n : b[i] = w
              \/ n = BatchSize /\ \A i \in 1..n : b[i].op.seq <= w.op.seq}
PushBatches == UNION {FirstRows(n) : n \in 1..BatchSize}

Send(r) ==
    /\ Running(r) /\ held = {} /\ flight[r] = Idle
    /\ \E b \in PushBatches :
          flight' = [flight EXCEPT ![r] =
              [stage |-> "sent", dev |-> r, tok |-> token,
               ops |-> [i \in DOMAIN b |-> b[i].op], results |-> <<>>]]
    /\ UNCHANGED <<server, phoneRows, identity, loop, stale, faults>>

\* OP_SYNC_STATUS_MACHINE: the row's next status, or "invalid".
NextStatus(st, res) ==
    CASE st = "local" /\ res.status \in {"accepted", "duplicate"} -> "synced"
      [] st = "local" /\ res.code = "CHAIN_GAP" -> "local"
      [] st = "local" /\ res.status = "rejected" /\ res.code # "CHAIN_GAP" -> "rejected"
      [] st = "synced" /\ res.status \in {"accepted", "duplicate"} -> "synced"
      [] OTHER -> "invalid"

\* The loop of r stops for good: its memory, if it still runs, and the store.
Stop(r, why) ==
    /\ persisted' = persisted \cup {why}
    /\ held' = IF Running(r) THEN held \cup {why} ELSE held

\* applyPushResult, by id and in a transaction.  CHAIN_HALTED marks nothing;
\* a CHAIN_BROKEN or CHAIN_HALTED answer halts push; an invalid transition
\* throws, which ends the cycle with the rest of the answer unread.
MarkResult(r) ==
    LET res  == Head(flight[r].results)
        mine == {w \in rows : w.op.id = res.id}
        next == [w \in mine |-> NextStatus(w.st, res)]
        marks == res.code # "CHAIN_HALTED" /\ mine # {}
    IN  /\ Free /\ flight[r].stage = "answered" /\ flight[r].results # <<>>
        /\ IF marks /\ \E w \in mine : next[w] = "invalid"
           THEN /\ flight' = [flight EXCEPT ![r] = Idle]
                /\ UNCHANGED <<rows, loop>>
           ELSE /\ rows' = IF marks
                           THEN (rows \ mine) \cup {[w EXCEPT !.st = next[w]] : w \in mine}
                           ELSE rows
                /\ flight' = [flight EXCEPT ![r].results = Tail(@)]
                /\ IF res.code = "CHAIN_HALTED" \/ (marks /\ res.code = "CHAIN_BROKEN")
                   THEN Stop(r, "halted")
                   ELSE UNCHANGED loop
        /\ UNCHANGED <<server, opened, minted, saved, identity, stale, faults>>

\* The batch is settled: the phase reads the next one, or the next cycle does.
Settle(r) ==
    /\ flight[r].stage = "answered" /\ flight[r].results = <<>>
    /\ flight' = [flight EXCEPT ![r] = Idle]
    /\ UNCHANGED <<server, phoneRows, identity, loop, stale, faults>>

\* handleCycleFailure on 401 DEVICE_REVOKED: disableSync.
TakeUnauthorized(r) ==
    /\ flight[r].stage = "unauthorized"
    /\ flight' = [flight EXCEPT ![r] = Idle]
    /\ Stop(r, "disabled")
    /\ UNCHANGED <<server, phoneRows, identity, stale, faults>>
-----------------------------------------------------------------------------
(* The request's way through the server: createVerifyToken, runPush, the   *)
(* tenant queue, processPushBatch.                                         *)

Arrive(r) ==
    LET f == flight[r]
        bodyRefusal(op) == [id |-> op.id, status |-> "rejected", code |-> "SCOPE_VIOLATION"]
    IN  /\ f.stage = "sent"
        /\ flight' = [flight EXCEPT ![r] =
              IF status[f.tok] = "revoked" THEN [f EXCEPT !.stage = "unauthorized"]
              ELSE IF f.dev # f.tok
              THEN [f EXCEPT !.stage = "answered",
                             !.results = [i \in DOMAIN f.ops |-> bodyRefusal(f.ops[i])]]
              ELSE [f EXCEPT !.stage = "queued"]]
        /\ UNCHANGED <<server, phoneRows, identity, loop, stale, faults>>

\* The same for a request whose phone gave up: its answer goes nowhere.
ArriveStale(s) ==
    /\ s.stage = "sent"
    /\ stale' = (stale \ {s}) \cup
                IF status[s.tok] # "revoked" /\ s.dev = s.tok
                THEN {[s EXCEPT !.stage = "queued"]} ELSE {}
    /\ UNCHANGED <<server, phoneRows, identity, loop, flight, faults>>

BeginPush(r) ==
    /\ flight[r].stage = "queued"
    /\ Server!Begin(flight[r].tok, flight[r].ops)
    /\ flight' = [flight EXCEPT ![r].stage = "judging"]
    /\ UNCHANGED <<phoneRows, identity, loop, stale, faults>>

BeginStale(s) ==
    /\ s.stage = "queued"
    /\ Server!Begin(s.tok, s.ops)
    /\ stale' = stale \ {s}
    /\ UNCHANGED <<phoneRows, identity, loop, flight, faults>>

\* The records' verdicts (a refusal, a taken unique key) are free choices of
\* the server; a configuration without refusals has neither.
JudgeStep ==
    /\ \/ Server!HaltedOp \/ Server!DuplicateOp \/ Server!RepeatedRefusal
       \/ Server!WrongDevice \/ Server!BadSignature
       \/ Server!ChainGap \/ Server!ChainBroken
       \/ Server!Refuse \/ Server!Accept
       \/ RefusalCodes # {} /\ Server!FoldConflict
       \/ Server!Rerun \/ Server!LoopDone \/ Server!DetectConflict
    /\ UNCHANGED <<phoneRows, identity, loop, wire, faults>>

Judging(r) == flight[r].stage = "judging"

CommitPush ==
    /\ Server!Commit
    /\ flight' = [r \in Reg |-> IF Judging(r)
                                THEN [flight[r] EXCEPT !.stage = "answered", !.results = tx.results]
                                ELSE flight[r]]
    /\ UNCHANGED <<phoneRows, identity, loop, stale, faults>>

\* Mutant: the answers go out although the transaction failed.
AbortAnswered ==
    /\ Fault /\ tx.stage = "detecting" /\ Server!Abort
    /\ flight' = [r \in Reg |-> IF Judging(r)
                                THEN [flight[r] EXCEPT !.stage = "answered", !.results = tx.results]
                                ELSE flight[r]]
    /\ UNCHANGED <<phoneRows, identity, loop, stale>>

\* The transaction fails: a 5xx, after which the loop backs off and retries.
AbortPush ==
    /\ Fault /\ Server!Abort
    /\ flight' = [r \in Reg |-> IF Judging(r) THEN Idle ELSE flight[r]]
    /\ UNCHANGED <<phoneRows, identity, loop, stale>>
-----------------------------------------------------------------------------
(* Faults: what the phone stops waiting for, the server may still run.     *)

LeftBehind(r) == IF flight[r].stage \in {"sent", "queued"} THEN {flight[r]} ELSE {}

\* The request or its answer is lost, or the request timed out.
Unanswered(r) ==
    \/ flight[r].stage \in {"sent", "queued", "judging", "unauthorized"}
    \/ flight[r].stage = "answered" /\ Len(flight[r].results) = Len(flight[r].ops)
GiveUp(r) ==
    /\ Fault /\ Unanswered(r)
    /\ \E left \in {{}, LeftBehind(r)} : stale' = stale \cup left
    /\ flight' = [flight EXCEPT ![r] = Idle]
    /\ UNCHANGED <<server, phoneRows, identity, loop>>

\* The app's process dies.  It boots as the registration meta_kv names, with
\* whatever the keystore and the sync state hold.
InterruptionAllowed(how) == phase \in {"idle", "named"} \/ meta = 0 \/ how \in EnrolFaults
Crash ==
    /\ Fault /\ InterruptionAllowed("crash")
    /\ opened' = {} /\ phase' = "idle" /\ held' = persisted
    /\ stale' = stale \cup UNION {LeftBehind(r) : r \in Reg}
    /\ flight' = [r \in Reg |-> Idle]
    /\ UNCHANGED <<server, rows, minted, saved, meta, key, token, draft, persisted>>

RevokeByOwner(r) ==
    /\ Revocable
    /\ Server!Revoke(r)
    /\ UNCHANGED <<phoneRows, identity, loop, wire, faults>>
-----------------------------------------------------------------------------
(* Enrolment: runEnrollment, from the keystore write to the spent draft.   *)

PhoneOnly == UNCHANGED <<server, minted, saved, opened, wire, faults>>

\* The services stop; a fresh seed goes to the keystore before the draft that
\* names it.  A draft left by an earlier attempt is taken up instead.
StartEnrol ==
    /\ phase = "idle" /\ Free
    /\ LateAnswers \/ \A r \in Reg : flight[r] = Idle
    /\ \/ draft = 0 /\ key < MaxRegs /\ key' = key + 1 /\ phase' = "keyed"
       \/ draft # 0 /\ phase' = "posting" /\ UNCHANGED key
    /\ UNCHANGED <<rows, meta, token, draft, loop>> /\ PhoneOnly

PersistDraft ==
    /\ phase = "keyed"
    /\ draft' = key /\ phase' = "posting"
    /\ UNCHANGED <<rows, meta, key, token, loop>> /\ PhoneOnly

\* The server's enrol transaction: once per idempotency key, with or without
\* replacing the registration the phone had.
EnrolOnServer ==
    /\ phase = "posting" /\ status[draft] = "unknown"
    /\ \E replaced \in {{}, {r \in {meta} : r # 0 /\ status[r] = "active"}} :
          status' = [r \in Reg |-> IF r = draft THEN "active"
                                   ELSE IF r \in replaced THEN "revoked" ELSE status[r]]
    /\ UNCHANGED <<log, refused, head, counter, sysHead, anomalies, tx,
                   phoneRows, identity, loop, wire, faults>>

PersistToken ==
    /\ phase = "posting" /\ status[draft] # "unknown"
    /\ token' = draft /\ phase' = "tokened"
    /\ UNCHANGED <<rows, meta, key, draft, loop>> /\ PhoneOnly

EmitGenesis ==
    /\ phase = "tokened" /\ Free
    /\ rows' = IF Own(draft, rows) # {} THEN rows
               ELSE rows \cup {LocalRow(SignedOp(<<"genesis", draft>>, draft, PhoneHead(draft, rows)))}
    /\ phase' = "begun"
    /\ UNCHANGED <<meta, key, token, draft, loop>> /\ PhoneOnly

\* carryOverUnsyncedChanges, one transaction: the transfer record, then every
\* unsynced change of an earlier registration re-signed under the new one; the
\* earlier registrations' own unsent records are dropped.
RegistrationOp(w) == w.op.id[1] \in {"genesis", "transfer"}
Unsent == {w \in rows : w.op.dev # draft /\ w.st = "local"}
ByDevThenSeq(w, v) == w.op.dev < v.op.dev \/ (w.op.dev = v.op.dev /\ w.op.seq < v.op.seq)
Carried == {w \in Unsent : ~RegistrationOp(w)}
CarryOrders ==
    {s \in SetToSeqs(Carried) : \A i, j \in DOMAIN s : i < j => ByDevThenSeq(s[i], s[j])}
Resigned(carried) ==
    LET ids == <<<<"transfer", draft>>>> \o [i \in DOMAIN carried |-> carried[i].op.id]
        first == PhoneHead(draft, rows)
        headAt(i) == IF i = 1 THEN first
                     ELSE [seq |-> first.seq + i - 1,
                           hash |-> <<ids[i - 1], draft, first.seq + i - 1>>]
    IN  {LocalRow(SignedOp(ids[i], draft, headAt(i))) : i \in DOMAIN ids}

\* Mutant: the originals stay beside the re-signed changes.
CarryOverKeepingOriginals ==
    /\ phase = "begun" /\ Free
    /\ \E s \in CarryOrders : rows' = rows \cup (IF Carried = {} THEN {} ELSE Resigned(s))
    /\ phase' = "carried"
    /\ UNCHANGED <<meta, key, token, draft, loop>> /\ PhoneOnly

CarryOver ==
    /\ phase = "begun" /\ Free
    /\ \E s \in CarryOrders :
          rows' = (rows \ Unsent) \cup (IF Carried = {} THEN {} ELSE Resigned(s))
    /\ phase' = "carried"
    /\ UNCHANGED <<meta, key, token, draft, loop>> /\ PhoneOnly

\* resetSyncStateForNewDevice, then the identity.
NameDevice ==
    /\ phase = "carried"
    /\ persisted' = IF meta = draft THEN persisted ELSE {}
    /\ meta' = draft /\ phase' = "named"
    /\ UNCHANGED <<rows, key, token, draft, held>> /\ PhoneOnly

\* The draft is spent, and the app runs as the new registration.
SpendDraft ==
    /\ phase = "named"
    /\ draft' = 0 /\ phase' = "idle" /\ held' = persisted
    /\ UNCHANGED <<rows, meta, key, token, persisted>> /\ PhoneOnly

\* The wizard fails: the POST, applyBundle or a later step threw.  The host
\* starts the services again under the registration the phone had.
FailEnrol ==
    /\ phase \in {"posting", "tokened", "begun"} /\ InterruptionAllowed("fail")
    /\ Fault
    /\ phase' = "idle" /\ held' = persisted
    /\ UNCHANGED <<server, phoneRows, meta, key, token, draft, persisted, wire>>
-----------------------------------------------------------------------------
Init ==
    /\ Server!Init
    /\ rows = {} /\ opened = {} /\ minted = 0 /\ saved = {}
    /\ meta = 0 /\ key = 0 /\ token = 0 /\ draft = 0 /\ phase = "idle"
    /\ persisted = {} /\ held = {}
    /\ flight = [r \in Reg |-> Idle] /\ stale = {}
    /\ faults = 0

Enrolment ==
    \/ StartEnrol \/ PersistDraft \/ EnrolOnServer \/ PersistToken \/ EmitGenesis
    \/ CarryOver \/ NameDevice \/ SpendDraft

\* What goes on by itself: the server, the loop, and an enrolment under way.
ServerStep == JudgeStep \/ CommitPush \/ \E s \in stale : ArriveStale(s) \/ BeginStale(s)
LoopStep(r) ==
    Send(r) \/ MarkResult(r) \/ Settle(r) \/ TakeUnauthorized(r) \/ Arrive(r) \/ BeginPush(r)

Next ==
    \/ ServerStep \/ AbortPush
    \/ \E r \in Reg : BeginCommand(r) \/ LoopStep(r) \/ GiveUp(r) \/ RevokeByOwner(r)
    \/ CommitCommand \/ RollbackCommand
    \/ Enrolment \/ FailEnrol \/ Crash

Spec == Init /\ [][Next]_vars

\* The loop's retry timer fires again and again, the server runs what it is
\* sent, a command's transaction ends, and an enrolment that was started goes on.
FairSpec ==
    /\ Spec
    /\ WF_vars(ServerStep)
    /\ \A r \in Reg : WF_vars(LoopStep(r))
    /\ WF_vars(CommitCommand \/ RollbackCommand)
    /\ WF_vars(phase # "idle" /\ Enrolment)
    /\ WF_vars(meta = 0 /\ StartEnrol)
-----------------------------------------------------------------------------
(* Properties.                                                             *)

Logged == Server!IdsIn(log)

\* What the phone shows as synced is in the server's log (push.ts marks an op
\* only from an answer, the answer follows the commit): an answer that came
\* before a commit, or for another op, would lose the change for good.
SyncedIsDurable == \A w \in rows : w.st = "synced" => w.op.id \in Logged

\* "A rejected op is not in the server's log and never will be": the phone
\* takes it out of its records.  The ledger implies it of a change that is not
\* set aside; with revocations (Revocable) it fails.
RefusedIsNotTaken == \A w \in rows : w.st = "rejected" => w.op.id \notin Logged

\* A change whose command committed is in the phone's log exactly once,
\* through every re-signing, crash and resumed enrolment.
NothingLost == \A c \in saved : Cardinality({w \in rows : w.op.id = c}) = 1

\* The registration the app runs as can go on from the server's head: the head
\* lies on its own chain and whatever lies past it is still to be sent.  A row
\* past the head that is not local leaves every later change in a CHAIN_GAP.  Nor
\* is it stopped by what an earlier registration was told (resetSyncStateForNewDevice).
NeverStranded ==
    \A r \in Reg : Running(r) /\ status[r] = "active" =>
        /\ \A w \in Own(r, rows) : w.op.seq > head[r].seq => w.st = "local"
        /\ head[r].seq # 0 => \E w \in Own(r, rows) : /\ w.op.seq = head[r].seq
                                                      /\ w.op.hash = head[r].hash
        /\ held = {} /\ persisted = {}

\* What the phone is told of an op it pushed.
Told(codes) ==
    \E r \in Reg : /\ flight[r].stage = "answered"
                   /\ \E i \in DOMAIN flight[r].results : flight[r].results[i].code \in codes

\* A phone that runs this code is never told its chain, its signatures or its
\* device id are wrong, and never stops pushing as tampered with: those answers
\* are for tampered devices (05 section 8).
Accusations == {"CHAIN_GAP", "CHAIN_BROKEN", "CHAIN_HALTED", "BAD_SIGNATURE", "SCOPE_VIOLATION"}
HonestNeverAccused ==
    ~Told(Accusations) /\ anomalies = {} /\ "halted" \notin persisted \cup held

\* "A retried batch whose response was lost" is answered as before, not read as
\* tampering (0014_refused_operations.ts), also for a refused change that was
\* carried over and refused again.
RefusedIsNoTampering == ~Told({"CHAIN_BROKEN"})

\* "Nothing was replaced: pick up where the PC was" (desktop host.ts): after a
\* re-enrolment that failed, the running registration's ops still verify.
HonestSignatureVerifies == ~Told({"BAD_SIGNATURE"})

\* "A persisted token is not a partial-state hazard" (enrollment.ts): whatever
\* a re-enrolment left, the phone pushes with the running registration's token.
HonestTokenMatches == ~Told({"SCOPE_VIOLATION"})

\* Ops that are synced on the phone but absent under the running registration
\* on the server: "that state is not reachable from any v0 code path" (push.ts).
SyncedIsBehindHead ==
    \A r \in Reg : Running(r) /\ status[r] = "active" =>
        \A w \in Own(r, rows) : w.st = "synced" => w.op.seq <= head[r].seq

\* The phone's and the server's tables read as the ledger's.
LedgerPhone ==
    [c \in Changes |-> IF \E w \in rows : w.op.id = c
                       THEN (CHOOSE w \in rows : w.op.id = c).st ELSE "unsaved"]
LedgerServer ==
    [c \in Changes |-> IF c \in Logged THEN "taken"
                       ELSE IF \E q \in refused : q.id = c THEN "refused" ELSE "unjudged"]
\* The newest registration is not revoked.
LedgerTrusted == \A r \in Reg : r = key => status[r] # "revoked"
Ledger == INSTANCE ChangeLedger
              WITH Change <- Changes, phone <- LedgerPhone, server <- LedgerServer,
                   trusted <- LedgerTrusted

\* Only committed changes are judged, each once, and the phone learns that very
\* verdict, once, whatever is lost, repeated or re-signed on the way; it sets a
\* change aside without one only while its registration is revoked.
ImplementsLedger == Ledger!LedgerSpec

\* A change that is saved gets its verdict, and the phone learns it.
EverySavedSettled ==
    \A c \in Changes :
        c \in saved ~> \E w \in rows : w.op.id = c /\ w.st # "local"
=============================================================================
