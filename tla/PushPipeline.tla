---------------------------- MODULE PushPipeline ----------------------------
(***************************************************************************)
(* The server's op acceptance: processPushBatch of                         *)
(* apps/server/src/oplog/pipeline.ts with its steps, for one tenant.       *)
(*                                                                         *)
(* A push runs in one transaction that holds the tenant's counter row, so  *)
(* at most one is open: the variable tx is that transaction with what it   *)
(* staged, and the other variables are committed tables.  One action is    *)
(* one iteration of the op loop; Commit publishes the staged tables, Abort *)
(* drops them (a throw, a lost connection, a crash of the server).         *)
(* The tenant queue of sync/push.ts runs a whole push, its careful second  *)
(* attempt included, before the tenant's next one.                         *)
(*                                                                         *)
(* The pushed batches are arbitrary: any sequence over Op.  What is proved *)
(* about this module holds whatever the devices send.                      *)
(***************************************************************************)
EXTENDS Integers, Sequences, FiniteSets

CONSTANTS
    Devices,       \* registrations the server may know (devices.id)
    SystemDevice,  \* the tenant's system device, which signs conflict ops
    Op,            \* what a device may send: [id, dev, seq, prev, hash, sig]
    RefusalCodes,  \* the verdicts that spend a chain position (pipeline 327-374)
    ForeignIds,    \* op ids an RLS-hidden row of another tenant holds
    Genesis,       \* GENESIS_PREVIOUS_HASH, 64 zeros
    MaxBatch,      \* bound: ops in one push (500 in the code)
    MaxSystemOps   \* bound: conflict ops the system device emits

OpFields == {"id", "dev", "seq", "prev", "hash", "sig"}

\* The ids the server mints for its own ops (deps.newId() in appendSystemOp).
SystemIds == {"system"} \X Nat

\* A wire op passed its schema: seq is positive.  No device is the system
\* device, and a fresh uuid of the server is no id a device sends.
ASSUME OpShape ==
    \A o \in Op : /\ DOMAIN o = OpFields
                  /\ o.seq \in Nat \ {0}
                  /\ o.dev # SystemDevice
                  /\ o.id \notin SystemIds
ASSUME SystemDeviceApart == SystemDevice \notin Devices
ASSUME RefusalCodesApart ==
    RefusalCodes \cap {"none", "DEVICE_REVOKED", "CHAIN_HALTED", "BAD_SIGNATURE",
                       "CHAIN_GAP", "CHAIN_BROKEN"} = {}
ASSUME Bounds == MaxBatch \in Nat \ {0} /\ MaxSystemOps \in Nat

VARIABLES
    log,        \* operations: rows [op, serverSeq]
    refused,    \* refused_operations: rows [id, dev, seq, hash, code]
    head,       \* devices.last_seq / last_hash, per device
    status,     \* devices.status: "unknown" (no row), "active", "revoked"
    counter,    \* tenant_op_counters.next_server_seq
    sysHead,    \* system_device_chain_state
    anomalies,  \* device_anomalies: the devices with a row that says tampering
    tx          \* the open push transaction, or NoTx

tables == <<log, refused, head, status, counter, sysHead, anomalies>>
serverVars == <<log, refused, head, status, counter, sysHead, anomalies, tx>>

NoTx == [stage |-> "none"]
StartOfChain == [seq |-> 0, hash |-> Genesis]
IsOpen == tx.stage \in {"judging", "detecting"}

IdsIn(rows) == {r.op.id : r \in rows}
IdsOf(ops) == {ops[i].id : i \in DOMAIN ops}

\* Mutant: the position is compared, the previous hash is not.
ClassifyBySeq(op, h) ==
    IF op.seq > h.seq + 1 THEN "gap" ELSE IF op.seq = h.seq + 1 THEN "ok" ELSE "broken"

\* steps/chain.ts: where op stands relative to a chain head.
ClassifyChain(op, h) ==
    IF op.seq > h.seq + 1 THEN "gap"
    ELSE IF op.seq = h.seq + 1 /\ op.prev = h.hash THEN "ok"
    ELSE "broken"

\* steps/signature.ts: the signature verifies against the device's own key.
SignatureOk(op, d) == op.sig = d

\* loadBatchVerdicts: the device's own earlier refusals of these ids.
Verdict(r) == [id |-> r.id, hash |-> r.hash, code |-> r.code]
LoadedRefusals(d, ops) ==
    {Verdict(r) : r \in {q \in refused : q.dev = d /\ q.id \in IdsOf(ops)}}

\* Lock the counter, then read the device row and the verdicts.  A revoked
\* device gets one answer for every op, and nothing is staged.
RevokedAnswer(op) == [id |-> op.id, status |-> "rejected", code |-> "DEVICE_REVOKED"]
Opened(d, ops, careful) ==
    [stage |-> "judging", dev |-> d, ops |-> ops, careful |-> careful,
     head |-> head[d], next |-> counter, row |-> counter, sys |-> sysHead,
     log |-> log, refused |-> refused, known |-> LoadedRefusals(d, ops),
     anomalies |-> anomalies, halted |-> FALSE,
     pos |-> IF status[d] = "revoked" THEN Len(ops) + 1 ELSE 1,
     results |-> IF status[d] = "revoked"
                 THEN [i \in 1..Len(ops) |-> RevokedAnswer(ops[i])]
                 ELSE <<>>]

Begin(d, ops) ==
    /\ tx = NoTx
    /\ status[d] # "unknown"
    /\ tx' = Opened(d, ops, FALSE)
    /\ UNCHANGED tables
-----------------------------------------------------------------------------
(* The op loop.  Cur is the op of this iteration.                          *)

Cur == tx.ops[tx.pos]
Running == tx.stage = "judging" /\ tx.pos <= Len(tx.ops)

Result(st, code) == [id |-> Cur.id, status |-> st, code |-> code]
HeadAtCur == [seq |-> Cur.seq, hash |-> Cur.hash]

\* The iteration's end: tx as this iteration staged it, with the op's answer.
Answer(staged, res) ==
    /\ tx' = [staged EXCEPT !.pos = @ + 1, !.results = Append(@, res)]
    /\ UNCHANGED tables

\* spendPosition: ON CONFLICT DO NOTHING on either key, (tenant, id) and
\* (device, seq); the head moves past the op whether or not a row went in.
RefusedRowOf(code) == [id |-> Cur.id, dev |-> tx.dev, seq |-> Cur.seq,
                       hash |-> Cur.hash, code |-> code]
KeyTaken(row) == \E r \in tx.refused : r.id = row.id \/ (r.dev = row.dev /\ r.seq = row.seq)
\* Mutant: the refusal is recorded, the head stays.
SpentInPlace(code) ==
    [tx EXCEPT !.refused = IF KeyTaken(RefusedRowOf(code)) THEN @
                           ELSE @ \cup {RefusedRowOf(code)}]
Spent(code) ==
    [tx EXCEPT !.head = HeadAtCur,
               !.refused = IF KeyTaken(RefusedRowOf(code)) THEN @
                           ELSE @ \cup {RefusedRowOf(code)}]

\* Nothing after a CHAIN_BROKEN is looked at.
HaltedOp ==
    /\ Running /\ tx.halted
    /\ Answer(tx, Result("rejected", "CHAIN_HALTED"))

Live == Running /\ ~tx.halted
\* Mutant: an op is looked for among the pushing device's own.
DuplicateOfDevice == \E r \in tx.log : r.op.id = Cur.id /\ r.op.dev = tx.dev
Duplicate == Cur.id \in IdsIn(tx.log)
AtItsNextPosition == Cur.dev = tx.dev /\ ClassifyChain(Cur, tx.head) = "ok" /\ SignatureOk(Cur, tx.dev)

\* Mutant: a duplicate never spends a position.
DuplicateUnspent ==
    /\ Live /\ Duplicate
    /\ Answer(tx, Result("duplicate", "none"))

\* A logged op is a duplicate.  One re-signed by this device at exactly its
\* next position (carry-over after a lost answer) also spends that position.
DuplicateOp ==
    /\ Live /\ Duplicate
    /\ Answer(IF AtItsNextPosition THEN Spent("DUPLICATE") ELSE tx, Result("duplicate", "none"))

\* Mutant: earlier refusals are not looked up.
NoEarlierRefusals == {}

\* findRefusal, asked only of the device's own ops behind the head.
EarlierRefusals ==
    {k \in tx.known : /\ Cur.dev = tx.dev /\ Cur.seq <= tx.head.seq
                      /\ k.id = Cur.id /\ k.hash = Cur.hash}

RepeatedRefusal ==
    /\ Live /\ ~Duplicate
    /\ \E k \in EarlierRefusals : Answer(tx, Result("rejected", k.code))

New == Live /\ ~Duplicate /\ EarlierRefusals = {}

\* anomaly: device_anomalies gets a row about the pushing device.  CLOCK_SKEW
\* rows, which turn on timestamps, are left out.
WithAnomaly(staged) == [staged EXCEPT !.anomalies = @ \cup {tx.dev}]

WrongDevice ==
    /\ New /\ Cur.dev # tx.dev
    /\ Answer(WithAnomaly(tx), Result("rejected", "SCOPE_VIOLATION"))

Bound == New /\ Cur.dev = tx.dev

BadSignature ==
    /\ Bound /\ ~SignatureOk(Cur, tx.dev)
    /\ Answer(WithAnomaly(tx), Result("rejected", "BAD_SIGNATURE"))

Signed == Bound /\ SignatureOk(Cur, tx.dev)

ChainGap ==
    /\ Signed /\ ClassifyChain(Cur, tx.head) = "gap"
    /\ Answer(tx, Result("rejected", "CHAIN_GAP"))

ChainBroken ==
    /\ Signed /\ ClassifyChain(Cur, tx.head) = "broken"
    /\ Answer([WithAnomaly(tx) EXCEPT !.halted = TRUE],
              Result("rejected", "CHAIN_BROKEN"))

AtNextPosition == Signed /\ ClassifyChain(Cur, tx.head) = "ok"

\* refuse: spend the position, and remember the verdict for this batch unless
\* the id has one.
Refused(code) ==
    [Spent(code) EXCEPT !.known = IF \E k \in @ : k.id = Cur.id THEN @
                                  ELSE @ \cup {Verdict(RefusedRowOf(code))}]

\* Clock, scope, schema, permission and rules: which of them says no is the
\* records' business, and all refuse alike.  A scope that shows tampering also
\* leaves an anomaly.
Refuse ==
    /\ AtNextPosition
    /\ \E code \in RefusalCodes :
          \/ Answer(Refused(code), Result("rejected", code))
          \/ /\ code = "SCOPE_VIOLATION"
             /\ Answer(WithAnomaly(Refused(code)), Result("rejected", code))

\* insertOperationRowUnlessIdTaken found the id in another tenant: an
\* indistinguishable duplicate, no serverSeq, no head move.
IdTakenElsewhere ==
    /\ AtNextPosition /\ Cur.id \in ForeignIds
    /\ Answer(tx, Result("duplicate", "none"))

Storable == AtNextPosition /\ Cur.id \notin ForeignIds
LogRowOfCur == [op |-> Cur, serverSeq |-> tx.next]

\* The insert and the fold went in.
Accept ==
    /\ Storable
    /\ Answer([tx EXCEPT !.log = @ \cup {LogRowOfCur}, !.next = @ + 1, !.head = HeadAtCur],
              Result("accepted", "none"))

\* Mutant: the rerun answers the refusal without spending the position.
FoldConflictUnspent ==
    /\ Storable
    /\ \/ tx.careful /\ Answer(tx, Result("rejected", "RULE_VIOLATED"))
       \/ /\ ~tx.careful
          /\ tx' = [stage |-> "rerun", dev |-> tx.dev, ops |-> tx.ops]
          /\ UNCHANGED tables

\* The fold hit a unique key some other row holds.  The fast path rolls the
\* whole batch back to run it again op by op; there the op is refused.
FoldConflict ==
    /\ Storable
    /\ \/ tx.careful /\ Answer(Refused("RULE_VIOLATED"), Result("rejected", "RULE_VIOLATED"))
       \/ /\ ~tx.careful
          /\ tx' = [stage |-> "rerun", dev |-> tx.dev, ops |-> tx.ops]
          /\ UNCHANGED tables

Rerun ==
    /\ tx.stage = "rerun"
    /\ tx' = Opened(tx.dev, tx.ops, TRUE)
    /\ UNCHANGED tables
-----------------------------------------------------------------------------
(* The end of the transaction.                                             *)

\* Mutant: the in-memory numbering is not stored.
LoopDoneUnstored ==
    /\ tx.stage = "judging" /\ tx.pos > Len(tx.ops)
    /\ tx' = [tx EXCEPT !.stage = "detecting"]
    /\ UNCHANGED tables

\* Every op has its answer: the in-memory numbering goes back to the counter
\* row, from which conflict detection allocates.
LoopDone ==
    /\ tx.stage = "judging" /\ tx.pos > Len(tx.ops)
    /\ tx' = [tx EXCEPT !.stage = "detecting", !.row = tx.next]
    /\ UNCHANGED tables

AcceptedSome == \E i \in DOMAIN tx.results : tx.results[i].status = "accepted"

\* Mutant: the op takes the chain's last position, not the next.
SystemOpAtHead == [id |-> <<"system", tx.sys.seq>>, dev |-> SystemDevice,
                   seq |-> tx.sys.seq, prev |-> tx.sys.hash,
                   hash |-> <<"system", tx.sys.seq>>, sig |-> SystemDevice]

\* appendSystemOp: the system chain's next op, with the counter row's seq.
SystemOp == [id |-> <<"system", tx.sys.seq + 1>>, dev |-> SystemDevice,
             seq |-> tx.sys.seq + 1, prev |-> tx.sys.hash,
             hash |-> <<"system", tx.sys.seq + 1>>, sig |-> SystemDevice]

\* detectConflicts, only for a batch that accepted something, emits one op
\* per conflict it finds.
DetectConflict ==
    /\ tx.stage = "detecting" /\ AcceptedSome
    /\ tx.sys.seq < MaxSystemOps
    /\ tx' = [tx EXCEPT !.log = @ \cup {[op |-> SystemOp, serverSeq |-> tx.row]},
                        !.row = @ + 1,
                        !.sys = [seq |-> SystemOp.seq, hash |-> SystemOp.hash]]
    /\ UNCHANGED tables

\* The staged tables become the committed ones.
Commit ==
    /\ tx.stage = "detecting"
    /\ log' = tx.log /\ refused' = tx.refused /\ anomalies' = tx.anomalies
    /\ counter' = tx.row /\ sysHead' = tx.sys
    /\ head' = [head EXCEPT ![tx.dev] = tx.head]
    /\ tx' = NoTx
    /\ UNCHANGED status

Abort ==
    /\ tx # NoTx
    /\ tx' = NoTx
    /\ UNCHANGED tables
-----------------------------------------------------------------------------
(* The device directory, written outside the counter lock.                 *)

Register(d) ==
    /\ status[d] = "unknown"
    /\ status' = [status EXCEPT ![d] = "active"]
    /\ UNCHANGED <<log, refused, head, counter, sysHead, anomalies, tx>>

Revoke(d) ==
    /\ status[d] = "active"
    /\ status' = [status EXCEPT ![d] = "revoked"]
    /\ UNCHANGED <<log, refused, head, counter, sysHead, anomalies, tx>>
-----------------------------------------------------------------------------
Init ==
    /\ log = {} /\ refused = {} /\ anomalies = {}
    /\ head = [d \in Devices |-> StartOfChain]
    /\ status = [d \in Devices |-> "unknown"]
    /\ counter = 1
    /\ sysHead = StartOfChain
    /\ tx = NoTx

JudgeOp ==
    \/ HaltedOp \/ DuplicateOp \/ RepeatedRefusal \/ WrongDevice \/ BadSignature
    \/ ChainGap \/ ChainBroken \/ Refuse \/ IdTakenElsewhere \/ Accept \/ FoldConflict

Batches == UNION {[1..n -> Op] : n \in 1..MaxBatch}

Next ==
    \/ \E d \in Devices : Register(d) \/ Revoke(d) \/ \E ops \in Batches : Begin(d, ops)
    \/ JudgeOp \/ Rerun \/ LoopDone \/ DetectConflict \/ Commit \/ Abort

Spec == Init /\ [][Next]_serverVars
-----------------------------------------------------------------------------
(* What the server's tables promise.  A push is one transaction, so each   *)
(* property is asked of the committed tables and of what the open          *)
(* transaction has staged over them.                                       *)

Signers == Devices \cup {SystemDevice}
Heads == [d \in Signers |-> IF d = SystemDevice THEN sysHead ELSE head[d]]
StagedHeads == [d \in Signers |-> IF d = SystemDevice THEN tx.sys
                                  ELSE IF d = tx.dev THEN tx.head ELSE head[d]]
StagedCounter == IF tx.stage = "judging" THEN tx.next ELSE tx.row

Hash == {o.hash : o \in Op} \cup {Genesis}
SystemOps == [id : SystemIds, dev : {SystemDevice}, seq : Nat \ {0},
              prev : {Genesis} \cup SystemIds, hash : SystemIds, sig : {SystemDevice}]
LogRow == [op : Op \cup SystemOps, serverSeq : Nat \ {0}]
Verdicts == RefusalCodes \cup {"RULE_VIOLATED", "DUPLICATE"}
Code == Verdicts \cup {"none", "DEVICE_REVOKED", "CHAIN_HALTED", "SCOPE_VIOLATION",
                       "BAD_SIGNATURE", "CHAIN_GAP", "CHAIN_BROKEN"}
RefusedRow == [id : {o.id : o \in Op}, dev : Devices, seq : Nat, hash : Hash, code : Verdicts]
ChainHead == [seq : Nat, hash : Hash]
SystemHead == [seq : Nat, hash : {Genesis} \cup SystemIds]
OpResult == [id : {o.id : o \in Op}, status : {"accepted", "duplicate", "rejected"}, code : Code]
OpenTx == [stage : {"judging", "detecting"}, dev : Devices, ops : Seq(Op),
           careful : BOOLEAN, head : ChainHead, next : Nat \ {0}, row : Nat \ {0},
           sys : SystemHead, log : SUBSET LogRow, refused : SUBSET RefusedRow,
           known : SUBSET [id : {o.id : o \in Op}, hash : Hash, code : Verdicts],
           anomalies : SUBSET Devices, halted : BOOLEAN, pos : Nat \ {0},
           results : Seq(OpResult)]

\* Every table and the open transaction hold rows of their kind.
TypeOK ==
    /\ log \subseteq LogRow
    /\ refused \subseteq RefusedRow
    /\ head \in [Devices -> ChainHead]
    /\ status \in [Devices -> {"unknown", "active", "revoked"}]
    /\ counter \in Nat \ {0}
    /\ sysHead \in SystemHead
    /\ anomalies \subseteq Devices
    /\ tx \in OpenTx \cup {NoTx} \cup [stage : {"rerun"}, dev : Devices, ops : Seq(Op)]

\* The log's rows carry each serverSeq below the next one exactly once: a
\* device that pulls up to a number has missed nothing below it (server-seq.ts).
Gapless(L, next) ==
    /\ \A r \in L : r.serverSeq < next
    /\ \A n \in 1..(next - 1) : \E r \in L : r.serverSeq = n
    /\ \A r1, r2 \in L : r1.serverSeq = r2.serverSeq => r1 = r2

\* The counter row and the log agree at every commit and at every step of a
\* push, conflict ops and rolled-back attempts included.
GaplessStream ==
    /\ Gapless(log, counter)
    /\ IsOpen => Gapless(tx.log, StagedCounter)

IdOnce(L) == \A r1, r2 \in L : r1.op.id = r2.op.id => r1 = r2

\* An operation is in the log at most once, however often and under however
\* many registrations it is pushed (steps/dedupe.ts).
OpIdOnce == IdOnce(log) /\ (IsOpen => IdOnce(tx.log))

PositionsOnce(L, R) ==
    /\ \A r1, r2 \in L : r1.op.dev = r2.op.dev /\ r1.op.seq = r2.op.seq => r1 = r2
    /\ \A q1, q2 \in R : q1.dev = q2.dev /\ q1.seq = q2.seq => q1 = q2
    /\ \A r \in L, q \in R : ~(r.op.dev = q.dev /\ r.op.seq = q.seq)

\* A device's chain position is spent once: on an accepted op or on a refusal,
\* never on two (spendPosition, chain step).  With hashes that tell ops apart,
\* a refused op is therefore not in the log under the device it was refused to.
PositionSpentOnce ==
    PositionsOnce(log, refused) /\ (IsOpen => PositionsOnce(tx.log, tx.refused))

\* H is the end of every chain: nothing lies past it and what lies at it has
\* its hash.
Ends(L, R, H) ==
    /\ \A d \in Signers : H[d].seq = 0 => H[d].hash = Genesis
    /\ \A r \in L : /\ r.op.seq <= H[r.op.dev].seq
                    /\ r.op.seq = H[r.op.dev].seq => r.op.hash = H[r.op.dev].hash
    /\ \A q \in R : /\ q.seq <= H[q.dev].seq
                    /\ q.seq = H[q.dev].seq => q.hash = H[q.dev].hash
\* A logged op names the hash of whatever holds the position before it.
Linked(L, R) ==
    /\ \A r \in L : r.op.seq = 1 => r.op.prev = Genesis
    /\ \A r1, r2 \in L : r1.op.dev = r2.op.dev /\ r2.op.seq = r1.op.seq + 1
                            => r2.op.prev = r1.op.hash
    /\ \A r \in L, q \in R : r.op.dev = q.dev /\ r.op.seq = q.seq + 1
                            => r.op.prev = q.hash

\* The log and the refusals of one device form one hash chain that ends at
\* devices.last_seq/last_hash, and the system device's at its own head
\* (05 section 4): a device that verifies the log finds no break the server made.
ChainIntact ==
    /\ Linked(log, refused) /\ Ends(log, refused, Heads)
    /\ IsOpen => Linked(tx.log, tx.refused) /\ Ends(tx.log, tx.refused, StagedHeads)

\* What the reply says is what the transaction holds: an op told accepted or
\* duplicate is in the log (or another tenant's), and an op refused on its
\* merits is behind the head, so the device's next op is not stranded.
AnswersHold ==
    IsOpen => \A i \in DOMAIN tx.results :
        LET op == tx.ops[i]  res == tx.results[i] IN
        /\ res.id = op.id
        /\ res.status # "rejected" => op.id \in IdsIn(tx.log) \cup ForeignIds
        /\ res.code \in Verdicts /\ op.dev = tx.dev => op.seq <= tx.head.seq

\* Rows are never changed or taken back, a new row comes after every row a
\* pull cursor may have passed, and no chain head moves backwards.
AppendOnlyStream ==
    [][ /\ log \subseteq log' /\ refused \subseteq refused'
        /\ \A r \in log' \ log, q \in log : q.serverSeq < r.serverSeq
        /\ \A d \in Devices : head[d].seq <= head'[d].seq ]_serverVars
=============================================================================
