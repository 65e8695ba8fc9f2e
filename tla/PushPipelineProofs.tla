------------------------- MODULE PushPipelineProofs -------------------------
(***************************************************************************)
(* What PushPipeline keeps for every set of devices, every repertoire of   *)
(* pushed ops, every batch size and every number of conflicts.             *)
(***************************************************************************)
EXTENDS PushPipeline, TLAPS

-----------------------------------------------------------------------------
(* Types.                                                                  *)

RerunTx == [stage : {"rerun"}, dev : Devices, ops : Seq(Op)]

\* The op of an iteration is one the device pushed.
LEMMA CurIsPushed ==
    ASSUME TypeOK, IsOpen, Running
    PROVE  Cur \in Op
  BY DEF TypeOK, IsOpen, Running, Cur, OpenTx, NoTx

\* An open transaction is a transaction record.
LEMMA OpenIsTyped ==
    ASSUME TypeOK, IsOpen
    PROVE  tx \in OpenTx
  BY DEF TypeOK, IsOpen, OpenTx, NoTx

\* What a batch is.
LEMMA BatchesAreSequences == Batches \subseteq Seq(Op)
  BY Bounds DEF Batches

\* A fresh transaction is well typed, first attempt or careful one.
LEMMA OpenedIsTyped ==
    ASSUME TypeOK, NEW d \in Devices, NEW ops \in Seq(Op), NEW careful \in BOOLEAN
    PROVE  Opened(d, ops, careful) \in OpenTx
  <1>1. LoadedRefusals(d, ops) \subseteq [id : {o.id : o \in Op}, hash : Hash, code : Verdicts]
    BY DEF TypeOK, LoadedRefusals, Verdict, RefusedRow
  <1>2. (IF status[d] = "revoked" THEN Len(ops) + 1 ELSE 1) \in Nat \ {0}
    OBVIOUS
  <1>3. [i \in 1..Len(ops) |-> RevokedAnswer(ops[i])] \in Seq(OpResult)
    BY DEF RevokedAnswer, OpResult, Code
  <1>4. (IF status[d] = "revoked" THEN [i \in 1..Len(ops) |-> RevokedAnswer(ops[i])]
         ELSE <<>>) \in Seq(OpResult)
    BY <1>3
  <1> QED BY <1>1, <1>2, <1>4 DEF TypeOK, Opened, OpenTx

\* An iteration keeps the transaction typed when what it staged is typed.
LEMMA AnswerIsTyped ==
    ASSUME TypeOK, IsOpen, NEW staged \in OpenTx, NEW res \in OpResult, Answer(staged, res)
    PROVE  TypeOK'
  <1>1. staged.pos + 1 \in Nat \ {0} /\ Append(staged.results, res) \in Seq(OpResult)
    BY DEF OpenTx
  <1>2. ASSUME NEW pos \in Nat \ {0}, NEW results \in Seq(OpResult)
        PROVE  [staged EXCEPT !.pos = pos, !.results = results] \in OpenTx
    BY DEF OpenTx
  <1>3. tx' \in OpenTx
    BY <1>1, <1>2 DEF Answer
  <1> QED BY <1>3 DEF TypeOK, Answer, tables

\* What an answer and a spent position are made of.
LEMMA StagedIsTyped ==
    ASSUME TypeOK, IsOpen, Running
    PROVE  /\ tx \in OpenTx /\ WithAnomaly(tx) \in OpenTx
           /\ \A code \in Verdicts : Spent(code) \in OpenTx /\ Refused(code) \in OpenTx
           /\ \A code \in Verdicts : WithAnomaly(Refused(code)) \in OpenTx
           /\ \A st \in {"accepted", "duplicate", "rejected"}, code \in Code :
                 Result(st, code) \in OpResult
  <1>0. tx \in OpenTx /\ Cur \in Op
    BY CurIsPushed, OpenIsTyped
  <1>1. WithAnomaly(tx) \in OpenTx
    BY <1>0 DEF WithAnomaly, OpenTx
  <1>2. ASSUME NEW code \in Verdicts
        PROVE  Spent(code) \in OpenTx
    <2>1. RefusedRowOf(code) \in RefusedRow
      BY <1>0, OpShape DEF RefusedRowOf, RefusedRow, OpenTx, Hash
    <2>2. HeadAtCur \in ChainHead
      BY <1>0, OpShape DEF HeadAtCur, ChainHead, Hash
    <2> QED BY <1>0, <2>1, <2>2 DEF Spent, OpenTx
  <1>3. ASSUME NEW code \in Verdicts
        PROVE  Refused(code) \in OpenTx
    <2>1. Verdict(RefusedRowOf(code)) \in [id : {o.id : o \in Op}, hash : Hash, code : Verdicts]
      BY <1>0, OpShape DEF RefusedRowOf, Verdict, Hash
    <2>2. ASSUME NEW t \in OpenTx,
                 NEW known \in SUBSET [id : {o.id : o \in Op}, hash : Hash, code : Verdicts]
          PROVE  [t EXCEPT !.known = known] \in OpenTx
      BY DEF OpenTx
    <2>3. Spent(code).known \in SUBSET [id : {o.id : o \in Op}, hash : Hash, code : Verdicts]
      BY <1>2 DEF OpenTx
    <2> QED BY <1>2, <2>1, <2>2, <2>3 DEF Refused
  <1>4. ASSUME NEW code \in Verdicts
        PROVE  WithAnomaly(Refused(code)) \in OpenTx
    BY <1>3, <1>0 DEF WithAnomaly, OpenTx
  <1>5. \A st \in {"accepted", "duplicate", "rejected"}, code \in Code : Result(st, code) \in OpResult
    BY <1>0 DEF Result, OpResult
  <1> QED BY <1>0, <1>1, <1>2, <1>3, <1>4, <1>5
\* Every step keeps the types.
LEMMA TypeStep == TypeOK /\ [Next]_serverVars => TypeOK'
  <1> SUFFICES ASSUME TypeOK, [Next]_serverVars PROVE TypeOK'
    OBVIOUS
  <1>1. CASE UNCHANGED serverVars
    BY <1>1 DEF TypeOK, serverVars
  <1>2. ASSUME NEW d \in Devices, Register(d) PROVE TypeOK'
    BY <1>2 DEF TypeOK, Register
  <1>3. ASSUME NEW d \in Devices, Revoke(d) PROVE TypeOK'
    BY <1>3 DEF TypeOK, Revoke
  <1>4. ASSUME NEW d \in Devices, NEW ops \in Batches, Begin(d, ops) PROVE TypeOK'
    <2>1. Opened(d, ops, FALSE) \in OpenTx
      BY OpenedIsTyped, BatchesAreSequences
    <2> QED BY <1>4, <2>1 DEF TypeOK, Begin, tables
  <1>5. CASE JudgeOp
    <2>1. Running /\ IsOpen
      BY <1>5 DEF JudgeOp, HaltedOp, DuplicateOp, RepeatedRefusal, WrongDevice, BadSignature,
                  ChainGap, ChainBroken, Refuse, IdTakenElsewhere, Accept, FoldConflict, Live, New,
                  Bound, Signed, AtNextPosition, Storable, Running, IsOpen
    <2>2. tx \in OpenTx /\ Cur \in Op
      BY <2>1, OpenIsTyped, CurIsPushed
    <2>3. ASSUME NEW staged \in OpenTx, NEW st \in {"accepted", "duplicate", "rejected"},
                 NEW code \in Code, Answer(staged, Result(st, code))
          PROVE  TypeOK'
      BY <2>1, <2>3, AnswerIsTyped, StagedIsTyped
    <2>4. CASE HaltedOp
      BY <2>2, <2>3, <2>4 DEF HaltedOp, Code
    <2>5. CASE DuplicateOp
      BY <2>1, <2>2, <2>3, <2>5, StagedIsTyped DEF DuplicateOp, Code, Verdicts
    <2>6. CASE RepeatedRefusal
      <3>1. PICK k \in EarlierRefusals : Answer(tx, Result("rejected", k.code))
        BY <2>6 DEF RepeatedRefusal
      <3>2. k.code \in Code
        BY <2>2 DEF EarlierRefusals, OpenTx, Code
      <3> QED BY <2>2, <2>3, <3>1, <3>2
    <2>7. CASE WrongDevice
      BY <2>1, <2>3, <2>7, StagedIsTyped DEF WrongDevice, Code
    <2>8. CASE BadSignature
      BY <2>1, <2>3, <2>8, StagedIsTyped DEF BadSignature, Code
    <2>9. CASE ChainGap
      BY <2>2, <2>3, <2>9 DEF ChainGap, Code
    <2>10. CASE ChainBroken
      <3>1. WithAnomaly(tx) \in OpenTx
        BY <2>1, StagedIsTyped
      <3>2. [WithAnomaly(tx) EXCEPT !.halted = TRUE] \in OpenTx
        BY <3>1 DEF OpenTx
      <3> QED BY <2>3, <2>10, <3>2 DEF ChainBroken, Code
    <2>11. CASE Refuse
      <3>1. PICK code \in RefusalCodes :
               \/ Answer(Refused(code), Result("rejected", code))
               \/ Answer(WithAnomaly(Refused(code)), Result("rejected", code))
        BY <2>11 DEF Refuse
      <3>2. code \in Verdicts /\ code \in Code
        BY DEF Verdicts, Code
      <3> QED BY <2>1, <2>3, <3>1, <3>2, StagedIsTyped
    <2>12. CASE IdTakenElsewhere
      BY <2>2, <2>3, <2>12 DEF IdTakenElsewhere, Code
    <2>13. CASE Accept
      <3>1. LogRowOfCur \in LogRow /\ HeadAtCur \in ChainHead /\ tx.next + 1 \in Nat \ {0}
        BY <2>2, OpShape DEF LogRowOfCur, LogRow, HeadAtCur, ChainHead, Hash, OpenTx
      <3>2. [tx EXCEPT !.log = @ \cup {LogRowOfCur}, !.next = @ + 1, !.head = HeadAtCur] \in OpenTx
        BY <2>2, <3>1 DEF OpenTx
      <3> QED BY <2>3, <2>13, <3>2 DEF Accept, Code
    <2>14. CASE FoldConflict
      <3>1. CASE Answer(Refused("RULE_VIOLATED"), Result("rejected", "RULE_VIOLATED"))
        BY <2>1, <2>3, <3>1, StagedIsTyped DEF Verdicts, Code
      <3>2. CASE tx' = [stage |-> "rerun", dev |-> tx.dev, ops |-> tx.ops] /\ UNCHANGED tables
        BY <2>2, <3>2 DEF TypeOK, tables, OpenTx
      <3> QED BY <2>14, <3>1, <3>2 DEF FoldConflict
    <2> QED BY <1>5, <2>4, <2>5, <2>6, <2>7, <2>8, <2>9, <2>10, <2>11, <2>12, <2>13, <2>14
            DEF JudgeOp
  <1>6. CASE Rerun
    <2>1. tx.dev \in Devices /\ tx.ops \in Seq(Op)
      BY <1>6 DEF TypeOK, Rerun, NoTx, OpenTx
    <2>2. Opened(tx.dev, tx.ops, TRUE) \in OpenTx
      BY <2>1, OpenedIsTyped
    <2> QED BY <1>6, <2>2 DEF TypeOK, Rerun, tables
  <1>7. CASE LoopDone
    <2>1. tx \in OpenTx
      BY <1>7, OpenIsTyped DEF LoopDone, IsOpen
    <2>2. [tx EXCEPT !.stage = "detecting", !.row = tx.next] \in OpenTx
      BY <2>1 DEF OpenTx
    <2> QED BY <1>7, <2>2 DEF TypeOK, LoopDone, tables
  <1>8. CASE DetectConflict
    <2>1. tx \in OpenTx
      BY <1>8, OpenIsTyped DEF DetectConflict, IsOpen
    <2>2. /\ [op |-> SystemOp, serverSeq |-> tx.row] \in LogRow
          /\ [seq |-> SystemOp.seq, hash |-> SystemOp.hash] \in SystemHead
          /\ tx.row + 1 \in Nat \ {0}
      BY <2>1 DEF OpenTx, SystemOp, SystemOps, SystemIds, SystemHead, LogRow
    <2>3. tx' \in OpenTx
      BY <1>8, <2>1, <2>2 DEF DetectConflict, OpenTx
    <2> QED BY <1>8, <2>3 DEF TypeOK, DetectConflict, tables
  <1>9. CASE Commit
    <2>1. tx \in OpenTx
      BY <1>9, OpenIsTyped DEF Commit, IsOpen
    <2> QED BY <1>9, <2>1 DEF TypeOK, Commit, OpenTx
  <1>10. CASE Abort
    BY <1>10 DEF TypeOK, Abort, tables
  <1> QED BY <1>1, <1>2, <1>3, <1>4, <1>5, <1>6, <1>7, <1>8, <1>9, <1>10 DEF Next

\* The tables and the open transaction always hold rows of their kind.
THEOREM TypeCorrect == Spec => []TypeOK
  <1>1. Init => TypeOK
    BY DEF Init, TypeOK, StartOfChain, ChainHead, SystemHead, Hash
  <1> QED BY <1>1, TypeStep, PTL DEF Spec
-----------------------------------------------------------------------------
(* The tables.  Each safety property needs the others: a fresh position is *)
(* free because the heads bound every row, a link holds because the row at *)
(* the head is unique and has the head's hash.  Together they are kept.    *)

AnyHead == [seq : Nat, hash : Hash \cup SystemIds]

\* Log rows belong to chains the server keeps, and a conflict op's id is its
\* position on the system chain, so a new one's id is fresh.
Named(L) ==
    \A r \in L : /\ r.op.dev \in Signers
                 /\ r.op \in SystemOps => r.op.id = <<"system", r.op.seq>>

TablesOK(L, R, H, next) ==
    /\ L \subseteq LogRow /\ R \subseteq RefusedRow
    /\ H \in [Signers -> AnyHead] /\ next \in Nat \ {0}
    /\ Gapless(L, next) /\ IdOnce(L) /\ Named(L)
    /\ PositionsOnce(L, R) /\ Linked(L, R) /\ Ends(L, R, H)

\* A row for the next position of a chain, with the next serverSeq and an id
\* the log does not have, leaves the tables in order.
LEMMA LogRowAdded ==
    ASSUME NEW L, NEW R, NEW H, NEW next, TablesOK(L, R, H, next),
           NEW op \in Op \cup SystemOps, op.dev \in Signers,
           op.seq = H[op.dev].seq + 1, op.prev = H[op.dev].hash,
           op.id \notin IdsIn(L), op \in SystemOps => op.id = <<"system", op.seq>>,
           NEW row, row = [op |-> op, serverSeq |-> next],
           NEW H2, H2 = [H EXCEPT ![op.dev] = [seq |-> op.seq, hash |-> op.hash]]
    PROVE  TablesOK(L \cup {row}, R, H2, next + 1)
  <1>0. /\ L \subseteq LogRow /\ R \subseteq RefusedRow
        /\ H \in [Signers -> AnyHead] /\ next \in Nat \ {0}
    BY DEF TablesOK
  <1>1. /\ \A d \in Signers : H[d].seq \in Nat
        /\ \A r \in L : r.op.seq \in Nat \ {0} /\ r.serverSeq \in Nat \ {0}
        /\ \A q \in R : q.seq \in Nat /\ q.dev \in Signers
        /\ op.seq \in Nat \ {0}
    BY <1>0, OpShape DEF AnyHead, LogRow, RefusedRow, SystemOps, Signers
  <1>2. Gapless(L \cup {row}, next + 1)
    <2>1. \A r \in L : r.serverSeq < next
      BY DEF TablesOK, Gapless
    <2>2. \A r \in L \cup {row} : r.serverSeq < next + 1
      BY <1>0, <1>1, <2>1
    <2>3. ASSUME NEW n \in 1..((next + 1) - 1)
          PROVE  \E r \in L \cup {row} : r.serverSeq = n
      <3>1. CASE n = next
        <4> WITNESS row \in L \cup {row}
        <4> QED BY <3>1
      <3>2. CASE n \in 1..(next - 1)
        BY <3>2 DEF TablesOK, Gapless
      <3> QED BY <1>0, <3>1, <3>2
    <2>4. \A r1, r2 \in L \cup {row} : r1.serverSeq = r2.serverSeq => r1 = r2
      BY <1>1, <2>1 DEF TablesOK, Gapless
    <2> QED BY <2>2, <2>3, <2>4 DEF Gapless
  <1>3. IdOnce(L \cup {row})
    BY DEF TablesOK, IdOnce, IdsIn
  <1>4. Named(L \cup {row})
    BY DEF TablesOK, Named
  <1>5. /\ \A r \in L : r.op.dev \in Signers /\ r.op.seq <= H[r.op.dev].seq
        /\ \A q \in R : q.seq <= H[q.dev].seq
    BY DEF TablesOK, Named, Ends
  <1>6. PositionsOnce(L \cup {row}, R)
    BY <1>1, <1>5 DEF TablesOK, PositionsOnce
  <1>7. Linked(L \cup {row}, R)
    <2>0. Ends(L, R, H) /\ Linked(L, R)
      BY DEF TablesOK
    <2>1. op.seq = 1 => op.prev = Genesis
      BY <1>1, <2>0 DEF Ends
    <2>2. \A r \in L : r.op.dev = op.dev =>
             /\ op.seq = r.op.seq + 1 => op.prev = r.op.hash
             /\ r.op.seq # op.seq + 1
      BY <1>1, <1>5, <2>0 DEF Ends
    <2>3. \A q \in R : op.dev = q.dev /\ op.seq = q.seq + 1 => op.prev = q.hash
      BY <1>1, <1>5, <2>0 DEF Ends
    <2> QED BY <1>1, <2>0, <2>1, <2>2, <2>3 DEF Linked
  <1>8. Ends(L \cup {row}, R, H2)
    BY <1>1, <1>5 DEF TablesOK, Ends
  <1>9. L \cup {row} \subseteq LogRow /\ H2 \in [Signers -> AnyHead] /\ next + 1 \in Nat \ {0}
    BY <1>0, <1>1 DEF LogRow, AnyHead, Hash, SystemOps
  <1> QED BY <1>0, <1>2, <1>3, <1>4, <1>6, <1>7, <1>8, <1>9 DEF TablesOK

\* A head that moves past its next position, with a refusal recorded there or
\* none, leaves the tables in order.
LEMMA PositionSpent ==
    ASSUME NEW L, NEW R, NEW H, NEW next, TablesOK(L, R, H, next),
           NEW q \in RefusedRow, q.seq = H[q.dev].seq + 1, q.seq \in Nat \ {0},
           NEW R2, R2 = R \/ R2 = R \cup {q},
           NEW H2, H2 = [H EXCEPT ![q.dev] = [seq |-> q.seq, hash |-> q.hash]]
    PROVE  TablesOK(L, R2, H2, next)
  <1>0. /\ L \subseteq LogRow /\ R \subseteq RefusedRow
        /\ H \in [Signers -> AnyHead] /\ next \in Nat \ {0}
    BY DEF TablesOK
  <1>1. /\ \A d \in Signers : H[d].seq \in Nat
        /\ \A r \in L : r.op.seq \in Nat \ {0} /\ r.op.dev \in Signers
        /\ \A p \in R \cup {q} : p.seq \in Nat /\ p.dev \in Signers
    BY <1>0, OpShape DEF AnyHead, LogRow, RefusedRow, SystemOps, Signers, TablesOK, Named
  <1>2. /\ \A r \in L : r.op.seq <= H[r.op.dev].seq
        /\ \A p \in R : p.seq <= H[p.dev].seq
    BY DEF TablesOK, Ends
  <1>3. PositionsOnce(L, R2)
    BY <1>1, <1>2 DEF TablesOK, PositionsOnce
  <1>4. Linked(L, R2)
    BY <1>1, <1>2 DEF TablesOK, Linked
  <1>5. Ends(L, R2, H2)
    BY <1>1, <1>2 DEF TablesOK, Ends
  <1>6. R2 \subseteq RefusedRow /\ H2 \in [Signers -> AnyHead]
    BY <1>0, <1>1 DEF RefusedRow, AnyHead
  <1> QED BY <1>0, <1>3, <1>4, <1>5, <1>6 DEF TablesOK
-----------------------------------------------------------------------------
(* The invariant: the committed tables are in order, and so is what the    *)
(* open transaction would commit, which only adds to them.                 *)

CommittedOK == TablesOK(log, refused, Heads, counter)
StagedOK == IsOpen => TablesOK(tx.log, tx.refused, StagedHeads, StagedCounter)

\* What is staged extends what is committed, with numbers the committed log
\* has not used and a head that has not moved back.
Extends ==
    IsOpen => /\ log \subseteq tx.log /\ refused \subseteq tx.refused
              /\ \A r \in tx.log \ log : counter <= r.serverSeq
              /\ counter <= StagedCounter
              /\ head[tx.dev].seq <= tx.head.seq

TablesInv == TypeOK /\ CommittedOK /\ StagedOK /\ Extends

\* The heads are heads.
LEMMA HeadsAreTyped ==
    ASSUME TypeOK
    PROVE  /\ Heads \in [Signers -> AnyHead]
           /\ IsOpen => StagedHeads \in [Signers -> AnyHead]
           /\ IsOpen => /\ StagedHeads[tx.dev] = tx.head
                        /\ StagedHeads[SystemDevice] = tx.sys
                        /\ StagedCounter \in Nat \ {0}
  <1>1. Heads \in [Signers -> AnyHead]
    BY DEF TypeOK, Heads, Signers, AnyHead, ChainHead, SystemHead, Hash
  <1>2. ASSUME IsOpen
        PROVE  /\ StagedHeads \in [Signers -> AnyHead]
               /\ StagedHeads[tx.dev] = tx.head
               /\ StagedHeads[SystemDevice] = tx.sys
               /\ StagedCounter \in Nat \ {0}
    <2>1. tx \in OpenTx
      BY <1>2, OpenIsTyped
    <2> QED BY <2>1, SystemDeviceApart
            DEF TypeOK, StagedHeads, Signers, AnyHead, ChainHead, SystemHead, Hash, OpenTx,
                StagedCounter
  <1> QED BY <1>1, <1>2

\* A fresh transaction has staged nothing.
LEMMA FreshTransaction ==
    ASSUME TypeOK, CommittedOK, NEW d \in Devices, NEW ops \in Seq(Op), NEW careful \in BOOLEAN,
           tx' = Opened(d, ops, careful), UNCHANGED tables
    PROVE  StagedOK' /\ Extends' /\ CommittedOK'
  <1>1. /\ tx'.log = log /\ tx'.refused = refused /\ tx'.dev = d /\ tx'.head = head[d]
        /\ tx'.sys = sysHead /\ tx'.stage = "judging" /\ tx'.next = counter
    BY DEF Opened
  <1>2. StagedHeads' = Heads /\ StagedCounter' = counter /\ Heads' = Heads
    BY <1>1 DEF StagedHeads, Heads, StagedCounter, tables
  <1>3. CommittedOK' /\ StagedOK'
    BY <1>1, <1>2 DEF CommittedOK, StagedOK, tables
  <1>4. Extends'
    BY <1>1, <1>2 DEF Extends, tables, TypeOK, ChainHead
  <1> QED BY <1>3, <1>4

\* An iteration that stages no row and moves no head changes no table.
LEMMA NothingStaged ==
    ASSUME TablesInv, Running, NEW staged \in OpenTx, NEW res, Answer(staged, res),
           staged.log = tx.log, staged.refused = tx.refused, staged.head = tx.head,
           staged.next = tx.next, staged.sys = tx.sys, staged.dev = tx.dev,
           staged.stage = tx.stage
    PROVE  CommittedOK' /\ StagedOK' /\ Extends'
  <1>1. /\ tx'.log = tx.log /\ tx'.refused = tx.refused /\ tx'.dev = tx.dev
        /\ tx'.head = tx.head /\ tx'.sys = tx.sys /\ tx'.stage = tx.stage
        /\ tx'.next = tx.next /\ tx.stage = "judging"
    BY DEF Answer, OpenTx, Running
  <1>2. /\ StagedHeads' = StagedHeads /\ StagedCounter' = StagedCounter /\ Heads' = Heads
        /\ IsOpen /\ IsOpen'
    BY <1>1 DEF StagedHeads, Heads, StagedCounter, Answer, tables, IsOpen
  <1> QED BY <1>1, <1>2 DEF TablesInv, CommittedOK, StagedOK, Extends, Answer, tables

\* A spent position, whatever the answer to it is.
LEMMA SpendingStep ==
    ASSUME TablesInv, Running, AtItsNextPosition, NEW code \in Verdicts,
           NEW staged \in OpenTx, NEW res, Answer(staged, res),
           staged.log = tx.log, staged.refused = Spent(code).refused, staged.head = HeadAtCur,
           staged.next = tx.next, staged.sys = tx.sys, staged.dev = tx.dev,
           staged.stage = tx.stage
    PROVE  CommittedOK' /\ StagedOK' /\ Extends'
  <1> DEFINE q == RefusedRowOf(code)
  <1>1. /\ tx'.log = tx.log /\ tx'.refused = Spent(code).refused /\ tx'.dev = tx.dev
        /\ tx'.head = HeadAtCur /\ tx'.sys = tx.sys /\ tx'.stage = tx.stage
        /\ tx'.next = tx.next /\ tx.stage = "judging"
    BY DEF Answer, OpenTx, Running
  <1>2. TypeOK /\ IsOpen /\ IsOpen' /\ tx \in OpenTx /\ Cur \in Op
    BY <1>1, CurIsPushed, OpenIsTyped DEF TablesInv, Running, IsOpen
  <1>3. /\ tx.refused \subseteq tx'.refused
        /\ tx'.refused = tx.refused \/ tx'.refused = tx.refused \cup {q}
    BY <1>1, <1>2 DEF Spent, OpenTx
  <1>4. /\ q \in RefusedRow /\ q.dev = tx.dev /\ q.seq = tx.head.seq + 1 /\ q.seq \in Nat \ {0}
        /\ q.hash = HeadAtCur.hash /\ q.seq = HeadAtCur.seq
    BY <1>2, OpShape DEF RefusedRowOf, RefusedRow, OpenTx, Hash, HeadAtCur, AtItsNextPosition,
                         ClassifyChain, ChainHead
  <1>5. StagedHeads' = [StagedHeads EXCEPT ![q.dev] = [seq |-> q.seq, hash |-> q.hash]]
    BY <1>1, <1>2, <1>4, SystemDeviceApart
    DEF StagedHeads, Answer, tables, HeadAtCur, OpenTx, Signers
  <1>6. TablesOK(tx.log, tx'.refused, StagedHeads', StagedCounter)
    <2>1. q.seq = StagedHeads[q.dev].seq + 1
      BY <1>2, <1>4, HeadsAreTyped
    <2>2. TablesOK(tx.log, tx.refused, StagedHeads, StagedCounter)
      BY <1>2 DEF TablesInv, StagedOK
    <2> HIDE DEF q
    <2> QED BY <1>3, <1>4, <1>5, <2>1, <2>2, PositionSpent
  <1>7. StagedCounter' = StagedCounter /\ Heads' = Heads
    BY <1>1 DEF StagedCounter, Heads, Answer, tables
  <1>8. StagedOK' /\ CommittedOK'
    BY <1>1, <1>6, <1>7 DEF StagedOK, CommittedOK, TablesInv, Answer, tables
  <1>9. Extends'
    BY <1>1, <1>2, <1>3, <1>4, <1>7 DEF TablesInv, Extends, Answer, tables, HeadAtCur, OpenTx,
                                         TypeOK, ChainHead
  <1> QED BY <1>8, <1>9

\* An accepted op takes its chain's next position and the next serverSeq.
LEMMA AcceptStep ==
    ASSUME TablesInv, Accept
    PROVE  CommittedOK' /\ StagedOK' /\ Extends'
  <1> DEFINE staged == [tx EXCEPT !.log = @ \cup {LogRowOfCur}, !.next = @ + 1, !.head = HeadAtCur]
  <1>1. Running /\ IsOpen /\ TypeOK /\ tx \in OpenTx /\ Cur \in Op
    BY CurIsPushed, OpenIsTyped
    DEF Accept, Storable, AtNextPosition, Signed, Bound, New, Live, Running, IsOpen, TablesInv
  <1>2. /\ Cur.id \notin IdsIn(tx.log) /\ Cur.dev = tx.dev
        /\ Cur.seq = tx.head.seq + 1 /\ Cur.prev = tx.head.hash
    BY <1>1, OpShape DEF Accept, Storable, AtNextPosition, Signed, Bound, New, Duplicate,
                         ClassifyChain, OpenTx, ChainHead
  <1>3. /\ tx'.log = tx.log \cup {LogRowOfCur} /\ tx'.refused = tx.refused /\ tx'.dev = tx.dev
        /\ tx'.head = HeadAtCur /\ tx'.sys = tx.sys /\ tx'.stage = "judging"
        /\ tx'.next = tx.next + 1 /\ tx.stage = "judging" /\ UNCHANGED tables
    BY <1>1 DEF Accept, Answer, OpenTx, Running
  <1>4. /\ StagedHeads' = [StagedHeads EXCEPT ![Cur.dev] = [seq |-> Cur.seq, hash |-> Cur.hash]]
        /\ StagedCounter = tx.next /\ StagedCounter' = tx.next + 1 /\ Heads' = Heads
    BY <1>1, <1>2, <1>3, SystemDeviceApart
    DEF StagedHeads, StagedCounter, Heads, tables, HeadAtCur, OpenTx, Signers
  <1>5. TablesOK(tx.log \cup {LogRowOfCur}, tx.refused, StagedHeads', tx.next + 1)
    <2>1. TablesOK(tx.log, tx.refused, StagedHeads, tx.next)
      BY <1>1, <1>4 DEF TablesInv, StagedOK
    <2>2. Cur.seq = StagedHeads[Cur.dev].seq + 1 /\ Cur.prev = StagedHeads[Cur.dev].hash
      BY <1>1, <1>2, HeadsAreTyped
    <2>3. Cur.dev \in Signers /\ Cur \notin SystemOps /\ Cur \in Op \cup SystemOps
      BY <1>1, <1>2, OpShape DEF OpenTx, Signers, SystemOps
    <2>4. LogRowOfCur = [op |-> Cur, serverSeq |-> tx.next]
      BY DEF LogRowOfCur
    <2> QED BY <1>2, <1>4, <2>1, <2>2, <2>3, <2>4, LogRowAdded
  <1>6. CommittedOK' /\ StagedOK'
    BY <1>3, <1>4, <1>5 DEF CommittedOK, StagedOK, TablesInv, tables
  <1>7. Extends'
    <2>1. counter <= tx.next /\ counter \in Nat /\ tx.next \in Nat
      BY <1>1, <1>4 DEF TablesInv, Extends, TypeOK, OpenTx
    <2>2. \A r \in tx'.log \ log : counter <= r.serverSeq
      BY <1>1, <1>3, <2>1 DEF TablesInv, Extends, LogRowOfCur
    <2>3. head[tx.dev].seq <= HeadAtCur.seq
      BY <1>1, <1>2 DEF TablesInv, Extends, HeadAtCur, TypeOK, OpenTx, ChainHead
    <2> QED BY <1>1, <1>3, <1>4, <2>1, <2>2, <2>3 DEF TablesInv, Extends, tables
  <1> QED BY <1>6, <1>7

\* A conflict op takes the system chain's next position.
LEMMA DetectStep ==
    ASSUME TablesInv, DetectConflict
    PROVE  CommittedOK' /\ StagedOK' /\ Extends'
  <1>1. IsOpen /\ TypeOK /\ tx \in OpenTx /\ tx.stage = "detecting"
    BY OpenIsTyped DEF DetectConflict, IsOpen, TablesInv
  <1> DEFINE row == [op |-> SystemOp, serverSeq |-> tx.row]
  <1>2. /\ tx'.log = tx.log \cup {row} /\ tx'.refused = tx.refused /\ tx'.dev = tx.dev
        /\ tx'.head = tx.head /\ tx'.sys = [seq |-> SystemOp.seq, hash |-> SystemOp.hash]
        /\ tx'.stage = "detecting" /\ tx'.row = tx.row + 1 /\ UNCHANGED tables
    BY <1>1 DEF DetectConflict, OpenTx
  <1>3. /\ SystemOp \in SystemOps /\ SystemOp.dev = SystemDevice
        /\ SystemOp.seq = tx.sys.seq + 1 /\ SystemOp.prev = tx.sys.hash
        /\ SystemOp.id = <<"system", SystemOp.seq>> /\ SystemOp.seq \in Nat
    BY <1>1 DEF SystemOp, SystemOps, SystemIds, OpenTx, SystemHead
  <1>4. /\ StagedHeads' = [StagedHeads EXCEPT ![SystemOp.dev] =
                              [seq |-> SystemOp.seq, hash |-> SystemOp.hash]]
        /\ StagedCounter = tx.row /\ StagedCounter' = tx.row + 1 /\ Heads' = Heads
    BY <1>1, <1>2, <1>3, SystemDeviceApart
    DEF StagedHeads, StagedCounter, Heads, tables, Signers, OpenTx
  <1>5. TablesOK(tx.log, tx.refused, StagedHeads, tx.row)
    BY <1>1, <1>4 DEF TablesInv, StagedOK
  <1>6. SystemOp.id \notin IdsIn(tx.log)
    <2> SUFFICES ASSUME NEW r \in tx.log, r.op.id = SystemOp.id PROVE FALSE
      BY DEF IdsIn
    <2>1. r.op \in Op \cup SystemOps /\ r.op.seq <= StagedHeads[r.op.dev].seq
      BY <1>5 DEF TablesOK, Ends, LogRow
    <2>2. r.op \in SystemOps
      BY <1>3, <2>1, OpShape DEF SystemOps
    <2>3. r.op.id = <<"system", r.op.seq>> /\ r.op.dev = SystemDevice
      BY <1>5, <2>2 DEF TablesOK, Named, SystemOps
    <2> QED BY <1>1, <1>3, <2>1, <2>2, <2>3, HeadsAreTyped DEF OpenTx, SystemHead, SystemOps
  <1>7. TablesOK(tx.log \cup {row}, tx.refused, StagedHeads', tx.row + 1)
    <2>1. SystemOp.seq = StagedHeads[SystemOp.dev].seq + 1 /\ SystemOp.prev = StagedHeads[SystemOp.dev].hash
      BY <1>1, <1>3, HeadsAreTyped
    <2>2. SystemOp.dev \in Signers /\ SystemOp \in Op \cup SystemOps
      BY <1>3 DEF Signers
    <2> QED BY <1>3, <1>4, <1>5, <1>6, <2>1, <2>2, LogRowAdded
  <1>8. CommittedOK' /\ StagedOK'
    BY <1>2, <1>4, <1>7 DEF CommittedOK, StagedOK, TablesInv, tables
  <1>9. Extends'
    <2>1. counter <= tx.row /\ counter \in Nat /\ tx.row \in Nat
      BY <1>1, <1>4 DEF TablesInv, Extends, TypeOK, OpenTx
    <2> QED BY <1>1, <1>2, <1>4, <2>1 DEF TablesInv, Extends, tables
  <1> QED BY <1>8, <1>9

\* Every step keeps the tables in order.
LEMMA TablesStep == TablesInv /\ [Next]_serverVars => TablesInv'
  <1> SUFFICES ASSUME TablesInv, [Next]_serverVars
               PROVE  CommittedOK' /\ StagedOK' /\ Extends'
    BY TypeStep DEF TablesInv
  <1>0. TypeOK /\ CommittedOK /\ StagedOK /\ Extends
    BY DEF TablesInv
  <1>1. CASE UNCHANGED serverVars
    BY <1>0, <1>1 DEF CommittedOK, StagedOK, Extends, serverVars, Heads, StagedHeads, StagedCounter,
                      IsOpen
  <1>2. CASE UNCHANGED <<log, refused, head, counter, sysHead, tx>>
    BY <1>0, <1>2 DEF CommittedOK, StagedOK, Extends, Heads, StagedHeads, StagedCounter, IsOpen
  <1>3. ASSUME NEW d \in Devices, NEW ops \in Batches, Begin(d, ops)
        PROVE  CommittedOK' /\ StagedOK' /\ Extends'
    BY <1>0, <1>3, FreshTransaction, BatchesAreSequences DEF Begin
  <1>4. CASE JudgeOp
    <2>1. Running /\ IsOpen
      BY <1>4 DEF JudgeOp, HaltedOp, DuplicateOp, RepeatedRefusal, WrongDevice, BadSignature,
                  ChainGap, ChainBroken, Refuse, IdTakenElsewhere, Accept, FoldConflict, Live, New,
                  Bound, Signed, AtNextPosition, Storable, Running, IsOpen
    <2>2. tx \in OpenTx /\ Cur \in Op
      BY <1>0, <2>1, OpenIsTyped, CurIsPushed
    <2>3. ASSUME NEW res, \/ Answer(tx, res) \/ Answer(WithAnomaly(tx), res)
                          \/ Answer([WithAnomaly(tx) EXCEPT !.halted = TRUE], res)
          PROVE  CommittedOK' /\ StagedOK' /\ Extends'
      <3>1. WithAnomaly(tx) \in OpenTx
        BY <1>0, <2>1, StagedIsTyped
      <3>2. [WithAnomaly(tx) EXCEPT !.halted = TRUE] \in OpenTx
        BY <3>1 DEF OpenTx
      <3>3. CASE Answer(tx, res)
        BY <2>1, <2>2, <3>3, NothingStaged
      <3>4. CASE Answer(WithAnomaly(tx), res)
        BY <2>1, <2>2, <3>1, <3>4, NothingStaged DEF WithAnomaly, OpenTx
      <3>5. CASE Answer([WithAnomaly(tx) EXCEPT !.halted = TRUE], res)
        BY <2>1, <2>2, <3>2, <3>5, NothingStaged DEF WithAnomaly, OpenTx
      <3> QED BY <2>3, <3>3, <3>4, <3>5
    <2>4. ASSUME AtItsNextPosition, NEW code \in Verdicts, NEW res,
                 \/ Answer(Spent(code), res) \/ Answer(Refused(code), res)
                 \/ Answer(WithAnomaly(Refused(code)), res)
          PROVE  CommittedOK' /\ StagedOK' /\ Extends'
      <3>1. Spent(code) \in OpenTx /\ Refused(code) \in OpenTx /\ WithAnomaly(Refused(code)) \in OpenTx
        BY <1>0, <2>1, StagedIsTyped
      <3>2. /\ Spent(code).log = tx.log /\ Spent(code).head = HeadAtCur
            /\ Spent(code).next = tx.next /\ Spent(code).sys = tx.sys
            /\ Spent(code).dev = tx.dev /\ Spent(code).stage = tx.stage
        BY <2>2 DEF Spent, OpenTx
      <3>3. /\ Refused(code).log = tx.log /\ Refused(code).refused = Spent(code).refused
            /\ Refused(code).head = HeadAtCur /\ Refused(code).next = tx.next
            /\ Refused(code).sys = tx.sys /\ Refused(code).dev = tx.dev
            /\ Refused(code).stage = tx.stage
        BY <3>1, <3>2 DEF Refused, OpenTx
      <3>4. CASE Answer(Spent(code), res)
        BY <2>1, <2>4, <3>1, <3>2, <3>4, SpendingStep
      <3>5. CASE Answer(Refused(code), res)
        BY <2>1, <2>4, <3>1, <3>3, <3>5, SpendingStep
      <3>6. CASE Answer(WithAnomaly(Refused(code)), res)
        <4>1. /\ WithAnomaly(Refused(code)).log = tx.log
              /\ WithAnomaly(Refused(code)).refused = Spent(code).refused
              /\ WithAnomaly(Refused(code)).head = HeadAtCur
              /\ WithAnomaly(Refused(code)).next = tx.next
              /\ WithAnomaly(Refused(code)).sys = tx.sys
              /\ WithAnomaly(Refused(code)).dev = tx.dev
              /\ WithAnomaly(Refused(code)).stage = tx.stage
          BY <3>1, <3>3 DEF WithAnomaly, OpenTx
        <4> QED BY <2>1, <2>4, <3>1, <3>6, <4>1, SpendingStep
      <3> QED BY <2>4, <3>4, <3>5, <3>6
    <2>5. AtNextPosition => AtItsNextPosition
      BY DEF AtNextPosition, Signed, Bound, AtItsNextPosition
    <2>6. CASE HaltedOp \/ RepeatedRefusal \/ WrongDevice \/ BadSignature \/ ChainGap
               \/ ChainBroken \/ IdTakenElsewhere
      BY <2>3, <2>6 DEF HaltedOp, RepeatedRefusal, WrongDevice, BadSignature, ChainGap,
                        ChainBroken, IdTakenElsewhere
    <2>7. CASE DuplicateOp
      <3>1. "DUPLICATE" \in Verdicts
        BY DEF Verdicts
      <3>2. CASE AtItsNextPosition
        BY <2>4, <2>7, <3>1, <3>2 DEF DuplicateOp
      <3>3. CASE ~AtItsNextPosition
        BY <2>3, <2>7, <3>3 DEF DuplicateOp
      <3> QED BY <3>2, <3>3
    <2>8. CASE Refuse
      <3>1. PICK code \in RefusalCodes :
               \/ Answer(Refused(code), Result("rejected", code))
               \/ Answer(WithAnomaly(Refused(code)), Result("rejected", code))
        BY <2>8 DEF Refuse
      <3> QED BY <2>4, <2>5, <2>8, <3>1 DEF Refuse, Verdicts
    <2>9. CASE Accept
      BY <2>9, AcceptStep
    <2>10. CASE FoldConflict
      <3>1. CASE Answer(Refused("RULE_VIOLATED"), Result("rejected", "RULE_VIOLATED"))
        BY <2>4, <2>5, <2>10, <3>1 DEF FoldConflict, Storable, Verdicts
      <3>2. CASE tx'.stage = "rerun" /\ UNCHANGED tables
        BY <1>0, <3>2 DEF CommittedOK, StagedOK, Extends, IsOpen, tables, Heads
      <3> QED BY <2>10, <3>1, <3>2 DEF FoldConflict
    <2> QED BY <1>4, <2>6, <2>7, <2>8, <2>9, <2>10 DEF JudgeOp
  <1>5. CASE Rerun
    <2>1. tx.dev \in Devices /\ tx.ops \in Seq(Op)
      BY <1>0, <1>5 DEF TypeOK, Rerun, NoTx, OpenTx
    <2> QED BY <1>0, <1>5, <2>1, FreshTransaction DEF Rerun
  <1>6. CASE LoopDone
    <2>1. tx \in OpenTx /\ IsOpen /\ IsOpen'
      BY <1>0, <1>6, OpenIsTyped DEF LoopDone, IsOpen, OpenTx
    <2>2. /\ tx'.log = tx.log /\ tx'.refused = tx.refused /\ tx'.dev = tx.dev
          /\ tx'.head = tx.head /\ tx'.sys = tx.sys /\ tx'.row = tx.next
          /\ tx'.stage = "detecting" /\ tx.stage = "judging" /\ UNCHANGED tables
      BY <1>6, <2>1 DEF LoopDone, OpenTx
    <2>3. StagedHeads' = StagedHeads /\ StagedCounter' = StagedCounter /\ Heads' = Heads
      BY <2>2 DEF StagedHeads, Heads, StagedCounter, tables
    <2> QED BY <1>0, <2>1, <2>2, <2>3 DEF CommittedOK, StagedOK, Extends, tables
  <1>7. CASE DetectConflict
    BY <1>7, DetectStep
  <1>8. CASE Commit
    <2>1. tx \in OpenTx /\ IsOpen /\ ~IsOpen'
      BY <1>0, <1>8, OpenIsTyped DEF Commit, IsOpen, NoTx
    <2>2. Heads' = StagedHeads /\ counter' = StagedCounter
      BY <1>0, <1>8, <2>1 DEF Commit, Heads, StagedHeads, StagedCounter, Signers, TypeOK, OpenTx
    <2> QED BY <1>0, <1>8, <2>1, <2>2 DEF CommittedOK, StagedOK, Extends, Commit
  <1>9. CASE Abort
    BY <1>0, <1>9 DEF CommittedOK, StagedOK, Extends, Abort, tables, Heads, IsOpen, NoTx
  <1> QED BY <1>1, <1>2, <1>3, <1>4, <1>5, <1>6, <1>7, <1>8, <1>9 DEF Next, Register, Revoke

\* The tables start empty and in order.
LEMMA TablesInit == Init => TablesInv
  <1> SUFFICES ASSUME Init PROVE TablesInv
    OBVIOUS
  <1>1. TypeOK
    BY DEF Init, TypeOK, StartOfChain, ChainHead, SystemHead, Hash
  <1>2. ~IsOpen
    BY DEF Init, IsOpen, NoTx
  <1>3. CommittedOK
    BY <1>1, HeadsAreTyped
    DEF Init, CommittedOK, TablesOK, Gapless, IdOnce, Named, PositionsOnce, Linked, Ends, Heads,
        StartOfChain, Signers
  <1> QED BY <1>1, <1>2, <1>3 DEF TablesInv, StagedOK, Extends

\* The invariant holds in every reachable state.
THEOREM TablesInOrder == Spec => []TablesInv
  BY TablesInit, TablesStep, PTL DEF Spec

-----------------------------------------------------------------------------
(* The properties the runs check, for every value of the constants.        *)

\* The tenant's log numbers its rows 1, 2, ... without a gap, and the counter
\* row names the next number (server-seq.ts).
THEOREM StreamIsGapless == Spec => []GaplessStream
  <1>1. TablesInv => GaplessStream
    BY DEF TablesInv, CommittedOK, StagedOK, TablesOK, GaplessStream
  <1> QED BY <1>1, TablesInOrder, PTL

\* No op id is in the log twice, whatever is pushed however often (dedupe.ts).
THEOREM OpsAreLoggedOnce == Spec => []OpIdOnce
  <1>1. TablesInv => OpIdOnce
    BY DEF TablesInv, CommittedOK, StagedOK, TablesOK, OpIdOnce
  <1> QED BY <1>1, TablesInOrder, PTL

\* No chain position is spent on two ops (spendPosition and the accept step).
THEOREM PositionsAreSpentOnce == Spec => []PositionSpentOnce
  <1>1. TablesInv => PositionSpentOnce
    BY DEF TablesInv, CommittedOK, StagedOK, TablesOK, PositionSpentOnce
  <1> QED BY <1>1, TablesInOrder, PTL

\* Every device's log rows and refusals form one hash chain that ends at its
\* recorded head (steps/chain.ts, system-op.ts).
THEOREM ChainsAreIntact == Spec => []ChainIntact
  <1>1. TablesInv => ChainIntact
    BY DEF TablesInv, CommittedOK, StagedOK, TablesOK, ChainIntact
  <1> QED BY <1>1, TablesInOrder, PTL

\* Nothing committed is changed or taken back, and what is added comes after
\* every row a pull cursor may have passed.
THEOREM StreamIsAppendOnly == Spec => AppendOnlyStream
  <1>1. TablesInv /\ [Next]_serverVars =>
          [ /\ log \subseteq log' /\ refused \subseteq refused'
            /\ \A r \in log' \ log, q \in log : q.serverSeq < r.serverSeq
            /\ \A d \in Devices : head[d].seq <= head'[d].seq ]_serverVars
    <2> SUFFICES ASSUME TablesInv, Next
                 PROVE  /\ log \subseteq log' /\ refused \subseteq refused'
                        /\ \A r \in log' \ log, q \in log : q.serverSeq < r.serverSeq
                        /\ \A d \in Devices : head[d].seq <= head'[d].seq
      OBVIOUS
    <2>0. head \in [Devices -> ChainHead] /\ \A d \in Devices : head[d].seq \in Nat
      BY DEF TablesInv, TypeOK, ChainHead
    <2>1. CASE Commit
      <3>1. IsOpen /\ tx \in OpenTx
        BY <2>1, OpenIsTyped DEF Commit, IsOpen, TablesInv
      <3>2. \A q \in log : q.serverSeq < counter /\ q.serverSeq \in Nat
        BY DEF TablesInv, CommittedOK, TablesOK, Gapless, LogRow
      <3>3. \A r \in log' \ log : counter <= r.serverSeq /\ r.serverSeq \in Nat
        BY <2>1, <3>1 DEF Commit, TablesInv, Extends, OpenTx, LogRow
      <3>4. \A d \in Devices : head[d].seq <= head'[d].seq
        BY <2>0, <2>1, <3>1 DEF Commit, TablesInv, Extends, OpenTx
      <3>5. log \subseteq log' /\ refused \subseteq refused'
        BY <2>1, <3>1 DEF Commit, TablesInv, Extends
      <3>6. counter \in Nat
        BY DEF TablesInv, TypeOK
      <3> QED BY <3>2, <3>3, <3>4, <3>5, <3>6
    <2>2. CASE UNCHANGED <<log, refused, head>>
      BY <2>0, <2>2
    <2>3. ~Commit => UNCHANGED <<log, refused, head>>
      BY DEF Next, Register, Revoke, Begin, JudgeOp, HaltedOp, DuplicateOp, RepeatedRefusal,
             WrongDevice, BadSignature, ChainGap, ChainBroken, Refuse, IdTakenElsewhere, Accept,
             FoldConflict, Answer, Rerun, LoopDone, DetectConflict, Abort, tables
    <2> QED BY <2>1, <2>2, <2>3
  <1> QED BY <1>1, TablesInOrder, PTL DEF Spec, AppendOnlyStream

-----------------------------------------------------------------------------
(* The answers.  Results come in the order of the ops, one per iteration,  *)
(* and neither the staged log nor the staged head ever takes one back.     *)

AnswersInv ==
    /\ AnswersHold
    /\ tx.stage = "judging" => Len(tx.results) = tx.pos - 1

\* An iteration whose own answer is true keeps the earlier ones true.
LEMMA AnswerAdded ==
    ASSUME TypeOK, AnswersInv, Running, NEW staged \in OpenTx, NEW res \in OpResult,
           Answer(staged, res), tx.log \subseteq staged.log, staged.ops = tx.ops,
           staged.dev = tx.dev, tx.head.seq <= staged.head.seq, staged.pos = tx.pos,
           staged.results = tx.results, staged.stage = tx.stage, res.id = Cur.id,
           res.status # "rejected" => Cur.id \in IdsIn(staged.log) \cup ForeignIds,
           res.code \in Verdicts /\ Cur.dev = tx.dev => Cur.seq <= staged.head.seq
    PROVE  AnswersInv'
  <1>1. tx \in OpenTx /\ IsOpen /\ tx.stage = "judging" /\ Cur \in Op
    BY OpenIsTyped, CurIsPushed DEF Running, IsOpen
  <1>2. /\ tx'.log = staged.log /\ tx'.ops = tx.ops /\ tx'.dev = tx.dev /\ tx'.head = staged.head
        /\ tx'.pos = tx.pos + 1 /\ tx'.results = Append(tx.results, res) /\ tx'.stage = "judging"
    BY <1>1 DEF Answer, OpenTx
  <1>3. /\ Len(tx'.results) = tx'.pos - 1 /\ tx.pos = Len(tx.results) + 1
        /\ DOMAIN tx'.results = 1..tx.pos /\ tx'.results[tx.pos] = res
        /\ \A i \in 1..(tx.pos - 1) : tx'.results[i] = tx.results[i]
        /\ DOMAIN tx.results = 1..(tx.pos - 1)
    BY <1>1, <1>2 DEF AnswersInv, OpenTx
  <1>4. IdsIn(tx.log) \subseteq IdsIn(tx'.log)
    BY <1>2 DEF IdsIn
  <1>5. ASSUME NEW i \in 1..(tx.pos - 1)
        PROVE  /\ tx'.results[i].id = tx.ops[i].id
               /\ tx'.results[i].status # "rejected" => tx.ops[i].id \in IdsIn(tx'.log) \cup ForeignIds
               /\ tx'.results[i].code \in Verdicts /\ tx.ops[i].dev = tx.dev
                     => tx.ops[i].seq <= tx'.head.seq
    <2>1. /\ tx.results[i].id = tx.ops[i].id
          /\ tx.results[i].status # "rejected" => tx.ops[i].id \in IdsIn(tx.log) \cup ForeignIds
          /\ tx.results[i].code \in Verdicts /\ tx.ops[i].dev = tx.dev
                => tx.ops[i].seq <= tx.head.seq
      BY <1>1, <1>3 DEF AnswersInv, AnswersHold
    <2>2. i \in 1..Len(tx.ops) /\ tx.ops[i] \in Op /\ tx.pos \in Nat
      BY <1>1, <1>5 DEF OpenTx, Running
    <2>3. tx.ops[i].seq \in Nat /\ tx.head.seq \in Nat /\ staged.head.seq \in Nat
      BY <1>1, <2>2, OpShape DEF OpenTx, ChainHead
    <2> QED BY <1>2, <1>3, <1>4, <2>1, <2>3
  <1>6. AnswersHold'
    <2> SUFFICES ASSUME NEW i \in DOMAIN tx'.results
                 PROVE  /\ tx'.results[i].id = tx'.ops[i].id
                        /\ tx'.results[i].status # "rejected"
                              => tx'.ops[i].id \in IdsIn(tx'.log) \cup ForeignIds
                        /\ tx'.results[i].code \in Verdicts /\ tx'.ops[i].dev = tx'.dev
                              => tx'.ops[i].seq <= tx'.head.seq
      BY DEF AnswersHold
    <2>1. CASE i = tx.pos
      BY <1>2, <1>3, <2>1 DEF Cur
    <2>2. CASE i \in 1..(tx.pos - 1)
      BY <1>2, <1>5, <2>2
    <2>3. tx.pos \in Nat /\ i \in 1..tx.pos
      BY <1>1, <1>3 DEF OpenTx
    <2> QED BY <2>1, <2>2, <2>3
  <1> QED BY <1>2, <1>3, <1>6 DEF AnswersInv

\* A fresh transaction has answered nothing, or every op of a revoked device.
LEMMA FreshAnswers ==
    ASSUME TypeOK, NEW d \in Devices, NEW ops \in Seq(Op), NEW careful \in BOOLEAN,
           tx' = Opened(d, ops, careful)
    PROVE  AnswersInv'
  <1>1. /\ tx'.stage = "judging" /\ tx'.ops = ops
        /\ tx'.pos = IF status[d] = "revoked" THEN Len(ops) + 1 ELSE 1
        /\ tx'.results = IF status[d] = "revoked"
                         THEN [i \in 1..Len(ops) |-> RevokedAnswer(ops[i])] ELSE <<>>
    BY DEF Opened
  <1>2. Len(tx'.results) = tx'.pos - 1
    <2>1. CASE status[d] = "revoked"
      <3>1. tx'.results \in Seq(OpResult)
        BY <1>1, <2>1 DEF RevokedAnswer, OpResult, Code
      <3>2. DOMAIN tx'.results = 1..Len(ops) /\ Len(ops) \in Nat
        BY <1>1, <2>1
      <3>3. Len(tx'.results) = Len(ops)
        BY <3>1, <3>2
      <3> QED BY <1>1, <2>1, <3>2, <3>3
    <2>2. CASE status[d] # "revoked"
      BY <1>1, <2>2
    <2> QED BY <2>1, <2>2
  <1>3. AnswersHold'
    <2> SUFFICES ASSUME NEW i \in DOMAIN tx'.results
                 PROVE  /\ tx'.results[i].id = tx'.ops[i].id
                        /\ tx'.results[i].status = "rejected"
                        /\ tx'.results[i].code \notin Verdicts
      BY DEF AnswersHold
    <2> QED BY <1>1, RefusalCodesApart DEF RevokedAnswer, Verdicts
  <1> QED BY <1>2, <1>3 DEF AnswersInv

\* Every step keeps the answers true.
LEMMA AnswersStep == TypeOK /\ AnswersInv /\ [Next]_serverVars => AnswersInv'
  <1> SUFFICES ASSUME TypeOK, AnswersInv, [Next]_serverVars PROVE AnswersInv'
    OBVIOUS
  <1>1. CASE UNCHANGED tx
    BY <1>1 DEF AnswersInv, AnswersHold, IsOpen
  <1>2. ASSUME NEW d \in Devices, NEW ops \in Batches, Begin(d, ops) PROVE AnswersInv'
    BY <1>2, FreshAnswers, BatchesAreSequences DEF Begin
  <1>3. CASE JudgeOp
    <2>1. Running /\ IsOpen
      BY <1>3 DEF JudgeOp, HaltedOp, DuplicateOp, RepeatedRefusal, WrongDevice, BadSignature,
                  ChainGap, ChainBroken, Refuse, IdTakenElsewhere, Accept, FoldConflict, Live, New,
                  Bound, Signed, AtNextPosition, Storable, Running, IsOpen
    <2>2. tx \in OpenTx /\ Cur \in Op /\ Cur.seq \in Nat /\ tx.head.seq \in Nat
      BY <2>1, OpenIsTyped, CurIsPushed, OpShape DEF OpenTx, ChainHead
    <2>3. ASSUME NEW staged,
                 \/ staged = tx
                 \/ staged = WithAnomaly(tx)
                 \/ staged = [WithAnomaly(tx) EXCEPT !.halted = TRUE],
                 NEW st \in {"duplicate", "rejected"}, NEW code \in Code,
                 Answer(staged, Result(st, code)),
                 st = "duplicate" => Cur.id \in IdsIn(tx.log) \cup ForeignIds,
                 code \in Verdicts /\ Cur.dev = tx.dev => Cur.seq <= tx.head.seq
          PROVE  AnswersInv'
      <3>1. WithAnomaly(tx) \in OpenTx /\ Result(st, code) \in OpResult
        BY <2>1, StagedIsTyped
      <3>2. [WithAnomaly(tx) EXCEPT !.halted = TRUE] \in OpenTx
        BY <3>1 DEF OpenTx
      <3>2a. staged \in OpenTx
        BY <2>2, <2>3, <3>1, <3>2
      <3>3. /\ staged.log = tx.log /\ staged.ops = tx.ops /\ staged.dev = tx.dev
            /\ staged.head = tx.head /\ staged.pos = tx.pos /\ staged.results = tx.results
            /\ staged.stage = tx.stage
        BY <2>2, <2>3 DEF WithAnomaly, OpenTx
      <3>4. Result(st, code).id = Cur.id /\ Result(st, code).status = st /\ Result(st, code).code = code
        BY DEF Result
      <3> QED BY <2>1, <2>2, <2>3, <3>1, <3>2a, <3>3, <3>4, AnswerAdded
    <2>4. ASSUME AtItsNextPosition, NEW verdict \in Verdicts, NEW st \in {"duplicate", "rejected"},
                 NEW code \in Code, st = "duplicate" => Cur.id \in IdsIn(tx.log),
                 NEW staged,
                 \/ staged = Spent(verdict)
                 \/ staged = Refused(verdict)
                 \/ staged = WithAnomaly(Refused(verdict)),
                 Answer(staged, Result(st, code))
          PROVE  AnswersInv'
      <3>1. /\ Spent(verdict) \in OpenTx /\ Refused(verdict) \in OpenTx
            /\ WithAnomaly(Refused(verdict)) \in OpenTx /\ Result(st, code) \in OpResult
        BY <2>1, StagedIsTyped
      <3>2. staged \in OpenTx
        BY <2>4, <3>1
      <3> DEFINE Kept(t) == /\ t.log = tx.log /\ t.ops = tx.ops /\ t.dev = tx.dev
                            /\ t.head = HeadAtCur /\ t.pos = tx.pos
                            /\ t.results = tx.results /\ t.stage = tx.stage
      <3>3a. Kept(Spent(verdict))
        BY <2>2 DEF Spent, OpenTx
      <3>3b. Kept(Refused(verdict))
        BY <3>1, <3>3a DEF Refused, OpenTx
      <3>3c. Kept(WithAnomaly(Refused(verdict)))
        BY <3>1, <3>3b DEF WithAnomaly, OpenTx
      <3>3. Kept(staged)
        BY <2>4, <3>3a, <3>3b, <3>3c
      <3>4. tx.head.seq <= Cur.seq /\ HeadAtCur.seq = Cur.seq
        BY <2>2, <2>4 DEF AtItsNextPosition, ClassifyChain, HeadAtCur
      <3>5. Result(st, code).id = Cur.id /\ Result(st, code).status = st /\ Result(st, code).code = code
        BY DEF Result
      <3> QED BY <2>1, <2>2, <2>4, <3>1, <3>2, <3>3, <3>4, <3>5, AnswerAdded
    <2>5. AtNextPosition => AtItsNextPosition
      BY DEF AtNextPosition, Signed, Bound, AtItsNextPosition
    <2>6. /\ {"none", "CHAIN_HALTED", "SCOPE_VIOLATION", "BAD_SIGNATURE", "CHAIN_GAP",
              "CHAIN_BROKEN"} \subseteq Code
          /\ Verdicts \cap {"none", "CHAIN_HALTED", "BAD_SIGNATURE", "CHAIN_GAP", "CHAIN_BROKEN"} = {}
          /\ Verdicts \subseteq Code
      BY RefusalCodesApart DEF Code, Verdicts
    <2>7. CASE HaltedOp
      BY <2>3, <2>6, <2>7 DEF HaltedOp
    <2>8. CASE DuplicateOp
      <3>1. "DUPLICATE" \in Verdicts
        BY DEF Verdicts
      <3>2. CASE AtItsNextPosition
        BY <2>4, <2>6, <2>8, <3>1, <3>2 DEF DuplicateOp, Duplicate
      <3>3. CASE ~AtItsNextPosition
        BY <2>3, <2>6, <2>8, <3>3 DEF DuplicateOp, Duplicate
      <3> QED BY <3>2, <3>3
    <2>9. CASE RepeatedRefusal
      <3>1. PICK k \in EarlierRefusals : Answer(tx, Result("rejected", k.code))
        BY <2>9 DEF RepeatedRefusal
      <3>2. k.code \in Code /\ Cur.seq <= tx.head.seq
        BY <2>2, <2>6 DEF EarlierRefusals, OpenTx
      <3> QED BY <2>3, <3>1, <3>2
    <2>10. CASE WrongDevice
      BY <2>3, <2>6, <2>10 DEF WrongDevice
    <2>11. CASE BadSignature
      BY <2>3, <2>6, <2>11 DEF BadSignature
    <2>12. CASE ChainGap
      BY <2>3, <2>6, <2>12 DEF ChainGap
    <2>13. CASE ChainBroken
      BY <2>3, <2>6, <2>13 DEF ChainBroken
    <2>14. CASE Refuse
      <3>1. PICK code \in RefusalCodes :
               \/ Answer(Refused(code), Result("rejected", code))
               \/ Answer(WithAnomaly(Refused(code)), Result("rejected", code))
        BY <2>14 DEF Refuse
      <3>2. code \in Verdicts /\ code \in Code /\ AtItsNextPosition
        BY <2>5, <2>14 DEF Refuse, Verdicts, Code
      <3> QED BY <2>4, <3>1, <3>2
    <2>15. CASE IdTakenElsewhere
      BY <2>3, <2>6, <2>15 DEF IdTakenElsewhere
    <2>16. CASE Accept
      <3> DEFINE staged == [tx EXCEPT !.log = @ \cup {LogRowOfCur}, !.next = @ + 1, !.head = HeadAtCur]
      <3>1. AtItsNextPosition /\ Answer(staged, Result("accepted", "none"))
        BY <2>5, <2>16 DEF Accept, Storable
      <3>2. LogRowOfCur \in LogRow /\ HeadAtCur \in ChainHead /\ tx.next + 1 \in Nat \ {0}
        BY <2>2, OpShape DEF LogRowOfCur, LogRow, HeadAtCur, ChainHead, Hash, OpenTx
      <3>3. staged \in OpenTx /\ Result("accepted", "none") \in OpResult
        BY <2>2, <2>6, <3>2 DEF OpenTx, Result, OpResult
      <3>4. /\ staged.log = tx.log \cup {LogRowOfCur} /\ staged.ops = tx.ops
            /\ staged.dev = tx.dev /\ staged.head = HeadAtCur /\ staged.pos = tx.pos
            /\ staged.results = tx.results /\ staged.stage = tx.stage
        BY <2>2 DEF OpenTx
      <3>5. tx.head.seq <= HeadAtCur.seq /\ Cur.seq <= HeadAtCur.seq
        BY <2>2, <3>1 DEF AtItsNextPosition, ClassifyChain, HeadAtCur
      <3>6. Cur.id \in IdsIn(staged.log) /\ Result("accepted", "none").id = Cur.id
        <4>1. LogRowOfCur \in staged.log
          BY <3>4
        <4>2. LogRowOfCur.op.id = Cur.id
          BY DEF LogRowOfCur
        <4> QED BY <4>1, <4>2 DEF IdsIn, Result
      <3> HIDE DEF staged
      <3> QED BY <2>1, <3>1, <3>3, <3>4, <3>5, <3>6, AnswerAdded
    <2>17. CASE FoldConflict
      <3>1. CASE Answer(Refused("RULE_VIOLATED"), Result("rejected", "RULE_VIOLATED"))
        BY <2>4, <2>5, <2>6, <2>17, <3>1 DEF FoldConflict, Storable, Verdicts
      <3>2. CASE tx' = [stage |-> "rerun", dev |-> tx.dev, ops |-> tx.ops]
        BY <3>2 DEF AnswersInv, AnswersHold, IsOpen
      <3> QED BY <2>17, <3>1, <3>2 DEF FoldConflict
    <2> QED BY <1>3, <2>7, <2>8, <2>9, <2>10, <2>11, <2>12, <2>13, <2>14, <2>15, <2>16, <2>17
            DEF JudgeOp
  <1>4. CASE Rerun
    <2>1. tx.dev \in Devices /\ tx.ops \in Seq(Op)
      BY <1>4 DEF TypeOK, Rerun, NoTx, OpenTx
    <2> QED BY <1>4, <2>1, FreshAnswers DEF Rerun
  <1>5. CASE LoopDone
    <2>1. tx \in OpenTx /\ IsOpen
      BY <1>5, OpenIsTyped DEF LoopDone, IsOpen
    <2>2. /\ tx'.log = tx.log /\ tx'.ops = tx.ops /\ tx'.dev = tx.dev /\ tx'.head = tx.head
          /\ tx'.results = tx.results /\ tx'.stage = "detecting"
      BY <1>5, <2>1 DEF LoopDone, OpenTx
    <2> QED BY <2>1, <2>2 DEF AnswersInv, AnswersHold
  <1>6. CASE DetectConflict
    <2>1. tx \in OpenTx /\ IsOpen
      BY <1>6, OpenIsTyped DEF DetectConflict, IsOpen
    <2>2. /\ tx.log \subseteq tx'.log /\ tx'.ops = tx.ops /\ tx'.dev = tx.dev
          /\ tx'.head = tx.head /\ tx'.results = tx.results /\ tx'.stage = "detecting"
      BY <1>6, <2>1 DEF DetectConflict, OpenTx
    <2>3. IdsIn(tx.log) \subseteq IdsIn(tx'.log)
      BY <2>2 DEF IdsIn
    <2> QED BY <2>1, <2>2, <2>3 DEF AnswersInv, AnswersHold
  <1>7. CASE Commit \/ Abort
    BY <1>7 DEF Commit, Abort, NoTx, AnswersInv, AnswersHold, IsOpen
  <1> QED BY <1>1, <1>2, <1>3, <1>4, <1>5, <1>6, <1>7 DEF Next, Register, Revoke, serverVars

\* A reply never says accepted of an op the transaction does not log, nor
\* refuses on its merits an op whose position stays unspent (pipeline.ts).
THEOREM AnswersAreTrue == Spec => []AnswersHold
  <1>1. Init => AnswersInv
    BY DEF Init, AnswersInv, AnswersHold, IsOpen, NoTx
  <1>2. AnswersInv => AnswersHold
    BY DEF AnswersInv
  <1> QED BY <1>1, <1>2, AnswersStep, TypeCorrect, PTL DEF Spec
=============================================================================
