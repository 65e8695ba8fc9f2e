-------------------------- MODULE ChangeSyncProofs --------------------------
(***************************************************************************)
(* What ChangeSync keeps for every batch size, every number of changes,    *)
(* registrations and faults, and every way the other constants allow.      *)
(* The server's part of each step is a step of PushPipeline, so the lemmas *)
(* of PushPipelineProofs carry over.                                       *)
(*                                                                         *)
(* The first part asks nothing of the constants: nothing saved is lost and *)
(* what is synced is in the log.  The second is what an honest phone may   *)
(* count on, Untroubled: without a push in flight when an enrolment starts,*)
(* an enrolment that fails or is killed, and a refused change that an      *)
(* enrolment may carry over.  Each of the three is needed: LateAnswer,     *)
(* FailedReenrolment and RefusedTwice are behaviours of the code without   *)
(* it.  The third, the same conditions given, refines ChangeLedger.        *)
(***************************************************************************)
EXTENDS ChangeSync, FiniteSetTheorems, TLAPS

SP == INSTANCE PushPipelineProofs
          WITH Devices <- Reg, ForeignIds <- {}, MaxBatch <- BatchSize

-----------------------------------------------------------------------------
(* Types.                                                                  *)

Row == [op : Op, st : {"local", "synced", "rejected"}]
Phases == {"idle", "keyed", "posting", "tokened", "begun", "carried", "named"}
FlightStages == {"sent", "queued", "judging", "answered", "unauthorized"}
Flight == [stage : FlightStages, dev : Reg, tok : Reg, ops : SP!Batches, results : Seq(SP!OpResult)]

WireTypes ==
    /\ flight \in [Reg -> {Idle} \cup Flight]
    /\ stale \subseteq Flight

\* The server's tables, transaction and answers.
ServerInv == SP!TablesInv /\ SP!AnswersInv

-----------------------------------------------------------------------------
(* What PushPipelineProofs asks of its constants.                          *)

\* Registrations are numbered from 1.
LEMMA RegIsNat == Reg \subseteq Nat \ {0} /\ 0 \notin Reg
  BY SyncConstants DEF Reg

\* The batches and ops of this system satisfy PushPipelineProofs' assumptions.
LEMMA ServerConstants ==
    /\ SP!OpShape /\ SP!SystemDeviceApart /\ SP!RefusalCodesApart /\ SP!Bounds
  <1>1. ASSUME NEW o \in Op
        PROVE  /\ DOMAIN o = {"id", "dev", "seq", "prev", "hash", "sig"}
               /\ o.seq \in Nat \ {0} /\ o.dev # SystemDevice /\ o.id \notin {"system"} \X Nat
    BY <1>1, SyncConstants DEF Op, Id
  <1>2. SP!OpShape
    BY <1>1 DEF SP!OpShape, SP!OpFields, SP!SystemIds
  <1>3. SP!SystemDeviceApart /\ SP!RefusalCodesApart /\ SP!Bounds
    BY SyncConstants DEF SP!SystemDeviceApart, SP!RefusalCodesApart, SP!Bounds
  <1> QED BY <1>2, <1>3

\* The server's invariant types its variables.
LEMMA ServerTypes == ServerInv => SP!TypeOK
  BY DEF ServerInv, SP!TablesInv

\* A step of PushPipeline keeps the server's invariant.
LEMMA ServerKeeps == ServerInv /\ [SP!Next]_(SP!serverVars) => ServerInv'
  <1>1. SP!TablesInv /\ [SP!Next]_(SP!serverVars) => SP!TablesInv'
    BY ServerConstants, SP!TablesStep
  <1>2. SP!TypeOK /\ SP!AnswersInv /\ [SP!Next]_(SP!serverVars) => SP!AnswersInv'
    BY ServerConstants, SP!AnswersStep
  <1> QED BY <1>1, <1>2, ServerTypes DEF ServerInv

-----------------------------------------------------------------------------
(* The server's actions are PushPipeline's.                                *)

\* What one iteration of the op loop does is the same in both.
LEMMA IterationsAgree ==
    /\ Server!HaltedOp => SP!HaltedOp
    /\ Server!DuplicateOp => SP!DuplicateOp
    /\ Server!RepeatedRefusal => SP!RepeatedRefusal
    /\ Server!WrongDevice => SP!WrongDevice
    /\ Server!BadSignature => SP!BadSignature
    /\ Server!ChainGap => SP!ChainGap
    /\ Server!ChainBroken => SP!ChainBroken
    /\ Server!Refuse => SP!Refuse
    /\ Server!Accept => SP!Accept
    /\ Server!FoldConflict => SP!FoldConflict
  <1>1. Server!HaltedOp => SP!HaltedOp
    BY DEF Server!HaltedOp, SP!HaltedOp, Server!Running, SP!Running, Server!Answer, SP!Answer,
           Server!Result, SP!Result, Server!Cur, SP!Cur, Server!tables, SP!tables
  <1>2. Server!DuplicateOp => SP!DuplicateOp
    BY DEF Server!DuplicateOp, SP!DuplicateOp, Server!Running, SP!Running, Server!Answer, SP!Answer,
           Server!Result, SP!Result, Server!Cur, SP!Cur, Server!tables, SP!tables,
           Server!Live, SP!Live, Server!Duplicate, SP!Duplicate, Server!Spent, SP!Spent,
           Server!HeadAtCur, SP!HeadAtCur, Server!RefusedRowOf, SP!RefusedRowOf,
           Server!KeyTaken, SP!KeyTaken, Server!IdsIn, SP!IdsIn,
           Server!AtItsNextPosition, SP!AtItsNextPosition, Server!ClassifyChain, SP!ClassifyChain,
           Server!SignatureOk, SP!SignatureOk
  <1>3. Server!RepeatedRefusal => SP!RepeatedRefusal
    BY DEF Server!RepeatedRefusal, SP!RepeatedRefusal, Server!Running, SP!Running,
           Server!Answer, SP!Answer, Server!Result, SP!Result, Server!Cur, SP!Cur,
           Server!tables, SP!tables, Server!Live, SP!Live, Server!Duplicate, SP!Duplicate,
           Server!EarlierRefusals, SP!EarlierRefusals, Server!IdsIn, SP!IdsIn
  <1>4. Server!WrongDevice => SP!WrongDevice
    BY DEF Server!WrongDevice, SP!WrongDevice, Server!Running, SP!Running, Server!Answer, SP!Answer,
           Server!Result, SP!Result, Server!Cur, SP!Cur, Server!tables, SP!tables,
           Server!Live, SP!Live, Server!Duplicate, SP!Duplicate, Server!New, SP!New,
           Server!EarlierRefusals, SP!EarlierRefusals, Server!WithAnomaly, SP!WithAnomaly,
           Server!IdsIn, SP!IdsIn
  <1>5. Server!BadSignature => SP!BadSignature
    BY DEF Server!BadSignature, SP!BadSignature, Server!Running, SP!Running,
           Server!Answer, SP!Answer, Server!Result, SP!Result, Server!Cur, SP!Cur,
           Server!tables, SP!tables, Server!Live, SP!Live, Server!Duplicate, SP!Duplicate,
           Server!New, SP!New, Server!EarlierRefusals, SP!EarlierRefusals, Server!Bound, SP!Bound,
           Server!SignatureOk, SP!SignatureOk, Server!WithAnomaly, SP!WithAnomaly,
           Server!IdsIn, SP!IdsIn
  <1>6. Server!ChainGap => SP!ChainGap
    BY DEF Server!ChainGap, SP!ChainGap, Server!Running, SP!Running, Server!Answer, SP!Answer,
           Server!Result, SP!Result, Server!Cur, SP!Cur, Server!tables, SP!tables,
           Server!Live, SP!Live, Server!Duplicate, SP!Duplicate, Server!New, SP!New,
           Server!EarlierRefusals, SP!EarlierRefusals, Server!Bound, SP!Bound,
           Server!SignatureOk, SP!SignatureOk, Server!Signed, SP!Signed,
           Server!ClassifyChain, SP!ClassifyChain, Server!IdsIn, SP!IdsIn
  <1>7. Server!ChainBroken => SP!ChainBroken
    BY DEF Server!ChainBroken, SP!ChainBroken, Server!Running, SP!Running, Server!Answer, SP!Answer,
           Server!Result, SP!Result, Server!Cur, SP!Cur, Server!tables, SP!tables,
           Server!Live, SP!Live, Server!Duplicate, SP!Duplicate, Server!New, SP!New,
           Server!EarlierRefusals, SP!EarlierRefusals, Server!Bound, SP!Bound,
           Server!SignatureOk, SP!SignatureOk, Server!Signed, SP!Signed,
           Server!ClassifyChain, SP!ClassifyChain, Server!WithAnomaly, SP!WithAnomaly,
           Server!IdsIn, SP!IdsIn
  <1>8. Server!Refuse => SP!Refuse
    BY DEF Server!Refuse, SP!Refuse, Server!Running, SP!Running, Server!Answer, SP!Answer,
           Server!Result, SP!Result, Server!Cur, SP!Cur, Server!tables, SP!tables,
           Server!Live, SP!Live, Server!Duplicate, SP!Duplicate, Server!New, SP!New,
           Server!EarlierRefusals, SP!EarlierRefusals, Server!Bound, SP!Bound,
           Server!SignatureOk, SP!SignatureOk, Server!Signed, SP!Signed,
           Server!ClassifyChain, SP!ClassifyChain, Server!AtNextPosition, SP!AtNextPosition,
           Server!Spent, SP!Spent, Server!HeadAtCur, SP!HeadAtCur,
           Server!RefusedRowOf, SP!RefusedRowOf, Server!KeyTaken, SP!KeyTaken,
           Server!IdsIn, SP!IdsIn, Server!Refused, SP!Refused, Server!Verdict, SP!Verdict,
           Server!WithAnomaly, SP!WithAnomaly
  <1>9. Server!Accept => SP!Accept
    BY DEF Server!Accept, SP!Accept, Server!Running, SP!Running, Server!Answer, SP!Answer,
           Server!Result, SP!Result, Server!Cur, SP!Cur, Server!tables, SP!tables,
           Server!Live, SP!Live, Server!Duplicate, SP!Duplicate, Server!New, SP!New,
           Server!EarlierRefusals, SP!EarlierRefusals, Server!Bound, SP!Bound,
           Server!SignatureOk, SP!SignatureOk, Server!Signed, SP!Signed,
           Server!ClassifyChain, SP!ClassifyChain, Server!AtNextPosition, SP!AtNextPosition,
           Server!Storable, SP!Storable, Server!LogRowOfCur, SP!LogRowOfCur,
           Server!HeadAtCur, SP!HeadAtCur, Server!IdsIn, SP!IdsIn
  <1>10. Server!FoldConflict => SP!FoldConflict
    BY DEF Server!FoldConflict, SP!FoldConflict, Server!Running, SP!Running,
           Server!Answer, SP!Answer, Server!Result, SP!Result, Server!Cur, SP!Cur,
           Server!tables, SP!tables, Server!Live, SP!Live, Server!Duplicate, SP!Duplicate,
           Server!New, SP!New, Server!EarlierRefusals, SP!EarlierRefusals, Server!Bound, SP!Bound,
           Server!SignatureOk, SP!SignatureOk, Server!Signed, SP!Signed,
           Server!ClassifyChain, SP!ClassifyChain, Server!AtNextPosition, SP!AtNextPosition,
           Server!Spent, SP!Spent, Server!HeadAtCur, SP!HeadAtCur,
           Server!RefusedRowOf, SP!RefusedRowOf, Server!KeyTaken, SP!KeyTaken,
           Server!IdsIn, SP!IdsIn, Server!Refused, SP!Refused, Server!Verdict, SP!Verdict,
           Server!Storable, SP!Storable
  <1> QED BY <1>1, <1>2, <1>3, <1>4, <1>5, <1>6, <1>7, <1>8, <1>9, <1>10

\* The open transaction's steps are the ones PushPipeline takes.
LEMMA TransactionsAgree ==
    /\ \A d, ops : Server!Begin(d, ops) => SP!Begin(d, ops)
    /\ Server!Rerun => SP!Rerun
    /\ Server!LoopDone => SP!LoopDone
    /\ Server!DetectConflict => SP!DetectConflict
    /\ Server!Commit => SP!Commit
    /\ Server!Abort => SP!Abort
    /\ \A d : Server!Revoke(d) => SP!Revoke(d)
    /\ Server!Init => SP!Init
  <1>1. \A d, ops : Server!Begin(d, ops) => SP!Begin(d, ops)
    BY DEF Server!Begin, SP!Begin, Server!Opened, SP!Opened,
           Server!LoadedRefusals, SP!LoadedRefusals, Server!Verdict, SP!Verdict,
           Server!IdsOf, SP!IdsOf, Server!RevokedAnswer, SP!RevokedAnswer, Server!NoTx, SP!NoTx,
           Server!tables, SP!tables
  <1>2. Server!Rerun => SP!Rerun
    BY DEF Server!Rerun, SP!Rerun, Server!Opened, SP!Opened,
           Server!LoadedRefusals, SP!LoadedRefusals, Server!Verdict, SP!Verdict,
           Server!IdsOf, SP!IdsOf, Server!RevokedAnswer, SP!RevokedAnswer, Server!NoTx, SP!NoTx,
           Server!tables, SP!tables
  <1>3. Server!LoopDone => SP!LoopDone
    BY DEF Server!LoopDone, SP!LoopDone, Server!tables, SP!tables
  <1>4. Server!DetectConflict => SP!DetectConflict
    BY DEF Server!DetectConflict, SP!DetectConflict, Server!AcceptedSome, SP!AcceptedSome,
           Server!SystemOp, SP!SystemOp, Server!tables, SP!tables
  <1>5. Server!Commit => SP!Commit
    BY DEF Server!Commit, SP!Commit, Server!NoTx, SP!NoTx
  <1>6. Server!Abort => SP!Abort
    BY DEF Server!Abort, SP!Abort, Server!NoTx, SP!NoTx, Server!tables, SP!tables
  <1>7. \A d : Server!Revoke(d) => SP!Revoke(d)
    BY DEF Server!Revoke, SP!Revoke
  <1>8. Server!Init => SP!Init
    BY DEF Server!Init, SP!Init, Server!StartOfChain, SP!StartOfChain, Server!NoTx, SP!NoTx
  <1> QED BY <1>1, <1>2, <1>3, <1>4, <1>5, <1>6, <1>7, <1>8

\* Judging an op, rerunning, closing the loop and detecting conflicts.
LEMMA JudgingIsAServerStep == JudgeStep => [SP!Next]_(SP!serverVars)
  BY IterationsAgree, TransactionsAgree DEF JudgeStep, SP!Next, SP!JudgeOp

-----------------------------------------------------------------------------
(* What the phone knows without any assumption on faults.                  *)

\* The newest registration is at least every one the phone names, and what a
\* registered phone needs is there.
IdentityInv ==
    /\ meta \in Reg \cup {0} /\ key \in Reg \cup {0}
    /\ token \in Reg \cup {0} /\ draft \in Reg \cup {0} /\ phase \in Phases
    /\ persisted \subseteq {"halted", "disabled"} /\ held \subseteq {"halted", "disabled"}
    /\ meta <= key /\ draft <= key /\ token <= key
    /\ meta # 0 => token # 0
    /\ phase \in {"tokened", "begun", "carried", "named"} => token # 0
    /\ phase \in {"posting", "tokened", "begun", "carried", "named"} => draft # 0
    /\ phase = "keyed" => key # 0

\* An op an answer does not reject is in the log.
Answered ==
    \A r \in Reg : flight[r].stage = "answered" =>
        \A i \in DOMAIN flight[r].results :
            flight[r].results[i].status # "rejected" => flight[r].results[i].id \in Logged

RowTypes ==
    /\ rows \subseteq Row /\ opened \subseteq Row /\ IsFiniteSet(rows)
    /\ minted \in Nat /\ saved \subseteq Changes
\* The phone's chains end somewhere.
RowsEnd == \E n \in Nat : \A w \in rows : w.op.seq <= n
\* An open command holds one change, which the phone's log does not have.
OpenedIsNew ==
    \A w \in opened : /\ w.st = "local" /\ w.op.id \in Changes
                      /\ \A v \in rows : v.op.id # w.op.id
                      /\ \A v \in opened : v = w
ChangeOnce == \A w, v \in rows : w.op.id = v.op.id /\ w.op.id \in Changes => w = v
MintedBefore == \A w \in rows \cup opened : w.op.id \in Changes => w.op.id[2] <= minted
SavedHeld == \A c \in saved : \E w \in rows : w.op.id = c

RowsInv ==
    /\ RowTypes /\ RowsEnd /\ OpenedIsNew /\ ChangeOnce /\ MintedBefore /\ SavedHeld
    /\ SyncedIsDurable
DurableInv == ServerInv /\ WireTypes /\ Answered /\ IdentityInv /\ RowsInv

-----------------------------------------------------------------------------
(* The server under the phone's steps.                                     *)

\* A registration's status moves and nothing else of the server.
LEMMA StatusMoves ==
    ASSUME ServerInv, status' \in [Reg -> {"unknown", "active", "revoked"}],
           UNCHANGED <<log, refused, head, counter, sysHead, anomalies, tx>>
    PROVE  ServerInv'
  <1>1. SP!TypeOK'
    BY ServerTypes DEF SP!TypeOK
  <1>2. SP!CommittedOK' /\ SP!StagedOK'
    BY DEF ServerInv, SP!TablesInv, SP!CommittedOK, SP!StagedOK, SP!Heads, SP!StagedHeads,
           SP!StagedCounter, SP!IsOpen
  <1>3. SP!Extends'
    BY DEF ServerInv, SP!TablesInv, SP!Extends, SP!IsOpen, SP!StagedCounter
  <1>4. SP!AnswersInv'
    BY DEF ServerInv, SP!AnswersInv, SP!AnswersHold, SP!IsOpen
  <1> QED BY <1>1, <1>2, <1>3, <1>4 DEF ServerInv, SP!TablesInv

\* What is in flight is a batch of a device the server knows how to judge.
LEMMA BeginIsAServerStep ==
    ASSUME NEW d \in Reg, NEW ops \in SP!Batches, Server!Begin(d, ops)
    PROVE  [SP!Next]_(SP!serverVars)
  BY TransactionsAgree DEF SP!Next

\* Every step keeps the server's tables and answers in order.
LEMMA ServerStepKeeps ==
    ASSUME DurableInv, [Next]_vars
    PROVE  ServerInv'
  <1> USE DEF DurableInv
  <1>1. CASE UNCHANGED server
    BY <1>1, ServerKeeps DEF server, SP!serverVars
  <1>2. CASE JudgeStep
    BY <1>2, JudgingIsAServerStep, ServerKeeps
  <1>3. CASE CommitPush \/ AbortPush
    BY <1>3, TransactionsAgree, ServerKeeps DEF CommitPush, AbortPush, SP!Next
  <1>4. ASSUME NEW r \in Reg, BeginPush(r) PROVE ServerInv'
    <2>1. flight[r] \in Flight
      BY <1>4 DEF WireTypes, BeginPush, Idle
    <2> QED BY <1>4, <2>1, BeginIsAServerStep, ServerKeeps DEF BeginPush, Flight
  <1>5. ASSUME NEW s \in stale, BeginStale(s) PROVE ServerInv'
    <2>1. s \in Flight
      BY DEF WireTypes
    <2> QED BY <1>5, <2>1, BeginIsAServerStep, ServerKeeps DEF BeginStale, Flight
  <1>6. ASSUME NEW r \in Reg, RevokeByOwner(r) PROVE ServerInv'
    BY <1>6, TransactionsAgree, ServerKeeps DEF RevokeByOwner, SP!Next
  <1>7. CASE EnrolOnServer
    BY <1>7, StatusMoves, ServerTypes DEF EnrolOnServer, SP!TypeOK
  <1>8. \/ UNCHANGED server \/ JudgeStep \/ CommitPush \/ AbortPush \/ EnrolOnServer
        \/ \E r \in Reg : BeginPush(r) \/ RevokeByOwner(r)
        \/ \E s \in stale : BeginStale(s)
    BY DEF Next, vars, ServerStep, LoopStep, Enrolment, ArriveStale, BeginCommand, Send, MarkResult,
           Settle, TakeUnauthorized, Arrive, GiveUp, CommitCommand, RollbackCommand, StartEnrol,
           PersistDraft, PersistToken, EmitGenesis, CarryOver, NameDevice, SpendDraft, FailEnrol,
           Crash, PhoneOnly
  <1> QED BY <1>1, <1>2, <1>3, <1>4, <1>5, <1>6, <1>7, <1>8

\* Only a commit writes what the server has judged.
LEMMA OnlyCommitWrites ==
    ASSUME [Next]_vars
    PROVE  Server!Commit \/ UNCHANGED <<log, refused, head, anomalies>>
  BY DEF Next, vars, server, ServerStep, JudgeStep, CommitPush, AbortPush, BeginPush,
         BeginStale, RevokeByOwner, EnrolOnServer,
         Server!HaltedOp, Server!DuplicateOp, Server!RepeatedRefusal, Server!WrongDevice,
         Server!BadSignature, Server!ChainGap, Server!ChainBroken, Server!Refuse, Server!Accept,
         Server!FoldConflict, Server!Rerun, Server!LoopDone, Server!DetectConflict, Server!Answer,
         Server!Begin, Server!Revoke, Server!Abort, Server!tables,
         LoopStep, Enrolment, ArriveStale, BeginCommand, Send, MarkResult,
         Settle, TakeUnauthorized, Arrive, GiveUp, CommitCommand, RollbackCommand, StartEnrol,
         PersistDraft, PersistToken, EmitGenesis, CarryOver, NameDevice, SpendDraft, FailEnrol,
         Crash, PhoneOnly

\* How a registration's status moves.
LEMMA StatusMovesSo ==
    ASSUME [Next]_vars
    PROVE  \/ status' = status
           \/ EnrolOnServer
           \/ \E r \in Reg : RevokeByOwner(r)
  BY DEF Next, vars, server, ServerStep, JudgeStep, CommitPush, AbortPush, BeginPush, BeginStale,
         Server!HaltedOp, Server!DuplicateOp, Server!RepeatedRefusal, Server!WrongDevice,
         Server!BadSignature, Server!ChainGap, Server!ChainBroken, Server!Refuse, Server!Accept,
         Server!FoldConflict, Server!Rerun, Server!LoopDone, Server!DetectConflict, Server!Answer,
         Server!Begin, Server!Commit, Server!Abort, Server!tables,
         LoopStep, Enrolment, ArriveStale, BeginCommand, Send, MarkResult,
         Settle, TakeUnauthorized, Arrive, GiveUp, CommitCommand, RollbackCommand, StartEnrol,
         PersistDraft, PersistToken, EmitGenesis, CarryOver, NameDevice, SpendDraft, FailEnrol,
         Crash, PhoneOnly

\* The log only grows.
LEMMA LogGrows ==
    ASSUME DurableInv, [Next]_vars
    PROVE  log \subseteq log' /\ refused \subseteq refused' /\ Logged \subseteq Logged'
  <1>1. CASE Server!Commit
    <2>1. tx \in SP!OpenTx /\ SP!IsOpen
      BY <1>1, TransactionsAgree, ServerTypes, ServerConstants, SP!OpenIsTyped
         DEF SP!Commit, SP!IsOpen, DurableInv
    <2> QED BY <1>1, <2>1, TransactionsAgree
            DEF DurableInv, ServerInv, SP!TablesInv, SP!Extends, SP!Commit, Logged, Server!IdsIn
  <1>2. ~Server!Commit => log' = log /\ refused' = refused
    BY OnlyCommitWrites
  <1> QED BY <1>1, <1>2 DEF Logged, Server!IdsIn

-----------------------------------------------------------------------------
(* What is in flight.                                                      *)

\* A batch the phone read is one the server can be sent.
LEMMA BatchIsSendable ==
    ASSUME rows \subseteq Row, NEW b \in PushBatches
    PROVE  /\ [i \in DOMAIN b |-> b[i].op] \in SP!Batches
           /\ \A i \in DOMAIN b : b[i] \in rows /\ b[i].st = "local" /\ Free
  <1>1. PICK n \in 1..BatchSize : b \in [1..n -> LocalRows]
    BY DEF PushBatches, FirstRows
  <1>2. \A w \in LocalRows : w \in rows /\ w.st = "local" /\ w.op \in Op /\ Free
    BY DEF LocalRows, ReadableRows, Row
  <1>3. [i \in DOMAIN b |-> b[i].op] \in [1..n -> Op]
    BY <1>1, <1>2
  <1> QED BY <1>1, <1>2, <1>3 DEF SP!Batches

\* One flight moves.
LEMMA FlightMoves ==
    ASSUME WireTypes, Answered, Logged \subseteq Logged', NEW r \in Reg,
           NEW f \in {Idle} \cup Flight, flight' = [flight EXCEPT ![r] = f],
           f.stage = "answered" =>
               \A i \in DOMAIN f.results :
                   f.results[i].status # "rejected" => f.results[i].id \in Logged',
           stale' \subseteq Flight
    PROVE  WireTypes' /\ Answered'
  <1>1. /\ flight'[r] = f
        /\ \A q \in Reg : q # r => flight'[q] = flight[q]
    BY DEF WireTypes
  <1>2. WireTypes'
    BY DEF WireTypes
  <1>3. Answered'
    BY <1>1 DEF Answered
  <1> QED BY <1>2, <1>3

\* A flight record in another stage, or with other results, is a flight.
LEMMA FlightInStage ==
    ASSUME NEW f \in Flight
    PROVE  /\ \A g \in FlightStages : [f EXCEPT !.stage = g] \in Flight
           /\ \A res \in Seq(SP!OpResult) : [f EXCEPT !.results = res] \in Flight
           /\ \A res \in Seq(SP!OpResult) :
                 /\ [f EXCEPT !.stage = "answered", !.results = res] \in Flight
                 /\ [f EXCEPT !.stage = "answered", !.results = res].results = res
  BY DEF Flight, FlightStages

\* The phone's side of the wire.
LEMMA PhoneKeepsWire ==
    ASSUME DurableInv, [Next]_vars, NEW r \in Reg, LoopStep(r)
    PROVE  WireTypes' /\ Answered'
  <1> USE DEF DurableInv
  <1>1. Logged \subseteq Logged'
    BY LogGrows
  <1>2. CASE Send(r)
    <2>1. PICK b \in PushBatches :
             flight' = [flight EXCEPT ![r] =
                 [stage |-> "sent", dev |-> r, tok |-> token,
                  ops |-> [i \in DOMAIN b |-> b[i].op], results |-> <<>>]]
      BY <1>2 DEF Send
    <2>2. token \in Reg
      BY <1>2, RegIsNat DEF Send, Running, IdentityInv
    <2> DEFINE f == [stage |-> "sent", dev |-> r, tok |-> token,
                     ops |-> [i \in DOMAIN b |-> b[i].op], results |-> <<>>]
    <2>3. f \in Flight /\ f.stage # "answered"
      BY <2>2, BatchIsSendable DEF RowsInv, RowTypes, Flight, FlightStages
    <2>4. flight' = [flight EXCEPT ![r] = f] /\ stale' = stale
      BY <1>2, <2>1 DEF Send
    <2> HIDE DEF f
    <2> QED BY <1>1, <2>3, <2>4, FlightMoves DEF WireTypes
  <1>3. CASE MarkResult(r)
    <2>1. flight[r] \in Flight /\ flight[r].stage = "answered" /\ flight[r].results # <<>>
      BY <1>3 DEF MarkResult, WireTypes, Idle
    <2>2. \/ flight' = [flight EXCEPT ![r] = Idle]
          \/ flight' = [flight EXCEPT ![r].results = Tail(@)]
      BY <1>3 DEF MarkResult
    <2>3. stale' = stale
      BY <1>3 DEF MarkResult
    <2>4. CASE flight' = [flight EXCEPT ![r] = Idle]
      BY <1>1, <2>3, <2>4, FlightMoves DEF WireTypes, Idle
    <2>5. CASE flight' = [flight EXCEPT ![r].results = Tail(@)]
      <3> DEFINE f == [flight[r] EXCEPT !.results = Tail(flight[r].results)]
      <3>1. flight[r].results \in Seq(SP!OpResult)
        BY <2>1 DEF Flight
      <3>2. /\ Tail(flight[r].results) \in Seq(SP!OpResult)
            /\ \A i \in DOMAIN Tail(flight[r].results) :
                  /\ i + 1 \in DOMAIN flight[r].results
                  /\ Tail(flight[r].results)[i] = flight[r].results[i + 1]
        BY <2>1, <3>1
      <3>3. f \in Flight /\ f.results = Tail(flight[r].results)
        BY <2>1, <3>2, FlightInStage DEF Flight
      <3>4. flight' = [flight EXCEPT ![r] = f]
        BY <2>5
      <3>5. \A i \in DOMAIN f.results : f.results[i].status # "rejected" => f.results[i].id \in Logged'
        BY <1>1, <2>1, <3>2, <3>3 DEF Answered
      <3> HIDE DEF f
      <3> QED BY <1>1, <2>3, <3>3, <3>4, <3>5, FlightMoves DEF WireTypes
    <2> QED BY <2>2, <2>4, <2>5
  <1>4. CASE Settle(r) \/ TakeUnauthorized(r)
    BY <1>1, <1>4, FlightMoves DEF Settle, TakeUnauthorized, WireTypes, Idle
  <1>5. CASE Arrive(r)
    <2>1. flight[r] \in Flight /\ stale' = stale
      BY <1>5 DEF Arrive, WireTypes, Idle
    <2> DEFINE refusals == [i \in DOMAIN flight[r].ops |->
                  [id |-> flight[r].ops[i].id, status |-> "rejected", code |-> "SCOPE_VIOLATION"]]
    <2>2. refusals \in Seq(SP!OpResult)
      <3>1. flight[r].ops \in Seq(Op)
        BY <2>1, ServerConstants, SP!BatchesAreSequences DEF Flight
      <3>2. \A o \in Op : [id |-> o.id, status |-> "rejected", code |-> "SCOPE_VIOLATION"] \in SP!OpResult
        BY DEF SP!OpResult, SP!Code
      <3>3. \A i \in DOMAIN flight[r].ops : flight[r].ops[i] \in Op
        BY <3>1
      <3>4. PICK n \in Nat : DOMAIN flight[r].ops = 1..n
        BY <3>1
      <3>5. refusals \in [1..n -> SP!OpResult]
        BY <3>2, <3>3, <3>4
      <3> QED BY <3>5
    <2>3. \A i \in DOMAIN refusals : refusals[i].status = "rejected"
      OBVIOUS
    <2>4. \/ flight' = [flight EXCEPT ![r] = [flight[r] EXCEPT !.stage = "unauthorized"]]
          \/ flight' = [flight EXCEPT ![r] = [flight[r] EXCEPT !.stage = "queued"]]
          \/ flight' = [flight EXCEPT ![r] =
                           [flight[r] EXCEPT !.stage = "answered", !.results = refusals]]
      BY <1>5 DEF Arrive
    <2>5. /\ [flight[r] EXCEPT !.stage = "unauthorized"] \in Flight
          /\ [flight[r] EXCEPT !.stage = "queued"] \in Flight
          /\ [flight[r] EXCEPT !.stage = "unauthorized"].stage # "answered"
          /\ [flight[r] EXCEPT !.stage = "queued"].stage # "answered"
      BY <2>1, FlightInStage DEF Flight, FlightStages
    <2>6. /\ [flight[r] EXCEPT !.stage = "answered", !.results = refusals] \in Flight
          /\ [flight[r] EXCEPT !.stage = "answered", !.results = refusals].results = refusals
      BY <2>1, <2>2, FlightInStage
    <2> HIDE DEF refusals
    <2> QED BY <1>1, <2>1, <2>3, <2>4, <2>5, <2>6, FlightMoves DEF WireTypes
  <1>6. CASE BeginPush(r)
    <2>1. flight[r] \in Flight /\ stale' = stale
      BY <1>6 DEF BeginPush, WireTypes, Idle
    <2>2. /\ [flight[r] EXCEPT !.stage = "judging"] \in Flight
          /\ [flight[r] EXCEPT !.stage = "judging"].stage # "answered"
      BY <2>1, FlightInStage DEF Flight, FlightStages
    <2>3. flight' = [flight EXCEPT ![r] = [flight[r] EXCEPT !.stage = "judging"]]
      BY <1>6 DEF BeginPush
    <2> QED BY <1>1, <2>1, <2>2, <2>3, FlightMoves DEF WireTypes
  <1> QED BY <1>2, <1>3, <1>4, <1>5, <1>6 DEF LoopStep

\* What a phone stops waiting for is a flight.
LEMMA LeftBehindIsAFlight ==
    ASSUME WireTypes
    PROVE  \A r \in Reg : LeftBehind(r) \subseteq Flight
  BY DEF WireTypes, LeftBehind, Idle

\* A flight that is judged takes the commit's answers.
LEMMA FlightAnswered ==
    ASSUME NEW f \in {Idle} \cup Flight, f.stage = "judging", NEW results \in Seq(SP!OpResult)
    PROVE  /\ [f EXCEPT !.stage = "answered", !.results = results] \in Flight
           /\ [f EXCEPT !.stage = "answered", !.results = results].results = results
  <1>1. f \in Flight
    BY DEF Idle
  <1> QED BY <1>1, FlightInStage

\* Every flight takes the commit's answers, goes idle or stays.
LEMMA AllFlightsMove ==
    ASSUME WireTypes, Answered, Logged \subseteq Logged', NEW results \in Seq(SP!OpResult),
           \A i \in DOMAIN results : results[i].status # "rejected" => results[i].id \in Logged',
           flight' = [r \in Reg |-> flight'[r]],
           \A r \in Reg : \/ flight'[r] = Idle \/ flight'[r] = flight[r]
                          \/ /\ flight[r].stage = "judging"
                             /\ flight'[r] = [flight[r] EXCEPT !.stage = "answered",
                                                             !.results = results],
           stale' \subseteq Flight
    PROVE  WireTypes' /\ Answered'
  <1>0. Idle.stage # "answered"
    BY DEF Idle
  <1>1. ASSUME NEW r \in Reg
        PROVE  /\ flight'[r] \in {Idle} \cup Flight
               /\ flight'[r].stage = "answered" =>
                    \A i \in DOMAIN flight'[r].results :
                       flight'[r].results[i].status # "rejected" => flight'[r].results[i].id \in Logged'
    <2>1. flight[r] \in {Idle} \cup Flight
      BY DEF WireTypes
    <2>2. flight[r].stage = "answered" =>
               \A i \in DOMAIN flight[r].results :
                  flight[r].results[i].status # "rejected" => flight[r].results[i].id \in Logged'
      BY DEF Answered
    <2>3. flight[r].stage = "judging" =>
               /\ [flight[r] EXCEPT !.stage = "answered", !.results = results] \in Flight
               /\ [flight[r] EXCEPT !.stage = "answered", !.results = results].results = results
      BY <2>1, FlightAnswered
    <2> QED BY <1>0, <2>1, <2>2, <2>3
  <1>2. flight' \in [Reg -> {Idle} \cup Flight]
    BY <1>1
  <1> QED BY <1>1, <1>2 DEF WireTypes, Answered

\* A commit's answers are true of the log it leaves.
LEMMA CommittedAnswers ==
    ASSUME ServerInv, Server!Commit
    PROVE  /\ tx \in SP!OpenTx /\ SP!IsOpen
           /\ tx.results \in Seq(SP!OpResult)
           /\ \A i \in DOMAIN tx.results :
                 tx.results[i].status # "rejected" => tx.results[i].id \in Logged'
  <1>1. tx \in SP!OpenTx /\ SP!IsOpen
    BY TransactionsAgree, ServerTypes, ServerConstants, SP!OpenIsTyped DEF SP!Commit, SP!IsOpen
  <1>2. tx.results \in Seq(SP!OpResult) /\ log' = tx.log
    BY <1>1, TransactionsAgree DEF SP!OpenTx, SP!Commit
  <1>3. \A i \in DOMAIN tx.results :
           tx.results[i].status # "rejected" => tx.results[i].id \in SP!IdsIn(tx.log)
    BY <1>1 DEF ServerInv, SP!AnswersInv, SP!AnswersHold
  <1> QED BY <1>1, <1>2, <1>3 DEF Logged, Server!IdsIn, SP!IdsIn

\* Every step keeps flights typed and answers true.
LEMMA WireKept ==
    ASSUME DurableInv, [Next]_vars
    PROVE  WireTypes' /\ Answered'
  <1> USE DEF DurableInv
  <1>1. Logged \subseteq Logged'
    BY LogGrows
  <1>2. CASE UNCHANGED wire
    BY <1>1, <1>2 DEF wire, WireTypes, Answered
  <1>3. ASSUME NEW r \in Reg, LoopStep(r) PROVE WireTypes' /\ Answered'
    BY <1>3, PhoneKeepsWire
  <1>4. ASSUME NEW s \in stale, ArriveStale(s) \/ BeginStale(s) PROVE WireTypes' /\ Answered'
    <2>1. s \in Flight
      BY DEF WireTypes
    <2>2. [s EXCEPT !.stage = "queued"] \in Flight
      BY <2>1, FlightInStage DEF FlightStages
    <2>3. stale' \subseteq Flight /\ flight' = flight
      BY <1>4, <2>2 DEF ArriveStale, BeginStale, WireTypes
    <2> QED BY <1>1, <2>3 DEF WireTypes, Answered
  <1>5. CASE CommitPush
    <2>1. flight' = [r \in Reg |-> flight'[r]] /\ stale' = stale
      BY <1>5 DEF CommitPush
    <2>2. \A r \in Reg : \/ flight'[r] = flight[r]
                         \/ /\ flight[r].stage = "judging"
                            /\ flight'[r] = [flight[r] EXCEPT !.stage = "answered",
                                                              !.results = tx.results]
      BY <1>5 DEF CommitPush, Judging
    <2>3. /\ tx.results \in Seq(SP!OpResult)
          /\ \A i \in DOMAIN tx.results :
                tx.results[i].status # "rejected" => tx.results[i].id \in Logged'
      BY <1>5, CommittedAnswers DEF CommitPush
    <2> QED BY <1>1, <2>1, <2>2, <2>3, AllFlightsMove DEF WireTypes
  <1>6. CASE AbortPush \/ Crash
    <2>1. <<>> \in Seq(SP!OpResult) /\ DOMAIN <<>> = {}
      OBVIOUS
    <2>2. stale' \subseteq Flight
      BY <1>6, LeftBehindIsAFlight DEF AbortPush, Crash, WireTypes
    <2>3. /\ flight' = [r \in Reg |-> flight'[r]]
          /\ \A r \in Reg : flight'[r] = Idle \/ flight'[r] = flight[r]
      BY <1>6 DEF AbortPush, Crash
    <2> QED BY <1>1, <2>1, <2>2, <2>3, AllFlightsMove
  <1>7. ASSUME NEW r \in Reg, GiveUp(r) PROVE WireTypes' /\ Answered'
    <2>1. stale' \subseteq Flight
      BY <1>7, LeftBehindIsAFlight DEF GiveUp, WireTypes
    <2>2. flight' = [flight EXCEPT ![r] = Idle] /\ Idle.stage # "answered"
      BY <1>7 DEF GiveUp, Idle
    <2> QED BY <1>1, <2>1, <2>2, FlightMoves
  <1>8. \/ UNCHANGED wire \/ CommitPush \/ AbortPush \/ Crash
        \/ \E r \in Reg : LoopStep(r) \/ GiveUp(r)
        \/ \E s \in stale : ArriveStale(s) \/ BeginStale(s)
    BY DEF Next, vars, ServerStep, JudgeStep, Enrolment, EnrolOnServer, RevokeByOwner, BeginCommand,
           CommitCommand, RollbackCommand, StartEnrol, PersistDraft, PersistToken, EmitGenesis,
           CarryOver, NameDevice, SpendDraft, FailEnrol, PhoneOnly
  <1> QED BY <1>2, <1>3, <1>4, <1>5, <1>6, <1>7, <1>8

-----------------------------------------------------------------------------
(* The phone's identity.                                                   *)

\* Every step keeps the identity consistent.
LEMMA IdentityKept ==
    ASSUME IdentityInv, [Next]_vars
    PROVE  IdentityInv'
  <1> USE DEF IdentityInv, Phases
  <1>0. /\ meta \in Nat /\ key \in Nat /\ token \in Nat /\ draft \in Nat
        /\ key < MaxRegs => key + 1 \in Reg
    BY SyncConstants DEF Reg
  <1>1. CASE UNCHANGED <<identity, loop>>
    BY <1>1 DEF identity, loop
  <1>2. CASE StartEnrol
    BY <1>0, <1>2 DEF StartEnrol, loop
  <1>3. CASE PersistDraft
    BY <1>0, <1>3 DEF PersistDraft, loop
  <1>4. CASE PersistToken
    BY <1>0, <1>4 DEF PersistToken, loop
  <1>5. CASE EmitGenesis \/ CarryOver
    BY <1>0, <1>5 DEF EmitGenesis, CarryOver, loop
  <1>6. CASE NameDevice
    BY <1>0, <1>6 DEF NameDevice
  <1>7. CASE SpendDraft
    BY <1>0, <1>7 DEF SpendDraft
  <1>8. CASE FailEnrol \/ Crash
    BY <1>0, <1>8 DEF FailEnrol, Crash
  <1>9. ASSUME NEW r \in Reg, MarkResult(r) \/ TakeUnauthorized(r) PROVE IdentityInv'
    <2>1. UNCHANGED identity
      BY <1>9 DEF MarkResult, TakeUnauthorized
    <2>2. persisted' \subseteq {"halted", "disabled"} /\ held' \subseteq {"halted", "disabled"}
      BY <1>9 DEF MarkResult, TakeUnauthorized, Stop, loop
    <2> QED BY <2>1, <2>2 DEF identity
  <1>10. \/ UNCHANGED <<identity, loop>>
         \/ StartEnrol \/ PersistDraft \/ PersistToken \/ EmitGenesis \/ CarryOver
         \/ NameDevice \/ SpendDraft \/ FailEnrol \/ Crash
         \/ \E r \in Reg : MarkResult(r) \/ TakeUnauthorized(r)
    BY DEF Next, vars, ServerStep, LoopStep, JudgeStep, Enrolment, EnrolOnServer, RevokeByOwner,
           BeginCommand, CommitCommand, RollbackCommand, ArriveStale, BeginStale, CommitPush,
           AbortPush, GiveUp, Send, Settle, Arrive, BeginPush
  <1> QED BY <1>1, <1>2, <1>3, <1>4, <1>5, <1>6, <1>7, <1>8, <1>9, <1>10

-----------------------------------------------------------------------------
(* The phone's chain head.                                                 *)

\* A bounded set of numbers has a largest.
LEMMA LargestNumber ==
    ASSUME NEW S \in SUBSET Nat, S # {}, NEW n \in Nat, \A s \in S : s <= n
    PROVE  \E m \in S : \A s \in S : s <= m
  <1> DEFINE Bounds == {k \in Nat : \A s \in S : s <= k}
             R == {ss \in Nat \X Nat : ss[1] < ss[2]}
  <1>1. Bounds \subseteq Nat /\ Bounds # {}
    OBVIOUS
  <1>2. IsWellFoundedOn(R, Nat)
    BY NatLessThanWellFounded DEF OpToRel
  <1>3. PICK m \in Bounds : \A k \in Bounds : ~(<<k, m>> \in R)
    <2> HIDE DEF R, Bounds
    <2> QED BY <1>1, <1>2, WFMin
  <1>4. \A k \in Bounds : m <= k
    <2> TAKE k \in Bounds
    <2>1. k \in Nat /\ m \in Nat /\ ~(<<k, m>> \in R)
      BY <1>3
    <2>2. ~(k < m)
      BY <2>1
    <2> QED BY <2>1, <2>2
  <1>5. m \in S
    <2>1. SUFFICES ASSUME m \notin S PROVE FALSE
      OBVIOUS
    <2>2. \A s \in S : s \in Nat /\ s <= m /\ s # m
      BY <2>1
    <2>2a. PICK s \in S : TRUE
      OBVIOUS
    <2>3. m \in Nat /\ m # 0
      BY <2>2, <2>2a
    <2>4. m - 1 \in Bounds
      BY <2>2, <2>3
    <2> QED BY <1>4, <2>3, <2>4
  <1> QED BY <1>5

\* readChainHead gives the end of the registration's own rows.
LEMMA HeadOfRows ==
    ASSUME rows \subseteq Row, RowsEnd, NEW r \in Reg
    PROVE  /\ PhoneHead(r, rows).seq \in Nat
           /\ PhoneHead(r, rows).hash \in {Genesis} \cup OpHash
           /\ \A w \in rows : w.op.dev = r => w.op.seq <= PhoneHead(r, rows).seq
           /\ \/ PhoneHead(r, rows) = [seq |-> 0, hash |-> Genesis]
              \/ \E w \in rows : /\ w.op.dev = r /\ w.op.seq = PhoneHead(r, rows).seq
                                 /\ w.op.hash = PhoneHead(r, rows).hash
  <1>1. \A w \in rows : w.op \in Op /\ w.op.seq \in Nat /\ w.op.hash \in OpHash
    BY DEF Row, Op
  <1>2. CASE Own(r, rows) = {}
    BY <1>1, <1>2 DEF PhoneHead, Own
  <1>3. CASE Own(r, rows) # {}
    <2> DEFINE S == {w.op.seq : w \in Own(r, rows)}
               last == CHOOSE w \in Own(r, rows) : \A v \in Own(r, rows) : v.op.seq <= w.op.seq
    <2>1. PICK n \in Nat : \A w \in rows : w.op.seq <= n
      BY DEF RowsEnd
    <2>2. S \in SUBSET Nat /\ S # {} /\ \A s \in S : s <= n
      BY <1>1, <1>3, <2>1 DEF Own
    <2>3. PICK m \in S : \A s \in S : s <= m
      <3> HIDE DEF S
      <3> QED BY <2>2, LargestNumber
    <2>4. \E w \in Own(r, rows) : \A v \in Own(r, rows) : v.op.seq <= w.op.seq
      BY <2>3
    <2>5. last \in Own(r, rows) /\ \A v \in Own(r, rows) : v.op.seq <= last.op.seq
      BY <2>4
    <2>6. PhoneHead(r, rows) = [seq |-> last.op.seq, hash |-> last.op.hash]
      BY <1>3 DEF PhoneHead
    <2> HIDE DEF last
    <2> QED BY <1>1, <2>5, <2>6 DEF Own
  <1> QED BY <1>2, <1>3

\* The op completeDraft makes of an id and a chain head.
LEMMA SignedIsTyped ==
    ASSUME NEW id \in Id, NEW r \in Reg, NEW h, h.seq \in Nat, h.hash \in {Genesis} \cup OpHash,
           key \in Reg
    PROVE  /\ SignedOp(id, r, h) \in Op /\ SignedOp(id, r, h).id = id
           /\ SignedOp(id, r, h).dev = r /\ SignedOp(id, r, h).sig = key
           /\ SignedOp(id, r, h).seq = h.seq + 1 /\ SignedOp(id, r, h).prev = h.hash
           /\ SignedOp(id, r, h).hash = <<id, r, h.seq + 1>>
           /\ LocalRow(SignedOp(id, r, h)) \in Row
           /\ LocalRow(SignedOp(id, r, h)).op = SignedOp(id, r, h)
           /\ LocalRow(SignedOp(id, r, h)).st = "local"
  BY DEF SignedOp, Op, OpHash, LocalRow, Row

-----------------------------------------------------------------------------
(* What carry-over re-signs.                                               *)

\* A carry order names every carried row once.
LEMMA OrderIsComplete ==
    ASSUME rows \subseteq Row, IsFiniteSet(rows), NEW s \in CarryOrders
    PROVE  /\ s \in Seq(Carried) /\ Carried \subseteq rows
           /\ \A i, j \in 1..Len(s) : s[i] = s[j] => i = j
           /\ \A i, j \in 1..Len(s) : i < j => ByDevThenSeq(s[i], s[j])
           /\ \A w \in Carried : \E i \in 1..Len(s) : s[i] = w
  <1> DEFINE n == Cardinality(Carried)
  <1>1. Carried \subseteq rows
    BY DEF Carried, Unsent
  <1>2. IsFiniteSet(Carried) /\ n \in Nat
    BY <1>1, FS_Subset, FS_CardinalityType
  <1>3. /\ s \in [1..n -> Carried] /\ \A i, j \in 1..n : i # j => s[i] # s[j]
        /\ \A i, j \in 1..n : i < j => ByDevThenSeq(s[i], s[j])
    BY DEF CarryOrders, SetToSeqs
  <1>4. s \in Injection(1..n, Carried)
    BY <1>3 DEF Injection, IsInjective
  <1>5. Cardinality(1..n) = n
    BY <1>2, FS_Interval
  <1>6. s \in Surjection(1..n, Carried)
    BY <1>2, <1>4, <1>5, FS_Injection
  <1>7. \A w \in Carried : \E i \in 1..n : s[i] = w
    BY <1>6 DEF Surjection
  <1>8. s \in Seq(Carried) /\ Len(s) = n
    BY <1>2, <1>3
  <1> QED BY <1>1, <1>3, <1>7, <1>8

CarriedId(s, i) == IF i = 1 THEN <<"transfer", draft>> ELSE s[i - 1].op.id
CarriedHead(s, i) ==
    IF i = 1 THEN PhoneHead(draft, rows)
    ELSE [seq |-> PhoneHead(draft, rows).seq + i - 1,
          hash |-> <<CarriedId(s, i - 1), draft, PhoneHead(draft, rows).seq + i - 1>>]
CarriedOp(s, i) == SignedOp(CarriedId(s, i), draft, CarriedHead(s, i))

\* The re-signed rows: the transfer record, then the carried changes in order,
\* one chain from the head of the new registration on.
LEMMA ResignedRows ==
    ASSUME rows \subseteq Row, IsFiniteSet(rows), RowsEnd, draft \in Reg, key \in Reg,
           NEW s \in CarryOrders
    PROVE  /\ Resigned(s) = {LocalRow(CarriedOp(s, i)) : i \in 1..(Len(s) + 1)}
           /\ \A i \in 1..(Len(s) + 1) :
                 /\ CarriedOp(s, i) \in Op /\ LocalRow(CarriedOp(s, i)) \in Row
                 /\ CarriedOp(s, i).id = CarriedId(s, i) /\ CarriedOp(s, i).dev = draft
                 /\ CarriedOp(s, i).sig = key
                 /\ CarriedOp(s, i).seq = PhoneHead(draft, rows).seq + i
                 /\ CarriedOp(s, i).hash
                       = <<CarriedId(s, i), draft, PhoneHead(draft, rows).seq + i>>
                 /\ CarriedOp(s, i).prev = CarriedHead(s, i).hash
           /\ \A i \in 2..(Len(s) + 1) : s[i - 1] \in Carried
           /\ IsFiniteSet(Resigned(s))
  <1> DEFINE n == Len(s)
             first == PhoneHead(draft, rows)
             ids == <<<<"transfer", draft>>>> \o [i \in DOMAIN s |-> s[i].op.id]
  <1>1. /\ s \in Seq(Carried) /\ n \in Nat /\ DOMAIN s = 1..n
        /\ \A i \in 2..(n + 1) : i - 1 \in 1..n /\ s[i - 1] \in Carried
    BY OrderIsComplete
  <1>2. \A w \in Carried : w \in rows /\ w.op.id \in Id
    BY DEF Carried, Unsent, Row, Op
  <1>3. /\ first.seq \in Nat /\ first.hash \in {Genesis} \cup OpHash
    BY HeadOfRows
  <1>4. <<"transfer", draft>> \in Id
    BY DEF Id
  <1>5. /\ Len(ids) = n + 1 /\ DOMAIN ids = 1..(n + 1)
        /\ \A i \in 1..(n + 1) : ids[i] = CarriedId(s, i)
    <2>1. [i \in DOMAIN s |-> s[i].op.id] \in Seq(Id)
      BY <1>1, <1>2
    <2>2. <<<<"transfer", draft>>>> \in Seq(Id)
      BY <1>4
    <2>3. Len([i \in DOMAIN s |-> s[i].op.id]) = n
      BY <1>1, <2>1
    <2> QED BY <1>1, <2>1, <2>2, <2>3 DEF CarriedId
  <1>6. \A i \in 1..(n + 1) : CarriedId(s, i) \in Id
    BY <1>1, <1>2, <1>4 DEF CarriedId
  <1>7. ASSUME NEW i \in 1..(n + 1)
        PROVE  /\ CarriedHead(s, i).seq = first.seq + i - 1
               /\ CarriedHead(s, i).seq \in Nat
               /\ CarriedHead(s, i).hash \in {Genesis} \cup OpHash
    <2>1. CASE i = 1
      BY <1>3, <2>1 DEF CarriedHead
    <2>2. CASE i # 1
      <3>1. i - 1 \in 1..(n + 1) /\ first.seq + i - 1 \in Nat
        BY <1>1, <1>3, <2>2
      <3>2. <<CarriedId(s, i - 1), draft, first.seq + i - 1>> \in OpHash
        BY <1>6, <3>1 DEF OpHash
      <3> QED BY <2>2, <3>1, <3>2 DEF CarriedHead
    <2> QED BY <2>1, <2>2
  <1>8. ASSUME NEW i \in 1..(n + 1)
        PROVE  /\ CarriedOp(s, i) \in Op /\ LocalRow(CarriedOp(s, i)) \in Row
               /\ CarriedOp(s, i).id = CarriedId(s, i) /\ CarriedOp(s, i).dev = draft
               /\ CarriedOp(s, i).sig = key
               /\ CarriedOp(s, i).seq = first.seq + i
               /\ CarriedOp(s, i).hash = <<CarriedId(s, i), draft, first.seq + i>>
               /\ CarriedOp(s, i).prev = CarriedHead(s, i).hash
    <2>1. CarriedHead(s, i).seq + 1 = first.seq + i
      BY <1>3, <1>7
    <2> QED BY <1>6, <1>7, <2>1, SignedIsTyped DEF CarriedOp
  <1>9. Resigned(s) = {LocalRow(CarriedOp(s, i)) : i \in 1..(n + 1)}
    <2> DEFINE headAt(i) == IF i = 1 THEN first
                            ELSE [seq |-> first.seq + i - 1,
                                  hash |-> <<ids[i - 1], draft, first.seq + i - 1>>]
    <2>1. Resigned(s) = {LocalRow(SignedOp(ids[i], draft, headAt(i))) : i \in DOMAIN ids}
      BY DEF Resigned
    <2>2. \A i \in 1..(n + 1) : headAt(i) = CarriedHead(s, i)
      <3> HIDE DEF ids
      <3> TAKE i \in 1..(n + 1)
      <3>1. i # 1 => i - 1 \in 1..(n + 1)
        BY <1>1
      <3> QED BY <1>5, <3>1 DEF CarriedHead
    <2> HIDE DEF ids, headAt
    <2>3. \A i \in 1..(n + 1) :
             LocalRow(SignedOp(ids[i], draft, headAt(i))) = LocalRow(CarriedOp(s, i))
      BY <1>5, <2>2 DEF CarriedOp
    <2> QED BY <1>5, <2>1, <2>3
  <1>10. IsFiniteSet(Resigned(s))
    <2> DEFINE f == [i \in 1..(n + 1) |-> LocalRow(CarriedOp(s, i))]
    <2>1. IsFiniteSet(1..(n + 1))
      BY <1>1, FS_Interval
    <2>2. f \in Surjection(1..(n + 1), Resigned(s))
      BY <1>9 DEF Surjection
    <2> QED BY <2>1, <2>2, FS_Surjection
  <1> QED BY <1>1, <1>8, <1>9, <1>10

-----------------------------------------------------------------------------
(* The phone's rows.                                                       *)

\* A command's transaction opens with the next change.
LEMMA BeginKeepsRows ==
    ASSUME IdentityInv, RowsInv, NEW r \in Reg, BeginCommand(r)
    PROVE  RowsInv'
  <1> USE DEF RowsInv, RowTypes
  <1> DEFINE c == <<"change", minted + 1>>
             new == LocalRow(SignedOp(c, r, PhoneHead(r, rows)))
  <1>1. key \in Reg
    BY RegIsNat DEF BeginCommand, Running, IdentityInv
  <1>2. c \in Changes /\ c \in Id /\ c[2] = minted + 1
    BY SyncConstants DEF BeginCommand, Changes, Id
  <1>3. new \in Row /\ new.op.id = c /\ new.st = "local"
    BY <1>1, <1>2, HeadOfRows, SignedIsTyped
  <1>4. /\ opened' = {new} /\ minted' = minted + 1 /\ UNCHANGED <<rows, saved, log>>
    BY DEF BeginCommand, server
  <1> HIDE DEF new, c
  <1>5. \A w \in rows : w.op.id \in Changes => w.op.id # c
    BY <1>2 DEF MintedBefore
  <1>6. RowTypes' /\ RowsEnd' /\ ChangeOnce' /\ SavedHeld' /\ SyncedIsDurable'
    BY <1>3, <1>4 DEF RowsEnd, ChangeOnce, SavedHeld, SyncedIsDurable, Logged, Server!IdsIn
  <1>7. OpenedIsNew'
    BY <1>2, <1>3, <1>4, <1>5 DEF OpenedIsNew
  <1>8. MintedBefore'
    <2>1. \A w \in rows : w.op.id \in Changes => w.op.id[2] <= minted /\ w.op.id[2] \in Nat
      BY DEF MintedBefore, Changes
    <2> QED BY <1>2, <1>3, <1>4, <2>1 DEF MintedBefore
  <1> QED BY <1>6, <1>7, <1>8

\* The transaction commits or leaves nothing.
LEMMA CommandEndKeepsRows ==
    ASSUME RowsInv, CommitCommand \/ RollbackCommand
    PROVE  RowsInv'
  <1> USE DEF RowsInv, RowTypes
  <1>1. CASE RollbackCommand
    BY <1>1 DEF RollbackCommand, RowsEnd, OpenedIsNew, ChangeOnce, MintedBefore, SavedHeld,
                SyncedIsDurable, Logged, Server!IdsIn, server
  <1>2. CASE CommitCommand
    <2>1. PICK w \in opened : TRUE
      BY <1>2 DEF CommitCommand, Free
    <2>2. /\ opened = {w} /\ w \in Row /\ w.st = "local" /\ w.op.id \in Changes
          /\ \A v \in rows : v.op.id # w.op.id
      BY <2>1 DEF OpenedIsNew
    <2>3. /\ rows' = rows \cup {w} /\ saved' = saved \cup {w.op.id}
          /\ opened' = {} /\ minted' = minted /\ log' = log
      BY <1>2, <2>2 DEF CommitCommand, server
    <2>4. RowTypes'
      BY <2>2, <2>3, FS_AddElement
    <2>5. RowsEnd'
      <3>1. PICK n \in Nat : \A v \in rows : v.op.seq <= n
        BY DEF RowsEnd
      <3>2. w.op.seq \in Nat /\ \A v \in rows : v.op.seq \in Nat
        BY <2>2 DEF Row, Op
      <3>3. /\ n + w.op.seq \in Nat
            /\ \A v \in rows' : v.op.seq <= n + w.op.seq
        BY <2>3, <3>1, <3>2
      <3> QED BY <3>3 DEF RowsEnd
    <2>6. OpenedIsNew' /\ ChangeOnce' /\ SavedHeld'
      BY <2>2, <2>3 DEF OpenedIsNew, ChangeOnce, SavedHeld
    <2>7. MintedBefore' /\ SyncedIsDurable'
      BY <2>1, <2>2, <2>3 DEF MintedBefore, SyncedIsDurable, Logged, Server!IdsIn
    <2> QED BY <2>4, <2>5, <2>6, <2>7
  <1> QED BY <1>1, <1>2

\* The genesis record is no change, and is still to be sent.
LEMMA GenesisKeepsRows ==
    ASSUME IdentityInv, RowsInv, EmitGenesis
    PROVE  RowsInv'
  <1> USE DEF RowsInv, RowTypes
  <1>1. UNCHANGED <<opened, minted, saved, log>> /\ opened = {}
    BY DEF EmitGenesis, PhoneOnly, server, Free
  <1>2. CASE rows' = rows
    BY <1>1, <1>2 DEF RowsEnd, OpenedIsNew, ChangeOnce, MintedBefore, SavedHeld,
                      SyncedIsDurable, Logged, Server!IdsIn
  <1>3. CASE rows' # rows
    <2> DEFINE g == <<"genesis", draft>>
               new == LocalRow(SignedOp(g, draft, PhoneHead(draft, rows)))
    <2>1. draft \in Reg /\ key \in Reg
      BY RegIsNat DEF EmitGenesis, IdentityInv
    <2>2. g \in Id /\ g \notin Changes
      BY <2>1 DEF Id, Changes
    <2>3. new \in Row /\ new.op.id = g /\ new.st = "local"
      BY <2>1, <2>2, HeadOfRows, SignedIsTyped
    <2>4. rows' = rows \cup {new}
      BY <1>3 DEF EmitGenesis
    <2> HIDE DEF new, g
    <2>5. RowTypes'
      BY <1>1, <2>3, <2>4, FS_AddElement
    <2>6. RowsEnd'
      <3>1. PICK n \in Nat : \A v \in rows : v.op.seq <= n
        BY DEF RowsEnd
      <3>2. new.op.seq \in Nat /\ \A v \in rows : v.op.seq \in Nat
        BY <2>3 DEF Row, Op
      <3>3. n + new.op.seq \in Nat /\ \A v \in rows' : v.op.seq <= n + new.op.seq
        BY <2>4, <3>1, <3>2
      <3> QED BY <3>3 DEF RowsEnd
    <2>7. OpenedIsNew' /\ ChangeOnce' /\ SavedHeld' /\ MintedBefore' /\ SyncedIsDurable'
      BY <1>1, <2>2, <2>3, <2>4 DEF OpenedIsNew, ChangeOnce, SavedHeld, MintedBefore,
                                    SyncedIsDurable, Logged, Server!IdsIn
    <2> QED BY <2>5, <2>6, <2>7
  <1> QED BY <1>2, <1>3

\* Every change of an earlier registration that was still to be sent is carried
\* over once, under its own id.
LEMMA CarryOverKeepsRows ==
    ASSUME IdentityInv, RowsInv, CarryOver
    PROVE  RowsInv'
  <1> USE DEF RowsInv, RowTypes
  <1>1. UNCHANGED <<opened, minted, saved, log>> /\ opened = {}
    BY DEF CarryOver, PhoneOnly, server, Free
  <1>2. draft \in Reg /\ key \in Reg
    BY RegIsNat DEF CarryOver, IdentityInv
  <1>3. PICK s \in CarryOrders :
           rows' = (rows \ Unsent) \cup (IF Carried = {} THEN {} ELSE Resigned(s))
    BY DEF CarryOver
  <1>4. \A w \in Unsent : w \in rows /\ (w.op.id \in Changes => w \in Carried)
    BY DEF Unsent, Carried, RegistrationOp, Changes
  <1>5. CASE Carried = {}
    <2>1. rows' = rows \ Unsent
      BY <1>3, <1>5
    <2>2. IsFiniteSet(rows')
      BY <2>1, FS_Subset
    <2>3. \A w \in rows : w.op.id \in Changes => w \in rows'
      BY <1>4, <1>5, <2>1
    <2>4. RowTypes' /\ RowsEnd' /\ ChangeOnce' /\ MintedBefore' /\ OpenedIsNew' /\ SyncedIsDurable'
      BY <1>1, <2>1, <2>2 DEF RowsEnd, ChangeOnce, MintedBefore, OpenedIsNew, SyncedIsDurable,
                              Logged, Server!IdsIn
    <2>5. SavedHeld'
      BY <1>1, <2>3 DEF SavedHeld
    <2> QED BY <2>4, <2>5
  <1>6. CASE Carried # {}
    <2> DEFINE new == Resigned(s)
               n == Len(s)
    <2>1. rows' = (rows \ Unsent) \cup new
      BY <1>3, <1>6
    <2>2. /\ n \in Nat
          /\ \A i, j \in 1..n : s[i] = s[j] => i = j
          /\ \A i \in 1..n : s[i] \in Carried
          /\ \A w \in Carried : \E i \in 1..n : s[i] = w
      BY OrderIsComplete
    <2>3. /\ new = {LocalRow(CarriedOp(s, i)) : i \in 1..(n + 1)}
          /\ \A i \in 1..(n + 1) : /\ LocalRow(CarriedOp(s, i)) \in Row
                                   /\ CarriedOp(s, i).id = CarriedId(s, i)
                                   /\ CarriedOp(s, i).seq = PhoneHead(draft, rows).seq + i
          /\ IsFiniteSet(new)
      BY <1>2, ResignedRows
    <2>4. \A i \in 1..(n + 1) : LocalRow(CarriedOp(s, i)).st = "local"
                                /\ LocalRow(CarriedOp(s, i)).op = CarriedOp(s, i)
      BY DEF LocalRow
    <2>5. /\ CarriedId(s, 1) \notin Changes
          /\ \A i \in 2..(n + 1) : i - 1 \in 1..n /\ CarriedId(s, i) = s[i - 1].op.id
      BY <2>2 DEF CarriedId, Changes
    <2> HIDE DEF new, n
    <2>6. \A w \in new : w \in Row /\ w.st = "local"
                         /\ (w.op.id \in Changes => \E k \in 1..n : w.op.id = s[k].op.id)
      <3> SUFFICES ASSUME NEW i \in 1..(n + 1), CarriedOp(s, i).id \in Changes
                   PROVE  \E k \in 1..n : CarriedOp(s, i).id = s[k].op.id
        BY <2>3, <2>4
      <3>1. i # 1
        BY <2>3, <2>5
      <3>2. i \in 2..(n + 1)
        BY <2>2, <3>1
      <3> QED BY <2>3, <2>5, <3>2
    <2>7. RowTypes'
      <3>1. IsFiniteSet(rows \ Unsent)
        BY FS_Subset
      <3>2. IsFiniteSet(rows')
        BY <2>1, <2>3, <3>1, FS_Union
      <3> QED BY <1>1, <2>1, <2>6, <3>2
    <2>8. RowsEnd'
      <3>1. PICK m \in Nat : \A v \in rows : v.op.seq <= m
        BY DEF RowsEnd
      <3>2. PhoneHead(draft, rows).seq \in Nat /\ \A v \in rows : v.op.seq \in Nat
        BY <1>2, HeadOfRows DEF Row, Op
      <3> DEFINE top == m + PhoneHead(draft, rows).seq + n + 1
      <3>3. top \in Nat /\ \A v \in rows : v.op.seq <= top
        BY <2>2, <3>1, <3>2
      <3>4. \A v \in new : v.op.seq <= top
        <4> SUFFICES ASSUME NEW i \in 1..(n + 1) PROVE PhoneHead(draft, rows).seq + i <= top
          BY <2>3, <2>4
        <4> QED BY <2>2, <3>1, <3>2
      <3> QED BY <2>1, <3>3, <3>4 DEF RowsEnd
    <2>9. ChangeOnce'
      <3> SUFFICES ASSUME NEW w \in rows', NEW v \in rows', w.op.id = v.op.id, w.op.id \in Changes
                   PROVE  w = v
        BY DEF ChangeOnce
      <3>1. ASSUME NEW x \in rows \ Unsent, NEW y \in new, x.op.id = y.op.id, x.op.id \in Changes
            PROVE  FALSE
        <4>1. PICK k \in 1..n : y.op.id = s[k].op.id
          BY <2>6, <3>1
        <4>2. s[k] \in Unsent /\ s[k] \in rows
          BY <1>4, <2>2 DEF Carried
        <4> QED BY <3>1, <4>1, <4>2 DEF ChangeOnce
      <3>2. CASE w \in rows \ Unsent /\ v \in rows \ Unsent
        BY <3>2 DEF ChangeOnce
      <3>3. CASE w \in new /\ v \in new
        <4>1. PICK i \in 1..(n + 1) : w = LocalRow(CarriedOp(s, i))
          BY <2>3, <3>3
        <4>2. PICK j \in 1..(n + 1) : v = LocalRow(CarriedOp(s, j))
          BY <2>3, <3>3
        <4>3. CarriedId(s, i) \in Changes /\ CarriedId(s, i) = CarriedId(s, j)
          BY <2>3, <2>4, <4>1, <4>2
        <4>4. i \in 2..(n + 1) /\ j \in 2..(n + 1)
          BY <2>2, <2>5, <4>3
        <4>5. s[i - 1].op.id = s[j - 1].op.id /\ s[i - 1].op.id \in Changes
          BY <2>5, <4>3, <4>4
        <4>6. s[i - 1] \in rows /\ s[j - 1] \in rows
          BY <1>4, <2>2, <2>5, <4>4 DEF Carried
        <4>7. i - 1 = j - 1
          BY <2>2, <2>5, <4>4, <4>5, <4>6 DEF ChangeOnce
        <4> QED BY <2>2, <4>1, <4>2, <4>7
      <3> QED BY <2>1, <3>1, <3>2, <3>3
    <2>10. SavedHeld'
      <3> SUFFICES ASSUME NEW c \in saved PROVE \E w \in rows' : w.op.id = c
        BY <1>1 DEF SavedHeld
      <3>1. PICK w \in rows : w.op.id = c
        BY DEF SavedHeld
      <3>2. CASE w \notin Unsent
        BY <2>1, <3>1, <3>2
      <3>3. CASE w \in Unsent
        <4>1. PICK k \in 1..n : s[k] = w
          BY <1>4, <2>2, <3>1, <3>3
        <4>2. k + 1 \in 2..(n + 1) /\ k + 1 \in 1..(n + 1) /\ (k + 1) - 1 = k
          BY <2>2
        <4>3. CarriedId(s, k + 1) = c
          BY <2>5, <3>1, <4>1, <4>2
        <4>4. LocalRow(CarriedOp(s, k + 1)) \in rows' /\ LocalRow(CarriedOp(s, k + 1)).op.id = c
          BY <2>1, <2>3, <2>4, <4>2, <4>3
        <4> QED BY <4>4
      <3> QED BY <3>2, <3>3
    <2>11. MintedBefore'
      <3>1. \A w \in new : w.op.id \in Changes => w.op.id[2] <= minted
        <4> SUFFICES ASSUME NEW w \in new, w.op.id \in Changes PROVE w.op.id[2] <= minted
          OBVIOUS
        <4>1. PICK k \in 1..n : w.op.id = s[k].op.id
          BY <2>6
        <4>2. s[k] \in rows
          BY <1>4, <2>2 DEF Carried
        <4> QED BY <4>1, <4>2 DEF MintedBefore
      <3> QED BY <1>1, <2>1, <3>1 DEF MintedBefore
    <2>12. SyncedIsDurable' /\ OpenedIsNew'
      BY <1>1, <2>1, <2>6 DEF SyncedIsDurable, OpenedIsNew, Logged, Server!IdsIn
    <2> QED BY <2>7, <2>8, <2>9, <2>10, <2>11, <2>12
  <1> QED BY <1>5, <1>6

\* An answer leaves the phone's ops as they are and moves states only.
LEMMA MarksMoveStates ==
    ASSUME RowTypes, NEW r \in Reg, MarkResult(r)
    PROVE  \E f \in [rows -> Row] :
              /\ rows' = {f[w] : w \in rows}
              /\ \A w \in rows :
                    /\ f[w].op = w.op
                    /\ \/ f[w] = w
                       \/ /\ w.op.id = Head(flight[r].results).id
                          /\ Head(flight[r].results).code # "CHAIN_HALTED"
                          /\ f[w].st = NextStatus(w.st, Head(flight[r].results))
  <1> DEFINE res == Head(flight[r].results)
             mine == {w \in rows : w.op.id = res.id}
             next == [w \in mine |-> NextStatus(w.st, res)]
             marks == res.code # "CHAIN_HALTED" /\ mine # {}
             g == [w \in rows |-> IF w \in mine THEN [w EXCEPT !.st = next[w]] ELSE w]
  <1>1. CASE rows' = rows
    <2>1. [w \in rows |-> w] \in [rows -> Row] /\ rows' = {[w \in rows |-> w][v] : v \in rows}
      BY <1>1 DEF RowTypes
    <2> QED BY <2>1
  <1>2. CASE rows' # rows
    <2>1. /\ marks /\ \A w \in mine : next[w] # "invalid"
          /\ rows' = (rows \ mine) \cup {[w EXCEPT !.st = next[w]] : w \in mine}
      BY <1>2 DEF MarkResult
    <2>2. \A w \in mine : next[w] \in {"local", "synced", "rejected", "invalid"}
      BY DEF NextStatus
    <2>3. \A w \in mine : /\ [w EXCEPT !.st = next[w]] \in Row
                          /\ [w EXCEPT !.st = next[w]].op = w.op
                          /\ [w EXCEPT !.st = next[w]].st = NextStatus(w.st, res)
      <3> TAKE w \in mine
      <3>1. w \in Row /\ next[w] \in {"local", "synced", "rejected"} /\ next[w] = NextStatus(w.st, res)
        BY <2>1, <2>2 DEF RowTypes
      <3> HIDE DEF next
      <3> QED BY <3>1 DEF Row
    <2>4. g \in [rows -> Row]
      BY <2>3 DEF RowTypes
    <2>5. rows' = {g[w] : w \in rows}
      BY <2>1
    <2>6. \A w \in rows : /\ g[w].op = w.op
                          /\ \/ g[w] = w
                             \/ /\ w.op.id = res.id /\ res.code # "CHAIN_HALTED"
                                /\ g[w].st = NextStatus(w.st, res)
      BY <2>1, <2>3
    <2> QED BY <2>4, <2>5, <2>6
  <1> QED BY <1>1, <1>2

\* Marking an answer keeps the rows: only a change the answer says is taken
\* becomes synced, and that answer is true.
LEMMA MarkKeepsRows ==
    ASSUME WireTypes, Answered, RowsInv, NEW r \in Reg, MarkResult(r)
    PROVE  RowsInv'
  <1> USE DEF RowsInv, RowTypes
  <1> DEFINE res == Head(flight[r].results)
  <1>1. UNCHANGED <<opened, minted, saved, log>> /\ opened = {}
    BY DEF MarkResult, server, Free
  <1>2. PICK f \in [rows -> Row] :
              /\ rows' = {f[w] : w \in rows}
              /\ \A w \in rows :
                    /\ f[w].op = w.op
                    /\ \/ f[w] = w
                       \/ w.op.id = res.id /\ f[w].st = NextStatus(w.st, res)
    BY MarksMoveStates
  <1>3. res.status # "rejected" => res.id \in Logged
    <2>1. flight[r] \in Flight /\ flight[r].stage = "answered" /\ flight[r].results # <<>>
      BY DEF MarkResult, WireTypes, Idle
    <2>2. flight[r].results \in Seq(SP!OpResult)
      BY <2>1 DEF Flight
    <2>3. 1 \in DOMAIN flight[r].results /\ res = flight[r].results[1]
      BY <2>1, <2>2
    <2> QED BY <2>1, <2>3 DEF Answered
  <1> HIDE DEF res
  <1>4. \A w \in rows : f[w].st = "synced" => w.op.id \in Logged
    <2> SUFFICES ASSUME NEW w \in rows, f[w].st = "synced" PROVE w.op.id \in Logged
      OBVIOUS
    <2>1. CASE f[w] = w
      BY <2>1 DEF SyncedIsDurable
    <2>2. CASE w.op.id = res.id /\ NextStatus(w.st, res) = "synced"
      <3>1. res.status # "rejected"
        BY <2>2 DEF NextStatus
      <3> QED BY <1>3, <2>2, <3>1
    <2> QED BY <1>2, <2>1, <2>2
  <1>5. \A v \in rows' : \E w \in rows : v = f[w]
    BY <1>2
  <1>6. RowTypes'
    <2>1. f \in Surjection(rows, rows')
      BY <1>2 DEF Surjection
    <2>2. IsFiniteSet(rows')
      BY <2>1, FS_Surjection
    <2> QED BY <1>1, <1>2, <2>2
  <1>7. RowsEnd' /\ ChangeOnce' /\ MintedBefore' /\ SavedHeld' /\ OpenedIsNew'
    <2>1. RowsEnd'
      BY <1>2, <1>5 DEF RowsEnd
    <2>2. ChangeOnce' /\ MintedBefore' /\ OpenedIsNew'
      BY <1>1, <1>2, <1>5 DEF ChangeOnce, MintedBefore, OpenedIsNew
    <2>3. SavedHeld'
      BY <1>1, <1>2 DEF SavedHeld
    <2> QED BY <2>1, <2>2, <2>3
  <1>8. SyncedIsDurable'
    BY <1>1, <1>2, <1>4, <1>5 DEF SyncedIsDurable, Logged, Server!IdsIn
  <1> QED BY <1>6, <1>7, <1>8

\* Every step keeps the rows.
LEMMA RowsKept ==
    ASSUME DurableInv, [Next]_vars
    PROVE  RowsInv'
  <1> USE DEF DurableInv
  <1>1. Logged \subseteq Logged'
    BY LogGrows
  <1>2. CASE UNCHANGED phoneRows
    BY <1>1, <1>2 DEF phoneRows, RowsInv, RowTypes, RowsEnd, OpenedIsNew, ChangeOnce, MintedBefore,
                      SavedHeld, SyncedIsDurable
  <1>3. CASE Crash
    BY <1>1, <1>3 DEF Crash, RowsInv, RowTypes, RowsEnd, OpenedIsNew, ChangeOnce, MintedBefore,
                      SavedHeld, SyncedIsDurable
  <1>4. ASSUME NEW r \in Reg, BeginCommand(r) \/ MarkResult(r) PROVE RowsInv'
    BY <1>4, BeginKeepsRows, MarkKeepsRows
  <1>5. CASE CommitCommand \/ RollbackCommand
    BY <1>5, CommandEndKeepsRows
  <1>6. CASE EmitGenesis \/ CarryOver
    BY <1>6, GenesisKeepsRows, CarryOverKeepsRows
  <1>7. \/ UNCHANGED phoneRows \/ Crash \/ CommitCommand \/ RollbackCommand
        \/ EmitGenesis \/ CarryOver
        \/ \E r \in Reg : BeginCommand(r) \/ MarkResult(r)
    BY DEF Next, vars, phoneRows, ServerStep, LoopStep, JudgeStep, Enrolment, EnrolOnServer,
           RevokeByOwner, StartEnrol, PersistDraft, PersistToken, NameDevice, SpendDraft, FailEnrol,
           PhoneOnly, ArriveStale, BeginStale, CommitPush, AbortPush, GiveUp, Send, Settle,
           TakeUnauthorized, Arrive, BeginPush
  <1> QED BY <1>2, <1>3, <1>4, <1>5, <1>6, <1>7

-----------------------------------------------------------------------------
(* What holds whatever fails.                                              *)

\* The system starts with the server's tables in order and nothing known.
LEMMA DurableInit == Init => DurableInv
  <1> SUFFICES ASSUME Init PROVE DurableInv
    OBVIOUS
  <1>1. SP!Init
    BY TransactionsAgree DEF Init
  <1>2. ServerInv
    <2>1. SP!TablesInv
      BY <1>1, ServerConstants, SP!TablesInit
    <2>2. SP!AnswersInv
      BY <1>1 DEF SP!Init, SP!AnswersInv, SP!AnswersHold, SP!IsOpen, SP!NoTx
    <2> QED BY <2>1, <2>2 DEF ServerInv
  <1>3. WireTypes /\ Answered
    BY DEF Init, WireTypes, Answered, Idle
  <1>4. IdentityInv
    BY DEF Init, IdentityInv, Phases
  <1>5. RowsInv
    BY FS_EmptySet DEF Init, RowsInv, RowTypes, RowsEnd, OpenedIsNew, ChangeOnce, MintedBefore,
                       SavedHeld, SyncedIsDurable
  <1> QED BY <1>2, <1>3, <1>4, <1>5 DEF DurableInv

\* Every step keeps the durable invariant.
LEMMA DurableStep == DurableInv /\ [Next]_vars => DurableInv'
  <1> SUFFICES ASSUME DurableInv, [Next]_vars PROVE DurableInv'
    OBVIOUS
  <1>1. IdentityInv'
    BY IdentityKept DEF DurableInv
  <1> QED BY <1>1, ServerStepKeeps, WireKept, RowsKept DEF DurableInv

\* The durable invariant holds throughout.
LEMMA AlwaysDurable == Spec => []DurableInv
  BY DurableInit, DurableStep, PTL DEF Spec

\* What the phone shows as synced is in the server's log, whatever is lost,
\* crashes, is revoked or re-enrolled (push.ts marks only from an answer, and
\* the answer follows the commit).
THEOREM SyncedStaysDurable == Spec => []SyncedIsDurable
  <1>1. DurableInv => SyncedIsDurable
    BY DEF DurableInv, RowsInv
  <1> QED BY <1>1, AlwaysDurable, PTL

\* A committed change is in the phone's log exactly once, through every
\* answer, crash, carry-over and resumed enrolment (carry-over.ts).
THEOREM SavedIsNeverLost == Spec => []NothingLost
  <1>1. ASSUME DurableInv PROVE NothingLost
    <2> SUFFICES ASSUME NEW c \in saved PROVE Cardinality({w \in rows : w.op.id = c}) = 1
      BY DEF NothingLost
    <2> USE <1>1 DEF DurableInv, RowsInv, RowTypes
    <2>1. PICK w \in rows : w.op.id = c
      BY DEF SavedHeld
    <2>2. {v \in rows : v.op.id = c} = {w}
      BY <2>1 DEF ChangeOnce
    <2> QED BY <2>2, FS_Singleton
  <1>2. DurableInv => NothingLost
    BY <1>1
  <1> QED BY <1>2, AlwaysDurable, PTL

-----------------------------------------------------------------------------
(* What an honest phone may count on.                                      *)

\* The code as the phone's own registrations see it: no push in flight when an
\* enrolment starts, no interrupted re-enrolment, and no change refused that a
\* re-enrolment may carry over, or refused with a scope that shows tampering.
Untroubled ==
    /\ ~LateAnswers /\ EnrolFaults = {}
    /\ RefusalCodes # {} => MaxRegs = 1 /\ "SCOPE_VIOLATION" \notin RefusalCodes

OpsOf(s) == {s[i] : i \in DOMAIN s}
RowOps == {w.op : w \in rows}
HeldOps == {w.op : w \in rows \cup opened}
FlightOps == UNION {OpsOf(flight[r].ops) : r \in {q \in Reg : flight[q] # Idle}}
StaleOps == UNION {OpsOf(s.ops) : s \in stale}
TxUsed == tx.stage \in {"judging", "detecting", "rerun"}
TxOps == IF TxUsed THEN OpsOf(tx.ops) ELSE {}
OnWire == FlightOps \cup StaleOps \cup TxOps
World == HeldOps \cup OnWire

\* The keystore's registration is the newest, and outside an enrolment the one
\* the app runs as.
Names ==
    /\ phase = "idle" /\ meta # 0 => meta = key
    /\ draft \in {0, key}
    /\ phase = "keyed" => draft = 0 /\ meta # key
    /\ phase \in {"tokened", "begun", "carried", "named"} => token = key
    /\ phase = "named" => meta = key
    /\ meta = key => token = key
    /\ opened # {} => meta = key /\ phase = "idle" /\ key # 0

\* What is in flight was sent by the running registration; every push is signed
\* and addressed as one registration's.
WireOwner ==
    /\ \A r \in Reg : flight[r] # Idle =>
           /\ r = key /\ meta = key /\ phase = "idle"
           /\ flight[r].dev = r /\ flight[r].tok = r
           /\ \A o \in OpsOf(flight[r].ops) : o.dev = r
           /\ flight[r].stage = "unauthorized" => status[r] = "revoked"
    /\ \A s \in stale : s.dev = s.tok /\ \A o \in OpsOf(s.ops) : o.dev = s.dev
    /\ \A o \in TxOps : o.dev = tx.dev

\* The phone's ops are signed by their own registration, wherever they are,
\* and form one chain per registration.
SignedByOwner == \A o \in World : o.sig = o.dev /\ o.dev <= key
Chained(W) ==
    /\ \A p, o \in W : p.dev = o.dev /\ p.seq = o.seq => p = o
    /\ \A p, o \in W : p.dev = o.dev /\ o.seq = p.seq + 1 => o.prev = p.hash
\* The newest registration's chain is whole on the phone.
WireIsHeld == \A o \in OnWire : o.dev = key => o \in RowOps
NoHole == \A o \in HeldOps : o.dev = key /\ o.seq # 1 =>
             \E p \in RowOps : p.dev = key /\ p.seq = o.seq - 1

\* What is logged in L or among registration r's refusals R.
JudgedOps(r, L, R) ==
    {o \in Op : \/ o.id \in Server!IdsIn(L)
                \/ \E q \in R : q.dev = r /\ q.id = o.id /\ q.hash = o.hash}

\* A head h that the server has for registration r, with the judged ops J, lies
\* on r's chain among the ops W: what it passed is judged, what follows links to
\* it; and it lies among the phone's rows R if r is the newest registration k.
OnChain(W, R, k, r, h, J) ==
    /\ \A o \in W : o.dev = r /\ o.seq <= h.seq => o \in J
    /\ \A o \in W : o.dev = r /\ o.seq = h.seq + 1 => o.prev = h.hash
    /\ h.seq = 0 => h.hash = Genesis
    /\ r > k => h.seq = 0
    /\ r = k /\ h.seq # 0 => \E o \in R : o.dev = r /\ o.seq = h.seq /\ o.hash = h.hash
HeadsOnChain ==
    /\ \A r \in Reg : OnChain(World, RowOps, key, r, head[r], JudgedOps(r, log, refused))
    /\ Server!IsOpen =>
          OnChain(World, RowOps, key, tx.dev, tx.head, JudgedOps(tx.dev, tx.log, tx.refused))

\* A refusal is of one of the phone's rows, where changes can be refused.
OfRows(R) ==
    \A q \in R : \E o \in RowOps : /\ o.dev = q.dev /\ o.id = q.id
                                   /\ o.seq = q.seq /\ o.hash = q.hash
\* The open push knows the verdicts on its ops.
VerdictsKnown ==
    /\ \A k \in tx.known : \E q \in tx.refused : q.dev = tx.dev /\ k = Server!Verdict(q)
    /\ \A q \in tx.refused :
          q.dev = tx.dev /\ q.id \in Server!IdsOf(tx.ops) /\ q.id \notin Server!IdsIn(tx.log) =>
             Server!Verdict(q) \in tx.known
RefusalsOfRows ==
    /\ RefusalCodes # {} => OfRows(refused) /\ (Server!IsOpen => OfRows(tx.refused))
    /\ Server!IsOpen => VerdictsKnown

\* A row that is not to be sent lies behind the head, or was refused to a
\* revoked registration.
SettledBehindHead ==
    \A w \in rows : w.st # "local" =>
        \/ w.op.seq <= head[w.op.dev].seq
        \/ w.st = "rejected" /\ status[w.op.dev] = "revoked"

\* What an answer to a registration in status st, whose head is at n, may say of
\* the op o.
FairAnswer(st, o, res, n) ==
    /\ res.id = o.id /\ res.code \in {"none", "DEVICE_REVOKED"} \cup Server!Verdicts
    /\ \/ o.seq <= n
       \/ res.status = "rejected" /\ st = "revoked"
FairAnswers ==
    /\ \A r \in Reg : flight[r].stage = "answered" =>
          \A i \in DOMAIN flight[r].results :
             \E o \in OpsOf(flight[r].ops) : FairAnswer(status[r], o, flight[r].results[i], head[r].seq)
    /\ Server!IsOpen =>
          \A i \in DOMAIN tx.results :
             i \in DOMAIN tx.ops /\ FairAnswer(status[tx.dev], tx.ops[i], tx.results[i], tx.head.seq)
NoAnomaly ==
    /\ anomalies = {}
    /\ Server!IsOpen => ~tx.halted /\ tx.anomalies = {}
JudgedIsOpen ==
    \A r \in Reg : Judging(r) => TxUsed /\ tx.dev = r /\ tx.ops = flight[r].ops

\* From position k on, each op follows on the head n or on an op before it.
Closed(ops, k, n) ==
    \A i \in DOMAIN ops : i >= k =>
        \/ ops[i].seq <= n + 1
        \/ \E j \in DOMAIN ops : k <= j /\ j < i /\ ops[j].seq = ops[i].seq - 1
BatchesClosed ==
    /\ \A r \in Reg : flight[r].stage \in {"sent", "queued"} =>
           status[r] = "revoked" \/ Closed(flight[r].ops, 1, head[r].seq)
    /\ \A s \in stale : status[s.dev] = "revoked" \/ Closed(s.ops, 1, head[s.dev].seq)
    /\ TxUsed => status[tx.dev] = "revoked" \/ Closed(tx.ops, 1, head[tx.dev].seq)
    /\ tx.stage = "judging" => Closed(tx.ops, tx.pos, tx.head.seq)

\* Once the newest registration runs, or its transfer record exists, only its
\* own rows are still to be sent.
LocalIsOwn == \A w \in rows \cup opened : w.st = "local" => w.op.dev = key
LocalOwner ==
    /\ meta = key \/ phase \in {"carried", "named"} => LocalIsOwn
    /\ (\E o \in RowOps : o.id = <<"transfer", key>>) => LocalIsOwn

LoopUnstopped ==
    /\ "halted" \notin persisted \cup held
    /\ phase = "idle" => held = persisted
    /\ meta # 0 /\ meta = key /\ status[key] # "revoked" => persisted = {}

IdsApart ==
    /\ \A w, v \in rows \cup opened : w.op.id = v.op.id => w = v
    /\ \A o \in HeldOps : o.id[1] \in {"genesis", "transfer"} => o.dev = o.id[2]

HonestInv ==
    /\ DurableInv
    /\ Names /\ WireOwner /\ SignedByOwner /\ Chained(World) /\ WireIsHeld /\ NoHole
    /\ HeadsOnChain /\ RefusalsOfRows /\ SettledBehindHead /\ FairAnswers /\ NoAnomaly /\ JudgedIsOpen
    /\ BatchesClosed /\ LocalOwner /\ LoopUnstopped /\ IdsApart

-----------------------------------------------------------------------------
(* Chains.                                                                 *)

\* h is the end of registration k's ops in R.
EndOf(R, k, h) ==
    /\ h.seq \in Nat /\ \A o \in R : o.dev = k => o.seq <= h.seq
    /\ \/ h.seq = 0 /\ h.hash = Genesis
       \/ \E o \in R : o.dev = k /\ o.seq = h.seq /\ o.hash = h.hash
\* The ops S continue registration k's chain from h.
Continues(S, k, h) ==
    /\ \A o \in S : o \in Op /\ o.dev = k /\ o.sig = k /\ o.seq > h.seq
    /\ \A p, o \in S : p.seq = o.seq => p = o
    /\ \A o \in S : \/ o.seq = h.seq + 1 /\ o.prev = h.hash
                    \/ \E p \in S : o.seq = p.seq + 1 /\ o.prev = p.hash

\* A chain that is whole on the phone may be continued.
LEMMA ChainContinues ==
    ASSUME NEW W, NEW R, NEW k, NEW h, NEW S, W \subseteq Op, R \subseteq W, Chained(W),
           \A o \in W : o.dev = k => o \in R, EndOf(R, k, h), Continues(S, k, h)
    PROVE  Chained(W \cup S)
  <1>0. /\ \A o \in W \cup S : o \in Op /\ o.seq \in Nat \ {0}
        /\ h.seq \in Nat
    BY DEF Op, EndOf, Continues
  <1>1. \A p \in W, o \in S : p.dev = o.dev => p.seq <= h.seq /\ h.seq < o.seq
    BY <1>0 DEF EndOf, Continues
  <1>2. \A p, o \in W \cup S : p.dev = o.dev /\ p.seq = o.seq => p = o
    BY <1>0, <1>1 DEF Chained, Continues
  <1>3. ASSUME NEW p \in W \cup S, NEW o \in W \cup S, p.dev = o.dev, o.seq = p.seq + 1
        PROVE  o.prev = p.hash
    <2>1. CASE p \in W /\ o \in W
      BY <1>3, <2>1 DEF Chained
    <2>2. CASE p \in S /\ o \in W
      BY <1>0, <1>1, <1>3, <2>2
    <2>3. CASE p \in W /\ o \in S
      <3>1. p.seq = h.seq /\ o.seq = h.seq + 1 /\ p.dev = k /\ h.seq # 0
        BY <1>0, <1>1, <1>3, <2>3 DEF Continues
      <3>2. PICK q \in R : q.dev = k /\ q.seq = h.seq /\ q.hash = h.hash
        BY <3>1 DEF EndOf
      <3>3. q = p
        BY <2>3, <3>1, <3>2 DEF Chained
      <3>4. o.prev = h.hash
        <4>1. ~ \E v \in S : o.seq = v.seq + 1
          BY <1>0, <3>1 DEF Continues
        <4> QED BY <2>3, <4>1 DEF Continues
      <3> QED BY <3>2, <3>3, <3>4
    <2>4. CASE p \in S /\ o \in S
      <3>1. o.seq # h.seq + 1
        BY <1>0, <1>3, <2>4 DEF Continues
      <3>2. PICK q \in S : o.seq = q.seq + 1 /\ o.prev = q.hash
        BY <2>4, <3>1 DEF Continues
      <3>3. q = p
        BY <1>0, <1>3, <2>4, <3>2 DEF Continues
      <3> QED BY <3>2, <3>3
    <2> QED BY <2>1, <2>2, <2>3, <2>4
  <1> QED BY <1>2, <1>3 DEF Chained

\* A head stays on its chain while the chain is continued.
LEMMA HeadStaysOnChain ==
    ASSUME NEW W, NEW R, NEW k, NEW h, NEW S, W \subseteq Op, R \subseteq W, Chained(W),
           \A o \in W : o.dev = k => o \in R, EndOf(R, k, h), Continues(S, k, h),
           NEW r, NEW hd, hd.seq \in Nat, NEW L, OnChain(W, R, k, r, hd, L),
           NEW W2, W2 \subseteq W \cup S, NEW R2, \A o \in R : o.dev = k => o \in R2,
           NEW L2, L \subseteq L2
    PROVE  OnChain(W2, R2, k, r, hd, L2)
  <1>0. /\ \A o \in W \cup S : o \in Op /\ o.seq \in Nat \ {0}
        /\ h.seq \in Nat
    BY DEF Op, EndOf, Continues
  <1>1. r = k => hd.seq <= h.seq
    BY <1>0 DEF OnChain, EndOf
  <1>2. ASSUME NEW o \in S, o.dev = r
        PROVE  /\ ~(o.seq <= hd.seq)
               /\ o.seq = hd.seq + 1 => o.prev = hd.hash
    <2>1. r = k /\ o.seq > h.seq
      BY <1>2 DEF Continues
    <2>2. ~(o.seq <= hd.seq)
      BY <1>0, <1>1, <2>1
    <2>3. ASSUME o.seq = hd.seq + 1 PROVE o.prev = hd.hash
      <3>1. hd.seq = h.seq
        BY <1>0, <1>1, <2>1, <2>3
      <3>2. o.prev = h.hash
        <4>1. ~ \E v \in S : o.seq = v.seq + 1
          BY <1>0, <2>3, <3>1 DEF Continues
        <4> QED BY <4>1 DEF Continues
      <3>3. h.hash = hd.hash
        <4>1. CASE h.seq = 0
          <5>1. \A q \in R : q.seq # 0
            BY <1>0
          <5> QED BY <3>1, <4>1, <5>1 DEF EndOf, OnChain
        <4>2. CASE h.seq # 0
          <5>1. PICK q \in R : q.dev = k /\ q.seq = h.seq /\ q.hash = h.hash
            BY <4>2 DEF EndOf
          <5>2. PICK v \in R : v.dev = r /\ v.seq = hd.seq /\ v.hash = hd.hash
            BY <2>1, <3>1, <4>2 DEF OnChain
          <5> QED BY <2>1, <3>1, <5>1, <5>2 DEF Chained
        <4> QED BY <4>1, <4>2
      <3> QED BY <3>2, <3>3
    <2> QED BY <2>2, <2>3
  <1>3. \A o \in W2 : o \in W \/ o \in S
    OBVIOUS
  <1> QED BY <1>2, <1>3 DEF OnChain

\* A head that moves to the chain's next op is on the chain.
LEMMA HeadMovesOnChain ==
    ASSUME NEW W, NEW R, NEW k \in Nat, W \subseteq Op, Chained(W),
           NEW r \in Nat, NEW hd, hd.seq \in Nat, NEW L, OnChain(W, R, k, r, hd, L),
           NEW c \in W, c.dev = r, r <= k, r = k => c \in R, c.seq = hd.seq + 1, NEW L2, L \subseteq L2, c \in L2
    PROVE  OnChain(W, R, k, r, [seq |-> c.seq, hash |-> c.hash], L2)
  <1>0. \A o \in W : o.seq \in Nat \ {0}
    BY DEF Op
  <1>1. \A o \in W : o.dev = r /\ o.seq <= c.seq => o \in L2
    <2> TAKE o \in W
    <2>1. o.seq <= c.seq => o.seq <= hd.seq \/ o.seq = c.seq
      BY <1>0
    <2> QED BY <2>1 DEF OnChain, Chained
  <1>2. \A o \in W : o.dev = r /\ o.seq = c.seq + 1 => o.prev = c.hash
    BY DEF Chained
  <1>3. c.seq # 0 /\ ~(r > k)
    BY <1>0
  <1> QED BY <1>1, <1>2, <1>3 DEF OnChain

-----------------------------------------------------------------------------
(* The ops of the world.                                                   *)

\* Every op of the world is an op.
LEMMA WorldIsTyped ==
    ASSUME DurableInv
    PROVE  /\ World \subseteq Op /\ RowOps \subseteq HeldOps /\ HeldOps \subseteq World
           /\ FlightOps \subseteq World /\ StaleOps \subseteq World /\ TxOps \subseteq World
           /\ Server!IsOpen => tx \in SP!OpenTx /\ SP!IsOpen /\ TxUsed
           /\ TxUsed => tx.dev \in Reg /\ tx.ops \in Seq(Op)
           /\ \A r \in Reg : flight[r] # Idle => flight[r] \in Flight /\ flight[r].ops \in Seq(Op)
           /\ \A s \in stale : s.ops \in Seq(Op)
  <1> USE DEF DurableInv
  <1>1. HeldOps \subseteq Op
    BY DEF HeldOps, RowsInv, RowTypes, Row
  <1>2. \A r \in Reg : flight[r] # Idle => flight[r] \in Flight /\ flight[r].ops \in Seq(Op)
    <2> SUFFICES ASSUME NEW r \in Reg, flight[r] # Idle
                 PROVE  flight[r] \in Flight /\ flight[r].ops \in Seq(Op)
      OBVIOUS
    <2>1. flight[r] \in Flight
      BY DEF WireTypes
    <2> QED BY <2>1, ServerConstants, SP!BatchesAreSequences DEF Flight
  <1>3. \A s \in stale : s.ops \in Seq(Op)
    <2> SUFFICES ASSUME NEW s \in stale PROVE s.ops \in Seq(Op)
      OBVIOUS
    <2>1. s \in Flight
      BY DEF WireTypes
    <2> QED BY <2>1, ServerConstants, SP!BatchesAreSequences DEF Flight
  <1>4. Server!IsOpen => tx \in SP!OpenTx /\ SP!IsOpen /\ TxUsed
    <2> SUFFICES ASSUME Server!IsOpen PROVE tx \in SP!OpenTx /\ SP!IsOpen /\ TxUsed
      OBVIOUS
    <2>1. SP!IsOpen /\ TxUsed
      BY DEF Server!IsOpen, SP!IsOpen, TxUsed
    <2>2. tx \in SP!OpenTx
      BY <2>1, ServerTypes, ServerConstants, SP!OpenIsTyped
    <2> QED BY <2>1, <2>2
  <1>7. TxUsed => tx.dev \in Reg /\ tx.ops \in Seq(Op)
    <2>1. CASE Server!IsOpen
      BY <1>4, <2>1 DEF SP!OpenTx
    <2>2. CASE tx.stage = "rerun"
      <3>1. tx \in SP!OpenTx \cup {SP!NoTx} \cup [stage : {"rerun"}, dev : Reg, ops : Seq(Op)]
        BY ServerTypes DEF SP!TypeOK
      <3> QED BY <2>2, <3>1 DEF SP!OpenTx, SP!NoTx
    <2> QED BY <2>1, <2>2 DEF TxUsed, Server!IsOpen
  <1>5. \A q \in Seq(Op) : OpsOf(q) \subseteq Op
    BY DEF OpsOf
  <1>6. FlightOps \subseteq Op /\ StaleOps \subseteq Op /\ TxOps \subseteq Op
    BY <1>2, <1>3, <1>5, <1>7 DEF FlightOps, StaleOps, TxOps
  <1> QED BY <1>1, <1>2, <1>3, <1>4, <1>6, <1>7 DEF World, OnWire, RowOps, HeldOps

\* What the server judges next: an op of the open push.
LEMMA CurIsOnChain ==
    ASSUME HonestInv, Server!IsOpen, tx.stage = "judging", tx.pos <= Len(tx.ops)
    PROVE  /\ tx.pos \in DOMAIN tx.ops /\ tx.pos \in Nat /\ tx.head.seq \in Nat
           /\ Server!Cur \in World /\ Server!Cur \in TxOps
           /\ Server!Cur.dev = tx.dev /\ Server!Cur.sig = tx.dev /\ tx.dev <= key
           /\ Server!Cur.seq \in Nat \ {0} /\ Server!Cur.seq <= tx.head.seq + 1
           /\ Server!Cur.seq <= tx.head.seq => Server!Cur \in JudgedOps(tx.dev, tx.log, tx.refused)
           /\ Server!Cur.seq = tx.head.seq + 1 => Server!ClassifyChain(Server!Cur, tx.head) = "ok"
           /\ Server!Cur.id \in Server!IdsOf(tx.ops) /\ Server!Cur \in Op
  <1> USE DEF HonestInv
  <1>1. tx \in SP!OpenTx /\ tx.ops \in Seq(Op) /\ TxUsed
    BY WorldIsTyped
  <1>2. tx.pos \in Nat \ {0} /\ tx.head.seq \in Nat
    BY <1>1 DEF SP!OpenTx, SP!ChainHead
  <1>3. tx.pos \in DOMAIN tx.ops
    BY <1>1, <1>2
  <1>4. Server!Cur \in TxOps /\ Server!Cur \in World
    BY <1>1, <1>3 DEF Server!Cur, TxOps, OpsOf, World, OnWire
  <1>5. Server!Cur.dev = tx.dev /\ Server!Cur.sig = tx.dev /\ tx.dev <= key
    BY <1>4 DEF WireOwner, SignedByOwner
  <1>6. Server!Cur.seq \in Nat \ {0} /\ Server!Cur \in Op
    BY <1>4, WorldIsTyped DEF Op
  <1>7. Server!Cur.seq <= tx.head.seq + 1
    <2>1. Closed(tx.ops, tx.pos, tx.head.seq)
      BY DEF BatchesClosed
    <2>2. ~ \E j \in DOMAIN tx.ops : tx.pos <= j /\ j < tx.pos
      BY <1>1, <1>2
    <2> QED BY <1>2, <1>3, <2>1, <2>2 DEF Closed, Server!Cur
  <1>8. OnChain(World, RowOps, key, tx.dev, tx.head, JudgedOps(tx.dev, tx.log, tx.refused))
    BY DEF HeadsOnChain
  <1>9. Server!Cur.seq <= tx.head.seq => Server!Cur \in JudgedOps(tx.dev, tx.log, tx.refused)
    BY <1>4, <1>5, <1>8 DEF OnChain
  <1>10. Server!Cur.seq = tx.head.seq + 1 => Server!ClassifyChain(Server!Cur, tx.head) = "ok"
    BY <1>2, <1>4, <1>5, <1>8 DEF OnChain, Server!ClassifyChain
  <1>11. Server!Cur.id \in Server!IdsOf(tx.ops)
    BY <1>3 DEF Server!Cur, Server!IdsOf
  <1> QED BY <1>2, <1>3, <1>4, <1>5, <1>6, <1>7, <1>9, <1>10, <1>11

\* One op is judged with the answer res, which leaves the head h, the log L,
\* the refusals R and the known verdicts K.
JudgedTo(h, L, R, K, res) ==
    /\ tx'.stage = "judging" /\ tx'.dev = tx.dev /\ tx'.ops = tx.ops
    /\ tx'.halted = tx.halted /\ tx'.anomalies = tx.anomalies
    /\ tx'.pos = tx.pos + 1 /\ tx'.results = Append(tx.results, res)
    /\ tx'.head = h /\ tx'.log = L /\ tx'.refused = R /\ tx'.known = K

\* The op lies behind the head, and is answered as before.
JudgedAgain ==
    /\ Server!Cur.seq <= tx.head.seq
    /\ \E res : /\ JudgedTo(tx.head, tx.log, tx.refused, tx.known, res)
                /\ \/ Server!Duplicate /\ res = Server!Result("duplicate", "none")
                   \/ /\ ~Server!Duplicate
                      /\ \E k \in tx.known : /\ k.id = Server!Cur.id /\ k.hash = Server!Cur.hash
                                             /\ res = Server!Result("rejected", k.code)
\* It is the chain's next: new, logged under an earlier registration, refused.
JudgedNew ==
    /\ ~Server!Duplicate
    /\ JudgedTo(Server!HeadAtCur, tx.log \cup {Server!LogRowOfCur}, tx.refused, tx.known,
                Server!Result("accepted", "none"))
JudgedLogged ==
    /\ Server!Duplicate
    /\ \E R \in {tx.refused, tx.refused \cup {Server!RefusedRowOf("DUPLICATE")}} :
          JudgedTo(Server!HeadAtCur, tx.log, R, tx.known, Server!Result("duplicate", "none"))
JudgedRefused ==
    /\ ~Server!Duplicate /\ RefusalCodes # {}
    /\ \E code \in RefusalCodes \cup {"RULE_VIOLATED"} :
          LET q == Server!RefusedRowOf(code) IN
          JudgedTo(Server!HeadAtCur, tx.log, tx.refused \cup {q}, tx.known \cup {Server!Verdict(q)},
                   Server!Result("rejected", code))
JudgedNext ==
    /\ Server!Cur.seq = tx.head.seq + 1
    /\ JudgedNew \/ JudgedLogged \/ JudgedRefused

\* What an iteration answers and stages is what the push becomes.
LEMMA AnswerMoves ==
    ASSUME tx \in SP!OpenTx, tx.stage = "judging", NEW staged, NEW res, Server!Answer(staged, res),
           DOMAIN staged = DOMAIN tx, staged.stage = tx.stage, staged.dev = tx.dev,
           staged.ops = tx.ops, staged.halted = tx.halted, staged.anomalies = tx.anomalies,
           staged.pos = tx.pos, staged.results = tx.results
    PROVE  JudgedTo(staged.head, staged.log, staged.refused, staged.known, res)
  <1>1. tx' = [staged EXCEPT !.pos = @ + 1, !.results = Append(@, res)]
    BY DEF Server!Answer
  <1>2. DOMAIN staged = {"stage", "dev", "ops", "careful", "head", "next", "row", "sys", "log",
                         "refused", "known", "anomalies", "halted", "pos", "results"}
    BY DEF SP!OpenTx
  <1> QED BY <1>1, <1>2 DEF JudgedTo

\* What an iteration that spends the position stages.
LEMMA SpentStages ==
    ASSUME tx \in SP!OpenTx, NEW code
    PROVE  /\ DOMAIN Server!Spent(code) = DOMAIN tx /\ Server!Spent(code).stage = tx.stage
           /\ Server!Spent(code).dev = tx.dev /\ Server!Spent(code).ops = tx.ops
           /\ Server!Spent(code).halted = tx.halted
           /\ Server!Spent(code).anomalies = tx.anomalies
           /\ Server!Spent(code).pos = tx.pos /\ Server!Spent(code).results = tx.results
           /\ Server!Spent(code).head = Server!HeadAtCur /\ Server!Spent(code).log = tx.log
           /\ Server!Spent(code).known = tx.known
           /\ Server!Spent(code).refused =
                 IF Server!KeyTaken(Server!RefusedRowOf(code)) THEN tx.refused
                 ELSE tx.refused \cup {Server!RefusedRowOf(code)}
  BY DEF SP!OpenTx, Server!Spent

\* A new refusal of the chain's next op takes no key that is taken: an earlier
\* one would be of the same row, and lie behind the head.
LEMMA RefusalIsNew ==
    ASSUME Untroubled, HonestInv, Server!IsOpen, tx.stage = "judging", tx.pos <= Len(tx.ops),
           RefusalCodes # {}, Server!Cur.seq = tx.head.seq + 1, NEW code
    PROVE  ~Server!KeyTaken(Server!RefusedRowOf(code))
  <1> USE DEF HonestInv
  <1>1. /\ Server!Cur \in TxOps /\ Server!Cur.dev = tx.dev /\ tx.dev <= key
        /\ Server!Cur.seq \in Nat \ {0} /\ tx.head.seq \in Nat
    BY CurIsOnChain
  <1>2. tx.dev \in Reg /\ tx \in SP!OpenTx /\ SP!IsOpen
    BY WorldIsTyped DEF SP!OpenTx
  <1>3. tx.dev = key
    <2>1. tx.dev = 1 /\ key \in {0, 1}
      <3>1. MaxRegs = 1 /\ key \in Reg \cup {0} /\ tx.dev \in Reg
        BY <1>2 DEF Untroubled, DurableInv, IdentityInv
      <3> QED BY <3>1 DEF Reg
    <2> QED BY <1>1, <2>1
  <1>4. Server!Cur \in RowOps
    BY <1>1, <1>3 DEF WireIsHeld, OnWire
  <1>5. ASSUME NEW q \in tx.refused PROVE q.seq <= tx.head.seq /\ q.dev = tx.dev
    <2>1. q \in SP!RefusedRow
      BY <1>2 DEF SP!OpenTx
    <2>2. q.dev \in Reg
      BY <2>1 DEF SP!RefusedRow
    <2>3. q.dev = tx.dev
      <3>1. MaxRegs = 1 /\ tx.dev \in Reg
        BY <1>2 DEF Untroubled
      <3> QED BY <2>2, <3>1 DEF Reg
    <2>4. SP!Ends(tx.log, tx.refused, SP!StagedHeads)
      BY <1>2, SP!IsOpen DEF DurableInv, ServerInv, SP!TablesInv, SP!StagedOK, SP!TablesOK
    <2>5. SP!StagedHeads[tx.dev] = tx.head
      BY <1>2, SyncConstants DEF SP!StagedHeads, SP!Signers
    <2> QED BY <2>3, <2>4, <2>5 DEF SP!Ends
  <1>6. ASSUME NEW q \in tx.refused, q.id = Server!Cur.id PROVE FALSE
    <2>1. PICK o \in RowOps : o.id = q.id /\ o.seq = q.seq
      BY <1>6 DEF RefusalsOfRows, OfRows
    <2>2. PICK w \in rows : w.op = o
      BY DEF RowOps
    <2>3. PICK v \in rows : v.op = Server!Cur
      BY <1>4 DEF RowOps
    <2>4. w = v
      BY <1>6, <2>1, <2>2, <2>3 DEF IdsApart
    <2>5. q.seq = Server!Cur.seq
      BY <2>1, <2>2, <2>3, <2>4
    <2> QED BY <1>1, <1>5, <1>6, <2>5
  <1>7. ASSUME NEW q \in tx.refused, q.dev = tx.dev, q.seq = Server!Cur.seq PROVE FALSE
    BY <1>1, <1>5, <1>7
  <1> QED BY <1>6, <1>7 DEF Server!KeyTaken, Server!RefusedRowOf

\* A push of this phone is judged op by op as before, or as its chain's next:
\* nothing of it looks tampered with.
LEMMA OpIsJudged ==
    ASSUME Untroubled, HonestInv,
           \/ Server!HaltedOp \/ Server!DuplicateOp \/ Server!RepeatedRefusal
           \/ Server!WrongDevice \/ Server!BadSignature \/ Server!ChainGap
           \/ Server!ChainBroken \/ Server!Refuse \/ Server!Accept
           \/ RefusalCodes # {} /\ Server!FoldConflict /\ tx.careful
    PROVE  /\ Server!IsOpen /\ tx.stage = "judging" /\ tx.pos <= Len(tx.ops)
           /\ UNCHANGED Server!tables
           /\ JudgedAgain \/ JudgedNext
  <1>1. Server!Running /\ UNCHANGED Server!tables
    BY DEF Server!HaltedOp, Server!DuplicateOp, Server!RepeatedRefusal, Server!WrongDevice,
           Server!BadSignature, Server!ChainGap, Server!ChainBroken, Server!Refuse, Server!Accept,
           Server!FoldConflict, Server!Live, Server!New, Server!Bound, Server!Signed,
           Server!AtNextPosition, Server!Storable, Server!Answer
  <1>2. tx.stage = "judging" /\ tx.pos <= Len(tx.ops) /\ Server!IsOpen
    BY <1>1 DEF Server!Running, Server!IsOpen
  <1>3. tx \in SP!OpenTx /\ ~tx.halted /\ VerdictsKnown
    BY <1>2, WorldIsTyped DEF HonestInv, NoAnomaly, RefusalsOfRows
  <1>4. /\ Server!Cur.dev = tx.dev /\ Server!Cur.sig = tx.dev
        /\ Server!Cur.seq \in Nat \ {0} /\ tx.head.seq \in Nat
        /\ Server!Cur.seq <= tx.head.seq + 1
        /\ Server!Cur.seq <= tx.head.seq => Server!Cur \in JudgedOps(tx.dev, tx.log, tx.refused)
        /\ Server!Cur.seq = tx.head.seq + 1 => Server!ClassifyChain(Server!Cur, tx.head) = "ok"
        /\ Server!Cur.id \in Server!IdsOf(tx.ops)
    BY <1>2, CurIsOnChain
  <1>5. \/ Server!Cur.seq <= tx.head.seq /\ ~(Server!Cur.seq = tx.head.seq + 1)
        \/ Server!Cur.seq = tx.head.seq + 1 /\ ~(Server!Cur.seq <= tx.head.seq)
    BY <1>4
  <1>6. Server!Cur.seq <= tx.head.seq /\ ~Server!Duplicate => Server!EarlierRefusals # {}
    <2> SUFFICES ASSUME Server!Cur.seq <= tx.head.seq, ~Server!Duplicate
                 PROVE  Server!EarlierRefusals # {}
      OBVIOUS
    <2>1. PICK q \in tx.refused : q.dev = tx.dev /\ q.id = Server!Cur.id /\ q.hash = Server!Cur.hash
      BY <1>4 DEF JudgedOps, Server!Duplicate
    <2>2. Server!Verdict(q) \in tx.known
      BY <1>3, <1>4, <2>1 DEF VerdictsKnown, Server!Duplicate
    <2>3. Server!Verdict(q).id = Server!Cur.id /\ Server!Verdict(q).hash = Server!Cur.hash
      BY <2>1 DEF Server!Verdict
    <2>4. Server!Verdict(q) \in Server!EarlierRefusals
      BY <1>4, <2>2, <2>3 DEF Server!EarlierRefusals
    <2> QED BY <2>4
  <1>7. Server!Cur.seq = tx.head.seq + 1 => Server!EarlierRefusals = {}
    BY <1>5 DEF Server!EarlierRefusals
  <1>8. /\ Server!AtItsNextPosition <=> Server!Cur.seq = tx.head.seq + 1
    BY <1>4, <1>5 DEF Server!AtItsNextPosition, Server!SignatureOk, Server!ClassifyChain
  <1>9. \/ Server!DuplicateOp \/ Server!RepeatedRefusal \/ Server!Refuse \/ Server!Accept
        \/ RefusalCodes # {} /\ Server!FoldConflict /\ tx.careful
    BY <1>3, <1>4, <1>5, <1>6, <1>7
       DEF Server!HaltedOp, Server!WrongDevice, Server!BadSignature, Server!ChainGap,
           Server!ChainBroken, Server!Live, Server!New, Server!Bound, Server!Signed,
           Server!SignatureOk
  <1>10. CASE Server!DuplicateOp
    <2>1. /\ Server!Duplicate
          /\ Server!Answer(IF Server!AtItsNextPosition THEN Server!Spent("DUPLICATE") ELSE tx,
                           Server!Result("duplicate", "none"))
      BY <1>10 DEF Server!DuplicateOp
    <2>2. CASE Server!Cur.seq = tx.head.seq + 1
      <3>1. Server!Answer(Server!Spent("DUPLICATE"), Server!Result("duplicate", "none"))
        BY <1>8, <2>1, <2>2
      <3> DEFINE spent == Server!Spent("DUPLICATE")
                 res == Server!Result("duplicate", "none")
      <3>4. /\ DOMAIN spent = DOMAIN tx /\ spent.stage = tx.stage /\ spent.dev = tx.dev
            /\ spent.ops = tx.ops /\ spent.halted = tx.halted /\ spent.anomalies = tx.anomalies
            /\ spent.pos = tx.pos /\ spent.results = tx.results
            /\ spent.head = Server!HeadAtCur /\ spent.log = tx.log /\ spent.known = tx.known
        BY <1>3, SpentStages
      <3>2. JudgedTo(Server!HeadAtCur, tx.log, spent.refused, tx.known, res)
        <4>1. Server!Answer(spent, res)
          BY <3>1
        <4> HIDE DEF spent, res
        <4>2. JudgedTo(spent.head, spent.log, spent.refused, spent.known, res)
          BY <1>2, <1>3, <3>4, <4>1, AnswerMoves
        <4> QED BY <3>4, <4>2
      <3>3. Server!Spent("DUPLICATE").refused
               \in {tx.refused, tx.refused \cup {Server!RefusedRowOf("DUPLICATE")}}
        BY <1>3, SpentStages
      <3> QED BY <1>1, <1>2, <2>1, <2>2, <3>2, <3>3 DEF JudgedNext, JudgedLogged
    <2>3. CASE Server!Cur.seq <= tx.head.seq
      <3>1. Server!Answer(tx, Server!Result("duplicate", "none"))
        BY <1>5, <1>8, <2>1, <2>3
      <3>2. JudgedTo(tx.head, tx.log, tx.refused, tx.known, Server!Result("duplicate", "none"))
        BY <1>2, <1>3, <3>1, AnswerMoves
      <3> QED BY <1>1, <1>2, <2>1, <2>3, <3>2 DEF JudgedAgain
    <2> QED BY <1>5, <2>2, <2>3
  <1>11. CASE Server!RepeatedRefusal
    <2>1. PICK k \in Server!EarlierRefusals :
             Server!Answer(tx, Server!Result("rejected", k.code)) /\ ~Server!Duplicate
      BY <1>11 DEF Server!RepeatedRefusal
    <2>2. k \in tx.known /\ k.id = Server!Cur.id /\ k.hash = Server!Cur.hash
          /\ Server!Cur.seq <= tx.head.seq
      BY DEF Server!EarlierRefusals
    <2>3. JudgedTo(tx.head, tx.log, tx.refused, tx.known, Server!Result("rejected", k.code))
      BY <1>2, <1>3, <2>1, AnswerMoves
    <2> QED BY <1>1, <1>2, <2>1, <2>2, <2>3 DEF JudgedAgain
  <1>12. CASE Server!Accept
    <2> DEFINE staged == [tx EXCEPT !.log = @ \cup {Server!LogRowOfCur}, !.next = @ + 1,
                                    !.head = Server!HeadAtCur]
    <2>1. Server!AtNextPosition /\ Server!Answer(staged, Server!Result("accepted", "none"))
      BY <1>12 DEF Server!Accept, Server!Storable
    <2>2. Server!Cur.seq = tx.head.seq + 1 /\ ~Server!Duplicate
      BY <1>4, <2>1 DEF Server!AtNextPosition, Server!Signed, Server!Bound, Server!New,
                        Server!ClassifyChain
    <2>3. /\ DOMAIN staged = DOMAIN tx /\ staged.stage = tx.stage /\ staged.dev = tx.dev
          /\ staged.ops = tx.ops /\ staged.halted = tx.halted /\ staged.anomalies = tx.anomalies
          /\ staged.pos = tx.pos /\ staged.results = tx.results
          /\ staged.head = Server!HeadAtCur /\ staged.log = tx.log \cup {Server!LogRowOfCur}
          /\ staged.refused = tx.refused /\ staged.known = tx.known
      BY <1>3 DEF SP!OpenTx
    <2> HIDE DEF staged
    <2>4. JudgedTo(Server!HeadAtCur, tx.log \cup {Server!LogRowOfCur}, tx.refused, tx.known,
                   Server!Result("accepted", "none"))
      BY <1>2, <1>3, <2>1, <2>3, AnswerMoves
    <2> QED BY <1>1, <1>2, <2>2, <2>4 DEF JudgedNext, JudgedNew
  <1>13. CASE Server!Refuse \/ (RefusalCodes # {} /\ Server!FoldConflict /\ tx.careful)
    <2>1. /\ Server!AtNextPosition /\ RefusalCodes # {}
          /\ \E code \in RefusalCodes \cup {"RULE_VIOLATED"} :
                Server!Answer(Server!Refused(code), Server!Result("rejected", code))
      BY <1>13 DEF Untroubled, Server!Refuse, Server!FoldConflict, Server!Storable
    <2>2. PICK code \in RefusalCodes \cup {"RULE_VIOLATED"} :
                Server!Answer(Server!Refused(code), Server!Result("rejected", code))
      BY <2>1
    <2>3. Server!Cur.seq = tx.head.seq + 1 /\ ~Server!Duplicate
      BY <1>4, <2>1 DEF Server!AtNextPosition, Server!Signed, Server!Bound, Server!New,
                        Server!ClassifyChain
    <2> DEFINE q == Server!RefusedRowOf(code)
    <2>4. ~Server!KeyTaken(q)
      BY <1>2, <2>1, <2>3, RefusalIsNew
    <2>5. ~ \E k \in tx.known : k.id = Server!Cur.id
      <3> SUFFICES ASSUME NEW k \in tx.known, k.id = Server!Cur.id PROVE FALSE
        OBVIOUS
      <3>1. PICK p \in tx.refused : k = Server!Verdict(p)
        BY <1>3 DEF VerdictsKnown
      <3>2. p.id = q.id
        BY <3>1 DEF Server!Verdict, Server!RefusedRowOf
      <3> QED BY <2>4, <3>2 DEF Server!KeyTaken
    <2> DEFINE staged == Server!Refused(code)
    <2>6. /\ DOMAIN staged = DOMAIN tx /\ staged.stage = tx.stage /\ staged.dev = tx.dev
          /\ staged.ops = tx.ops /\ staged.halted = tx.halted /\ staged.anomalies = tx.anomalies
          /\ staged.pos = tx.pos /\ staged.results = tx.results
          /\ staged.head = Server!HeadAtCur /\ staged.log = tx.log
          /\ staged.refused = tx.refused \cup {q}
          /\ staged.known = tx.known \cup {Server!Verdict(q)}
      <3> DEFINE spent == Server!Spent(code)
      <3>1. /\ DOMAIN spent = DOMAIN tx /\ spent.stage = tx.stage /\ spent.dev = tx.dev
            /\ spent.ops = tx.ops /\ spent.halted = tx.halted /\ spent.anomalies = tx.anomalies
            /\ spent.pos = tx.pos /\ spent.results = tx.results
            /\ spent.head = Server!HeadAtCur /\ spent.log = tx.log /\ spent.known = tx.known
            /\ spent.refused = tx.refused \cup {q}
        BY <1>3, <2>4, SpentStages
      <3>2. DOMAIN tx = {"stage", "dev", "ops", "careful", "head", "next", "row", "sys", "log",
                         "refused", "known", "anomalies", "halted", "pos", "results"}
        BY <1>3 DEF SP!OpenTx
      <3>3. staged = [spent EXCEPT !.known = IF \E k \in spent.known : k.id = Server!Cur.id
                                             THEN spent.known
                                             ELSE spent.known \cup {Server!Verdict(q)}]
        BY DEF Server!Refused
      <3> HIDE DEF spent, staged, q
      <3>4. staged = [spent EXCEPT !.known = tx.known \cup {Server!Verdict(q)}]
        BY <2>5, <3>1, <3>3
      <3> QED BY <3>1, <3>2, <3>4
    <2> HIDE DEF staged, q
    <2> DEFINE res == Server!Result("rejected", code)
    <2>7. JudgedTo(Server!HeadAtCur, tx.log, tx.refused \cup {q}, tx.known \cup {Server!Verdict(q)}, res)
      <3>1. Server!Answer(staged, res)
        BY <2>2 DEF staged
      <3> HIDE DEF res
      <3>2. JudgedTo(staged.head, staged.log, staged.refused, staged.known, res)
        BY <1>2, <1>3, <2>6, <3>1, AnswerMoves
      <3> QED BY <2>6, <3>2
    <2> QED BY <1>1, <1>2, <2>1, <2>3, <2>7 DEF JudgedNext, JudgedRefused, q
  <1> QED BY <1>1, <1>2, <1>9, <1>10, <1>11, <1>12, <1>13

\* The push judges one op, or has judged all and stages what detection emits.
PushGoesOn ==
    /\ Server!IsOpen /\ Server!IsOpen' /\ tx'.dev = tx.dev /\ tx'.ops = tx.ops
    /\ tx'.halted = tx.halted /\ tx'.anomalies = tx.anomalies
    /\ tx.log \subseteq tx'.log /\ tx.refused \subseteq tx'.refused
    /\ \/ /\ tx'.stage = "detecting" /\ tx'.head = tx.head /\ tx'.results = tx.results
          /\ tx'.refused = tx.refused /\ tx'.known = tx.known
          /\ \A r \in tx'.log : r \in tx.log \/ r.op.id \in SP!SystemIds
       \/ /\ tx.stage = "judging" /\ tx.pos <= Len(tx.ops)
          /\ JudgedAgain \/ JudgedNext

\* The open push goes to its careful run, runs again, answers an op, or ends.
LEMMA JudgingIsFair ==
    ASSUME Untroubled, HonestInv, JudgeStep
    PROVE  /\ TxUsed /\ TxUsed' /\ tx'.dev = tx.dev /\ tx'.ops = tx.ops
           /\ UNCHANGED Server!tables
           /\ \/ tx'.stage = "rerun"
              \/ tx.stage = "rerun" /\ tx' = Server!Opened(tx.dev, tx.ops, TRUE)
              \/ PushGoesOn
  <1>1. Server!IsOpen => tx \in SP!OpenTx
    BY WorldIsTyped DEF HonestInv
  <1>2. CASE Server!LoopDone \/ Server!DetectConflict
    <2>1. Server!IsOpen /\ tx \in SP!OpenTx
      BY <1>1, <1>2 DEF Server!LoopDone, Server!DetectConflict, Server!IsOpen
    <2>2. /\ tx'.stage = "detecting" /\ tx'.head = tx.head /\ tx'.results = tx.results
          /\ tx'.dev = tx.dev /\ tx'.ops = tx.ops /\ tx'.halted = tx.halted
          /\ tx'.anomalies = tx.anomalies /\ UNCHANGED Server!tables
          /\ tx'.refused = tx.refused /\ tx'.known = tx.known
          /\ \/ tx'.log = tx.log
             \/ tx'.log = tx.log \cup {[op |-> Server!SystemOp, serverSeq |-> tx.row]}
      <3>1. CASE Server!LoopDone
        BY <2>1, <3>1 DEF Server!LoopDone, SP!OpenTx
      <3>2. CASE Server!DetectConflict
        BY <2>1, <3>2 DEF Server!DetectConflict, SP!OpenTx
      <3> QED BY <1>2, <3>1, <3>2
    <2>3. Server!SystemOp.id \in SP!SystemIds
      <3>1. tx.sys.seq + 1 \in Nat
        BY <2>1 DEF SP!OpenTx, SP!SystemHead
      <3> QED BY <3>1 DEF Server!SystemOp, SP!SystemIds
    <2>4. \A r \in tx'.log : r \in tx.log \/ r.op.id \in SP!SystemIds
      BY <2>2, <2>3
    <2>5. TxUsed /\ TxUsed' /\ Server!IsOpen'
      BY <2>1, <2>2 DEF TxUsed, Server!IsOpen
    <2> QED BY <2>1, <2>2, <2>4, <2>5 DEF PushGoesOn
  <1>3. CASE Server!Rerun
    <2>1. /\ tx.stage = "rerun" /\ tx' = Server!Opened(tx.dev, tx.ops, TRUE)
          /\ UNCHANGED Server!tables
      BY <1>3 DEF Server!Rerun
    <2>2. tx'.stage = "judging" /\ tx'.dev = tx.dev /\ tx'.ops = tx.ops
      BY <2>1 DEF Server!Opened
    <2> QED BY <2>1, <2>2 DEF TxUsed
  <1>4. CASE Server!FoldConflict /\ ~tx.careful
    <2>1. /\ tx.stage = "judging" /\ UNCHANGED Server!tables
          /\ tx' = [stage |-> "rerun", dev |-> tx.dev, ops |-> tx.ops]
      BY <1>4 DEF Server!FoldConflict, Server!Storable, Server!AtNextPosition, Server!Signed,
                  Server!Bound, Server!New, Server!Live, Server!Running
    <2>2. tx'.stage = "rerun" /\ tx'.dev = tx.dev /\ tx'.ops = tx.ops
      BY <2>1
    <2> QED BY <2>1, <2>2 DEF TxUsed
  <1>5. CASE /\ ~(Server!LoopDone \/ Server!DetectConflict \/ Server!Rerun)
             /\ ~(Server!FoldConflict /\ ~tx.careful)
    <2>1. /\ Server!IsOpen /\ tx.stage = "judging" /\ tx.pos <= Len(tx.ops)
          /\ UNCHANGED Server!tables /\ (JudgedAgain \/ JudgedNext)
      BY <1>5, OpIsJudged DEF JudgeStep
    <2>2. /\ tx'.stage = "judging" /\ tx'.dev = tx.dev /\ tx'.ops = tx.ops
          /\ tx'.halted = tx.halted /\ tx'.anomalies = tx.anomalies
          /\ tx.log \subseteq tx'.log /\ tx.refused \subseteq tx'.refused
      BY <2>1 DEF JudgedAgain, JudgedNext, JudgedNew, JudgedLogged, JudgedRefused, JudgedTo
    <2>3. TxUsed /\ TxUsed' /\ Server!IsOpen'
      BY <2>1, <2>2 DEF Server!IsOpen, TxUsed
    <2> QED BY <2>1, <2>2, <2>3 DEF PushGoesOn
  <1> QED BY <1>2, <1>3, <1>4, <1>5

-----------------------------------------------------------------------------
(* How the wire moves.                                                     *)

\* The flights of two moments carry the same push.
SamePush(f, g) == f.ops = g.ops /\ f.dev = g.dev /\ f.tok = g.tok

\* What becomes of registration r's flight.
FlightMove(r) ==
    \/ flight'[r] = flight[r]
    \/ flight'[r] = Idle
    \/ Send(r)
    \/ /\ flight[r] # Idle /\ flight'[r] # Idle /\ SamePush(flight'[r], flight[r])
       /\ \/ /\ flight[r].stage = "sent" /\ flight'[r].stage = "unauthorized"
             /\ status[r] = "revoked" /\ UNCHANGED server
          \/ flight[r].stage = "sent" /\ flight'[r].stage = "queued" /\ UNCHANGED server
          \/ flight[r].stage = "queued" /\ flight'[r].stage = "judging" /\ BeginPush(r)
          \/ /\ flight[r].stage = "judging" /\ flight'[r].stage = "answered"
             /\ CommitPush /\ flight'[r].results = tx.results
          \/ /\ flight[r].stage = "answered" /\ flight'[r].stage = "answered"
             /\ flight[r].results # <<>> /\ flight'[r].results = Tail(flight[r].results)
             /\ UNCHANGED server

\* One flight moves and the others stay.
LEMMA OneMoves ==
    ASSUME WireTypes, NEW q \in Reg, NEW f, flight' = [flight EXCEPT ![q] = f]
    PROVE  flight'[q] = f /\ \A r \in Reg : r # q => flight'[r] = flight[r]
  BY DEF WireTypes

\* How the flight of a registration moves in each kind of step.
LEMMA FlightMovesSo ==
    ASSUME HonestInv, [Next]_vars, NEW r \in Reg
    PROVE  FlightMove(r)
  <1> USE DEF HonestInv, DurableInv
  <1>0. flight[r] # Idle => flight[r] \in Flight /\ DOMAIN flight[r] = {"stage", "dev", "tok", "ops", "results"}
    BY DEF WireTypes, Flight
  <1>1. CASE UNCHANGED flight
    BY <1>1 DEF FlightMove
  <1>2. ASSUME NEW q \in Reg, LoopStep(q) \/ GiveUp(q) PROVE FlightMove(r)
    <2>1. PICK f : flight' = [flight EXCEPT ![q] = f]
      BY <1>2 DEF LoopStep, GiveUp, Send, MarkResult, Settle, TakeUnauthorized, Arrive, BeginPush
    <2>2. flight'[q] = f /\ (r # q => flight'[r] = flight[r])
      BY <2>1, OneMoves
    <2>3. CASE r # q
      BY <2>2, <2>3 DEF FlightMove
    <2>4. CASE r = q /\ Send(q)
      BY <2>4 DEF FlightMove
    <2>5. CASE r = q /\ MarkResult(q)
      <3>1. /\ flight[r].stage = "answered" /\ flight[r].results # <<>> /\ UNCHANGED server
            /\ \/ flight' = [flight EXCEPT ![q] = Idle]
               \/ flight' = [flight EXCEPT ![q] = [flight[q] EXCEPT !.results = Tail(flight[q].results)]]
        BY <2>5 DEF MarkResult
      <3>2. flight[r] # Idle
        BY <3>1 DEF Idle
      <3>3. \/ flight'[r] = Idle
            \/ flight'[r] = [flight[r] EXCEPT !.results = Tail(flight[r].results)]
        BY <2>5, <3>1, OneMoves
      <3>4. CASE flight'[r] = Idle
        BY <3>4 DEF FlightMove
      <3>5. CASE flight'[r] = [flight[r] EXCEPT !.results = Tail(flight[r].results)]
        <4>1. /\ flight'[r].results = Tail(flight[r].results) /\ flight'[r].stage = "answered"
              /\ flight'[r].ops = flight[r].ops /\ flight'[r].dev = flight[r].dev
              /\ flight'[r].tok = flight[r].tok
          BY <1>0, <3>1, <3>2, <3>5
        <4>2. flight'[r] # Idle
          BY <4>1 DEF Idle
        <4> QED BY <3>1, <3>2, <4>1, <4>2 DEF FlightMove, SamePush
      <3> QED BY <3>3, <3>4, <3>5
    <2>6. CASE r = q /\ (Settle(q) \/ TakeUnauthorized(q) \/ GiveUp(q))
      <3>1. flight' = [flight EXCEPT ![q] = Idle]
        BY <2>6 DEF Settle, TakeUnauthorized, GiveUp
      <3> QED BY <2>6, <3>1, OneMoves DEF FlightMove
    <2>7. CASE r = q /\ Arrive(q)
      <3>1. flight[r].stage = "sent" /\ UNCHANGED server
        BY <2>7 DEF Arrive
      <3>2. flight[r] # Idle
        BY <3>1 DEF Idle
      <3>3. flight[r].dev = r /\ flight[r].tok = r
        BY <3>2 DEF WireOwner
      <3>4. flight' = [flight EXCEPT ![q] = IF status[q] = "revoked"
                                           THEN [flight[q] EXCEPT !.stage = "unauthorized"]
                                           ELSE [flight[q] EXCEPT !.stage = "queued"]]
        BY <2>7, <3>3 DEF Arrive
      <3>5. \/ status[r] = "revoked" /\ flight'[r] = [flight[r] EXCEPT !.stage = "unauthorized"]
            \/ flight'[r] = [flight[r] EXCEPT !.stage = "queued"]
        BY <2>7, <3>4, OneMoves
      <3>6. /\ SamePush(flight'[r], flight[r]) /\ flight'[r] # Idle
            /\ \/ status[r] = "revoked" /\ flight'[r].stage = "unauthorized"
               \/ flight'[r].stage = "queued"
        BY <1>0, <3>2, <3>5 DEF SamePush, Idle
      <3> QED BY <3>1, <3>2, <3>6 DEF FlightMove
    <2>8. CASE r = q /\ BeginPush(q)
      <3>1. /\ flight[r].stage = "queued" /\ BeginPush(r)
            /\ flight' = [flight EXCEPT ![q] = [flight[q] EXCEPT !.stage = "judging"]]
        BY <2>8 DEF BeginPush
      <3>2. flight[r] # Idle
        BY <3>1 DEF Idle
      <3>3. flight'[r] = [flight[r] EXCEPT !.stage = "judging"]
        BY <2>8, <3>1, OneMoves
      <3>4. SamePush(flight'[r], flight[r]) /\ flight'[r] # Idle /\ flight'[r].stage = "judging"
        BY <1>0, <3>2, <3>3 DEF SamePush, Idle
      <3> QED BY <3>1, <3>2, <3>4 DEF FlightMove
    <2> QED BY <1>2, <2>3, <2>4, <2>5, <2>6, <2>7, <2>8 DEF LoopStep
  <1>3. CASE CommitPush
    <2>1. CASE ~Judging(r)
      BY <1>3, <2>1 DEF CommitPush, FlightMove
    <2>2. CASE Judging(r)
      <3>1. flight[r].stage = "judging" /\ flight[r] # Idle
        BY <2>2 DEF Judging, Idle
      <3>2. flight'[r] = [flight[r] EXCEPT !.stage = "answered", !.results = tx.results]
        BY <1>3, <2>2 DEF CommitPush
      <3>3. /\ SamePush(flight'[r], flight[r]) /\ flight'[r] # Idle
            /\ flight'[r].stage = "answered" /\ flight'[r].results = tx.results
        BY <1>0, <3>1, <3>2 DEF SamePush, Idle
      <3> QED BY <1>3, <3>1, <3>3 DEF FlightMove
    <2> QED BY <2>1, <2>2
  <1>4. CASE AbortPush \/ Crash
    BY <1>4 DEF AbortPush, Crash, FlightMove
  <1>5. \/ UNCHANGED flight \/ CommitPush \/ AbortPush \/ Crash
        \/ \E q \in Reg : LoopStep(q) \/ GiveUp(q)
    BY DEF Next, vars, wire, ServerStep, JudgeStep, Enrolment, EnrolOnServer, RevokeByOwner, BeginCommand,
           CommitCommand, RollbackCommand, StartEnrol, PersistDraft, PersistToken, EmitGenesis,
           CarryOver, NameDevice, SpendDraft, FailEnrol, PhoneOnly, ArriveStale, BeginStale
  <1> QED BY <1>1, <1>2, <1>3, <1>4, <1>5

\* A push nobody awaits any more was one before, or was in flight.
LEMMA StaleMovesSo ==
    ASSUME DurableInv, [Next]_vars, NEW s \in stale'
    PROVE  \/ \E z \in stale : SamePush(s, z)
           \/ \E r \in Reg : /\ SamePush(s, flight[r]) /\ flight[r] # Idle
                             /\ flight[r].stage \in {"sent", "queued"} /\ UNCHANGED server
  <1> USE DEF DurableInv
  <1>1. CASE s \in stale
    BY <1>1 DEF SamePush
  <1>2. CASE s \notin stale
    <2>1. \/ \E z \in stale : ArriveStale(z)
          \/ \E r \in Reg : GiveUp(r)
          \/ Crash
      BY <1>2 DEF Next, vars, wire, ServerStep, JudgeStep, Enrolment, EnrolOnServer, RevokeByOwner,
           BeginCommand, CommitCommand, RollbackCommand, StartEnrol, PersistDraft, PersistToken,
           EmitGenesis, CarryOver, NameDevice, SpendDraft, FailEnrol, PhoneOnly, BeginStale,
           CommitPush, AbortPush, LoopStep, Send, MarkResult, Settle, TakeUnauthorized, Arrive,
           BeginPush
    <2>2. ASSUME NEW z \in stale, ArriveStale(z) PROVE SamePush(s, z)
      <3>1. s = [z EXCEPT !.stage = "queued"]
        BY <1>2, <2>2 DEF ArriveStale
      <3>2. z \in Flight
        BY DEF WireTypes
      <3> QED BY <3>1, <3>2 DEF SamePush, Flight
    <2>3. ASSUME NEW r \in Reg, s \in LeftBehind(r)
          PROVE  SamePush(s, flight[r]) /\ flight[r] # Idle /\ flight[r].stage \in {"sent", "queued"}
      BY <2>3 DEF LeftBehind, SamePush, Idle
    <2>4. CASE \E r \in Reg : GiveUp(r)
      <3>1. PICK r \in Reg : GiveUp(r)
        BY <2>4
      <3>2. s \in LeftBehind(r) /\ UNCHANGED server
        BY <1>2, <3>1 DEF GiveUp
      <3> QED BY <2>3, <3>2
    <2>5. CASE Crash
      <3>1. (\E r \in Reg : s \in LeftBehind(r)) /\ UNCHANGED server
        BY <1>2, <2>5 DEF Crash
      <3> QED BY <2>3, <3>1
    <2> QED BY <2>1, <2>2, <2>4, <2>5
  <1> QED BY <1>1, <1>2

\* How the server's transaction moves.
LEMMA TxMovesSo ==
    ASSUME [Next]_vars
    PROVE  \/ UNCHANGED tx
           \/ JudgeStep
           \/ tx' = Server!NoTx /\ (CommitPush \/ AbortPush)
           \/ \E r \in Reg : /\ BeginPush(r) /\ flight[r].stage = "queued"
                             /\ tx' = Server!Opened(flight[r].tok, flight[r].ops, FALSE)
                             /\ UNCHANGED <<Server!tables, stale>>
           \/ \E s \in stale : /\ BeginStale(s)
                               /\ tx' = Server!Opened(s.tok, s.ops, FALSE)
                               /\ UNCHANGED <<Server!tables, flight>>
  BY DEF Next, vars, server, ServerStep, Enrolment, EnrolOnServer, RevokeByOwner, BeginCommand,
         CommitCommand, RollbackCommand, StartEnrol, PersistDraft, PersistToken, EmitGenesis,
         CarryOver, NameDevice, SpendDraft, FailEnrol, PhoneOnly, ArriveStale, BeginStale,
         CommitPush, AbortPush, LoopStep, Send, MarkResult, Settle, TakeUnauthorized, Arrive,
         BeginPush, GiveUp, Crash, Server!Begin, Server!Commit, Server!Abort, Server!Revoke

\* A push of the phone's is opened, for the first time or to run op by op.
PushOpens(d, ops) ==
    /\ \E careful \in BOOLEAN : tx' = Server!Opened(d, ops, careful)
    /\ UNCHANGED Server!tables
    /\ OpsOf(ops) \subseteq OnWire /\ \A o \in OpsOf(ops) : o.dev = d
    /\ status[d] = "revoked" \/ Closed(ops, 1, head[d].seq)

\* How it moves for an honest phone.
LEMMA PushMovesSo ==
    ASSUME Untroubled, HonestInv, [Next]_vars
    PROVE  \/ UNCHANGED tx
           \/ tx' = Server!NoTx /\ (CommitPush \/ AbortPush)
           \/ /\ tx'.stage = "rerun" /\ TxUsed /\ JudgeStep
              /\ tx'.dev = tx.dev /\ tx'.ops = tx.ops
           \/ PushGoesOn /\ JudgeStep
           \/ \E d \in Reg : \E ops \in Seq(Op) : PushOpens(d, ops)
  <1> USE DEF HonestInv
  <1>1. CASE JudgeStep
    <2>1. CASE tx.stage = "rerun" /\ tx' = Server!Opened(tx.dev, tx.ops, TRUE)
      <3>1. TxUsed /\ tx.dev \in Reg /\ tx.ops \in Seq(Op)
        BY <2>1, WorldIsTyped DEF TxUsed
      <3>2. OpsOf(tx.ops) = TxOps /\ TxOps \subseteq OnWire /\ \A o \in TxOps : o.dev = tx.dev
        BY <3>1 DEF TxOps, OnWire, WireOwner
      <3>3. status[tx.dev] = "revoked" \/ Closed(tx.ops, 1, head[tx.dev].seq)
        BY <3>1 DEF BatchesClosed
      <3>4. UNCHANGED Server!tables
        BY <1>1, JudgingIsFair
      <3> QED BY <2>1, <3>1, <3>2, <3>3, <3>4 DEF PushOpens
    <2> QED BY <1>1, <2>1, JudgingIsFair
  <1>2. ASSUME NEW r \in Reg, flight[r].stage = "queued", UNCHANGED Server!tables,
               tx' = Server!Opened(flight[r].tok, flight[r].ops, FALSE)
        PROVE  \E d \in Reg : \E ops \in Seq(Op) : PushOpens(d, ops)
    <2>1. flight[r] # Idle
      BY <1>2 DEF Idle
    <2>2. flight[r].tok = r /\ \A o \in OpsOf(flight[r].ops) : o.dev = r
      BY <2>1 DEF WireOwner
    <2>3. flight[r].ops \in Seq(Op) /\ OpsOf(flight[r].ops) \subseteq OnWire
      BY <2>1, WorldIsTyped DEF FlightOps, OnWire
    <2>4. status[r] = "revoked" \/ Closed(flight[r].ops, 1, head[r].seq)
      BY <1>2 DEF BatchesClosed
    <2> QED BY <1>2, <2>2, <2>3, <2>4 DEF PushOpens
  <1>3. ASSUME NEW s \in stale, UNCHANGED Server!tables,
               tx' = Server!Opened(s.tok, s.ops, FALSE)
        PROVE  \E d \in Reg : \E ops \in Seq(Op) : PushOpens(d, ops)
    <2>1. s.tok = s.dev /\ \A o \in OpsOf(s.ops) : o.dev = s.dev
      BY DEF WireOwner
    <2>2. s.ops \in Seq(Op) /\ s.dev \in Reg /\ OpsOf(s.ops) \subseteq OnWire
      BY WorldIsTyped DEF StaleOps, OnWire, DurableInv, WireTypes, Flight
    <2>3. status[s.dev] = "revoked" \/ Closed(s.ops, 1, head[s.dev].seq)
      BY DEF BatchesClosed
    <2> QED BY <1>3, <2>1, <2>2, <2>3 DEF PushOpens
  <1> QED BY <1>1, <1>2, <1>3, TxMovesSo

-----------------------------------------------------------------------------
(* What only grows.                                                        *)

\* A head never moves back, and a revocation stays.
LEMMA HeadsGrow ==
    ASSUME DurableInv, [Next]_vars
    PROVE  /\ \A r \in Reg : head[r].seq \in Nat /\ head'[r].seq \in Nat /\ head[r].seq <= head'[r].seq
           /\ \A r \in Reg : status[r] = "revoked" => status'[r] = "revoked"
           /\ \A r \in Reg : status[r] = "active" => status'[r] # "unknown"
  <1>1. head \in [Reg -> SP!ChainHead] /\ status \in [Reg -> {"unknown", "active", "revoked"}]
    BY ServerTypes DEF DurableInv, SP!TypeOK
  <1>2. \A r \in Reg : head[r].seq \in Nat
    BY <1>1 DEF SP!ChainHead
  <1>3. CASE Server!Commit
    <2>1. tx \in SP!OpenTx /\ SP!IsOpen
      BY <1>3, CommittedAnswers DEF DurableInv
    <2>2. tx.dev \in Reg /\ tx.head.seq \in Nat /\ head[tx.dev].seq <= tx.head.seq
      BY <2>1 DEF SP!OpenTx, SP!ChainHead, DurableInv, ServerInv, SP!TablesInv, SP!Extends
    <2>3. head' = [head EXCEPT ![tx.dev] = tx.head] /\ status' = status
      BY <1>3 DEF Server!Commit
    <2>4. \A r \in Reg : head'[r] = IF r = tx.dev THEN tx.head ELSE head[r]
      BY <1>1, <2>3
    <2> QED BY <1>2, <2>2, <2>3, <2>4
  <1>4. CASE ~Server!Commit
    <2>1. head' = head
      BY <1>4, OnlyCommitWrites
    <2>2. \/ status' = status
          \/ \E r \in Reg : Server!Revoke(r)
          \/ EnrolOnServer
      BY StatusMovesSo DEF RevokeByOwner
    <2>3. ASSUME NEW r \in Reg
          PROVE  /\ status[r] = "revoked" => status'[r] = "revoked"
                 /\ status[r] = "active" => status'[r] # "unknown"
      <3>1. CASE \E q \in Reg : Server!Revoke(q)
        BY <1>1, <3>1 DEF Server!Revoke
      <3>2. CASE EnrolOnServer
        BY <1>1, <3>2 DEF EnrolOnServer
      <3> QED BY <2>2, <3>1, <3>2
    <2> QED BY <1>2, <2>1, <2>3
  <1> QED BY <1>3, <1>4

\* A new registration's key is made while nothing is in flight.
LEMMA KeyMade ==
    ASSUME Untroubled, [Next]_vars, key' # key
    PROVE  /\ key' = key + 1 /\ draft = 0 /\ phase = "idle" /\ phase' = "keyed"
           /\ \A r \in Reg : flight[r] = Idle
           /\ UNCHANGED <<server, phoneRows, meta, token, draft, loop, wire, faults>>
           /\ opened = {}
  <1>1. StartEnrol
    BY DEF Next, vars, identity, ServerStep, JudgeStep, CommitPush, AbortPush, BeginPush, BeginStale,
           RevokeByOwner, EnrolOnServer, LoopStep, Enrolment, ArriveStale, BeginCommand, Send,
           MarkResult, Settle, TakeUnauthorized, Arrive, GiveUp, CommitCommand, RollbackCommand,
           PersistDraft, PersistToken, EmitGenesis, CarryOver, NameDevice, SpendDraft, FailEnrol,
           Crash
  <1> QED BY <1>1 DEF StartEnrol, Untroubled, PhoneOnly, Free, phoneRows

\* Where the newest registration's chain ends on the phone.
LEMMA EndOnPhone ==
    ASSUME HonestInv
    PROVE  EndOf(RowOps, key, PhoneHead(key, rows))
  <1>0. rows \subseteq Row /\ RowsEnd /\ \A w \in rows : w.op.dev \in Reg
    BY DEF HonestInv, DurableInv, RowsInv, RowTypes, Row, Op
  <1>1. CASE key \in Reg
    BY <1>0, <1>1, HeadOfRows DEF EndOf, RowOps
  <1>2. CASE key = 0
    <2>1. \A w \in rows : w.op.dev # 0
      BY <1>0, RegIsNat
    <2>2. Own(key, rows) = {}
      BY <1>2, <2>1 DEF Own
    <2> QED BY <1>2, <2>1, <2>2 DEF EndOf, RowOps, PhoneHead
  <1>3. key \in Reg \cup {0}
    BY DEF HonestInv, DurableInv, IdentityInv
  <1> QED BY <1>1, <1>2, <1>3

-----------------------------------------------------------------------------
(* What the phone's tables gain.                                           *)

\* The step adds the ops S to the newest registration's chain, and leaves of
\* that chain what was there.
Gains(S) ==
    /\ S # {} => opened = {}
    /\ Continues(S, key, PhoneHead(key, rows))
    /\ HeldOps' \subseteq HeldOps \cup S
    /\ \A o \in RowOps : o.dev = key => o \in RowOps'
    /\ \A o \in S : o.seq # 1 => \E p \in RowOps' : p.dev = key /\ p.seq = o.seq - 1

\* One op more continues the chain, and what it follows is on the phone.
LEMMA NextOpContinues ==
    ASSUME HonestInv, key \in Reg, NEW id \in Id
    PROVE  /\ Continues({SignedOp(id, key, PhoneHead(key, rows))}, key, PhoneHead(key, rows))
           /\ SignedOp(id, key, PhoneHead(key, rows)).seq # 1 =>
                 \E p \in RowOps : /\ p.dev = key
                                   /\ p.seq = SignedOp(id, key, PhoneHead(key, rows)).seq - 1
  <1> DEFINE h == PhoneHead(key, rows)
             o == SignedOp(id, key, h)
  <1>1. rows \subseteq Row /\ RowsEnd
    BY DEF HonestInv, DurableInv, RowsInv, RowTypes
  <1>2. /\ h.seq \in Nat /\ h.hash \in {Genesis} \cup OpHash
        /\ \/ h = [seq |-> 0, hash |-> Genesis]
           \/ \E w \in rows : w.op.dev = key /\ w.op.seq = h.seq /\ w.op.hash = h.hash
    BY <1>1, HeadOfRows
  <1> HIDE DEF h
  <1>3. o \in Op /\ o.dev = key /\ o.sig = key /\ o.seq = h.seq + 1 /\ o.prev = h.hash
    BY <1>2, SignedIsTyped
  <1> HIDE DEF o
  <1>4. Continues({o}, key, h)
    BY <1>2, <1>3 DEF Continues
  <1>5. o.seq # 1 => \E p \in RowOps : p.dev = key /\ p.seq = o.seq - 1
    <2> SUFFICES ASSUME o.seq # 1 PROVE \E p \in RowOps : p.dev = key /\ p.seq = o.seq - 1
      OBVIOUS
    <2>1. h.seq # 0 /\ o.seq - 1 = h.seq
      BY <1>2, <1>3
    <2>2. PICK w \in rows : w.op.dev = key /\ w.op.seq = h.seq
      BY <1>2, <2>1
    <2> QED BY <2>1, <2>2 DEF RowOps
  <1> QED BY <1>4, <1>5 DEF o, h

\* What carry-over adds is the rest of the new registration's chain.
LEMMA CarriedContinue ==
    ASSUME HonestInv, draft = key, key \in Reg, NEW s \in CarryOrders
    PROVE  /\ Continues({w.op : w \in Resigned(s)}, key, PhoneHead(key, rows))
           /\ \A o \in {w.op : w \in Resigned(s)} : o.seq # 1 =>
                 \E p \in RowOps \cup {w.op : w \in Resigned(s)} : p.dev = key /\ p.seq = o.seq - 1
  <1> DEFINE h == PhoneHead(key, rows)
             S == {w.op : w \in Resigned(s)}
             n == Len(s)
             op(i) == CarriedOp(s, i)
  <1>1. rows \subseteq Row /\ IsFiniteSet(rows) /\ RowsEnd
    BY DEF HonestInv, DurableInv, RowsInv, RowTypes
  <1>2. /\ h.seq \in Nat /\ n \in Nat
        /\ \/ h.seq = 0
           \/ \E w \in rows : w.op.dev = key /\ w.op.seq = h.seq
    BY <1>1, HeadOfRows, OrderIsComplete
  <1>3. /\ Resigned(s) = {LocalRow(op(i)) : i \in 1..(n + 1)}
        /\ \A i \in 1..(n + 1) :
              /\ op(i) \in Op /\ op(i).dev = key /\ op(i).sig = key /\ op(i).seq = h.seq + i
              /\ op(i).hash = <<CarriedId(s, i), draft, h.seq + i>>
              /\ op(i).prev = CarriedHead(s, i).hash
    BY <1>1, ResignedRows
  <1>4. \A i \in 2..(n + 1) : op(i).prev = op(i - 1).hash
    <2> TAKE i \in 2..(n + 1)
    <2>1. i - 1 \in 1..(n + 1) /\ i # 1 /\ h.seq + i - 1 = h.seq + (i - 1) /\ i \in 1..(n + 1)
      BY <1>2
    <2>2. CarriedHead(s, i).hash = <<CarriedId(s, i - 1), draft, h.seq + i - 1>>
      BY <2>1 DEF CarriedHead
    <2> QED BY <1>3, <2>1, <2>2
  <1>5. op(1).prev = h.hash
    <2>1. 1 \in 1..(n + 1) /\ CarriedHead(s, 1) = h
      BY <1>2 DEF CarriedHead
    <2> HIDE DEF op, h, n
    <2> QED BY <1>3, <2>1
  <1>6. \A o \in S : \E i \in 1..(n + 1) : o = op(i)
    BY <1>3 DEF LocalRow
  <1>7. \A i \in 1..(n + 1) : op(i) \in S
    <2> TAKE i \in 1..(n + 1)
    <2>1. LocalRow(op(i)) \in Resigned(s) /\ LocalRow(op(i)).op = op(i)
      BY <1>3 DEF LocalRow
    <2> QED BY <2>1
  <1> HIDE DEF op, S, h, n
  <1>8. Continues(S, key, h)
    <2>1. ASSUME NEW o \in S
          PROVE  /\ o \in Op /\ o.dev = key /\ o.sig = key /\ o.seq > h.seq
                 /\ \/ o.seq = h.seq + 1 /\ o.prev = h.hash
                    \/ \E p \in S : o.seq = p.seq + 1 /\ o.prev = p.hash
      <3>1. PICK i \in 1..(n + 1) : o = op(i)
        BY <1>6
      <3>2. CASE i = 1
        BY <1>2, <1>3, <1>5, <3>1, <3>2
      <3>3. CASE i # 1
        <4>1. i - 1 \in 1..(n + 1) /\ i \in 2..(n + 1)
          BY <1>2, <3>3
        <4>2. op(i - 1) \in S /\ op(i).seq = op(i - 1).seq + 1 /\ op(i).prev = op(i - 1).hash
          BY <1>2, <1>3, <1>4, <1>7, <4>1
        <4> QED BY <1>2, <1>3, <3>1, <4>2
      <3> QED BY <3>2, <3>3
    <2>2. ASSUME NEW p \in S, NEW o \in S, p.seq = o.seq PROVE p = o
      <3>1. PICK i \in 1..(n + 1) : o = op(i)
        BY <1>6
      <3>2. PICK j \in 1..(n + 1) : p = op(j)
        BY <1>6
      <3>3. i = j
        BY <1>2, <1>3, <2>2, <3>1, <3>2
      <3> QED BY <3>1, <3>2, <3>3
    <2> QED BY <2>1, <2>2 DEF Continues
  <1>9. ASSUME NEW o \in S, o.seq # 1
        PROVE  \E p \in RowOps \cup S : p.dev = key /\ p.seq = o.seq - 1
    <2>1. PICK i \in 1..(n + 1) : o = op(i)
      BY <1>6
    <2>2. CASE i = 1
      <3>1. h.seq # 0 /\ o.seq - 1 = h.seq
        BY <1>2, <1>3, <1>9, <2>1, <2>2
      <3>2. PICK w \in rows : w.op.dev = key /\ w.op.seq = h.seq
        BY <1>2, <3>1
      <3> QED BY <3>1, <3>2 DEF RowOps
    <2>3. CASE i # 1
      <3>1. i - 1 \in 1..(n + 1)
        BY <1>2, <2>3
      <3>2. op(i - 1) \in S /\ op(i - 1).dev = key /\ op(i - 1).seq = op(i).seq - 1
        BY <1>2, <1>3, <1>7, <3>1
      <3> QED BY <2>1, <3>2
    <2> QED BY <2>2, <2>3
  <1> QED BY <1>8, <1>9 DEF S, h

\* Nothing is gained when the rows keep their ops and no command opens.
LEMMA NothingGained ==
    ASSUME HeldOps' \subseteq HeldOps, \A o \in RowOps : o.dev = key => o \in RowOps'
    PROVE  Gains({})
  BY DEF Gains, Continues

\* What an answer marks keeps its op.
LEMMA MarksKeepOps ==
    ASSUME DurableInv, NEW r \in Reg, MarkResult(r)
    PROVE  RowOps' = RowOps /\ HeldOps' = HeldOps
  <1>1. UNCHANGED opened
    BY DEF MarkResult
  <1>2. PICK f \in [rows -> Row] : /\ rows' = {f[w] : w \in rows}
                                   /\ \A w \in rows : f[w].op = w.op
    BY MarksMoveStates DEF DurableInv, RowsInv
  <1>3. RowOps' = RowOps
    BY <1>2 DEF RowOps
  <1>4. HeldOps = RowOps \cup {w.op : w \in opened} /\ HeldOps' = RowOps' \cup {w.op : w \in opened'}
    BY DEF HeldOps, RowOps
  <1> QED BY <1>1, <1>3, <1>4

\* The steps that leave the phone's tables alone.
LEMMA TablesMoveSo ==
    ASSUME [Next]_vars
    PROVE  \/ UNCHANGED <<rows, opened>>
           \/ \E r \in Reg : BeginCommand(r) \/ MarkResult(r)
           \/ CommitCommand
           \/ opened' = {} /\ UNCHANGED rows
           \/ EmitGenesis \/ CarryOver
  BY DEF Next, vars, phoneRows, ServerStep, JudgeStep, CommitPush, AbortPush, BeginPush, BeginStale,
         RevokeByOwner, EnrolOnServer, LoopStep, Enrolment, ArriveStale, Send, Settle,
         TakeUnauthorized, Arrive, GiveUp, RollbackCommand, StartEnrol, PersistDraft, PersistToken,
         NameDevice, SpendDraft, FailEnrol, Crash, PhoneOnly

\* What the phone holds grows by ops that go on with the newest chain, only.
LEMMA HeldGrows ==
    ASSUME HonestInv, [Next]_vars
    PROVE  \E S : Gains(S)
  <1> USE DEF HonestInv, DurableInv
  <1>1. CASE UNCHANGED <<rows, opened>> \/ (opened' = {} /\ UNCHANGED rows)
    <2>1. HeldOps' \subseteq HeldOps /\ RowOps' = RowOps
      BY <1>1 DEF HeldOps, RowOps
    <2> QED BY <2>1, NothingGained
  <1>2. ASSUME NEW r \in Reg, MarkResult(r) PROVE \E S : Gains(S)
    BY <1>2, MarksKeepOps, NothingGained
  <1>3. CASE CommitCommand
    <2>1. HeldOps' \subseteq HeldOps /\ RowOps \subseteq RowOps'
      BY <1>3 DEF CommitCommand, HeldOps, RowOps
    <2> QED BY <2>1, NothingGained
  <1>4. ASSUME NEW r \in Reg, BeginCommand(r) PROVE \E S : Gains(S)
    <2> DEFINE c == <<"change", minted + 1>>
               o == SignedOp(c, key, PhoneHead(key, rows))
    <2>1. r = key /\ key \in Reg
      BY <1>4, RegIsNat DEF BeginCommand, Running, Names
    <2>2. c \in Id
      BY <1>4, SyncConstants DEF BeginCommand, Id, RowsInv, RowTypes
    <2>3. rows' = rows /\ opened' = {LocalRow(o)} /\ opened = {}
      BY <1>4, <2>1 DEF BeginCommand, Free
    <2>4. LocalRow(o).op = o
      BY DEF LocalRow
    <2>5. /\ Continues({o}, key, PhoneHead(key, rows))
          /\ o.seq # 1 => \E p \in RowOps : p.dev = key /\ p.seq = o.seq - 1
      BY <2>1, <2>2, NextOpContinues
    <2> HIDE DEF o
    <2>6. RowOps' = RowOps /\ HeldOps' \subseteq HeldOps \cup {o}
      BY <2>3, <2>4 DEF RowOps, HeldOps
    <2>7. Gains({o})
      BY <2>3, <2>5, <2>6 DEF Gains
    <2> QED BY <2>7
  <1>5. CASE EmitGenesis
    <2> DEFINE c == <<"genesis", key>>
               o == SignedOp(c, key, PhoneHead(key, rows))
    <2>1. draft = key /\ key \in Reg /\ opened' = {} /\ opened = {}
      BY <1>5, RegIsNat DEF EmitGenesis, Names, IdentityInv, Free, PhoneOnly
    <2>2. c \in Id
      BY <2>1 DEF Id
    <2>3. rows' = rows \/ rows' = rows \cup {LocalRow(o)}
      BY <1>5, <2>1 DEF EmitGenesis
    <2>4. LocalRow(o).op = o
      BY DEF LocalRow
    <2>5. /\ Continues({o}, key, PhoneHead(key, rows))
          /\ o.seq # 1 => \E p \in RowOps : p.dev = key /\ p.seq = o.seq - 1
      BY <2>1, <2>2, NextOpContinues
    <2> HIDE DEF o
    <2>6. RowOps \subseteq RowOps' /\ HeldOps' \subseteq HeldOps \cup {o}
      BY <2>1, <2>3, <2>4 DEF RowOps, HeldOps
    <2>7. Gains({o})
      BY <2>1, <2>5, <2>6 DEF Gains
    <2> QED BY <2>7
  <1>6. CASE CarryOver
    <2>1. draft = key /\ key \in Reg /\ opened' = {} /\ opened = {}
      BY <1>6, RegIsNat DEF CarryOver, Names, IdentityInv, Free, PhoneOnly
    <2>2. PICK s \in CarryOrders :
             rows' = (rows \ Unsent) \cup (IF Carried = {} THEN {} ELSE Resigned(s))
      BY <1>6 DEF CarryOver
    <2>3. \A w \in rows : w.op.dev = key => w \in rows'
      BY <2>1, <2>2 DEF Unsent
    <2>4. \A o \in RowOps : o.dev = key => o \in RowOps'
      BY <2>3 DEF RowOps
    <2>5. CASE Carried = {}
      <3>1. HeldOps' \subseteq HeldOps
        BY <2>1, <2>2, <2>5 DEF HeldOps
      <3> QED BY <2>4, <3>1, NothingGained
    <2>6. CASE Carried # {}
      <3> DEFINE S == {w.op : w \in Resigned(s)}
      <3>1. /\ Continues(S, key, PhoneHead(key, rows))
            /\ \A o \in S : o.seq # 1 => \E p \in RowOps \cup S : p.dev = key /\ p.seq = o.seq - 1
        BY <2>1, CarriedContinue
      <3>2. HeldOps' \subseteq HeldOps \cup S /\ S \subseteq RowOps'
        BY <2>1, <2>2, <2>6 DEF HeldOps, RowOps
      <3>3. \A p \in RowOps \cup S : p.dev = key => p \in RowOps'
        BY <2>4, <3>2
      <3> HIDE DEF S
      <3>4. Gains(S)
        BY <2>1, <2>4, <3>1, <3>2, <3>3 DEF Gains
      <3> QED BY <3>4
    <2> QED BY <2>5, <2>6
  <1> QED BY TablesMoveSo, <1>1, <1>2, <1>3, <1>4, <1>5, <1>6

\* What is on the wire afterwards was there before, or is a row's op.
LEMMA WireGrows ==
    ASSUME HonestInv, Untroubled, [Next]_vars
    PROVE  OnWire' \subseteq OnWire \cup RowOps
  <1> USE DEF HonestInv
  <1>1. ASSUME NEW r \in Reg, flight'[r] # Idle, NEW o \in OpsOf(flight'[r].ops)
        PROVE  o \in FlightOps \cup RowOps
    <2>1. CASE Send(r)
      <3>1. PICK b \in PushBatches :
               flight' = [flight EXCEPT ![r] =
                   [stage |-> "sent", dev |-> r, tok |-> token,
                    ops |-> [i \in DOMAIN b |-> b[i].op], results |-> <<>>]]
        BY <2>1 DEF Send
      <3>2. flight'[r].ops = [i \in DOMAIN b |-> b[i].op]
        <4> DEFINE f == [stage |-> "sent", dev |-> r, tok |-> token,
                         ops |-> [i \in DOMAIN b |-> b[i].op], results |-> <<>>]
        <4>1. WireTypes /\ flight' = [flight EXCEPT ![r] = f] /\ f.ops = [i \in DOMAIN b |-> b[i].op]
          BY <3>1 DEF DurableInv
        <4> HIDE DEF f
        <4>2. flight'[r] = f
          BY <4>1, OneMoves
        <4> QED BY <4>1, <4>2
      <3>3. \A i \in DOMAIN b : b[i] \in rows
        BY BatchIsSendable DEF DurableInv, RowsInv, RowTypes
      <3> QED BY <1>1, <3>2, <3>3 DEF OpsOf, RowOps
    <2>2. CASE flight[r] # Idle /\ flight'[r].ops = flight[r].ops
      BY <1>1, <2>2 DEF FlightOps
    <2> QED BY <1>1, <2>1, <2>2, FlightMovesSo DEF FlightMove, SamePush
  <1>2. FlightOps' \subseteq FlightOps \cup RowOps
    BY <1>1 DEF FlightOps
  <1>3. StaleOps' \subseteq StaleOps \cup FlightOps
    <2> SUFFICES ASSUME NEW s \in stale', NEW o \in OpsOf(s.ops) PROVE o \in StaleOps \cup FlightOps
      BY DEF StaleOps
    <2> QED BY StaleMovesSo DEF StaleOps, FlightOps, SamePush
  <1>4. TxOps' \subseteq OnWire
    <2>1. CASE TxUsed /\ tx'.ops = tx.ops
      BY <2>1 DEF TxOps, OnWire
    <2>2. CASE UNCHANGED tx
      BY <2>2 DEF TxOps, OnWire, TxUsed
    <2>3. CASE tx' = Server!NoTx
      BY <2>3 DEF TxOps, TxUsed, Server!NoTx
    <2>4. ASSUME NEW d \in Reg, NEW ops \in Seq(Op), PushOpens(d, ops)
          PROVE  TxOps' \subseteq OnWire
      <3>1. tx'.ops = ops /\ OpsOf(ops) \subseteq OnWire
        BY <2>4 DEF PushOpens, Server!Opened
      <3> QED BY <3>1 DEF TxOps
    <2>5. PushGoesOn => TxUsed /\ tx'.ops = tx.ops
      BY DEF PushGoesOn, TxUsed, Server!IsOpen
    <2> QED BY PushMovesSo, <2>1, <2>2, <2>3, <2>4, <2>5
  <1> QED BY <1>2, <1>3, <1>4 DEF OnWire

-----------------------------------------------------------------------------
(* The world keeps its chains.                                             *)

\* What the step makes of the world, when the newest registration stays.
LEMMA WorldGrows ==
    ASSUME HonestInv, Untroubled, [Next]_vars, NEW S, Gains(S)
    PROVE  /\ World' \subseteq World \cup S /\ S \subseteq Op
           /\ S # {} => \A o \in World : o.dev = key => o \in RowOps
           /\ RowOps \subseteq World
           /\ World \subseteq Op /\ Chained(World)
  <1>1. World' \subseteq World \cup S /\ RowOps \subseteq World
    BY WireGrows DEF Gains, World, RowOps, HeldOps
  <1>2. S \subseteq Op
    BY DEF Gains, Continues
  <1>3. S # {} => \A o \in World : o.dev = key => o \in RowOps
    BY DEF Gains, World, HeldOps, RowOps, HonestInv, WireIsHeld
  <1>4. World \subseteq Op /\ Chained(World)
    BY WorldIsTyped DEF HonestInv
  <1> QED BY <1>1, <1>2, <1>3, <1>4

\* Every step keeps the chains of the world whole.
LEMMA ChainsKept ==
    ASSUME HonestInv, Untroubled, [Next]_vars
    PROVE  SignedByOwner' /\ Chained(World') /\ WireIsHeld' /\ NoHole'
  <1> USE DEF HonestInv
  <1>0. \A o \in World : o.sig = o.dev /\ o.dev <= key /\ o.dev \in Nat
    BY WorldIsTyped, RegIsNat DEF SignedByOwner, Op
  <1>1. key \in Nat
    BY RegIsNat DEF DurableInv, IdentityInv
  <1>2. CASE key' # key
    <2>1. key' = key + 1 /\ UNCHANGED <<rows, opened, flight, stale, tx>>
      BY <1>2, KeyMade DEF phoneRows, wire, server
    <2>2. World' = World /\ HeldOps' = HeldOps /\ OnWire' = OnWire /\ RowOps' = RowOps
      BY <2>1 DEF World, HeldOps, OnWire, RowOps, FlightOps, StaleOps, TxOps, TxUsed
    <2>3. \A o \in World : o.dev # key + 1 /\ o.dev <= key + 1
      BY <1>0, <1>1
    <2>4. HeldOps \subseteq World /\ OnWire \subseteq World
      BY DEF World
    <2> QED BY <1>0, <2>1, <2>2, <2>3, <2>4 DEF SignedByOwner, WireIsHeld, NoHole
  <1>3. CASE key' = key
    <2>1. PICK S : Gains(S)
      BY HeldGrows
    <2>2. /\ World' \subseteq World \cup S
          /\ S # {} => \A o \in World : o.dev = key => o \in RowOps
          /\ RowOps \subseteq World /\ World \subseteq Op /\ Chained(World)
      BY <2>1, WorldGrows
    <2>3. SignedByOwner'
      <3>1. \A o \in S : o.sig = key /\ o.dev = key
        BY <2>1 DEF Gains, Continues
      <3> QED BY <1>0, <1>1, <1>3, <2>2, <3>1 DEF SignedByOwner
    <2>4. Chained(World')
      <3>1. Chained(World \cup S)
        <4>1. CASE S = {}
          BY <2>2, <4>1
        <4>2. CASE S # {}
          BY <2>1, <2>2, <4>2, EndOnPhone, ChainContinues DEF Gains
        <4> QED BY <4>1, <4>2
      <3> QED BY <2>2, <3>1 DEF Chained
    <2>5. WireIsHeld'
      <3>1. \A o \in OnWire \cup RowOps : o.dev = key => o \in RowOps
        BY DEF WireIsHeld
      <3>2. \A o \in RowOps : o.dev = key => o \in RowOps'
        BY <2>1 DEF Gains
      <3> QED BY <1>3, <3>1, <3>2, WireGrows DEF WireIsHeld
    <2>6. NoHole'
      <3> SUFFICES ASSUME NEW o \in HeldOps', o.dev = key, o.seq # 1
                   PROVE  \E p \in RowOps' : p.dev = key /\ p.seq = o.seq - 1
        BY <1>3 DEF NoHole
      <3>1. CASE o \in S
        BY <2>1, <3>1 DEF Gains
      <3>2. CASE o \in HeldOps
        BY <2>1, <3>2 DEF Gains, NoHole
      <3> QED BY <2>1, <3>1, <3>2 DEF Gains
    <2> QED BY <2>3, <2>4, <2>5, <2>6
  <1> QED BY <1>2, <1>3

-----------------------------------------------------------------------------
(* The server's heads stay on the chains.                                  *)

\* A head on its chain stays on it, whatever the step does.
LEMMA HeadFollows ==
    ASSUME HonestInv, Untroubled, [Next]_vars, NEW r \in Nat, NEW hd, hd.seq \in Nat, NEW L,
           OnChain(World, RowOps, key, r, hd, L), NEW L2, L \subseteq L2
    PROVE  OnChain(World', RowOps', key', r, hd, L2)
  <1>1. key \in Nat
    BY RegIsNat DEF HonestInv, DurableInv, IdentityInv
  <1>2. CASE key' # key
    <2>1. key' = key + 1 /\ UNCHANGED <<rows, opened, flight, stale, tx>>
      BY <1>2, KeyMade DEF phoneRows, wire, server
    <2>2. World' = World /\ RowOps' = RowOps
      BY <2>1 DEF World, HeldOps, OnWire, RowOps, FlightOps, StaleOps, TxOps, TxUsed
    <2>3. r > key + 1 => r > key
      BY <1>1
    <2>4. r = key + 1 => r > key
      BY <1>1
    <2> QED BY <2>1, <2>2, <2>3, <2>4 DEF OnChain
  <1>3. CASE key' = key
    <2>1. PICK S : Gains(S)
      BY HeldGrows
    <2>2. /\ World' \subseteq World \cup S
          /\ S # {} => \A o \in World : o.dev = key => o \in RowOps
          /\ RowOps \subseteq World /\ World \subseteq Op /\ Chained(World)
          /\ \A o \in RowOps : o.dev = key => o \in RowOps'
          /\ Continues(S, key, PhoneHead(key, rows)) /\ EndOf(RowOps, key, PhoneHead(key, rows))
      BY <2>1, WorldGrows, EndOnPhone DEF Gains
    <2>3. CASE S = {}
      BY <1>3, <2>2, <2>3 DEF OnChain
    <2>4. CASE S # {}
      BY <1>3, <2>2, <2>4, HeadStaysOnChain
    <2> QED BY <2>3, <2>4
  <1> QED BY <1>2, <1>3

\* More is judged when the log and the refusals grow.
LEMMA JudgedGrows ==
    ASSUME NEW r, NEW L, NEW R, NEW L2, NEW R2, L \subseteq L2, R \subseteq R2
    PROVE  JudgedOps(r, L, R) \subseteq JudgedOps(r, L2, R2)
  BY DEF JudgedOps, Server!IdsIn

\* An op that is judged where its chain goes on is judged from then on.
LEMMA CurIsJudged ==
    ASSUME HonestInv, Server!IsOpen, tx.stage = "judging", tx.pos <= Len(tx.ops), JudgedNext
    PROVE  /\ tx'.head = Server!HeadAtCur
           /\ Server!Cur \in JudgedOps(tx.dev, tx'.log, tx'.refused)
  <1>1. Server!Cur \in Op
    BY CurIsOnChain
  <1>2. CASE JudgedNew
    <2>1. Server!LogRowOfCur \in tx'.log /\ Server!LogRowOfCur.op = Server!Cur
      BY <1>2 DEF JudgedNew, JudgedTo, Server!LogRowOfCur
    <2> QED BY <1>1, <1>2, <2>1 DEF JudgedNew, JudgedTo, JudgedOps, Server!IdsIn
  <1>3. CASE JudgedLogged
    BY <1>1, <1>3 DEF JudgedLogged, JudgedTo, JudgedOps, Server!IdsIn, Server!Duplicate
  <1>4. CASE JudgedRefused
    <2>1. PICK code \in RefusalCodes \cup {"RULE_VIOLATED"} :
             Server!RefusedRowOf(code) \in tx'.refused /\ tx'.head = Server!HeadAtCur
      BY <1>4 DEF JudgedRefused, JudgedTo
    <2>2. /\ Server!RefusedRowOf(code).dev = tx.dev /\ Server!RefusedRowOf(code).id = Server!Cur.id
          /\ Server!RefusedRowOf(code).hash = Server!Cur.hash
      BY DEF Server!RefusedRowOf
    <2> QED BY <1>1, <2>1, <2>2 DEF JudgedOps
  <1> QED BY <1>2, <1>3, <1>4 DEF JudgedNext

\* Every step keeps the heads of the server on those chains.
LEMMA HeadsKept ==
    ASSUME HonestInv, Untroubled, [Next]_vars
    PROVE  HeadsOnChain'
  <1> USE DEF HonestInv
  <1>0. /\ Reg \subseteq Nat /\ \A r \in Reg : head[r].seq \in Nat
        /\ \A r : JudgedOps(r, log, refused) \subseteq JudgedOps(r, log', refused')
    BY LogGrows, HeadsGrow, RegIsNat, JudgedGrows
  <1>1. Server!IsOpen => /\ tx.dev \in Reg /\ tx.head.seq \in Nat /\ tx \in SP!OpenTx
                         /\ OnChain(World, RowOps, key, tx.dev, tx.head,
                                    JudgedOps(tx.dev, tx.log, tx.refused))
    BY WorldIsTyped DEF SP!OpenTx, SP!ChainHead, HeadsOnChain
  <1>2. ASSUME NEW r \in Reg
        PROVE  OnChain(World', RowOps', key', r, head'[r], JudgedOps(r, log', refused'))
    <2>0. OnChain(World, RowOps, key, r, head[r], JudgedOps(r, log, refused))
      BY DEF HeadsOnChain
    <2>1. CASE head'[r] = head[r]
      <3>1. OnChain(World', RowOps', key', r, head[r], JudgedOps(r, log', refused'))
        BY <1>0, <2>0, HeadFollows
      <3> QED BY <2>1, <3>1
    <2>2. CASE Server!Commit /\ r = tx.dev
      <3>1. /\ Server!IsOpen /\ log' = tx.log /\ refused' = tx.refused
            /\ head' = [head EXCEPT ![tx.dev] = tx.head]
        BY <2>2 DEF Server!Commit, Server!IsOpen
      <3>2. head'[r] = tx.head
        BY <2>2, <3>1, ServerTypes DEF DurableInv, SP!TypeOK
      <3>3. JudgedOps(tx.dev, tx.log, tx.refused) \subseteq JudgedOps(r, log', refused')
        BY <2>2, <3>1
      <3>4. OnChain(World', RowOps', key', r, tx.head, JudgedOps(r, log', refused'))
        BY <1>0, <1>1, <2>2, <3>1, <3>3, HeadFollows
      <3> QED BY <3>2, <3>4
    <2>3. Server!Commit \/ head' = head
      BY OnlyCommitWrites
    <2>4. Server!Commit /\ r # tx.dev => head'[r] = head[r]
      BY ServerTypes DEF DurableInv, SP!TypeOK, Server!Commit
    <2> QED BY <2>1, <2>2, <2>3, <2>4
  <1> DEFINE judged == JudgedOps(tx.dev, tx.log, tx.refused)
             after == JudgedOps(tx'.dev, tx'.log, tx'.refused)
  <1>3. ASSUME Server!IsOpen'
        PROVE  OnChain(World', RowOps', key', tx'.dev, tx'.head, after)
    <2>1. CASE UNCHANGED tx
      <3>1. Server!IsOpen
        BY <1>3, <2>1 DEF Server!IsOpen
      <3>2. OnChain(World', RowOps', key', tx.dev, tx.head, judged)
        BY <1>0, <1>1, <3>1, HeadFollows
      <3> QED BY <2>1, <3>2
    <2>2. CASE PushGoesOn
      <3>1. Server!IsOpen /\ tx'.dev = tx.dev /\ judged \subseteq after
        BY <2>2, JudgedGrows DEF PushGoesOn
      <3>2. CASE tx'.head = tx.head
        <4>1. OnChain(World', RowOps', key', tx.dev, tx.head, after)
          BY <1>0, <1>1, <3>1, HeadFollows
        <4> QED BY <3>1, <3>2, <4>1
      <3>3. CASE tx'.head # tx.head
        <4> DEFINE hd == [seq |-> Server!Cur.seq, hash |-> Server!Cur.hash]
        <4>1. tx.stage = "judging" /\ tx.pos <= Len(tx.ops) /\ JudgedNext
          BY <2>2, <3>3 DEF PushGoesOn, JudgedAgain, JudgedTo
        <4>2. /\ Server!Cur \in World /\ Server!Cur.dev = tx.dev /\ tx.dev <= key
              /\ Server!Cur.seq \in Nat \ {0} /\ Server!Cur.seq = tx.head.seq + 1
              /\ Server!Cur \in TxOps
          BY <3>1, <4>1, CurIsOnChain DEF JudgedNext
        <4>3. tx'.head = hd /\ Server!Cur \in after
          BY <3>1, <4>1, CurIsJudged DEF Server!HeadAtCur
        <4>4. World \subseteq Op /\ Chained(World) /\ key \in Nat
          BY WorldIsTyped, RegIsNat DEF DurableInv, IdentityInv
        <4>5. tx.dev = key => Server!Cur \in RowOps
          BY <4>2 DEF WireIsHeld, OnWire
        <4> HIDE DEF judged, after
        <4>6. OnChain(World, RowOps, key, tx.dev, hd, after)
          <5>1. OnChain(World, RowOps, key, tx.dev, tx.head, judged) /\ tx.dev \in Nat /\ tx.head.seq \in Nat
            BY <1>0, <1>1, <3>1 DEF judged
          <5> QED BY <3>1, <4>2, <4>3, <4>4, <4>5, <5>1, HeadMovesOnChain
        <4>7. OnChain(World', RowOps', key', tx.dev, hd, after)
          BY <1>0, <1>1, <3>1, <4>2, <4>6, HeadFollows
        <4> QED BY <3>1, <4>3, <4>7
      <3> QED BY <3>2, <3>3
    <2>3. ASSUME NEW d \in Reg, NEW ops \in Seq(Op), PushOpens(d, ops)
          PROVE  OnChain(World', RowOps', key', tx'.dev, tx'.head, after)
      <3>1. tx'.dev = d /\ tx'.head = head[d] /\ after = JudgedOps(d, log, refused)
        BY <2>3 DEF PushOpens, Server!Opened
      <3>2. OnChain(World, RowOps, key, d, head[d], JudgedOps(d, log, refused))
        BY <2>3 DEF HeadsOnChain
      <3> HIDE DEF after
      <3>3. OnChain(World', RowOps', key', d, head[d], JudgedOps(d, log, refused))
        BY <1>0, <2>3, <3>2, HeadFollows
      <3> QED BY <3>1, <3>3
    <2>4. tx' # Server!NoTx /\ tx'.stage # "rerun"
      BY <1>3 DEF Server!IsOpen, Server!NoTx
    <2> QED BY PushMovesSo, <2>1, <2>2, <2>3, <2>4
  <1> QED BY <1>2, <1>3 DEF HeadsOnChain

-----------------------------------------------------------------------------
(* Refusals.                                                               *)

\* A phone with one registration carries nothing over, and drops no row.
LEMMA RowOpsStay ==
    ASSUME HonestInv, [Next]_vars, MaxRegs = 1
    PROVE  RowOps \subseteq RowOps'
  <1> USE DEF HonestInv, DurableInv
  <1>1. CASE CarryOver
    <2>1. draft = 1 /\ \A w \in rows : w.op.dev = 1
      <3>1. draft \in Reg /\ \A w \in rows : w.op.dev \in Reg
        BY <1>1, RegIsNat DEF CarryOver, IdentityInv, RowsInv, RowTypes, Row, Op
      <3> QED BY <3>1 DEF Reg
    <2>2. Unsent = {}
      BY <2>1 DEF Unsent
    <2>3. rows \subseteq rows'
      BY <1>1, <2>2 DEF CarryOver
    <2> QED BY <2>3 DEF RowOps
  <1>2. ASSUME NEW r \in Reg, MarkResult(r) PROVE RowOps \subseteq RowOps'
    BY <1>2, MarksKeepOps
  <1>3. CASE rows \subseteq rows'
    BY <1>3 DEF RowOps
  <1>4. \/ rows \subseteq rows' \/ CarryOver \/ \E r \in Reg : MarkResult(r)
    BY TablesMoveSo DEF BeginCommand, CommitCommand, EmitGenesis
  <1> QED BY <1>1, <1>2, <1>3, <1>4

\* Every step keeps the refusals those of the phone's rows, and their verdicts
\* known to the open push.
LEMMA RefusalsKept ==
    ASSUME HonestInv, Untroubled, [Next]_vars
    PROVE  RefusalsOfRows'
  <1> USE DEF HonestInv
  <1> DEFINE OfNewRows(R) ==
                \A q \in R : \E o \in RowOps' : /\ o.dev = q.dev /\ o.id = q.id
                                                /\ o.seq = q.seq /\ o.hash = q.hash
  <1>1. ASSUME RefusalCodes # {}
        PROVE  OfNewRows(refused') /\ (Server!IsOpen' => OfNewRows(tx'.refused))
    <2>0. MaxRegs = 1 /\ RowOps \subseteq RowOps'
      BY <1>1, RowOpsStay DEF Untroubled
    <2>1. ASSUME NEW R, OfRows(R) PROVE OfNewRows(R)
      BY <2>0, <2>1 DEF OfRows
    <2>2. OfNewRows(refused) /\ (Server!IsOpen => OfNewRows(tx.refused))
      BY <1>1, <2>1 DEF RefusalsOfRows
    <2>3. OfNewRows(refused')
      <3>1. CASE Server!Commit
        BY <2>2, <3>1 DEF Server!Commit, Server!IsOpen
      <3>2. CASE refused' = refused
        BY <2>2, <3>2
      <3>3. Server!Commit \/ refused' = refused
        BY OnlyCommitWrites
      <3> QED BY <3>1, <3>2, <3>3
    <2>4. ASSUME Server!IsOpen' PROVE OfNewRows(tx'.refused)
      <3>1. CASE UNCHANGED tx
        BY <2>2, <2>4, <3>1 DEF Server!IsOpen
      <3>2. CASE PushGoesOn
        <4>1. Server!IsOpen /\ OfNewRows(tx.refused)
          BY <2>2, <3>2 DEF PushGoesOn
        <4>2. CASE tx'.refused = tx.refused
          BY <4>1, <4>2
        <4>3. CASE tx'.refused # tx.refused
          <5>1. /\ tx.stage = "judging" /\ tx.pos <= Len(tx.ops)
                /\ \E code : tx'.refused = tx.refused \cup {Server!RefusedRowOf(code)}
            BY <3>2, <4>3 DEF PushGoesOn, JudgedAgain, JudgedNext, JudgedNew, JudgedLogged,
                              JudgedRefused, JudgedTo
          <5>2. PICK code : tx'.refused = tx.refused \cup {Server!RefusedRowOf(code)}
            BY <5>1
          <5>3. Server!Cur \in TxOps /\ Server!Cur.dev = tx.dev /\ tx.dev <= key
            BY <4>1, <5>1, CurIsOnChain
          <5>4. tx.dev = key
            <6>1. tx.dev \in Reg /\ key \in Reg \cup {0}
              BY <4>1, WorldIsTyped DEF DurableInv, IdentityInv
            <6>2. tx.dev = 1 /\ key \in {0, 1}
              BY <2>0, <6>1 DEF Reg
            <6> QED BY <5>3, <6>2
          <5>5. Server!Cur \in RowOps'
            BY <2>0, <5>3, <5>4 DEF WireIsHeld, OnWire
          <5>6. \E o \in RowOps' : /\ o.dev = Server!RefusedRowOf(code).dev
                                   /\ o.id = Server!RefusedRowOf(code).id
                                   /\ o.seq = Server!RefusedRowOf(code).seq
                                   /\ o.hash = Server!RefusedRowOf(code).hash
            BY <5>3, <5>5 DEF Server!RefusedRowOf
          <5> QED BY <4>1, <5>2, <5>6
        <4> QED BY <4>2, <4>3
      <3>3. ASSUME NEW d \in Reg, NEW ops \in Seq(Op), PushOpens(d, ops)
            PROVE  OfNewRows(tx'.refused)
        <4>1. tx'.refused = refused
          BY <3>3 DEF PushOpens, Server!Opened
        <4> QED BY <2>2, <4>1
      <3>4. tx' # Server!NoTx /\ tx'.stage # "rerun"
        BY <2>4 DEF Server!IsOpen, Server!NoTx
      <3> QED BY PushMovesSo, <3>1, <3>2, <3>3, <3>4
    <2> QED BY <2>3, <2>4
  <1>2. ASSUME Server!IsOpen'
        PROVE  /\ \A k \in tx'.known : \E q \in tx'.refused : q.dev = tx'.dev /\ k = Server!Verdict(q)
               /\ \A q \in tx'.refused :
                     /\ q.dev = tx'.dev /\ q.id \in Server!IdsOf(tx'.ops)
                     /\ q.id \notin Server!IdsIn(tx'.log)
                     => Server!Verdict(q) \in tx'.known
    <2>0. Server!IsOpen => VerdictsKnown
      BY DEF RefusalsOfRows
    <2>1. CASE UNCHANGED tx
      BY <1>2, <2>0, <2>1 DEF Server!IsOpen, VerdictsKnown
    <2>2. CASE PushGoesOn
      <3>1. /\ VerdictsKnown /\ tx'.dev = tx.dev /\ tx'.ops = tx.ops
            /\ \A q : q.id \in Server!IdsIn(tx.log) => q.id \in Server!IdsIn(tx'.log)
        BY <2>0, <2>2 DEF PushGoesOn, Server!IdsIn
      <3>2. CASE tx'.refused = tx.refused /\ tx'.known = tx.known
        BY <3>1, <3>2 DEF VerdictsKnown
      <3>3. CASE JudgedLogged
        <4>1. Server!RefusedRowOf("DUPLICATE").id \in Server!IdsIn(tx.log)
          BY <3>3 DEF JudgedLogged, Server!Duplicate, Server!RefusedRowOf
        <4>2. /\ tx'.known = tx.known
              /\ tx'.refused \in {tx.refused, tx.refused \cup {Server!RefusedRowOf("DUPLICATE")}}
          BY <3>3 DEF JudgedLogged, JudgedTo
        <4> QED BY <3>1, <4>1, <4>2 DEF VerdictsKnown
      <3>4. CASE JudgedRefused
        <4>1. PICK code : /\ tx'.refused = tx.refused \cup {Server!RefusedRowOf(code)}
                          /\ tx'.known = tx.known \cup {Server!Verdict(Server!RefusedRowOf(code))}
          BY <3>4 DEF JudgedRefused, JudgedTo
        <4>2. Server!RefusedRowOf(code).dev = tx.dev
          BY DEF Server!RefusedRowOf
        <4> QED BY <3>1, <4>1, <4>2 DEF VerdictsKnown
      <3>5. JudgedLogged \/ JudgedRefused \/ (tx'.refused = tx.refused /\ tx'.known = tx.known)
        BY <2>2 DEF PushGoesOn, JudgedAgain, JudgedNext, JudgedNew, JudgedTo
      <3> QED BY <3>2, <3>3, <3>4, <3>5
    <2>3. ASSUME NEW d \in Reg, NEW ops \in Seq(Op), PushOpens(d, ops)
          PROVE  /\ \A k \in tx'.known : \E q \in tx'.refused : q.dev = tx'.dev /\ k = Server!Verdict(q)
                 /\ \A q \in tx'.refused :
                       q.dev = tx'.dev /\ q.id \in Server!IdsOf(tx'.ops) => Server!Verdict(q) \in tx'.known
      <3>1. /\ tx'.dev = d /\ tx'.ops = ops /\ tx'.refused = refused
            /\ tx'.known = {Server!Verdict(q) : q \in {p \in refused : p.dev = d /\ p.id \in Server!IdsOf(ops)}}
        BY <2>3 DEF PushOpens, Server!Opened, Server!LoadedRefusals
      <3> QED BY <3>1
    <2>4. tx' # Server!NoTx /\ tx'.stage # "rerun"
      BY <1>2 DEF Server!IsOpen, Server!NoTx
    <2> QED BY PushMovesSo, <2>1, <2>2, <2>3, <2>4
  <1> QED BY <1>1, <1>2 DEF RefusalsOfRows, OfRows, VerdictsKnown, Server!Verdict, Server!IdsIn, Server!IdsOf

-----------------------------------------------------------------------------
(* Whose wire it is.                                                       *)

\* The steps that leave the phone's names and its enrolment alone.
LEMMA NamesMoveSo ==
    ASSUME [Next]_vars
    PROVE  \/ UNCHANGED identity /\ opened' \subseteq opened
           \/ \E r \in Reg : BeginCommand(r)
           \/ StartEnrol \/ PersistDraft \/ PersistToken \/ EmitGenesis \/ CarryOver
           \/ NameDevice \/ SpendDraft \/ FailEnrol \/ Crash
  BY DEF Next, vars, identity, phoneRows, ServerStep, JudgeStep, CommitPush, AbortPush, BeginPush,
         BeginStale, RevokeByOwner, EnrolOnServer, LoopStep, Enrolment, ArriveStale, Send, MarkResult,
         Settle, TakeUnauthorized, Arrive, GiveUp, CommitCommand, RollbackCommand

\* An enrolment that ends early ends before the phone has a registration, or
\* after it has the new one.
LEMMA EarlyEnd ==
    ASSUME Untroubled, NEW how, InterruptionAllowed(how)
    PROVE  phase \in {"idle", "named"} \/ meta = 0
  BY DEF Untroubled, InterruptionAllowed

\* Every step keeps the registrations the phone names in order.
LEMMA NamesKept ==
    ASSUME HonestInv, Untroubled, [Next]_vars
    PROVE  Names'
  <1> USE DEF HonestInv, DurableInv, IdentityInv, Phases
  <1>0. meta \in Nat /\ key \in Nat /\ token \in Nat /\ draft \in Nat
    BY RegIsNat
  <1>1. CASE UNCHANGED identity /\ opened' \subseteq opened
    BY <1>1 DEF Names, identity
  <1>2. ASSUME NEW r \in Reg, BeginCommand(r) PROVE Names'
    <2>1. meta = r /\ phase = "idle" /\ r # 0
      BY <1>2, RegIsNat DEF BeginCommand, Running
    <2> QED BY <1>2, <2>1 DEF Names, BeginCommand, identity
  <1>3. CASE StartEnrol
    BY <1>0, <1>3 DEF Names, StartEnrol, PhoneOnly, Free
  <1>4. CASE PersistDraft
    BY <1>0, <1>4 DEF Names, PersistDraft, PhoneOnly
  <1>5. CASE PersistToken
    BY <1>0, <1>5 DEF Names, PersistToken, PhoneOnly
  <1>6. CASE EmitGenesis \/ CarryOver
    BY <1>0, <1>6 DEF Names, EmitGenesis, CarryOver, PhoneOnly
  <1>7. CASE NameDevice
    BY <1>0, <1>7 DEF Names, NameDevice, PhoneOnly
  <1>8. CASE SpendDraft
    BY <1>0, <1>8 DEF Names, SpendDraft, PhoneOnly
  <1>9. CASE FailEnrol
    <2>1. meta = 0 /\ phase \in {"posting", "tokened", "begun"} /\ draft # 0
      BY <1>9, EarlyEnd DEF FailEnrol
    <2> QED BY <1>0, <1>9, <2>1 DEF Names, FailEnrol, phoneRows
  <1>10. CASE Crash
    <2>1. phase \in {"idle", "named"} \/ meta = 0
      BY <1>10, EarlyEnd DEF Crash
    <2> QED BY <1>0, <1>10, <2>1 DEF Names, Crash
  <1> QED BY NamesMoveSo, <1>1, <1>2, <1>3, <1>4, <1>5, <1>6, <1>7, <1>8, <1>9, <1>10

\* While a push is in flight the phone goes on as the registration that sent it.
LEMMA SenderStays ==
    ASSUME HonestInv, Untroubled, [Next]_vars, NEW r \in Reg, flight'[r] # Idle
    PROVE  key' = key /\ meta' = meta /\ phase = "idle" /\ phase' = "idle"
  <1> USE DEF HonestInv
  <1>1. key' = key
    <2>1. CASE key' # key
      <3>1. flight[r] = Idle /\ flight' = flight
        BY <2>1, KeyMade DEF wire
      <3> QED BY <3>1
    <2> QED BY <2>1
  <1>2. CASE flight[r] # Idle
    <2>1. phase = "idle"
      BY <1>2 DEF WireOwner
    <2>2. ~StartEnrol
      BY <1>2 DEF StartEnrol, Untroubled
    <2> QED BY <1>1, <2>1, <2>2, NamesMoveSo
            DEF BeginCommand, identity, PersistDraft, PersistToken, EmitGenesis, CarryOver,
                NameDevice, SpendDraft, FailEnrol, Crash
  <1>3. CASE Send(r)
    BY <1>1, <1>3 DEF Send, Running, identity
  <1> QED BY <1>2, <1>3, FlightMovesSo DEF FlightMove

\* What the phone sends is its running registration's.
LEMMA SentByOwner ==
    ASSUME HonestInv, NEW r \in Reg, Send(r)
    PROVE  /\ r = key /\ meta = key /\ phase = "idle"
           /\ \E b \in PushBatches :
                 /\ flight'[r] = [stage |-> "sent", dev |-> r, tok |-> r,
                                  ops |-> [i \in DOMAIN b |-> b[i].op], results |-> <<>>]
                 /\ \A i \in DOMAIN b : b[i] \in rows /\ b[i].st = "local" /\ b[i].op.dev = r
  <1> USE DEF HonestInv
  <1>1. r = meta /\ phase = "idle" /\ r # 0
    BY RegIsNat DEF Send, Running
  <1>2. r = key /\ token = r
    BY <1>1 DEF Names
  <1>3. PICK b \in PushBatches :
           flight' = [flight EXCEPT ![r] =
               [stage |-> "sent", dev |-> r, tok |-> r,
                ops |-> [i \in DOMAIN b |-> b[i].op], results |-> <<>>]]
    BY <1>2 DEF Send
  <1>4. \A i \in DOMAIN b : b[i] \in rows /\ b[i].st = "local" /\ b[i].op.dev = r
    <2>1. LocalIsOwn
      BY <1>1, <1>2 DEF LocalOwner
    <2>2. \A i \in DOMAIN b : b[i] \in rows /\ b[i].st = "local"
      BY BatchIsSendable DEF DurableInv, RowsInv, RowTypes
    <2> QED BY <1>2, <2>1, <2>2 DEF LocalIsOwn
  <1> DEFINE f == [stage |-> "sent", dev |-> r, tok |-> r,
                   ops |-> [i \in DOMAIN b |-> b[i].op], results |-> <<>>]
  <1>5. flight'[r] = f
    <2>1. WireTypes /\ flight' = [flight EXCEPT ![r] = f]
      BY <1>3 DEF DurableInv
    <2> HIDE DEF f
    <2> QED BY <2>1, OneMoves
  <1> QED BY <1>1, <1>2, <1>4, <1>5

\* Every step keeps each op with the registration that signed it.
LEMMA OwnersKept ==
    ASSUME HonestInv, Untroubled, [Next]_vars
    PROVE  WireOwner'
  <1> USE DEF HonestInv
  <1>1. ASSUME NEW r \in Reg, flight'[r] # Idle
        PROVE  /\ r = key' /\ meta' = key' /\ phase' = "idle"
               /\ flight'[r].dev = r /\ flight'[r].tok = r
               /\ \A o \in OpsOf(flight'[r].ops) : o.dev = r
               /\ flight'[r].stage = "unauthorized" => status'[r] = "revoked"
    <2>0. key' = key /\ meta' = meta /\ phase' = "idle"
      BY <1>1, SenderStays
    <2>1. CASE Send(r)
      <3>1. PICK b \in PushBatches :
               /\ flight'[r] = [stage |-> "sent", dev |-> r, tok |-> r,
                                ops |-> [i \in DOMAIN b |-> b[i].op], results |-> <<>>]
               /\ \A i \in DOMAIN b : b[i] \in rows /\ b[i].st = "local" /\ b[i].op.dev = r
        BY <2>1, SentByOwner
      <3> QED BY <2>0, <2>1, <3>1, SentByOwner DEF OpsOf
    <2>2. CASE flight[r] # Idle /\ SamePush(flight'[r], flight[r])
      <3>1. flight'[r].stage = "unauthorized" => status'[r] = "revoked"
        <4>1. CASE flight[r].stage = "unauthorized"
          BY <2>2, <4>1, HeadsGrow DEF WireOwner
        <4>2. CASE status[r] = "revoked"
          BY <4>2, HeadsGrow
        <4> QED BY <1>1, <2>1, <4>1, <4>2, FlightMovesSo DEF FlightMove
      <3> QED BY <2>0, <2>2, <3>1 DEF WireOwner, SamePush
    <2> QED BY <1>1, <2>1, <2>2, FlightMovesSo DEF FlightMove, SamePush
  <1>2. ASSUME NEW s \in stale'
        PROVE  s.dev = s.tok /\ \A o \in OpsOf(s.ops) : o.dev = s.dev
    BY StaleMovesSo DEF WireOwner, SamePush
  <1>3. ASSUME NEW o \in TxOps' PROVE o.dev = tx'.dev
    <2>0. TxUsed' /\ o \in OpsOf(tx'.ops)
      BY <1>3 DEF TxOps
    <2>1. CASE TxUsed /\ tx'.ops = tx.ops /\ tx'.dev = tx.dev
      BY <2>0, <2>1 DEF TxOps, WireOwner
    <2>2. CASE UNCHANGED tx
      BY <1>3, <2>2 DEF TxOps, TxUsed, WireOwner
    <2>3. CASE tx' = Server!NoTx
      BY <2>0, <2>3 DEF TxUsed, Server!NoTx
    <2>4. ASSUME NEW d \in Reg, NEW ops \in Seq(Op), PushOpens(d, ops) PROVE o.dev = tx'.dev
      <3>1. tx'.dev = d /\ tx'.ops = ops
        BY <2>4 DEF PushOpens, Server!Opened
      <3> QED BY <2>0, <2>4, <3>1 DEF PushOpens
    <2>5. PushGoesOn => TxUsed /\ tx'.ops = tx.ops /\ tx'.dev = tx.dev
      BY DEF PushGoesOn, TxUsed, Server!IsOpen
    <2> QED BY PushMovesSo, <2>1, <2>2, <2>3, <2>4, <2>5
  <1> QED BY <1>1, <1>2, <1>3 DEF WireOwner

-----------------------------------------------------------------------------
(* Answers.                                                                *)

\* An op that is judged is answered for good: it lies behind the head.
LEMMA AnswerOfCur ==
    ASSUME HonestInv, Server!IsOpen, tx.stage = "judging", tx.pos <= Len(tx.ops),
           JudgedAgain \/ JudgedNext
    PROVE  /\ tx'.head.seq \in Nat /\ tx.head.seq <= tx'.head.seq /\ Server!Cur.seq <= tx'.head.seq
           /\ \E res : /\ tx'.results = Append(tx.results, res) /\ res.id = Server!Cur.id
                       /\ res.code \in {"none"} \cup Server!Verdicts
  <1>1. Server!Cur.seq \in Nat \ {0} /\ tx.head.seq \in Nat
    BY CurIsOnChain
  <1>2. CASE JudgedAgain
    <2>1. PICK res :
             /\ JudgedTo(tx.head, tx.log, tx.refused, tx.known, res)
             /\ \/ Server!Duplicate /\ res = Server!Result("duplicate", "none")
                \/ /\ ~Server!Duplicate
                   /\ \E k \in tx.known : /\ k.id = Server!Cur.id /\ k.hash = Server!Cur.hash
                                          /\ res = Server!Result("rejected", k.code)
      BY <1>2 DEF JudgedAgain
    <2>2. \A k \in tx.known : k.code \in Server!Verdicts
      <3>1. tx.known \subseteq [id : {o.id : o \in Op}, hash : SP!Hash, code : SP!Verdicts]
        BY WorldIsTyped DEF SP!OpenTx, HonestInv
      <3> QED BY <3>1 DEF SP!Verdicts, Server!Verdicts
    <2>3. res.id = Server!Cur.id /\ res.code \in {"none"} \cup Server!Verdicts
      BY <2>1, <2>2 DEF Server!Result
    <2> QED BY <1>1, <1>2, <2>1, <2>3 DEF JudgedAgain, JudgedTo
  <1>3. CASE JudgedNext
    <2>1. PICK res : /\ tx'.results = Append(tx.results, res) /\ tx'.head = Server!HeadAtCur
                     /\ \E code \in {"none"} \cup Server!Verdicts : \E st :
                           res = Server!Result(st, code)
      BY <1>3 DEF JudgedNext, JudgedNew, JudgedLogged, JudgedRefused, JudgedTo, Server!Verdicts
    <2>2. res.id = Server!Cur.id /\ res.code \in {"none"} \cup Server!Verdicts
      BY <2>1 DEF Server!Result
    <2> QED BY <1>1, <1>3, <2>1, <2>2 DEF JudgedNext, Server!HeadAtCur
  <1> QED BY <1>2, <1>3

\* The answers of the open push, one per op it has judged.
LEMMA TxAnswersStay ==
    ASSUME HonestInv, PushGoesOn
    PROVE  \A i \in DOMAIN tx'.results :
              i \in DOMAIN tx'.ops /\ FairAnswer(status[tx.dev], tx'.ops[i], tx'.results[i], tx'.head.seq)
  <1> USE DEF HonestInv
  <1>1. Server!IsOpen /\ tx'.ops = tx.ops /\ tx \in SP!OpenTx /\ tx.ops \in Seq(Op)
    BY WorldIsTyped DEF PushGoesOn
  <1>2. tx.results \in Seq(SP!OpResult) /\ tx.head.seq \in Nat
    BY <1>1 DEF SP!OpenTx, SP!ChainHead
  <1>3. ASSUME NEW i \in DOMAIN tx.results, tx'.head.seq \in Nat, tx.head.seq <= tx'.head.seq
        PROVE  i \in DOMAIN tx.ops /\ FairAnswer(status[tx.dev], tx.ops[i], tx.results[i], tx'.head.seq)
    <2>1. i \in DOMAIN tx.ops /\ FairAnswer(status[tx.dev], tx.ops[i], tx.results[i], tx.head.seq)
      BY <1>1 DEF FairAnswers
    <2>2. tx.ops[i].seq \in Nat
      <3>1. tx.ops[i] \in Op
        BY <1>1, <2>1
      <3> QED BY <3>1 DEF Op
    <2>3. tx.ops[i].seq <= tx.head.seq => tx.ops[i].seq <= tx'.head.seq
      BY <1>2, <1>3, <2>2
    <2> QED BY <2>1, <2>3 DEF FairAnswer
  <1>4. CASE tx'.results = tx.results /\ tx'.head = tx.head
    BY <1>1, <1>2, <1>3, <1>4
  <1>5. CASE tx.stage = "judging" /\ tx.pos <= Len(tx.ops) /\ (JudgedAgain \/ JudgedNext)
    <2>1. /\ tx'.head.seq \in Nat /\ tx.head.seq <= tx'.head.seq /\ Server!Cur.seq <= tx'.head.seq
          /\ \E res : /\ tx'.results = Append(tx.results, res) /\ res.id = Server!Cur.id
                      /\ res.code \in {"none"} \cup Server!Verdicts
      BY <1>1, <1>5, AnswerOfCur
    <2>2. Len(tx.results) = tx.pos - 1 /\ tx.pos \in DOMAIN tx.ops /\ tx.pos \in Nat
      BY <1>1, <1>5, CurIsOnChain DEF DurableInv, ServerInv, SP!AnswersInv
    <2>3. PICK res : /\ tx'.results = Append(tx.results, res) /\ res.id = Server!Cur.id
                     /\ res.code \in {"none"} \cup Server!Verdicts
      BY <2>1
    <2>4. FairAnswer(status[tx.dev], tx.ops[tx.pos], res, tx'.head.seq)
      BY <2>1, <2>3 DEF FairAnswer, Server!Cur
    <2>5. /\ DOMAIN tx'.results = 1..tx.pos
          /\ \A i \in 1..tx.pos : tx'.results[i] = IF i = tx.pos THEN res ELSE tx.results[i]
          /\ \A i \in 1..tx.pos : i # tx.pos => i \in DOMAIN tx.results
      BY <1>2, <2>2, <2>3
    <2> QED BY <1>1, <1>3, <2>1, <2>2, <2>4, <2>5
  <1> QED BY <1>4, <1>5 DEF PushGoesOn

\* The op of a flight is an op, and its registration one of the phone's.
LEMMA FlightOpIsTyped ==
    ASSUME DurableInv, NEW r \in Reg, flight[r] # Idle, NEW o \in OpsOf(flight[r].ops)
    PROVE  o \in Op /\ o.seq \in Nat
  <1>1. flight[r].ops \in Seq(Op)
    BY WorldIsTyped
  <1>2. o \in Op
    BY <1>1 DEF OpsOf
  <1> QED BY <1>2 DEF Op

\* Every step keeps the answers under way fair.
LEMMA AnswersKept ==
    ASSUME HonestInv, Untroubled, [Next]_vars
    PROVE  FairAnswers'
  <1> USE DEF HonestInv
  <1>0. \A r \in Reg : head[r].seq \in Nat /\ head'[r].seq \in Nat /\ head[r].seq <= head'[r].seq
    BY HeadsGrow
  <1>00. \A r \in Reg : status[r] = "revoked" => status'[r] = "revoked"
    BY HeadsGrow
  <1>1. ASSUME NEW r \in Reg, flight'[r].stage = "answered", NEW i \in DOMAIN flight'[r].results
        PROVE  \E o \in OpsOf(flight'[r].ops) :
                  FairAnswer(status'[r], o, flight'[r].results[i], head'[r].seq)
    <2>0. flight'[r] # Idle
      BY <1>1 DEF Idle
    <2>1. CASE /\ flight[r].stage = "answered" /\ flight'[r].ops = flight[r].ops
               /\ \E j \in DOMAIN flight[r].results : flight'[r].results[i] = flight[r].results[j]
      <3>1. PICK j \in DOMAIN flight[r].results : flight'[r].results[i] = flight[r].results[j]
        BY <2>1
      <3>2. PICK o \in OpsOf(flight[r].ops) : FairAnswer(status[r], o, flight[r].results[j], head[r].seq)
        BY <2>1 DEF FairAnswers
      <3>3. o.seq \in Nat /\ o \in OpsOf(flight'[r].ops)
        BY <2>1, <3>2, FlightOpIsTyped DEF Idle
      <3> DEFINE res == flight[r].results[j]
      <3>4. res.id = o.id /\ res.code \in {"none", "DEVICE_REVOKED"} \cup Server!Verdicts
        BY <3>2 DEF FairAnswer
      <3>5. o.seq <= head'[r].seq \/ (res.status = "rejected" /\ status'[r] = "revoked")
        <4>1. o.seq <= head[r].seq \/ (res.status = "rejected" /\ status[r] = "revoked")
          BY <3>2 DEF FairAnswer
        <4>2. o.seq <= head[r].seq => o.seq <= head'[r].seq
          BY <1>0, <3>3
        <4> QED BY <1>00, <4>1, <4>2
      <3>6. flight'[r].results[i] = res
        BY <3>1
      <3> HIDE DEF res
      <3> QED BY <3>3, <3>4, <3>5, <3>6 DEF FairAnswer
    <2>2. CASE /\ flight[r].stage = "judging" /\ CommitPush /\ flight'[r].results = tx.results
               /\ flight'[r].ops = flight[r].ops
      <3>1. Server!IsOpen /\ tx.dev = r /\ tx.ops = flight[r].ops
        BY <2>2 DEF JudgedIsOpen, Judging, CommitPush, Server!Commit, Server!IsOpen
      <3>2. i \in DOMAIN tx.ops /\ FairAnswer(status[r], tx.ops[i], tx.results[i], tx.head.seq)
        BY <1>1, <2>2, <3>1 DEF FairAnswers
      <3>3. head'[r] = tx.head /\ status' = status
        BY <2>2, <3>1, ServerTypes DEF DurableInv, SP!TypeOK, CommitPush, Server!Commit
      <3>4. tx.ops[i] \in OpsOf(flight'[r].ops)
        BY <2>2, <3>1, <3>2 DEF OpsOf
      <3> QED BY <2>2, <3>2, <3>3, <3>4 DEF FairAnswer
    <2>3. CASE /\ flight[r].stage = "answered" /\ flight[r].results # <<>> /\ flight[r] # Idle
               /\ flight'[r].results = Tail(flight[r].results) /\ flight'[r].ops = flight[r].ops
      <3>1. flight[r].results \in Seq(SP!OpResult)
        BY <2>3 DEF DurableInv, WireTypes, Flight
      <3>2. i + 1 \in DOMAIN flight[r].results /\ flight'[r].results[i] = flight[r].results[i + 1]
        BY <1>1, <2>3, <3>1
      <3> QED BY <2>1, <2>3, <3>2
    <2>4. ~Send(r)
      <3> SUFFICES ASSUME Send(r) PROVE FALSE
        OBVIOUS
      <3>1. PICK b \in PushBatches :
               flight'[r] = [stage |-> "sent", dev |-> r, tok |-> r,
                             ops |-> [k \in DOMAIN b |-> b[k].op], results |-> <<>>]
        BY SentByOwner
      <3>2. flight'[r].stage = "sent"
        BY <3>1
      <3> QED BY <1>1, <3>2
    <2>5. CASE flight'[r] = flight[r]
      BY <1>1, <2>1, <2>5
    <2> QED BY <1>1, <2>0, <2>1, <2>2, <2>3, <2>4, <2>5, FlightMovesSo DEF FlightMove, SamePush
  <1>2. ASSUME Server!IsOpen', NEW i \in DOMAIN tx'.results
        PROVE  /\ i \in DOMAIN tx'.ops
               /\ FairAnswer(status'[tx'.dev], tx'.ops[i], tx'.results[i], tx'.head.seq)
    <2>1. CASE UNCHANGED tx
      <3>1. Server!IsOpen /\ tx.dev \in Reg
        BY <1>2, <2>1, WorldIsTyped DEF Server!IsOpen, SP!OpenTx
      <3>2. i \in DOMAIN tx.ops /\ FairAnswer(status[tx.dev], tx.ops[i], tx.results[i], tx.head.seq)
        BY <1>2, <2>1, <3>1 DEF FairAnswers
      <3> QED BY <1>00, <2>1, <3>1, <3>2 DEF FairAnswer
    <2>2. CASE PushGoesOn /\ JudgeStep
      <3>1. tx'.dev = tx.dev /\ status' = status
        BY <2>2, JudgingIsFair DEF Server!tables
      <3>2. i \in DOMAIN tx'.ops /\ FairAnswer(status[tx.dev], tx'.ops[i], tx'.results[i], tx'.head.seq)
        BY <1>2, <2>2, TxAnswersStay
      <3> QED BY <3>1, <3>2 DEF FairAnswer
    <2>3. ASSUME NEW d \in Reg, NEW ops \in Seq(Op), PushOpens(d, ops)
          PROVE  /\ i \in DOMAIN tx'.ops
                 /\ FairAnswer(status'[tx'.dev], tx'.ops[i], tx'.results[i], tx'.head.seq)
      <3>1. /\ tx'.dev = d /\ tx'.ops = ops /\ i \in DOMAIN ops /\ status[d] = "revoked"
            /\ tx'.results[i] = [id |-> ops[i].id, status |-> "rejected", code |-> "DEVICE_REVOKED"]
        <4>1. /\ tx'.dev = d /\ tx'.ops = ops
              /\ \A k \in DOMAIN tx'.results :
                    /\ k \in DOMAIN ops /\ status[d] = "revoked"
                    /\ tx'.results[k] = [id |-> ops[k].id, status |-> "rejected",
                                         code |-> "DEVICE_REVOKED"]
          <5>1. PICK careful \in BOOLEAN : tx' = Server!Opened(d, ops, careful)
            BY <2>3 DEF PushOpens
          <5>2. DOMAIN ops = 1..Len(ops)
            OBVIOUS
          <5> QED BY <5>1, <5>2 DEF Server!Opened, Server!RevokedAnswer
        <4> QED BY <1>2, <4>1
      <3>2. status'[d] = "revoked"
        BY <1>00, <3>1
      <3>3. /\ tx'.results[i].id = ops[i].id /\ tx'.results[i].status = "rejected"
            /\ tx'.results[i].code = "DEVICE_REVOKED"
        BY <3>1
      <3> QED BY <3>1, <3>2, <3>3 DEF FairAnswer
    <2>4. tx' # Server!NoTx /\ tx'.stage # "rerun"
      BY <1>2 DEF Server!IsOpen, Server!NoTx
    <2> QED BY PushMovesSo, <2>1, <2>2, <2>3, <2>4
  <1>3. /\ \A r \in Reg : flight'[r].stage = "answered" =>
              \A i \in DOMAIN flight'[r].results :
                 \E o \in OpsOf(flight'[r].ops) : FairAnswer(status'[r], o, flight'[r].results[i], head'[r].seq)
        /\ Server!IsOpen' =>
              \A i \in DOMAIN tx'.results :
                 /\ i \in DOMAIN tx'.ops
                 /\ FairAnswer(status'[tx'.dev], tx'.ops[i], tx'.results[i], tx'.head.seq)
    BY <1>1, <1>2
  <1> QED BY <1>3 DEF FairAnswers, FairAnswer

-----------------------------------------------------------------------------
(* What is settled.                                                        *)

\* What the phone marks from a fair answer lies behind the head, or was refused
\* to a revoked registration.
LEMMA MarksAreSettled ==
    ASSUME HonestInv, NEW r \in Reg, MarkResult(r), NEW v \in rows', v.st # "local"
    PROVE  \/ v.op.seq <= head[v.op.dev].seq
           \/ v.st = "rejected" /\ status[v.op.dev] = "revoked"
  <1> USE DEF HonestInv
  <1> DEFINE res == Head(flight[r].results)
  <1>1. flight[r] \in Flight /\ flight[r].stage = "answered" /\ flight[r].results # <<>> /\ flight[r] # Idle
    BY DEF MarkResult, DurableInv, WireTypes, Idle
  <1>2. 1 \in DOMAIN flight[r].results /\ res = flight[r].results[1]
    BY <1>1 DEF Flight
  <1>3. PICK o \in OpsOf(flight[r].ops) : FairAnswer(status[r], o, flight[r].results[1], head[r].seq)
    BY <1>1, <1>2 DEF FairAnswers
  <1>4. o.dev = r /\ r = key /\ o \in OnWire
    BY <1>1 DEF WireOwner, OnWire, FlightOps
  <1>5. PICK u \in rows : u.op = o
    BY <1>4 DEF WireIsHeld, RowOps
  <1>6. /\ res.id = o.id
        /\ o.seq <= head[r].seq \/ (res.status = "rejected" /\ status[r] = "revoked")
    BY <1>2, <1>3 DEF FairAnswer
  <1> HIDE DEF res
  <1>7. PICK f \in [rows -> Row] :
           /\ rows' = {f[w] : w \in rows}
           /\ \A w \in rows : /\ f[w].op = w.op
                              /\ \/ f[w] = w
                                 \/ w.op.id = res.id /\ f[w].st = NextStatus(w.st, res)
    BY MarksMoveStates DEF DurableInv, RowsInv, res
  <1>8. PICK w \in rows : v = f[w]
    BY <1>7
  <1>9. CASE f[w] = w
    BY <1>8, <1>9 DEF SettledBehindHead
  <1>10. CASE w.op.id = res.id /\ f[w].st = NextStatus(w.st, res)
    <2>1. w = u
      BY <1>5, <1>6, <1>10 DEF IdsApart
    <2>2. v.op = o /\ v.st = NextStatus(w.st, res)
      BY <1>5, <1>7, <1>8, <1>10, <2>1
    <2>3. v.st = "synced" => res.status # "rejected"
      BY <2>2 DEF NextStatus
    <2>4. v.st \in {"local", "synced", "rejected"}
      BY <1>7, <1>8 DEF Row
    <2> QED BY <1>4, <1>6, <2>2, <2>3, <2>4
  <1> QED BY <1>7, <1>9, <1>10

\* Only an answer settles a row.
LEMMA SettledByAnswer ==
    ASSUME DurableInv, [Next]_vars, NEW v \in rows', v.st # "local"
    PROVE  v \in rows \/ \E r \in Reg : MarkResult(r)
  <1> USE DEF DurableInv, RowsInv
  <1>1. CASE CommitCommand
    BY <1>1 DEF CommitCommand, OpenedIsNew
  <1>2. CASE EmitGenesis
    BY <1>2 DEF EmitGenesis, LocalRow
  <1>3. CASE CarryOver
    <2>1. draft \in Reg /\ key \in Reg
      BY <1>3, RegIsNat DEF CarryOver, IdentityInv
    <2>2. PICK s \in CarryOrders : rows' \subseteq rows \cup Resigned(s)
      BY <1>3 DEF CarryOver
    <2>3. Resigned(s) = {LocalRow(CarriedOp(s, i)) : i \in 1..(Len(s) + 1)}
      BY <2>1, ResignedRows DEF RowTypes
    <2> QED BY <2>2, <2>3 DEF LocalRow
  <1>4. ASSUME NEW r \in Reg, BeginCommand(r) PROVE v \in rows
    BY <1>4 DEF BeginCommand
  <1> QED BY <1>1, <1>2, <1>3, <1>4, TablesMoveSo

\* Every step keeps what is settled behind its head.
LEMMA SettledKept ==
    ASSUME HonestInv, [Next]_vars
    PROVE  SettledBehindHead'
  <1> USE DEF HonestInv
  <1>1. /\ \A r \in Reg : head[r].seq \in Nat /\ head'[r].seq \in Nat /\ head[r].seq <= head'[r].seq
    BY HeadsGrow
  <1>2. \A r \in Reg : status[r] = "revoked" => status'[r] = "revoked"
    BY HeadsGrow
  <1>3. ASSUME NEW v \in rows', v.st # "local"
        PROVE  \/ v.op.seq <= head'[v.op.dev].seq
               \/ v.st = "rejected" /\ status'[v.op.dev] = "revoked"
    <2>1. v.op.dev \in Reg /\ v.op.seq \in Nat
      BY RowsKept DEF RowsInv, RowTypes, Row, Op
    <2>2. \/ v.op.seq <= head[v.op.dev].seq
          \/ v.st = "rejected" /\ status[v.op.dev] = "revoked"
      BY <1>3, SettledByAnswer, MarksAreSettled DEF SettledBehindHead
    <2> QED BY <1>1, <1>2, <2>1, <2>2
  <1> QED BY <1>3 DEF SettledBehindHead

-----------------------------------------------------------------------------
(* The server's transaction.                                               *)

\* Every step keeps the record of anomalies empty.
LEMMA AnomaliesKept ==
    ASSUME HonestInv, Untroubled, [Next]_vars
    PROVE  NoAnomaly'
  <1> USE DEF HonestInv
  <1>1. anomalies' = {}
    <2>1. CASE Server!Commit
      BY <2>1 DEF Server!Commit, Server!IsOpen, NoAnomaly
    <2>2. CASE ~Server!Commit
      <3>1. anomalies' = anomalies
        BY <2>2, OnlyCommitWrites
      <3> QED BY <3>1 DEF NoAnomaly
    <2> QED BY <2>1, <2>2
  <1>2. Server!IsOpen' => ~tx'.halted /\ tx'.anomalies = {}
    <2>1. CASE UNCHANGED tx
      BY <2>1 DEF NoAnomaly, Server!IsOpen
    <2>2. CASE PushGoesOn
      BY <2>2 DEF NoAnomaly, PushGoesOn
    <2>3. CASE tx' = Server!NoTx \/ tx'.stage = "rerun"
      BY <2>3 DEF Server!NoTx, Server!IsOpen
    <2>4. ASSUME NEW d \in Reg, NEW ops \in Seq(Op), PushOpens(d, ops)
          PROVE  ~tx'.halted /\ tx'.anomalies = {}
      BY <2>4 DEF PushOpens, Server!Opened, NoAnomaly
    <2> QED BY PushMovesSo, <2>1, <2>2, <2>3, <2>4
  <1> QED BY <1>1, <1>2 DEF NoAnomaly

\* When the transaction ends, no flight is left judging.
LEMMA JudgedKept ==
    ASSUME HonestInv, Untroubled, [Next]_vars
    PROVE  JudgedIsOpen'
  <1> USE DEF HonestInv
  <1> SUFFICES ASSUME NEW r \in Reg, flight'[r].stage = "judging"
               PROVE  TxUsed' /\ tx'.dev = r /\ tx'.ops = flight'[r].ops
    BY DEF JudgedIsOpen, Judging
  <1>1. \/ /\ flight'[r] = flight[r] /\ flight[r].stage = "judging"
           /\ TxUsed /\ tx.dev = r /\ tx.ops = flight[r].ops
        \/ BeginPush(r) /\ flight[r].stage = "queued" /\ flight'[r].ops = flight[r].ops
    <2>1. ~Send(r)
      <3> SUFFICES ASSUME Send(r) PROVE FALSE
        OBVIOUS
      <3>1. PICK b \in PushBatches :
               flight'[r] = [stage |-> "sent", dev |-> r, tok |-> r,
                             ops |-> [k \in DOMAIN b |-> b[k].op], results |-> <<>>]
        BY SentByOwner
      <3>2. flight'[r].stage = "sent"
        BY <3>1
      <3> QED BY <3>2
    <2>2. flight'[r] # Idle
      BY DEF Idle
    <2> QED BY <2>1, <2>2, FlightMovesSo DEF FlightMove, SamePush, JudgedIsOpen, Judging
  <1>2. CASE BeginPush(r) /\ flight[r].stage = "queued" /\ flight'[r].ops = flight[r].ops
    <2>1. flight[r].tok = r
      BY <1>2 DEF WireOwner, Idle
    <2>2. tx' = Server!Opened(flight[r].tok, flight[r].ops, FALSE)
      BY <1>2 DEF BeginPush, Server!Begin
    <2> QED BY <1>2, <2>1, <2>2 DEF Server!Opened, TxUsed
  <1>3. CASE /\ flight'[r] = flight[r] /\ flight[r].stage = "judging"
             /\ TxUsed /\ tx.dev = r /\ tx.ops = flight[r].ops
    <2>1. CASE UNCHANGED tx
      BY <1>3, <2>1 DEF TxUsed
    <2>2. CASE JudgeStep
      BY <1>3, <2>2, JudgingIsFair
    <2>3. CASE CommitPush
      <3>1. flight'[r].stage = "answered"
        <4>1. flight'[r] = [flight[r] EXCEPT !.stage = "answered", !.results = tx.results]
          BY <1>3, <2>3 DEF CommitPush, Judging
        <4>2. flight[r] \in Flight
          BY <1>3 DEF DurableInv, WireTypes, Idle
        <4> QED BY <4>1, <4>2 DEF Flight
      <3> QED BY <3>1
    <2>4. CASE AbortPush
      BY <1>3, <2>4 DEF AbortPush, Judging, Idle
    <2>5. ASSUME NEW q \in Reg, BeginPush(q) PROVE FALSE
      BY <1>3, <2>5 DEF BeginPush, Server!Begin, TxUsed, Server!NoTx
    <2>6. ASSUME NEW s \in stale, BeginStale(s) PROVE FALSE
      BY <1>3, <2>6 DEF BeginStale, Server!Begin, TxUsed, Server!NoTx
    <2> QED BY TxMovesSo, <2>1, <2>2, <2>3, <2>4, <2>5, <2>6
  <1> QED BY <1>1, <1>2, <1>3

-----------------------------------------------------------------------------
(* Batches have no holes.                                                  *)

\* A batch that was closed under its chain stays so while the head grows.
LEMMA ClosedGrows ==
    ASSUME NEW ops \in Seq(Op), NEW k, NEW n \in Nat, NEW m \in Nat, n <= m, Closed(ops, k, n)
    PROVE  Closed(ops, k, m)
  <1>1. \A i \in DOMAIN ops : ops[i].seq \in Nat
    <2> TAKE i \in DOMAIN ops
    <2>1. ops[i] \in Op
      OBVIOUS
    <2> QED BY <2>1 DEF Op
  <1> QED BY <1>1 DEF Closed

\* After an op is judged, the rest follows on the head it leaves.
LEMMA ClosedAdvances ==
    ASSUME NEW ops \in Seq(Op), NEW k \in Nat, NEW n \in Nat, NEW m \in Nat, n <= m,
           Closed(ops, k, n), ops[k].seq <= m
    PROVE  Closed(ops, k + 1, m)
  <1>1. \A i \in DOMAIN ops : ops[i].seq \in Nat
    <2> TAKE i \in DOMAIN ops
    <2>1. ops[i] \in Op
      OBVIOUS
    <2> QED BY <2>1 DEF Op
  <1>2. ASSUME NEW i \in DOMAIN ops, i >= k + 1
        PROVE  \/ ops[i].seq <= m + 1
               \/ \E j \in DOMAIN ops : k + 1 <= j /\ j < i /\ ops[j].seq = ops[i].seq - 1
    <2>1. DOMAIN ops \subseteq Nat
      OBVIOUS
    <2>2. \/ ops[i].seq <= n + 1
          \/ \E j \in DOMAIN ops : k <= j /\ j < i /\ ops[j].seq = ops[i].seq - 1
      BY <1>2, <2>1 DEF Closed
    <2>3. CASE ops[i].seq <= n + 1
      BY <1>1, <2>3
    <2>4. CASE \E j \in DOMAIN ops : k <= j /\ j < i /\ ops[j].seq = ops[i].seq - 1
      <3>1. PICK j \in DOMAIN ops : k <= j /\ j < i /\ ops[j].seq = ops[i].seq - 1
        BY <2>4
      <3>2. CASE j = k
        BY <1>1, <3>1, <3>2
      <3>3. CASE j # k
        BY <2>1, <3>1, <3>3
      <3> QED BY <3>2, <3>3
    <2> QED BY <2>2, <2>3, <2>4
  <1> QED BY <1>2 DEF Closed

\* A batch the phone reads, in seq order and from the first local row on, has
\* no hole after the head, unless its registration is revoked.
LEMMA SentIsClosed ==
    ASSUME HonestInv, NEW r \in Reg, r = key, status[r] # "revoked", NEW b \in PushBatches,
           \A i \in DOMAIN b : b[i] \in rows /\ b[i].op.dev = r
    PROVE  Closed([i \in DOMAIN b |-> b[i].op], 1, head[r].seq)
  <1> USE DEF HonestInv
  <1>1. PICK n \in 1..BatchSize : b \in FirstRows(n)
    BY DEF PushBatches
  <1>2. /\ DOMAIN b = 1..n /\ n \in Nat
        /\ \A i, j \in 1..n : i < j => b[i].op.seq <= b[j].op.seq
        /\ \A w \in LocalRows : \/ \E i \in 1..n : b[i] = w
                               \/ \A i \in 1..n : b[i].op.seq <= w.op.seq
    BY <1>1, SyncConstants DEF FirstRows
  <1>3. \A w \in rows : w.op.seq \in Nat \ {0} /\ w.op.dev \in Reg
    BY DEF DurableInv, RowsInv, RowTypes, Row, Op
  <1>4. head[r].seq \in Nat
    BY ServerTypes DEF DurableInv, SP!TypeOK, SP!ChainHead
  <1>5. 1 \in 1..n => Free
    BY <1>1 DEF FirstRows, LocalRows, ReadableRows
  <1>6. ASSUME NEW i \in 1..n, ~(b[i].op.seq <= head[r].seq + 1)
        PROVE  \E j \in 1..n : 1 <= j /\ j < i /\ b[j].op.seq = b[i].op.seq - 1
    <2>1. b[i] \in rows /\ b[i].op.dev = r /\ b[i].op.seq # 1
      BY <1>2, <1>3, <1>4, <1>6
    <2>2. b[i].op \in HeldOps
      BY <2>1 DEF HeldOps
    <2>3. PICK p \in RowOps : p.dev = r /\ p.seq = b[i].op.seq - 1
      BY <2>1, <2>2 DEF NoHole
    <2>4. PICK v \in rows : v.op = p
      BY DEF RowOps
    <2>5. v.st = "local"
      <3>1. ~(v.op.seq <= head[r].seq)
        BY <1>3, <1>4, <1>6, <2>1, <2>3, <2>4
      <3> QED BY <2>3, <2>4, <3>1 DEF SettledBehindHead
    <2>6. v \in LocalRows
      BY <1>2, <1>5, <2>5 DEF LocalRows, ReadableRows
    <2>7. v.op.seq < b[i].op.seq
      BY <1>3, <2>1, <2>3, <2>4
    <2>8. PICK j \in 1..n : b[j] = v
      BY <1>2, <1>3, <2>1, <2>6, <2>7
    <2>9. j < i
      <3>1. j = i \/ i < j \/ j < i
        BY <1>2
      <3>2. i < j => b[i].op.seq <= v.op.seq
        BY <1>2, <2>8
      <3> QED BY <1>3, <2>1, <2>7, <2>8, <3>1, <3>2
    <2> QED BY <1>2, <2>3, <2>4, <2>8, <2>9
  <1> DEFINE ops == [i \in DOMAIN b |-> b[i].op]
  <1>7. DOMAIN ops = 1..n /\ \A i \in 1..n : ops[i] = b[i].op
    BY <1>2
  <1> HIDE DEF ops
  <1>8. Closed(ops, 1, head[r].seq)
    BY <1>6, <1>7 DEF Closed
  <1> QED BY <1>8 DEF ops

\* Every step keeps the batches under way closed under their chain.
LEMMA BatchesKept ==
    ASSUME HonestInv, Untroubled, [Next]_vars
    PROVE  BatchesClosed'
  <1> USE DEF HonestInv
  <1>0. \A r \in Reg : head[r].seq \in Nat /\ head'[r].seq \in Nat /\ head[r].seq <= head'[r].seq
    BY HeadsGrow
  <1>00. \A r \in Reg : status[r] = "revoked" => status'[r] = "revoked"
    BY HeadsGrow
  <1>1. ASSUME NEW r \in Reg, NEW ops \in Seq(Op),
               status[r] = "revoked" \/ Closed(ops, 1, head[r].seq)
        PROVE  status'[r] = "revoked" \/ Closed(ops, 1, head'[r].seq)
    BY <1>0, <1>00, <1>1, ClosedGrows
  <1>2. ASSUME NEW r \in Reg, flight'[r].stage \in {"sent", "queued"}
        PROVE  status'[r] = "revoked" \/ Closed(flight'[r].ops, 1, head'[r].seq)
    <2>0. flight'[r] # Idle
      BY <1>2 DEF Idle
    <2>1. CASE Send(r)
      <3>1. PICK b \in PushBatches :
               /\ flight'[r] = [stage |-> "sent", dev |-> r, tok |-> r,
                                ops |-> [i \in DOMAIN b |-> b[i].op], results |-> <<>>]
               /\ \A i \in DOMAIN b : b[i] \in rows /\ b[i].st = "local" /\ b[i].op.dev = r
        BY <2>1, SentByOwner
      <3>2. flight'[r].ops = [i \in DOMAIN b |-> b[i].op] /\ r = key
        BY <2>1, <3>1, SentByOwner
      <3>3. [i \in DOMAIN b |-> b[i].op] \in Seq(Op)
        BY BatchIsSendable, ServerConstants, SP!BatchesAreSequences DEF DurableInv, RowsInv, RowTypes
      <3>4. status[r] = "revoked" \/ Closed([i \in DOMAIN b |-> b[i].op], 1, head[r].seq)
        BY <3>1, <3>2, SentIsClosed
      <3> QED BY <1>1, <3>2, <3>3, <3>4
    <2>2. CASE flight[r].stage \in {"sent", "queued"} /\ flight'[r].ops = flight[r].ops
      <3>1. flight[r].ops \in Seq(Op)
        BY <2>2, WorldIsTyped DEF Idle
      <3>2. status[r] = "revoked" \/ Closed(flight[r].ops, 1, head[r].seq)
        BY <2>2 DEF BatchesClosed
      <3> QED BY <1>1, <2>2, <3>1, <3>2
    <2> QED BY <1>2, <2>0, <2>1, <2>2, FlightMovesSo DEF FlightMove, SamePush
  <1>3. ASSUME NEW s \in stale'
        PROVE  status'[s.dev] = "revoked" \/ Closed(s.ops, 1, head'[s.dev].seq)
    <2>1. CASE \E z \in stale : SamePush(s, z)
      <3>1. PICK z \in stale : SamePush(s, z)
        BY <2>1
      <3>2. z.ops \in Seq(Op) /\ z.dev \in Reg
        BY WorldIsTyped DEF DurableInv, WireTypes, Flight
      <3>3. status[z.dev] = "revoked" \/ Closed(z.ops, 1, head[z.dev].seq)
        BY DEF BatchesClosed
      <3> QED BY <1>1, <3>1, <3>2, <3>3 DEF SamePush
    <2>2. CASE \E r \in Reg : /\ SamePush(s, flight[r]) /\ flight[r] # Idle
                              /\ flight[r].stage \in {"sent", "queued"}
      <3>1. PICK r \in Reg : /\ SamePush(s, flight[r]) /\ flight[r] # Idle
                             /\ flight[r].stage \in {"sent", "queued"}
        BY <2>2
      <3>2. flight[r].ops \in Seq(Op) /\ flight[r].dev = r
        BY <3>1, WorldIsTyped DEF WireOwner
      <3>3. status[r] = "revoked" \/ Closed(flight[r].ops, 1, head[r].seq)
        BY <3>1 DEF BatchesClosed
      <3> QED BY <1>1, <3>1, <3>2, <3>3 DEF SamePush
    <2> QED BY <2>1, <2>2, StaleMovesSo
  <1>4. ASSUME TxUsed'
        PROVE  /\ status'[tx'.dev] = "revoked" \/ Closed(tx'.ops, 1, head'[tx'.dev].seq)
               /\ tx'.stage = "judging" => Closed(tx'.ops, tx'.pos, tx'.head.seq)
    <2>0. ASSUME TxUsed, tx'.ops = tx.ops, tx'.dev = tx.dev
          PROVE  status'[tx'.dev] = "revoked" \/ Closed(tx'.ops, 1, head'[tx'.dev].seq)
      <3>1. tx.dev \in Reg /\ tx.ops \in Seq(Op)
        BY <2>0, WorldIsTyped
      <3>2. status[tx.dev] = "revoked" \/ Closed(tx.ops, 1, head[tx.dev].seq)
        BY <2>0 DEF BatchesClosed
      <3>3. status'[tx.dev] = "revoked" \/ Closed(tx.ops, 1, head'[tx.dev].seq)
        BY <1>1, <3>1, <3>2
      <3> QED BY <2>0, <3>3
    <2>1. CASE UNCHANGED tx
      <3>1. TxUsed
        BY <1>4, <2>1 DEF TxUsed
      <3> QED BY <2>0, <2>1, <3>1 DEF BatchesClosed
    <2>2. CASE PushGoesOn
      <3>1. TxUsed /\ tx'.ops = tx.ops /\ tx'.dev = tx.dev
        BY <2>2 DEF PushGoesOn, TxUsed, Server!IsOpen
      <3>2. ASSUME tx'.stage = "judging" PROVE Closed(tx'.ops, tx'.pos, tx'.head.seq)
        <4>1. /\ Server!IsOpen /\ tx.stage = "judging" /\ tx.pos <= Len(tx.ops)
              /\ JudgedAgain \/ JudgedNext
          BY <2>2, <3>2 DEF PushGoesOn
        <4>2. tx'.pos = tx.pos + 1
          BY <4>1 DEF JudgedAgain, JudgedNext, JudgedNew, JudgedLogged, JudgedRefused, JudgedTo
        <4>3. tx.pos \in Nat /\ tx.head.seq \in Nat
          BY <4>1, CurIsOnChain
        <4>4. tx.ops \in Seq(Op) /\ Closed(tx.ops, tx.pos, tx.head.seq)
          BY <4>1, WorldIsTyped DEF BatchesClosed
        <4>5. /\ tx'.head.seq \in Nat /\ tx.head.seq <= tx'.head.seq
              /\ tx.ops[tx.pos].seq <= tx'.head.seq
          BY <4>1, AnswerOfCur DEF Server!Cur
        <4>6. Closed(tx.ops, tx.pos + 1, tx'.head.seq)
          BY <4>3, <4>4, <4>5, ClosedAdvances
        <4> QED BY <3>1, <4>2, <4>6
      <3> QED BY <2>0, <3>1, <3>2
    <2>3. ASSUME NEW d \in Reg, NEW ops \in Seq(Op), PushOpens(d, ops)
          PROVE  /\ status'[tx'.dev] = "revoked" \/ Closed(tx'.ops, 1, head'[tx'.dev].seq)
                 /\ tx'.stage = "judging" => Closed(tx'.ops, tx'.pos, tx'.head.seq)
      <3>1. /\ tx'.dev = d /\ tx'.ops = ops /\ tx'.head = head[d]
            /\ tx'.pos = IF status[d] = "revoked" THEN Len(ops) + 1 ELSE 1
            /\ status[d] = "revoked" \/ Closed(ops, 1, head[d].seq)
        BY <2>3 DEF PushOpens, Server!Opened
      <3>2. status'[d] = "revoked" \/ Closed(ops, 1, head'[d].seq)
        BY <1>1, <3>1
      <3>3. CASE status[d] = "revoked"
        <4>1. \A i \in DOMAIN ops : ~(i >= Len(ops) + 1)
          OBVIOUS
        <4>2. Closed(ops, Len(ops) + 1, head[d].seq)
          BY <4>1 DEF Closed
        <4> QED BY <3>1, <3>2, <3>3, <4>2
      <3> QED BY <3>1, <3>2, <3>3
    <2>4. CASE tx' = Server!NoTx
      BY <1>4, <2>4 DEF TxUsed, Server!NoTx
    <2>5. CASE tx'.stage = "rerun" /\ TxUsed /\ tx'.dev = tx.dev /\ tx'.ops = tx.ops
      BY <2>0, <2>5
    <2> QED BY PushMovesSo, <2>1, <2>2, <2>3, <2>4, <2>5
  <1>5. tx'.stage = "judging" => TxUsed'
    BY DEF TxUsed
  <1> QED BY <1>2, <1>3, <1>4, <1>5 DEF BatchesClosed

-----------------------------------------------------------------------------
(* Whose rows are still to be sent, and which ids they have.               *)

\* The rows are the newest registration's own when its transfer record exists.
LEMMA TransferOwns ==
    ASSUME HonestInv, NEW w \in rows, w.op.id = <<"transfer", key>>
    PROVE  LocalIsOwn
  <1>1. w.op \in RowOps
    BY DEF RowOps
  <1> QED BY <1>1 DEF HonestInv, LocalOwner

\* What CarryOver makes of the rows.
LEMMA CarryOverMakes ==
    ASSUME HonestInv, CarryOver
    PROVE  /\ draft = key /\ key \in Reg /\ opened = {} /\ opened' = {}
           /\ \E s \in CarryOrders :
                 /\ \A v \in rows' : \/ v \in rows /\ (v.st = "local" => v.op.dev = key)
                                    \/ /\ Carried # {} /\ v.st = "local"
                                       /\ \E i \in 1..(Len(s) + 1) : v = LocalRow(CarriedOp(s, i))
                 /\ \A v \in rows' : v \in rows => v \notin Unsent
                 /\ Len(s) \in Nat
                 /\ \A i \in 1..(Len(s) + 1) :
                       /\ LocalRow(CarriedOp(s, i)).op.id = CarriedId(s, i)
                       /\ LocalRow(CarriedOp(s, i)).op.dev = key
                 /\ \A i \in 2..(Len(s) + 1) : i - 1 \in 1..Len(s) /\ s[i - 1] \in Carried
                 /\ \A i, j \in 1..Len(s) : s[i] = s[j] => i = j
  <1> USE DEF HonestInv, DurableInv
  <1>1. draft = key /\ key \in Reg /\ opened = {} /\ opened' = {}
    BY RegIsNat DEF CarryOver, Names, IdentityInv, Free, PhoneOnly
  <1>2. PICK s \in CarryOrders :
           rows' = (rows \ Unsent) \cup (IF Carried = {} THEN {} ELSE Resigned(s))
    BY DEF CarryOver
  <1>3. rows \subseteq Row /\ IsFiniteSet(rows) /\ RowsEnd
    BY DEF RowsInv, RowTypes
  <1>4. /\ Resigned(s) = {LocalRow(CarriedOp(s, i)) : i \in 1..(Len(s) + 1)}
        /\ \A i \in 1..(Len(s) + 1) :
              CarriedOp(s, i).id = CarriedId(s, i) /\ CarriedOp(s, i).dev = draft
        /\ \A i \in 2..(Len(s) + 1) : s[i - 1] \in Carried
    BY <1>1, <1>3, ResignedRows
  <1>5. /\ Len(s) \in Nat /\ \A i, j \in 1..Len(s) : s[i] = s[j] => i = j
    BY <1>3, OrderIsComplete
  <1>6. \A i \in 1..(Len(s) + 1) : /\ LocalRow(CarriedOp(s, i)).op = CarriedOp(s, i)
                                  /\ LocalRow(CarriedOp(s, i)).st = "local"
    BY DEF LocalRow
  <1>7. ASSUME NEW v \in rows'
        PROVE  /\ \/ v \in rows /\ (v.st = "local" => v.op.dev = key)
                  \/ /\ Carried # {} /\ v.st = "local"
                     /\ \E i \in 1..(Len(s) + 1) : v = LocalRow(CarriedOp(s, i))
    <2>1. CASE v \in rows \ Unsent
      BY <1>1, <2>1 DEF Unsent
    <2>2. CASE Carried # {} /\ v \in Resigned(s)
      BY <1>4, <1>6, <2>2
    <2> QED BY <1>2, <2>1, <2>2
  <1>8. \A i \in 2..(Len(s) + 1) : i - 1 \in 1..Len(s)
    BY <1>5
  <1>9. \A v \in rows' : v \in rows => v \notin Unsent
    <2> SUFFICES ASSUME NEW v \in rows', v \in Unsent PROVE FALSE
      OBVIOUS
    <2>1. v.op.dev # key
      BY <1>1 DEF Unsent
    <2>2. PICK i \in 1..(Len(s) + 1) : v = LocalRow(CarriedOp(s, i))
      BY <1>2, <1>4
    <2> QED BY <1>1, <1>4, <1>6, <2>1, <2>2
  <1> QED BY <1>1, <1>4, <1>5, <1>6, <1>7, <1>8, <1>9

\* Every step keeps the rows waiting to be sent with the newest registration.
LEMMA LocalKept ==
    ASSUME HonestInv, Untroubled, [Next]_vars
    PROVE  LocalOwner'
  <1> USE DEF HonestInv, DurableInv
  <1>1. CASE CarryOver
    <2>1. /\ opened' = {} /\ key' = key /\ key \in Reg
          /\ \E s \in CarryOrders :
                /\ \A v \in rows' : \/ v \in rows /\ (v.st = "local" => v.op.dev = key)
                                   \/ \E i \in 1..(Len(s) + 1) : v = LocalRow(CarriedOp(s, i))
                /\ \A i \in 1..(Len(s) + 1) : LocalRow(CarriedOp(s, i)).op.dev = key
      BY <1>1, CarryOverMakes DEF CarryOver
    <2>2. LocalIsOwn'
      BY <2>1 DEF LocalIsOwn
    <2> QED BY <2>2 DEF LocalOwner
  <1>2. CASE key' # key
    <2>1. /\ key' = key + 1 /\ phase' = "keyed" /\ UNCHANGED <<rows, opened, meta>>
      BY <1>2, KeyMade DEF phoneRows
    <2>2. meta <= key /\ key \in Nat /\ meta \in Nat
      BY RegIsNat DEF IdentityInv
    <2>3. meta' # key'
      BY <2>1, <2>2
    <2>4. ASSUME NEW o \in RowOps', o.id = <<"transfer", key'>> PROVE FALSE
      <3>1. o \in HeldOps /\ o \in World
        BY <2>1 DEF RowOps, HeldOps, World
      <3>2. o.dev = key + 1
        BY <2>1, <2>4, <3>1 DEF IdsApart
      <3> QED BY <2>2, <3>1, <3>2 DEF SignedByOwner
    <2> QED BY <2>1, <2>3, <2>4 DEF LocalOwner
  <1>3. CASE key' = key /\ ~CarryOver
    <2>1. LocalIsOwn => LocalIsOwn'
      <3> SUFFICES ASSUME LocalIsOwn, NEW v \in rows' \cup opened', v.st = "local"
                   PROVE  v.op.dev = key
        BY <1>3 DEF LocalIsOwn
      <3>1. CASE v \in rows \cup opened
        BY <3>1 DEF LocalIsOwn
      <3>2. ASSUME NEW r \in Reg, MarkResult(r) PROVE v.op.dev = key
        <4>1. opened' = opened
          BY <3>2 DEF MarkResult
        <4>2. PICK f \in [rows -> Row] :
                 /\ rows' = {f[w] : w \in rows}
                 /\ \A w \in rows : /\ f[w].op = w.op
                                    /\ \/ f[w] = w
                                       \/ f[w].st = NextStatus(w.st, Head(flight[r].results))
          BY <3>2, MarksMoveStates DEF RowsInv
        <4>3. CASE v \in opened
          BY <3>1, <4>3
        <4>4. CASE v \in rows'
          <5>1. PICK w \in rows : v = f[w]
            BY <4>2, <4>4
          <5>2. w.st = "local"
            BY <4>2, <5>1 DEF NextStatus
          <5> QED BY <4>2, <5>1, <5>2 DEF LocalIsOwn
        <4> QED BY <4>1, <4>3, <4>4
      <3>3. ASSUME NEW r \in Reg, BeginCommand(r), v \notin rows \cup opened PROVE v.op.dev = key
        <4>1. r = key
          BY <3>3, RegIsNat DEF BeginCommand, Running, Names
        <4> QED BY <3>3, <4>1 DEF BeginCommand, LocalRow, SignedOp
      <3>4. CASE EmitGenesis /\ v \notin rows \cup opened
        <4>1. draft = key /\ opened' = opened
          BY <3>4 DEF EmitGenesis, Names, IdentityInv, PhoneOnly
        <4> QED BY <3>4, <4>1 DEF EmitGenesis, LocalRow, SignedOp
      <3>5. CASE CommitCommand
        BY <3>1, <3>5 DEF CommitCommand
      <3> QED BY <1>3, <3>1, <3>2, <3>3, <3>4, <3>5, TablesMoveSo
    <2>2. meta' = key' \/ phase' \in {"carried", "named"}
             => meta = key \/ phase \in {"carried", "named"}
      <3>1. CASE UNCHANGED identity
        BY <3>1 DEF identity
      <3> QED BY <1>3, <3>1, NamesMoveSo DEF BeginCommand, StartEnrol, PersistDraft, PersistToken,
                 EmitGenesis, NameDevice, SpendDraft, FailEnrol, Crash, identity
    <2>3. ASSUME NEW o \in RowOps', o.id = <<"transfer", key'>> PROVE o \in RowOps
      <3>1. ASSUME NEW r \in Reg, MarkResult(r) PROVE RowOps' = RowOps
        BY <3>1, MarksKeepOps
      <3>2. CASE CommitCommand
        <4>1. \A w \in opened : w.op.id \in Changes
          BY DEF RowsInv, OpenedIsNew
        <4>2. \A w \in opened : w.op.id # o.id
          BY <2>3, <4>1 DEF Changes
        <4> QED BY <2>3, <3>2, <4>2 DEF CommitCommand, RowOps
      <3>3. CASE EmitGenesis
        <4>1. rows' = rows \/ \E h : rows' = rows \cup {LocalRow(SignedOp(<<"genesis", draft>>, draft, h))}
          BY <3>3 DEF EmitGenesis
        <4> QED BY <2>3, <4>1 DEF RowOps, LocalRow, SignedOp
      <3>4. ASSUME NEW r \in Reg, BeginCommand(r) PROVE o \in RowOps
        BY <3>4 DEF BeginCommand, RowOps
      <3> QED BY <1>3, <3>1, <3>2, <3>3, <3>4, TablesMoveSo DEF RowOps
    <2> QED BY <1>3, <2>1, <2>2, <2>3 DEF LocalOwner
  <1>4. CarryOver => key' = key
    BY DEF CarryOver
  <1> QED BY <1>1, <1>2, <1>3, <1>4

\* No answer to an honest phone accuses it.
LEMMA FairIsNoAccusation ==
    ASSUME Untroubled
    PROVE  ({"none", "DEVICE_REVOKED"} \cup Server!Verdicts) \cap Accusations = {}
  <1>1. "SCOPE_VIOLATION" \notin RefusalCodes
    BY DEF Untroubled
  <1> QED BY <1>1, SyncConstants DEF Server!Verdicts, Accusations

\* An answer to an honest phone never halts its push.
LEMMA MarkingGoesOn ==
    ASSUME Untroubled, HonestInv, NEW r \in Reg, MarkResult(r)
    PROVE  UNCHANGED loop
  <1> USE DEF HonestInv
  <1>1. flight[r] \in Flight /\ flight[r].stage = "answered" /\ flight[r].results # <<>>
    BY DEF MarkResult, DurableInv, WireTypes, Idle
  <1>2. 1 \in DOMAIN flight[r].results /\ Head(flight[r].results) = flight[r].results[1]
    BY <1>1 DEF Flight
  <1>3. \E o \in OpsOf(flight[r].ops) : FairAnswer(status[r], o, flight[r].results[1], head[r].seq)
    BY <1>1, <1>2 DEF FairAnswers
  <1>4. Head(flight[r].results).code \notin Accusations
    BY <1>2, <1>3, FairIsNoAccusation DEF FairAnswer
  <1> QED BY <1>4 DEF MarkResult, Accusations

\* The steps that touch what stops the loop.
LEMMA LoopMovesSo ==
    ASSUME [Next]_vars
    PROVE  \/ UNCHANGED <<loop, meta, key, phase>>
           \/ \E r \in Reg : MarkResult(r) \/ TakeUnauthorized(r)
           \/ StartEnrol \/ PersistDraft \/ PersistToken \/ EmitGenesis \/ CarryOver
           \/ NameDevice \/ SpendDraft \/ FailEnrol \/ Crash
  BY DEF Next, vars, identity, ServerStep, JudgeStep, CommitPush, AbortPush, BeginPush,
         BeginStale, RevokeByOwner, EnrolOnServer, LoopStep, Enrolment, ArriveStale, Send,
         Settle, Arrive, GiveUp, BeginCommand, CommitCommand, RollbackCommand

\* Every step keeps the sync loop running.
LEMMA LoopKept ==
    ASSUME HonestInv, Untroubled, [Next]_vars
    PROVE  LoopUnstopped'
  <1> USE DEF HonestInv, DurableInv
  <1>0. meta \in Nat /\ key \in Nat /\ draft \in Nat /\ meta <= key
    BY RegIsNat DEF IdentityInv
  <1>1. key \in Reg /\ status'[key] # "revoked" => status[key] # "revoked"
    BY HeadsGrow
  <1>2. meta # 0 /\ meta = key => key \in Reg
    BY DEF IdentityInv
  <1>3. CASE UNCHANGED <<loop, meta, key, phase>>
    BY <1>1, <1>2, <1>3 DEF LoopUnstopped, loop
  <1>4. ASSUME NEW r \in Reg, MarkResult(r) PROVE LoopUnstopped'
    <2>1. UNCHANGED <<loop, meta, key, phase>>
      BY <1>4, MarkingGoesOn DEF MarkResult, identity
    <2> QED BY <1>3, <2>1
  <1>5. ASSUME NEW r \in Reg, TakeUnauthorized(r) PROVE LoopUnstopped'
    <2>1. flight[r] # Idle
      BY <1>5 DEF TakeUnauthorized, Idle
    <2>2. r = key /\ meta = key /\ phase = "idle" /\ status[r] = "revoked"
      BY <1>5, <2>1 DEF WireOwner, TakeUnauthorized
    <2>3. /\ persisted' = persisted \cup {"disabled"} /\ held' = held \cup {"disabled"}
          /\ UNCHANGED <<meta, key, phase, status>>
      BY <1>5, <2>2 DEF TakeUnauthorized, Stop, Running, identity, server
    <2> QED BY <2>2, <2>3 DEF LoopUnstopped
  <1>6. CASE StartEnrol
    <2>1. UNCHANGED <<loop, meta, status>> /\ phase' \in {"keyed", "posting"} /\ key' \in {key, key + 1}
      BY <1>6 DEF StartEnrol, PhoneOnly, server
    <2>2. key' = key \/ meta # key'
      BY <1>0, <2>1
    <2> QED BY <2>1, <2>2 DEF LoopUnstopped, loop
  <1>7. CASE PersistDraft \/ PersistToken \/ EmitGenesis \/ CarryOver
    <2>1. UNCHANGED <<loop, meta, key, status>> /\ phase' # "idle"
      BY <1>7 DEF PersistDraft, PersistToken, EmitGenesis, CarryOver, PhoneOnly, server
    <2> QED BY <2>1 DEF LoopUnstopped, loop
  <1>8. CASE NameDevice
    <2>1. draft = key /\ UNCHANGED <<key, status, held>> /\ phase' = "named" /\ meta' = draft
          /\ persisted' = IF meta = draft THEN persisted ELSE {}
      BY <1>8 DEF NameDevice, PhoneOnly, server, Names, IdentityInv
    <2> QED BY <2>1 DEF LoopUnstopped
  <1>9. CASE SpendDraft
    BY <1>9 DEF SpendDraft, PhoneOnly, server, LoopUnstopped
  <1>10. CASE FailEnrol \/ Crash
    BY <1>10 DEF FailEnrol, Crash, server, LoopUnstopped
  <1> QED BY LoopMovesSo, <1>3, <1>4, <1>5, <1>6, <1>7, <1>8, <1>9, <1>10

\* Every step keeps ids apart.
LEMMA IdsKept ==
    ASSUME HonestInv, [Next]_vars
    PROVE  IdsApart'
  <1> USE DEF HonestInv, DurableInv
  <1>0. /\ \A w, v \in rows \cup opened : w.op.id = v.op.id => w = v
        /\ \A w \in rows \cup opened : w.op.id[1] \in {"genesis", "transfer"} => w.op.dev = w.op.id[2]
    BY DEF IdsApart, HeldOps
  <1>1. ASSUME rows' \cup opened' \subseteq rows \cup opened PROVE IdsApart'
    BY <1>0, <1>1 DEF IdsApart, HeldOps
  <1>2. ASSUME NEW n, rows' \cup opened' \subseteq rows \cup opened \cup {n},
               \A w \in rows \cup opened : w.op.id # n.op.id,
               n.op.id[1] \in {"genesis", "transfer"} => n.op.dev = n.op.id[2]
        PROVE  IdsApart'
    BY <1>0, <1>2 DEF IdsApart, HeldOps
  <1>3. ASSUME NEW r \in Reg, BeginCommand(r) PROVE IdsApart'
    <2> DEFINE n == LocalRow(SignedOp(<<"change", minted + 1>>, r, PhoneHead(r, rows)))
    <2>1. n.op.id = <<"change", minted + 1>>
      BY DEF LocalRow, SignedOp
    <2>2. /\ rows' = rows /\ opened' = {n} /\ opened = {} /\ minted < MaxIds /\ minted \in Nat
      BY <1>3 DEF BeginCommand, Free, RowsInv, RowTypes
    <2> HIDE DEF n
    <2>3. <<"change", minted + 1>> \in Changes
      BY <2>2, SyncConstants DEF Changes
    <2>4. \A w \in rows : w.op.id # n.op.id
      <3> SUFFICES ASSUME NEW w \in rows, w.op.id = <<"change", minted + 1>> PROVE FALSE
        BY <2>1
      <3>1. w.op.id[2] <= minted
        BY <2>3 DEF RowsInv, MintedBefore
      <3> QED BY <2>2, <3>1
    <2>5. n.op.id[1] \notin {"genesis", "transfer"}
      BY <2>1
    <2> QED BY <1>2, <2>2, <2>4, <2>5
  <1>4. ASSUME NEW r \in Reg, MarkResult(r) PROVE IdsApart'
    <2>1. opened' = {} /\ opened = {} /\ HeldOps' = HeldOps
      BY <1>4, MarksKeepOps DEF MarkResult, Free
    <2>2. PICK f \in [rows -> Row] : /\ rows' = {f[w] : w \in rows}
                                     /\ \A w \in rows : f[w].op = w.op
      BY <1>4, MarksMoveStates DEF RowsInv
    <2>3. \A v \in rows' : \E w \in rows : v = f[w] /\ v.op = w.op
      BY <2>2
    <2> QED BY <1>0, <2>1, <2>3 DEF IdsApart
  <1>5. CASE EmitGenesis
    <2> DEFINE n == LocalRow(SignedOp(<<"genesis", draft>>, draft, PhoneHead(draft, rows)))
    <2>1. n.op.id = <<"genesis", draft>> /\ n.op.dev = draft
      BY DEF LocalRow, SignedOp
    <2>2. /\ opened = {} /\ opened' = {}
          /\ \/ rows' = rows
             \/ rows' = rows \cup {n} /\ Own(draft, rows) = {}
      BY <1>5 DEF EmitGenesis, PhoneOnly, Free
    <2> HIDE DEF n
    <2>3. CASE rows' = rows
      BY <1>1, <2>2, <2>3
    <2>4. CASE rows' = rows \cup {n} /\ Own(draft, rows) = {}
      <3>1. \A w \in rows : w.op.id # n.op.id
        <4> SUFFICES ASSUME NEW w \in rows, w.op.id = <<"genesis", draft>> PROVE FALSE
          BY <2>1
        <4>1. w.op.dev = draft
          BY <1>0
        <4> QED BY <2>4, <4>1 DEF Own
      <3>2. n.op.id[1] \in {"genesis", "transfer"} => n.op.dev = n.op.id[2]
        BY <2>1
      <3> QED BY <1>2, <2>2, <2>4, <3>1, <3>2
    <2> QED BY <2>2, <2>3, <2>4
  <1>6. CASE CarryOver
    <2>1. draft = key /\ opened = {} /\ opened' = {}
      BY <1>6, CarryOverMakes
    <2>2. PICK s \in CarryOrders :
             /\ \A v \in rows' : \/ v \in rows
                                \/ /\ Carried # {}
                                   /\ \E i \in 1..(Len(s) + 1) : v = LocalRow(CarriedOp(s, i))
             /\ \A v \in rows' : v \in rows => v \notin Unsent
             /\ Len(s) \in Nat
             /\ \A i \in 1..(Len(s) + 1) :
                   /\ LocalRow(CarriedOp(s, i)).op.id = CarriedId(s, i)
                   /\ LocalRow(CarriedOp(s, i)).op.dev = key
             /\ \A i \in 2..(Len(s) + 1) : i - 1 \in 1..Len(s) /\ s[i - 1] \in Carried
             /\ \A i, j \in 1..Len(s) : s[i] = s[j] => i = j
      BY <1>6, CarryOverMakes
    <2> DEFINE row(i) == LocalRow(CarriedOp(s, i))
    <2>3. CarriedId(s, 1) = <<"transfer", key>>
      BY <2>1 DEF CarriedId
    <2>4. \A i \in 2..(Len(s) + 1) :
             /\ CarriedId(s, i) = s[i - 1].op.id /\ s[i - 1] \in rows /\ s[i - 1] \in Unsent
             /\ s[i - 1].op.id[1] \notin {"genesis", "transfer"}
      BY <2>2 DEF CarriedId, Carried, Unsent, RegistrationOp
    <2>5. \A i \in 1..(Len(s) + 1) : i = 1 \/ i \in 2..(Len(s) + 1)
      BY <2>2
    <2>6. \A i \in 1..(Len(s) + 1) : row(i).op.id = CarriedId(s, i) /\ row(i).op.dev = key
      BY <2>2
    <2>7. \A v \in rows' : v \in rows \/ \E i \in 1..(Len(s) + 1) : v = row(i) /\ Carried # {}
      BY <2>2
    <2> HIDE DEF row
    <2>8. ASSUME NEW i \in 1..(Len(s) + 1), NEW j \in 1..(Len(s) + 1), row(i).op.id = row(j).op.id
          PROVE  i = j
      <3>1. CarriedId(s, i) = CarriedId(s, j)
        BY <2>6, <2>8
      <3>2. CASE i = 1 /\ j = 1
        BY <3>2
      <3>3. CASE i \in 2..(Len(s) + 1) /\ j \in 2..(Len(s) + 1)
        <4>1. s[i - 1].op.id = s[j - 1].op.id /\ s[i - 1] \in rows /\ s[j - 1] \in rows
          BY <2>4, <3>1, <3>3
        <4>2. s[i - 1] = s[j - 1]
          BY <1>0, <4>1
        <4>3. i - 1 \in 1..Len(s) /\ j - 1 \in 1..Len(s)
          BY <2>2, <3>3
        <4>4. i - 1 = j - 1
          BY <2>2, <4>2, <4>3
        <4> QED BY <4>3, <4>4
      <3>4. ASSUME NEW k \in 2..(Len(s) + 1), CarriedId(s, k) = <<"transfer", key>> PROVE FALSE
        <4>1. s[k - 1].op.id = <<"transfer", key>> /\ s[k - 1].op.id[1] \notin {"genesis", "transfer"}
          BY <2>4, <3>4
        <4> QED BY <4>1
      <3> QED BY <2>3, <2>5, <3>1, <3>2, <3>3, <3>4
    <2>9. ASSUME NEW v \in rows, v \in rows', NEW i \in 1..(Len(s) + 1), Carried # {},
                 v.op.id = row(i).op.id
          PROVE  FALSE
      <3>1. v.op.id = CarriedId(s, i)
        BY <2>6, <2>9
      <3>2. CASE i = 1
        <4>1. LocalIsOwn
          BY <2>3, <3>1, <3>2, TransferOwns
        <4>2. Unsent = {}
          BY <2>1, <4>1 DEF Unsent, LocalIsOwn
        <4> QED BY <2>9, <4>2 DEF Carried
      <3>3. CASE i \in 2..(Len(s) + 1)
        <4>1. v.op.id = s[i - 1].op.id /\ s[i - 1] \in rows /\ s[i - 1] \in Unsent
          BY <2>4, <3>1, <3>3
        <4>2. v = s[i - 1]
          BY <1>0, <4>1
        <4> QED BY <2>2, <2>9, <4>1, <4>2
      <3> QED BY <2>5, <3>2, <3>3
    <2>10. \A w, v \in rows' : w.op.id = v.op.id => w = v
      <3> SUFFICES ASSUME NEW w \in rows', NEW v \in rows', w.op.id = v.op.id PROVE w = v
        OBVIOUS
      <3>1. CASE w \in rows /\ v \in rows
        BY <1>0, <3>1
      <3>2. CASE w \notin rows /\ v \notin rows
        BY <2>7, <2>8, <3>2
      <3>3. CASE w \in rows /\ v \notin rows
        BY <2>7, <2>9, <3>3
      <3>4. CASE w \notin rows /\ v \in rows
        BY <2>7, <2>9, <3>4
      <3> QED BY <3>1, <3>2, <3>3, <3>4
    <2>11. \A w \in rows' : w.op.id[1] \in {"genesis", "transfer"} => w.op.dev = w.op.id[2]
      <3> SUFFICES ASSUME NEW w \in rows', w.op.id[1] \in {"genesis", "transfer"}
                   PROVE  w.op.dev = w.op.id[2]
        OBVIOUS
      <3>1. CASE w \in rows
        BY <1>0, <3>1
      <3>2. CASE w \notin rows
        <4>1. PICK i \in 1..(Len(s) + 1) : w = row(i)
          BY <2>7, <3>2
        <4>2. w.op.id = CarriedId(s, i) /\ w.op.dev = key
          BY <2>6, <4>1
        <4>3. i = 1
          BY <2>4, <2>5, <4>2
        <4> QED BY <2>3, <4>2, <4>3
      <3> QED BY <3>1, <3>2
    <2> QED BY <2>1, <2>10, <2>11 DEF IdsApart, HeldOps
  <1>7. CASE CommitCommand
    BY <1>1, <1>7 DEF CommitCommand
  <1>8. CASE UNCHANGED <<rows, opened>> \/ (opened' = {} /\ UNCHANGED rows)
    BY <1>1, <1>8
  <1> QED BY TablesMoveSo, <1>3, <1>4, <1>5, <1>6, <1>7, <1>8

-----------------------------------------------------------------------------
(* An honest phone.                                                        *)

\* The system starts honest.
LEMMA HonestInit == Init => HonestInv
  <1> SUFFICES ASSUME Init PROVE HonestInv
    OBVIOUS
  <1>1. DurableInv
    BY DurableInit
  <1>2. /\ rows = {} /\ opened = {} /\ stale = {} /\ \A r \in Reg : flight[r] = Idle
        /\ meta = 0 /\ key = 0 /\ token = 0 /\ draft = 0 /\ phase = "idle"
        /\ persisted = {} /\ held = {}
        /\ tx.stage = "none" /\ ~Server!IsOpen /\ anomalies = {}
        /\ \A r \in Reg : head[r] = [seq |-> 0, hash |-> Genesis]
    BY DEF Init, Server!Init, Server!NoTx, Server!IsOpen, Server!StartOfChain
  <1>3. HeldOps = {} /\ RowOps = {} /\ OnWire = {} /\ World = {}
    BY <1>2 DEF HeldOps, RowOps, OnWire, World, FlightOps, StaleOps, TxOps, TxUsed
  <1>4. Names /\ WireOwner /\ LocalOwner /\ LoopUnstopped
    BY <1>2, <1>3 DEF Names, WireOwner, LocalOwner, LoopUnstopped, LocalIsOwn, TxOps, TxUsed
  <1>5. SignedByOwner /\ Chained(World) /\ WireIsHeld /\ NoHole /\ IdsApart
    BY <1>2, <1>3 DEF SignedByOwner, Chained, WireIsHeld, NoHole, IdsApart
  <1>6. HeadsOnChain
    BY <1>2, <1>3, RegIsNat DEF HeadsOnChain, OnChain
  <1>7. SettledBehindHead /\ FairAnswers /\ NoAnomaly /\ JudgedIsOpen /\ BatchesClosed
    BY <1>2 DEF SettledBehindHead, FairAnswers, NoAnomaly, JudgedIsOpen, Judging, BatchesClosed, Idle,
                TxUsed
  <1>8. RefusalsOfRows
    <2>1. refused = {}
      BY DEF Init, Server!Init
    <2> QED BY <1>2, <2>1 DEF RefusalsOfRows, OfRows
  <1> QED BY <1>1, <1>4, <1>5, <1>6, <1>7, <1>8 DEF HonestInv

\* Every step keeps the honest invariant.
LEMMA HonestStep == Untroubled /\ HonestInv /\ [Next]_vars => HonestInv'
  <1> SUFFICES ASSUME Untroubled, HonestInv, [Next]_vars PROVE HonestInv'
    OBVIOUS
  <1>1. DurableInv'
    BY DurableStep DEF HonestInv
  <1>2. Names' /\ WireOwner' /\ SignedByOwner' /\ Chained(World') /\ WireIsHeld' /\ NoHole'
    BY NamesKept, OwnersKept, ChainsKept
  <1>3. /\ HeadsOnChain' /\ RefusalsOfRows' /\ SettledBehindHead' /\ FairAnswers'
        /\ NoAnomaly' /\ JudgedIsOpen'
    BY HeadsKept, RefusalsKept, SettledKept, AnswersKept, AnomaliesKept, JudgedKept
  <1>4. BatchesClosed' /\ LocalOwner' /\ LoopUnstopped' /\ IdsApart'
    BY BatchesKept, LocalKept, LoopKept, IdsKept
  <1> QED BY <1>1, <1>2, <1>3, <1>4 DEF HonestInv

\* The honest invariant holds throughout.
LEMMA AlwaysHonest ==
    ASSUME Untroubled
    PROVE  Spec => []HonestInv
  <1>1. HonestInv /\ [Next]_vars => HonestInv'
    BY HonestStep
  <1> QED BY <1>1, HonestInit, PTL DEF Spec

\* A phone that runs this code is never told that its chain, its signatures or
\* its device id are wrong, leaves no anomaly and is never halted, through every
\* lost answer, crash, revocation and re-enrolment, and through every refusal when
\* there is one registration (Untroubled says which of these go together).
THEOREM HonestStaysUnaccused ==
    ASSUME Untroubled
    PROVE  Spec => []HonestNeverAccused
  <1>1. HonestInv => HonestNeverAccused
    <2> SUFFICES ASSUME HonestInv PROVE HonestNeverAccused
      OBVIOUS
    <2> USE DEF HonestInv
    <2>1. ~Told(Accusations)
      BY FairIsNoAccusation DEF Told, FairAnswers, FairAnswer
    <2> QED BY <2>1 DEF HonestNeverAccused, NoAnomaly, LoopUnstopped
  <1> QED BY <1>1, AlwaysHonest, PTL

\* The registration the app runs as can always go on from the server's head,
\* and nothing an earlier registration was told stops it (carry-over.ts, push.ts).
THEOREM RunningIsNeverStranded ==
    ASSUME Untroubled
    PROVE  Spec => []NeverStranded
  <1>1. HonestInv => NeverStranded
    <2> SUFFICES ASSUME HonestInv, NEW r \in Reg, Running(r), status[r] = "active"
                 PROVE  /\ \A w \in Own(r, rows) : w.op.seq > head[r].seq => w.st = "local"
                        /\ head[r].seq # 0 => \E w \in Own(r, rows) : /\ w.op.seq = head[r].seq
                                                                     /\ w.op.hash = head[r].hash
                        /\ held = {} /\ persisted = {}
      BY DEF NeverStranded
    <2> USE DEF HonestInv
    <2>1. r = key /\ meta = key /\ meta # 0 /\ phase = "idle"
      BY RegIsNat DEF Running, Names
    <2>2. ASSUME NEW w \in Own(r, rows), w.op.seq > head[r].seq PROVE w.st = "local"
      <3>1. w \in rows /\ w.op.dev = r /\ w.op.seq \in Nat
        BY DEF Own, DurableInv, RowsInv, RowTypes, Row, Op
      <3>2. head[r].seq \in Nat
        BY ServerTypes DEF DurableInv, SP!TypeOK, SP!ChainHead
      <3> QED BY <2>2, <3>1, <3>2 DEF SettledBehindHead
    <2>3. ASSUME head[r].seq # 0
          PROVE  \E w \in Own(r, rows) : w.op.seq = head[r].seq /\ w.op.hash = head[r].hash
      <3>1. \E o \in RowOps : o.dev = r /\ o.seq = head[r].seq /\ o.hash = head[r].hash
        BY <2>1, <2>3 DEF HeadsOnChain, OnChain
      <3> QED BY <3>1 DEF RowOps, Own
    <2>4. held = {} /\ persisted = {}
      BY <2>1 DEF LoopUnstopped
    <2> QED BY <2>2, <2>3, <2>4
  <1> QED BY <1>1, AlwaysHonest, PTL

-----------------------------------------------------------------------------
(* The ledger: each saved change gets one verdict, and the phone learns    *)
(* that one.                                                               *)

\* The ids of the log L and the refusals R, and those refused and not logged.
Seen(R, L) == {q.id : q \in R} \cup Server!IdsIn(L)
Unlogged(R, L) == {q.id : q \in R} \ Server!IdsIn(L)

\* A change is pushed and judged only after its command committed.
OnlySaved ==
    /\ \A o \in RowOps \cup OnWire : o.id \in Changes => o.id \in saved
    /\ Seen(refused, log) \cap Changes \subseteq saved
    /\ Server!IsOpen => Seen(tx.refused, tx.log) \cap Changes \subseteq saved
\* What is refused is never logged; without verdicts, only what is logged takes
\* a position as refused.
RefusalsStand ==
    /\ RefusalCodes = {} => Unlogged(refused, log) = {}
    /\ Server!IsOpen => /\ RefusalCodes = {} => Unlogged(tx.refused, tx.log) = {}
                        /\ Unlogged(refused, log) \subseteq Unlogged(tx.refused, tx.log)
\* An op an answer rejects is refused, unless the registration is revoked.
TrueRejection(st, res, R, L) ==
    res.status = "rejected" => st = "revoked" \/ res.id \in Unlogged(R, L)
RejectionsTrue ==
    /\ \A r \in Reg : flight[r].stage = "answered" =>
          \A i \in DOMAIN flight[r].results :
             TrueRejection(status[r], flight[r].results[i], refused, log)
    /\ Server!IsOpen =>
          \A i \in DOMAIN tx.results :
             TrueRejection(status[tx.dev], tx.results[i], tx.refused, tx.log)
\* The server has not heard of a registration the phone has no key for.
AheadUnknown == \A r \in Reg : r > key => status[r] = "unknown"

LedgerInv == HonestInv /\ OnlySaved /\ RefusalsStand /\ RejectionsTrue /\ AheadUnknown

\* No change has the id of a record of the server's or of a registration's.
LEMMA ChangeIdsApart ==
    /\ \A n : <<"genesis", n>> \notin Changes /\ <<"transfer", n>> \notin Changes
    /\ SP!SystemIds \cap Changes = {}
  BY DEF Changes, SP!SystemIds

\* The changes that are saved stay saved, and so do those of the rows.
LEMMA RowsAreSaved ==
    ASSUME HonestInv, OnlySaved, [Next]_vars
    PROVE  /\ saved \subseteq saved'
           /\ \A o \in RowOps' : o.id \in Changes => o.id \in saved'
  <1>1. saved \subseteq saved'
    BY DEF Next, vars, phoneRows, ServerStep, JudgeStep, CommitPush, AbortPush, BeginPush, BeginStale,
         RevokeByOwner, EnrolOnServer, LoopStep, Enrolment, ArriveStale, Send, Settle,
         TakeUnauthorized, Arrive, GiveUp, RollbackCommand, StartEnrol, PersistDraft, PersistToken,
         NameDevice, SpendDraft, FailEnrol, Crash, PhoneOnly, BeginCommand, MarkResult, CommitCommand,
         EmitGenesis, CarryOver
  <1>2. \A o \in RowOps : o.id \in Changes => o.id \in saved'
    BY <1>1 DEF OnlySaved
  <1>3. ASSUME NEW r \in Reg, MarkResult(r) PROVE RowOps' = RowOps
    BY <1>3, MarksKeepOps DEF HonestInv
  <1>4. ASSUME CommitCommand, NEW o \in RowOps' PROVE o \in RowOps \/ o.id \in saved'
    BY <1>4 DEF CommitCommand, RowOps
  <1>5. ASSUME EmitGenesis, NEW o \in RowOps' PROVE o \in RowOps \/ o.id \notin Changes
    <2>1. PICK w \in rows' : w.op = o
      BY DEF RowOps
    <2>2. w \in rows \/ w = LocalRow(SignedOp(<<"genesis", draft>>, draft, PhoneHead(draft, rows)))
      BY <1>5 DEF EmitGenesis
    <2>3. w \in rows \/ w.op.id = <<"genesis", draft>>
      BY <2>2 DEF LocalRow, SignedOp
    <2> QED BY <2>1, <2>3, ChangeIdsApart DEF RowOps
  <1>6. ASSUME CarryOver, NEW o \in RowOps' PROVE o.id \in Changes => \E p \in RowOps : p.id = o.id
    <2>1. PICK w \in rows' : w.op = o
      BY DEF RowOps
    <2>2. CASE w \in rows
      BY <2>1, <2>2 DEF RowOps
    <2>3. CASE w \notin rows
      <3>1. PICK s \in CarryOrders :
               /\ \E i \in 1..(Len(s) + 1) : w = LocalRow(CarriedOp(s, i))
               /\ Len(s) \in Nat
               /\ \A i \in 1..(Len(s) + 1) : LocalRow(CarriedOp(s, i)).op.id = CarriedId(s, i)
               /\ \A i \in 2..(Len(s) + 1) : s[i - 1] \in Carried
        BY <1>6, <2>3, CarryOverMakes
      <3>2. PICK i \in 1..(Len(s) + 1) : w = LocalRow(CarriedOp(s, i))
        BY <3>1
      <3>3. o.id = CarriedId(s, i)
        BY <2>1, <3>1, <3>2
      <3>4. CASE i = 1
        BY <3>3, <3>4, ChangeIdsApart DEF CarriedId
      <3>5. CASE i # 1
        <4>1. i \in 2..(Len(s) + 1)
          BY <3>1, <3>5
        <4>2. s[i - 1] \in rows /\ o.id = s[i - 1].op.id
          BY <3>1, <3>3, <3>5, <4>1 DEF CarriedId, Carried, Unsent
        <4> QED BY <4>2 DEF RowOps
      <3> QED BY <3>4, <3>5
    <2> QED BY <2>2, <2>3
  <1>7. CASE UNCHANGED rows
    BY <1>1, <1>2, <1>7 DEF RowOps
  <1>8. \A o \in RowOps' : o.id \in Changes => o.id \in saved'
    BY <1>2, <1>3, <1>4, <1>5, <1>6, <1>7, TablesMoveSo DEF BeginCommand
  <1> QED BY <1>1, <1>8

\* What a push stages is of its own ops, or the server's.
LEMMA StagedIds ==
    ASSUME HonestInv, PushGoesOn
    PROVE  Seen(tx'.refused, tx'.log) \cap Changes
              \subseteq Seen(tx.refused, tx.log) \cup {o.id : o \in TxOps}
  <1>1. CASE tx'.refused = tx.refused /\ \A r \in tx'.log : r \in tx.log \/ r.op.id \in SP!SystemIds
    BY <1>1, ChangeIdsApart DEF Seen, Server!IdsIn
  <1>2. CASE tx.stage = "judging" /\ tx.pos <= Len(tx.ops) /\ (JudgedAgain \/ JudgedNext)
    <2>1. Server!Cur \in TxOps
      BY <1>2, CurIsOnChain DEF PushGoesOn
    <2>2. /\ tx'.log = tx.log \/ tx'.log = tx.log \cup {Server!LogRowOfCur}
          /\ \/ tx'.refused = tx.refused
             \/ \E code : tx'.refused = tx.refused \cup {Server!RefusedRowOf(code)}
      BY <1>2 DEF JudgedAgain, JudgedNext, JudgedNew, JudgedLogged, JudgedRefused, JudgedTo
    <2>3. /\ Server!IdsIn(tx'.log) \subseteq Server!IdsIn(tx.log) \cup {Server!Cur.id}
          /\ {q.id : q \in tx'.refused} \subseteq {q.id : q \in tx.refused} \cup {Server!Cur.id}
      BY <2>2 DEF Server!IdsIn, Server!LogRowOfCur, Server!RefusedRowOf
    <2> QED BY <2>1, <2>3 DEF Seen
  <1> QED BY <1>1, <1>2 DEF PushGoesOn

\* Every step keeps it so that only what is saved is pushed and judged.
LEMMA OnlySavedKept ==
    ASSUME LedgerInv, Untroubled, [Next]_vars
    PROVE  OnlySaved'
  <1> USE DEF LedgerInv
  <1>1. saved \subseteq saved' /\ \A o \in RowOps' : o.id \in Changes => o.id \in saved'
    BY RowsAreSaved
  <1>2. \A o \in OnWire' : o.id \in Changes => o.id \in saved'
    BY <1>1, WireGrows DEF OnlySaved
  <1>3. Seen(refused', log') \cap Changes \subseteq saved'
    <2>1. CASE Server!Commit
      <3>1. Server!IsOpen /\ log' = tx.log /\ refused' = tx.refused
        BY <2>1 DEF Server!Commit, Server!IsOpen
      <3> QED BY <1>1, <3>1 DEF OnlySaved
    <2>2. CASE UNCHANGED <<log, refused>>
      BY <1>1, <2>2 DEF OnlySaved
    <2> QED BY <2>1, <2>2, OnlyCommitWrites
  <1>4. ASSUME Server!IsOpen' PROVE Seen(tx'.refused, tx'.log) \cap Changes \subseteq saved'
    <2>1. CASE UNCHANGED tx
      BY <1>1, <1>4, <2>1 DEF Server!IsOpen, OnlySaved
    <2>2. CASE PushGoesOn
      <3>1. Server!IsOpen /\ TxOps \subseteq OnWire
        BY <2>2 DEF PushGoesOn, OnWire
      <3>2. {o.id : o \in TxOps} \cap Changes \subseteq saved
        BY <3>1 DEF OnlySaved
      <3> QED BY <1>1, <2>2, <3>1, <3>2, StagedIds DEF OnlySaved
    <2>3. ASSUME NEW d \in Reg, NEW ops \in Seq(Op), PushOpens(d, ops)
          PROVE  Seen(tx'.refused, tx'.log) \cap Changes \subseteq saved'
      <3>1. tx'.refused = refused /\ tx'.log = log
        BY <2>3 DEF PushOpens, Server!Opened
      <3> QED BY <1>1, <3>1 DEF OnlySaved
    <2>4. tx' # Server!NoTx /\ tx'.stage # "rerun"
      BY <1>4 DEF Server!IsOpen, Server!NoTx
    <2> QED BY PushMovesSo, <2>1, <2>2, <2>3, <2>4
  <1> QED BY <1>1, <1>2, <1>3, <1>4 DEF OnlySaved, Seen, Server!IdsIn

\* What a push refused stays refused while it goes on: the refused op is not
\* judged again where its chain goes on.
LEMMA UnloggedStays ==
    ASSUME LedgerInv, Untroubled, PushGoesOn
    PROVE  /\ Unlogged(tx.refused, tx.log) \subseteq Unlogged(tx'.refused, tx'.log)
           /\ RefusalCodes = {} => Unlogged(tx'.refused, tx'.log) = {}
  <1> USE DEF LedgerInv
  <1>1. Server!IsOpen /\ tx \in SP!OpenTx
    BY WorldIsTyped DEF PushGoesOn, HonestInv
  <1>2. RefusalCodes = {} => Unlogged(tx.refused, tx.log) = {}
    BY <1>1 DEF RefusalsStand
  <1>3. \A q \in tx.refused : q.id \notin SP!SystemIds
    <2>1. \A q \in tx.refused : q.id \in {o.id : o \in Op}
      BY <1>1 DEF SP!OpenTx, SP!RefusedRow
    <2>2. \A o \in Op : o.id \notin SP!SystemIds
      BY ServerConstants DEF SP!OpShape
    <2> QED BY <2>1, <2>2
  <1>4. CASE tx'.refused = tx.refused /\ \A r \in tx'.log : r \in tx.log \/ r.op.id \in SP!SystemIds
    <2>1. \A i \in Server!IdsIn(tx'.log) : i \in Server!IdsIn(tx.log) \/ i \in SP!SystemIds
      BY <1>4 DEF Server!IdsIn
    <2>2. Unlogged(tx.refused, tx.log) \subseteq Unlogged(tx'.refused, tx'.log)
      BY <1>3, <1>4, <2>1 DEF Unlogged
    <2>3. Unlogged(tx'.refused, tx'.log) \subseteq Unlogged(tx.refused, tx.log)
      <3>1. Server!IdsIn(tx.log) \subseteq Server!IdsIn(tx'.log)
        BY DEF PushGoesOn, Server!IdsIn
      <3> QED BY <1>4, <3>1 DEF Unlogged
    <2> QED BY <1>2, <2>2, <2>3
  <1>5. CASE tx.stage = "judging" /\ tx.pos <= Len(tx.ops) /\ (JudgedAgain \/ JudgedNext)
    <2>1. CASE tx'.refused = tx.refused /\ tx'.log = tx.log
      BY <1>2, <2>1
    <2>2. CASE JudgedNew /\ Server!Cur.seq = tx.head.seq + 1
      <3>1. tx'.refused = tx.refused /\ Server!IdsIn(tx'.log) = Server!IdsIn(tx.log) \cup {Server!Cur.id}
        <4>1. tx'.refused = tx.refused /\ tx'.log = tx.log \cup {Server!LogRowOfCur}
          BY <2>2 DEF JudgedNew, JudgedTo
        <4>2. Server!LogRowOfCur.op = Server!Cur
          BY DEF Server!LogRowOfCur
        <4> QED BY <4>1, <4>2 DEF Server!IdsIn
      <3>2. Server!Cur.id \notin Unlogged(tx.refused, tx.log)
        <4>1. CASE RefusalCodes = {}
          BY <1>2, <4>1
        <4>2. CASE RefusalCodes # {}
          <5>1. ~Server!KeyTaken(Server!RefusedRowOf("DUPLICATE"))
            BY <1>1, <1>5, <2>2, <4>2, RefusalIsNew
          <5>2. \A q \in tx.refused : q.id # Server!Cur.id
            BY <5>1 DEF Server!KeyTaken, Server!RefusedRowOf
          <5> QED BY <5>2 DEF Unlogged
        <4> QED BY <4>1, <4>2
      <3> QED BY <1>2, <3>1, <3>2 DEF Unlogged
    <2>3. CASE JudgedLogged
      <3>1. PICK R \in {tx.refused, tx.refused \cup {Server!RefusedRowOf("DUPLICATE")}} :
               tx'.refused = R /\ tx'.log = tx.log
        BY <2>3 DEF JudgedLogged, JudgedTo
      <3>2. Server!RefusedRowOf("DUPLICATE").id \in Server!IdsIn(tx.log)
        BY <2>3 DEF JudgedLogged, Server!Duplicate, Server!RefusedRowOf
      <3> QED BY <1>2, <3>1, <3>2 DEF Unlogged
    <2>4. CASE JudgedRefused
      <3>1. RefusalCodes # {} /\ tx.refused \subseteq tx'.refused /\ tx'.log = tx.log
        BY <2>4 DEF JudgedRefused, JudgedTo
      <3> QED BY <3>1 DEF Unlogged
    <2>5. JudgedAgain => tx'.refused = tx.refused /\ tx'.log = tx.log
      BY DEF JudgedAgain, JudgedTo
    <2> QED BY <1>5, <2>1, <2>2, <2>3, <2>4, <2>5 DEF JudgedNext
  <1> QED BY <1>4, <1>5 DEF PushGoesOn

\* The committed refusals stay refused.
LEMMA RefusedStays ==
    ASSUME LedgerInv, [Next]_vars
    PROVE  /\ Unlogged(refused, log) \subseteq Unlogged(refused', log')
           /\ RefusalCodes = {} => Unlogged(refused', log') = {}
  <1> USE DEF LedgerInv
  <1>1. CASE Server!Commit
    <2>1. Server!IsOpen /\ log' = tx.log /\ refused' = tx.refused
      BY <1>1 DEF Server!Commit, Server!IsOpen
    <2> QED BY <2>1 DEF RefusalsStand
  <1>2. CASE UNCHANGED <<log, refused>>
    BY <1>2 DEF RefusalsStand
  <1> QED BY <1>1, <1>2, OnlyCommitWrites

\* Every step keeps refusals final.
LEMMA RefusalsStandKept ==
    ASSUME LedgerInv, Untroubled, [Next]_vars
    PROVE  RefusalsStand'
  <1> USE DEF LedgerInv
  <1>1. ASSUME Server!IsOpen'
        PROVE  /\ RefusalCodes = {} => Unlogged(tx'.refused, tx'.log) = {}
               /\ Unlogged(refused', log') \subseteq Unlogged(tx'.refused, tx'.log)
    <2>1. CASE UNCHANGED tx
      <3>1. Server!IsOpen /\ UNCHANGED <<log, refused>>
        <4>1. Server!IsOpen
          BY <1>1, <2>1 DEF Server!IsOpen
        <4>2. ~Server!Commit
          BY <2>1, <4>1 DEF Server!Commit, Server!IsOpen, Server!NoTx
        <4> QED BY <4>1, <4>2, OnlyCommitWrites
      <3> QED BY <2>1, <3>1 DEF RefusalsStand
    <2>2. CASE PushGoesOn /\ JudgeStep
      <3>1. Server!IsOpen /\ UNCHANGED <<log, refused>>
        BY <2>2, JudgingIsFair DEF PushGoesOn, Server!tables
      <3> QED BY <2>2, <3>1, UnloggedStays DEF RefusalsStand
    <2>3. ASSUME NEW d \in Reg, NEW ops \in Seq(Op), PushOpens(d, ops)
          PROVE  /\ RefusalCodes = {} => Unlogged(tx'.refused, tx'.log) = {}
                 /\ Unlogged(refused', log') \subseteq Unlogged(tx'.refused, tx'.log)
      <3>1. tx'.refused = refused /\ tx'.log = log /\ UNCHANGED <<log, refused>>
        BY <2>3 DEF PushOpens, Server!Opened, Server!tables
      <3> QED BY <3>1 DEF RefusalsStand
    <2>4. tx' # Server!NoTx /\ tx'.stage # "rerun"
      BY <1>1 DEF Server!IsOpen, Server!NoTx
    <2> QED BY PushMovesSo, <2>1, <2>2, <2>3, <2>4
  <1>2. RefusalCodes = {} => Unlogged(refused', log') = {}
    BY RefusedStays
  <1> QED BY <1>1, <1>2 DEF RefusalsStand, Unlogged, Server!IdsIn

\* An op that is judged and rejected is refused.
LEMMA RejectionIsRefusal ==
    ASSUME LedgerInv, Server!IsOpen, tx.stage = "judging", tx.pos <= Len(tx.ops),
           JudgedAgain \/ JudgedNext
    PROVE  \E res : /\ tx'.results = Append(tx.results, res)
                    /\ res.status = "rejected" => res.id \in Unlogged(tx'.refused, tx'.log)
  <1> USE DEF LedgerInv
  <1>1. CASE JudgedAgain
    <2>1. PICK res :
             /\ JudgedTo(tx.head, tx.log, tx.refused, tx.known, res)
             /\ \/ Server!Duplicate /\ res = Server!Result("duplicate", "none")
                \/ /\ ~Server!Duplicate
                   /\ \E k \in tx.known : /\ k.id = Server!Cur.id /\ k.hash = Server!Cur.hash
                                          /\ res = Server!Result("rejected", k.code)
      BY <1>1 DEF JudgedAgain
    <2>2. CASE res = Server!Result("duplicate", "none")
      <3>1. res.status = "duplicate" /\ tx'.results = Append(tx.results, res)
        BY <2>1, <2>2 DEF Server!Result, JudgedTo
      <3> QED BY <3>1
    <2>3. CASE ~Server!Duplicate
      <3>1. PICK k \in tx.known : k.id = Server!Cur.id /\ res = Server!Result("rejected", k.code)
        BY <2>1, <2>3
      <3>2. PICK q \in tx.refused : k = Server!Verdict(q)
        BY DEF HonestInv, RefusalsOfRows, VerdictsKnown
      <3>3. q.id = Server!Cur.id /\ res.id = Server!Cur.id
        BY <3>1, <3>2 DEF Server!Verdict, Server!Result
      <3>4. res.id \in Unlogged(tx.refused, tx.log)
        BY <2>3, <3>3 DEF Unlogged, Server!Duplicate
      <3>5. tx'.results = Append(tx.results, res) /\ tx'.refused = tx.refused /\ tx'.log = tx.log
        BY <2>1 DEF JudgedTo
      <3> QED BY <3>4, <3>5
    <2> QED BY <2>1, <2>2, <2>3
  <1>2. CASE JudgedNew \/ JudgedLogged
    <2>1. \E st \in {"accepted", "duplicate"} :
             tx'.results = Append(tx.results, Server!Result(st, "none"))
      BY <1>2 DEF JudgedNew, JudgedLogged, JudgedTo
    <2>2. \A st : Server!Result(st, "none").status = st
      BY DEF Server!Result
    <2> QED BY <2>1, <2>2
  <1>3. CASE JudgedRefused
    <2>1. PICK code : /\ tx'.refused = tx.refused \cup {Server!RefusedRowOf(code)} /\ tx'.log = tx.log
                      /\ tx'.results = Append(tx.results, Server!Result("rejected", code))
      BY <1>3 DEF JudgedRefused, JudgedTo
    <2>2. Server!RefusedRowOf(code).id = Server!Result("rejected", code).id
      BY DEF Server!RefusedRowOf, Server!Result
    <2>3. Server!Result("rejected", code).id \notin Server!IdsIn(tx.log)
      BY <1>3 DEF JudgedRefused, Server!Duplicate, Server!Result
    <2>4. Server!Result("rejected", code).id \in Unlogged(tx'.refused, tx'.log)
      BY <2>1, <2>2, <2>3 DEF Unlogged
    <2> QED BY <2>1, <2>4
  <1> QED BY <1>1, <1>2, <1>3 DEF JudgedNext

\* An answer that was true stays true.
LEMMA RejectionStays ==
    ASSUME LedgerInv, [Next]_vars, NEW r \in Reg, NEW res, NEW R, NEW L,
           TrueRejection(status[r], res, R, L), Unlogged(R, L) \subseteq Unlogged(refused', log')
    PROVE  TrueRejection(status'[r], res, refused', log')
  <1>1. status[r] = "revoked" => status'[r] = "revoked"
    BY HeadsGrow DEF LedgerInv, HonestInv
  <1> QED BY <1>1 DEF TrueRejection

\* Every step keeps the answers' rejections true.
LEMMA RejectionsKept ==
    ASSUME LedgerInv, Untroubled, [Next]_vars
    PROVE  RejectionsTrue'
  <1> USE DEF LedgerInv, HonestInv
  <1>0. Unlogged(refused, log) \subseteq Unlogged(refused', log')
    BY RefusedStays
  <1>00. \A r \in Reg : status[r] = "revoked" => status'[r] = "revoked"
    BY HeadsGrow
  <1>1. ASSUME NEW r \in Reg, flight'[r].stage = "answered", NEW i \in DOMAIN flight'[r].results
        PROVE  TrueRejection(status'[r], flight'[r].results[i], refused', log')
    <2>0. flight'[r] # Idle
      BY <1>1 DEF Idle
    <2>1. CASE /\ flight[r].stage = "answered"
               /\ \E j \in DOMAIN flight[r].results : flight'[r].results[i] = flight[r].results[j]
      <3>1. PICK j \in DOMAIN flight[r].results : flight'[r].results[i] = flight[r].results[j]
        BY <2>1
      <3>2. TrueRejection(status[r], flight'[r].results[i], refused, log)
        BY <2>1, <3>1 DEF RejectionsTrue
      <3> QED BY <1>0, <3>2, RejectionStays
    <2>2. CASE flight[r].stage = "judging" /\ CommitPush /\ flight'[r].results = tx.results
      <3>1. Server!IsOpen /\ tx.dev = r /\ refused' = tx.refused /\ log' = tx.log
        BY <2>2 DEF JudgedIsOpen, Judging, CommitPush, Server!Commit, Server!IsOpen
      <3>2. TrueRejection(status[r], flight'[r].results[i], tx.refused, tx.log)
        BY <1>1, <2>2, <3>1 DEF RejectionsTrue
      <3> QED BY <3>1, <3>2, RejectionStays
    <2>3. CASE /\ flight[r].stage = "answered" /\ flight[r].results # <<>> /\ flight[r] # Idle
               /\ flight'[r].results = Tail(flight[r].results)
      <3>1. flight[r].results \in Seq(SP!OpResult)
        BY <2>3 DEF DurableInv, WireTypes, Flight
      <3>2. i + 1 \in DOMAIN flight[r].results /\ flight'[r].results[i] = flight[r].results[i + 1]
        BY <1>1, <2>3, <3>1
      <3> QED BY <2>1, <2>3, <3>2
    <2>4. ~Send(r)
      <3> SUFFICES ASSUME Send(r) PROVE FALSE
        OBVIOUS
      <3>1. PICK b \in PushBatches :
               flight'[r] = [stage |-> "sent", dev |-> r, tok |-> r,
                             ops |-> [k \in DOMAIN b |-> b[k].op], results |-> <<>>]
        BY SentByOwner
      <3>2. flight'[r].stage = "sent"
        BY <3>1
      <3> QED BY <1>1, <3>2
    <2>5. CASE flight'[r] = flight[r]
      BY <1>1, <2>1, <2>5
    <2> QED BY <1>1, <2>0, <2>1, <2>2, <2>3, <2>4, <2>5, FlightMovesSo DEF FlightMove
  <1>2. ASSUME Server!IsOpen', NEW i \in DOMAIN tx'.results
        PROVE  TrueRejection(status'[tx'.dev], tx'.results[i], tx'.refused, tx'.log)
    <2>1. CASE UNCHANGED tx
      <3>1. Server!IsOpen /\ tx.dev \in Reg
        BY <1>2, <2>1, WorldIsTyped DEF Server!IsOpen, SP!OpenTx
      <3>2. TrueRejection(status[tx.dev], tx.results[i], tx.refused, tx.log)
        BY <1>2, <2>1, <3>1 DEF RejectionsTrue
      <3> QED BY <1>00, <2>1, <3>1, <3>2 DEF TrueRejection
    <2>2. CASE PushGoesOn /\ JudgeStep
      <3>1. /\ Server!IsOpen /\ tx'.dev = tx.dev /\ status' = status
            /\ Unlogged(tx.refused, tx.log) \subseteq Unlogged(tx'.refused, tx'.log)
        BY <2>2, JudgingIsFair, UnloggedStays DEF Server!tables, PushGoesOn
      <3>2. \A k \in DOMAIN tx.results :
               TrueRejection(status[tx.dev], tx.results[k], tx'.refused, tx'.log)
        BY <3>1 DEF RejectionsTrue, TrueRejection
      <3>3. CASE tx'.results = tx.results
        BY <1>2, <3>1, <3>2, <3>3
      <3>4. CASE tx.stage = "judging" /\ tx.pos <= Len(tx.ops) /\ (JudgedAgain \/ JudgedNext)
        <4>1. PICK res : /\ tx'.results = Append(tx.results, res)
                         /\ res.status = "rejected" => res.id \in Unlogged(tx'.refused, tx'.log)
          BY <3>1, <3>4, RejectionIsRefusal
        <4>2. tx.results \in Seq(SP!OpResult)
          BY <3>1, WorldIsTyped DEF SP!OpenTx
        <4>3. (i \in DOMAIN tx.results /\ tx'.results[i] = tx.results[i]) \/ tx'.results[i] = res
          BY <1>2, <4>1, <4>2
        <4>4. TrueRejection(status[tx.dev], res, tx'.refused, tx'.log)
          BY <4>1 DEF TrueRejection
        <4> QED BY <3>1, <3>2, <4>3, <4>4
      <3> QED BY <2>2, <3>3, <3>4 DEF PushGoesOn
    <2>3. ASSUME NEW d \in Reg, NEW ops \in Seq(Op), PushOpens(d, ops)
          PROVE  TrueRejection(status'[tx'.dev], tx'.results[i], tx'.refused, tx'.log)
      <3>1. tx'.dev = d /\ status[d] = "revoked"
        <4>1. PICK careful \in BOOLEAN : tx' = Server!Opened(d, ops, careful)
          BY <2>3 DEF PushOpens
        <4> QED BY <1>2, <4>1 DEF Server!Opened
      <3> QED BY <1>00, <2>3, <3>1 DEF TrueRejection
    <2>4. tx' # Server!NoTx /\ tx'.stage # "rerun"
      BY <1>2 DEF Server!IsOpen, Server!NoTx
    <2> QED BY PushMovesSo, <2>1, <2>2, <2>3, <2>4
  <1>3. /\ \A r \in Reg : flight'[r].stage = "answered" =>
              \A i \in DOMAIN flight'[r].results :
                 TrueRejection(status'[r], flight'[r].results[i], refused', log')
        /\ Server!IsOpen' =>
              \A i \in DOMAIN tx'.results :
                 TrueRejection(status'[tx'.dev], tx'.results[i], tx'.refused, tx'.log)
    BY <1>1, <1>2
  <1> QED BY <1>3 DEF RejectionsTrue, TrueRejection, Unlogged, Server!IdsIn

\* Every step keeps the registrations to come unknown to the server.
LEMMA AheadKept ==
    ASSUME LedgerInv, Untroubled, [Next]_vars
    PROVE  AheadUnknown'
  <1> USE DEF LedgerInv, HonestInv, DurableInv
  <1>1. /\ status \in [Reg -> {"unknown", "active", "revoked"}]
        /\ key \in Nat /\ draft \in Nat /\ draft <= key /\ Reg \subseteq Nat
    BY ServerTypes, RegIsNat DEF SP!TypeOK, IdentityInv
  <1>2. key' \in Nat /\ key <= key'
    BY <1>1, KeyMade
  <1>3. CASE status' = status
    BY <1>1, <1>2, <1>3 DEF AheadUnknown
  <1>4. CASE EnrolOnServer
    <2>1. key' = key
      BY <1>4 DEF EnrolOnServer, identity
    <2>2. \A r \in Reg : status'[r] # status[r] => r = draft \/ status[r] = "active"
      BY <1>4 DEF EnrolOnServer
    <2> QED BY <1>1, <2>1, <2>2 DEF AheadUnknown
  <1>5. ASSUME NEW r \in Reg, RevokeByOwner(r) PROVE AheadUnknown'
    <2>1. status[r] = "active" /\ status' = [status EXCEPT ![r] = "revoked"] /\ key' = key
      BY <1>5 DEF RevokeByOwner, Server!Revoke, identity
    <2> QED BY <1>1, <2>1 DEF AheadUnknown
  <1> QED BY <1>3, <1>4, <1>5, StatusMovesSo

\* The system starts with an empty ledger.
LEMMA LedgerInvInit == Init => LedgerInv
  <1> SUFFICES ASSUME Init PROVE LedgerInv
    OBVIOUS
  <1>1. /\ rows = {} /\ stale = {} /\ \A r \in Reg : flight[r] = Idle
        /\ log = {} /\ refused = {} /\ ~Server!IsOpen /\ tx.stage = "none"
        /\ \A r \in Reg : status[r] = "unknown"
    BY DEF Init, Server!Init, Server!NoTx, Server!IsOpen
  <1>2. RowOps = {} /\ OnWire = {} /\ Seen(refused, log) = {} /\ Unlogged(refused, log) = {}
    BY <1>1 DEF RowOps, OnWire, FlightOps, StaleOps, TxOps, TxUsed, Seen, Unlogged, Server!IdsIn
  <1>3. OnlySaved /\ RefusalsStand
    BY <1>1, <1>2 DEF OnlySaved, RefusalsStand
  <1>4. RejectionsTrue /\ AheadUnknown
    BY <1>1 DEF RejectionsTrue, AheadUnknown, Idle
  <1> QED BY HonestInit, <1>3, <1>4 DEF LedgerInv

\* Every step keeps the ledger's invariant.
LEMMA LedgerInvStep == Untroubled /\ LedgerInv /\ [Next]_vars => LedgerInv'
  <1> SUFFICES ASSUME Untroubled, LedgerInv, [Next]_vars PROVE LedgerInv'
    OBVIOUS
  <1>1. HonestInv'
    BY HonestStep DEF LedgerInv
  <1> QED BY <1>1, OnlySavedKept, RefusalsStandKept, RejectionsKept, AheadKept DEF LedgerInv

\* The ledger's invariant holds forever.
LEMMA AlwaysLedgered ==
    ASSUME Untroubled
    PROVE  Spec => []LedgerInv
  <1>1. LedgerInv /\ [Next]_vars => LedgerInv'
    BY LedgerInvStep
  <1> QED BY <1>1, LedgerInvInit, PTL DEF Spec

\* What the rows R and the tables L and Q say of the changes.
PhoneOf(R) ==
    [c \in Changes |-> IF \E w \in R : w.op.id = c
                       THEN (CHOOSE w \in R : w.op.id = c).st ELSE "unsaved"]
ServerOf(L, Q) ==
    [c \in Changes |-> IF c \in Server!IdsIn(L) THEN "taken"
                       ELSE IF \E q \in Q : q.id = c THEN "refused" ELSE "unjudged"]

\* The ledger's variables are what the tables say.
LEMMA LedgerReads ==
    /\ LedgerPhone = PhoneOf(rows) /\ LedgerPhone' = PhoneOf(rows')
    /\ LedgerServer = ServerOf(log, refused) /\ LedgerServer' = ServerOf(log', refused')
  BY DEF LedgerPhone, LedgerServer, PhoneOf, ServerOf, Logged, Server!IdsIn

\* A change has the status of its row, and none without a row.
LEMMA PhoneReads ==
    ASSUME NEW R, NEW c \in Changes, \A w, v \in R : w.op.id = v.op.id /\ w.op.id = c => w = v
    PROVE  /\ \A w \in R : w.op.id = c => PhoneOf(R)[c] = w.st
           /\ (\A w \in R : w.op.id # c) => PhoneOf(R)[c] = "unsaved"
  <1>1. ASSUME NEW w \in R, w.op.id = c PROVE PhoneOf(R)[c] = w.st
    <2> DEFINE x == CHOOSE v \in R : v.op.id = c
    <2>1. x \in R /\ x.op.id = c
      BY <1>1
    <2>2. x = w
      BY <1>1, <2>1
    <2>3. PhoneOf(R)[c] = x.st
      BY <1>1 DEF PhoneOf
    <2> QED BY <2>2, <2>3
  <1>2. ASSUME \A w \in R : w.op.id # c PROVE PhoneOf(R)[c] = "unsaved"
    BY <1>2 DEF PhoneOf
  <1> QED BY <1>1, <1>2

\* What the server says of a change.
LEMMA ServerReads ==
    ASSUME NEW L, NEW Q, NEW c \in Changes
    PROVE  /\ c \in Server!IdsIn(L) <=> ServerOf(L, Q)[c] = "taken"
           /\ c \in Unlogged(Q, L) <=> ServerOf(L, Q)[c] = "refused"
           /\ c \notin Seen(Q, L) <=> ServerOf(L, Q)[c] = "unjudged"
  <1>1. ServerOf(L, Q)[c] = IF c \in Server!IdsIn(L) THEN "taken"
                            ELSE IF \E q \in Q : q.id = c THEN "refused" ELSE "unjudged"
    BY DEF ServerOf
  <1> QED BY <1>1 DEF Unlogged, Seen

\* Two sets of rows that say the same of one change.
LEMMA SameReading ==
    ASSUME NEW R, NEW S, NEW c \in Changes,
           \A w, v \in R : w.op.id = v.op.id /\ w.op.id = c => w = v,
           \A w, v \in S : w.op.id = v.op.id /\ w.op.id = c => w = v,
           \A v \in S : v.op.id = c => \E w \in R : w.op.id = c /\ w.st = v.st,
           \A w \in R : w.op.id = c => \E v \in S : v.op.id = c
    PROVE  PhoneOf(S)[c] = PhoneOf(R)[c]
  <1>1. CASE \E v \in S : v.op.id = c
    <2>1. PICK v \in S : v.op.id = c
      BY <1>1
    <2>2. PICK w \in R : w.op.id = c /\ w.st = v.st
      BY <2>1
    <2> QED BY <2>1, <2>2, PhoneReads
  <1>2. CASE ~ \E v \in S : v.op.id = c
    BY <1>2, PhoneReads
  <1> QED BY <1>1, <1>2

\* A step that changes the reading of at most one change.
LEMMA OneReading ==
    ASSUME NEW R, NEW S, NEW c \in Changes, NEW x, PhoneOf(S)[c] = x,
           \A d \in Changes : d # c => PhoneOf(S)[d] = PhoneOf(R)[d]
    PROVE  PhoneOf(S) = [PhoneOf(R) EXCEPT ![c] = x]
  <1> DEFINE f == PhoneOf(R)
             g == PhoneOf(S)
  <1>1. /\ f = [d \in Changes |-> f[d]]
        /\ g = [d \in Changes |-> g[d]]
    BY DEF PhoneOf
  <1>2. \A d \in Changes : g[d] = [f EXCEPT ![c] = x][d]
    BY <1>1
  <1> HIDE DEF f, g
  <1>3. g = [f EXCEPT ![c] = x]
    BY <1>1, <1>2
  <1> QED BY <1>3 DEF f, g

\* A command that commits saves its change.
LEMMA CommandSaves ==
    ASSUME LedgerInv, CommitCommand
    PROVE  \E c \in Changes : /\ LedgerPhone[c] = "unsaved"
                              /\ LedgerPhone' = [LedgerPhone EXCEPT ![c] = "local"]
  <1> USE DEF LedgerInv, HonestInv, DurableInv, RowsInv
  <1>1. PICK n \in opened : TRUE
    BY DEF CommitCommand, Free
  <1>2. /\ n.st = "local" /\ n.op.id \in Changes
        /\ \A v \in rows : v.op.id # n.op.id
        /\ opened = {n}
    BY <1>1 DEF OpenedIsNew
  <1>3. rows' = rows \cup {n}
    BY <1>2 DEF CommitCommand
  <1> DEFINE c == n.op.id
  <1>4. \A w, v \in rows' : w.op.id = v.op.id /\ w.op.id \in Changes => w = v
    BY <1>2, <1>3 DEF ChangeOnce
  <1>5. PhoneOf(rows')[c] = "local"
    BY <1>2, <1>3, <1>4, PhoneReads
  <1>6. PhoneOf(rows)[c] = "unsaved"
    BY <1>2, PhoneReads
  <1>7. ASSUME NEW d \in Changes, d # c PROVE PhoneOf(rows')[d] = PhoneOf(rows)[d]
    <2>1. \A w, v \in rows : w.op.id = v.op.id /\ w.op.id = d => w = v
      BY DEF ChangeOnce
    <2>2. \A w, v \in rows' : w.op.id = v.op.id /\ w.op.id = d => w = v
      BY <1>4
    <2>3. \A v \in rows' : v.op.id = d => \E w \in rows : w.op.id = d /\ w.st = v.st
      BY <1>3, <1>7
    <2>4. \A w \in rows : w.op.id = d => \E v \in rows' : v.op.id = d
      BY <1>3
    <2> QED BY <2>1, <2>2, <2>3, <2>4, SameReading
  <1> HIDE DEF c
  <1>8. c \in Changes
    BY <1>2 DEF c
  <1>9. PhoneOf(rows') = [PhoneOf(rows) EXCEPT ![c] = "local"]
    BY <1>5, <1>7, <1>8, OneReading
  <1> QED BY <1>6, <1>8, <1>9, LedgerReads

\* Re-signing the unsent changes changes no reading.
LEMMA CarryOverReadsSame ==
    ASSUME LedgerInv, DurableInv', CarryOver
    PROVE  LedgerPhone' = LedgerPhone
  <1> USE DEF LedgerInv, HonestInv, DurableInv, RowsInv
  <1>1. ASSUME NEW v \in rows', v.op.id \in Changes
        PROVE  \E w \in rows : w.op.id = v.op.id /\ w.st = v.st
    <2>1. PICK s \in CarryOrders :
             /\ \/ v \in rows
                \/ v.st = "local" /\ \E i \in 1..(Len(s) + 1) : v = LocalRow(CarriedOp(s, i))
             /\ Len(s) \in Nat
             /\ \A i \in 1..(Len(s) + 1) : LocalRow(CarriedOp(s, i)).op.id = CarriedId(s, i)
             /\ \A i \in 2..(Len(s) + 1) : s[i - 1] \in Carried
      BY CarryOverMakes
    <2>2. CASE v \notin rows
      <3>1. PICK i \in 1..(Len(s) + 1) : v = LocalRow(CarriedOp(s, i))
        BY <2>1, <2>2
      <3>2. v.op.id = CarriedId(s, i) /\ v.st = "local"
        BY <2>1, <2>2, <3>1
      <3>3. i # 1
        BY <1>1, <3>2, ChangeIdsApart DEF CarriedId
      <3>4. i \in 2..(Len(s) + 1)
        BY <2>1, <3>3
      <3>5. s[i - 1] \in rows /\ s[i - 1].st = "local" /\ v.op.id = s[i - 1].op.id
        BY <2>1, <3>2, <3>3, <3>4 DEF CarriedId, Carried, Unsent
      <3> QED BY <3>2, <3>5
    <2> QED BY <2>2
  <1>2. ASSUME NEW w \in rows, w.op.id \in Changes PROVE \E v \in rows' : v.op.id = w.op.id
    <2>1. w.op.id \in saved'
      BY <1>2, RowsAreSaved DEF OnlySaved, RowOps, Next, Enrolment
    <2> QED BY <2>1 DEF SavedHeld
  <1>3. ASSUME NEW c \in Changes PROVE PhoneOf(rows')[c] = PhoneOf(rows)[c]
    <2>1. \A w, v \in rows : w.op.id = v.op.id /\ w.op.id = c => w = v
      BY DEF ChangeOnce
    <2>2. \A w, v \in rows' : w.op.id = v.op.id /\ w.op.id = c => w = v
      BY DEF ChangeOnce
    <2>3. \A v \in rows' : v.op.id = c => \E w \in rows : w.op.id = c /\ w.st = v.st
      BY <1>1
    <2>4. \A w \in rows : w.op.id = c => \E v \in rows' : v.op.id = c
      BY <1>2
    <2> QED BY <2>1, <2>2, <2>3, <2>4, SameReading
  <1>4. PhoneOf(rows') = PhoneOf(rows)
    BY <1>3 DEF PhoneOf
  <1> QED BY <1>4, LedgerReads

\* A registration's own first record changes no reading.
LEMMA GenesisReadsSame ==
    ASSUME LedgerInv, DurableInv', EmitGenesis
    PROVE  LedgerPhone' = LedgerPhone
  <1> USE DEF LedgerInv, HonestInv, DurableInv, RowsInv
  <1> DEFINE n == LocalRow(SignedOp(<<"genesis", draft>>, draft, PhoneHead(draft, rows)))
  <1>1. n.op.id \notin Changes
    BY ChangeIdsApart DEF LocalRow, SignedOp
  <1>2. rows' = rows \/ rows' = rows \cup {n}
    BY DEF EmitGenesis
  <1> HIDE DEF n
  <1>3. ASSUME NEW c \in Changes PROVE PhoneOf(rows')[c] = PhoneOf(rows)[c]
    <2>1. \A w, v \in rows : w.op.id = v.op.id /\ w.op.id = c => w = v
      BY DEF ChangeOnce
    <2>2. \A w, v \in rows' : w.op.id = v.op.id /\ w.op.id = c => w = v
      BY DEF ChangeOnce
    <2>3. \A v \in rows' : v.op.id = c => \E w \in rows : w.op.id = c /\ w.st = v.st
      BY <1>1, <1>2
    <2>4. \A w \in rows : w.op.id = c => \E v \in rows' : v.op.id = c
      BY <1>2
    <2> QED BY <2>1, <2>2, <2>3, <2>4, SameReading
  <1>4. PhoneOf(rows') = PhoneOf(rows)
    BY <1>3 DEF PhoneOf
  <1> QED BY <1>4, LedgerReads

\* Marking an answer moves at most one change, from unanswered, to the verdict
\* the server gave, or aside when the registration is revoked.
LEMMA MarkLearns ==
    ASSUME LedgerInv, NEW r \in Reg, MarkResult(r)
    PROVE  \/ LedgerPhone' = LedgerPhone
           \/ \E c \in Changes :
                 /\ LedgerPhone[c] = "local"
                 /\ \/ /\ LedgerServer[c] = "taken"
                       /\ LedgerPhone' = [LedgerPhone EXCEPT ![c] = "synced"]
                    \/ /\ LedgerServer[c] = "refused" \/ (r = key /\ status[r] = "revoked")
                       /\ LedgerPhone' = [LedgerPhone EXCEPT ![c] = "rejected"]
  <1> USE DEF LedgerInv, HonestInv, DurableInv, RowsInv
  <1> DEFINE res == Head(flight[r].results)
  <1>1. flight[r] \in Flight /\ flight[r].stage = "answered" /\ flight[r].results # <<>> /\ flight[r] # Idle
    BY DEF MarkResult, WireTypes, Idle
  <1>2. 1 \in DOMAIN flight[r].results /\ res = flight[r].results[1]
    BY <1>1 DEF Flight
  <1>3. r = key
    BY <1>1 DEF WireOwner
  <1>4. res.status # "rejected" => res.id \in Server!IdsIn(log)
    BY <1>1, <1>2 DEF Answered, Logged
  <1>5. TrueRejection(status[r], res, refused, log)
    BY <1>1, <1>2 DEF RejectionsTrue
  <1> HIDE DEF res
  <1>6. PICK f \in [rows -> Row] :
           /\ rows' = {f[w] : w \in rows}
           /\ \A w \in rows : /\ f[w].op = w.op
                              /\ \/ f[w] = w
                                 \/ w.op.id = res.id /\ f[w].st = NextStatus(w.st, res)
    BY MarksMoveStates DEF res
  <1>7. ASSUME NEW d \in Changes, \A w \in rows : w.op.id = d => f[w] = w
        PROVE  PhoneOf(rows')[d] = PhoneOf(rows)[d]
    <2>1. \A w, v \in rows : w.op.id = v.op.id /\ w.op.id = d => w = v
      BY <1>7 DEF ChangeOnce
    <2>2. \A v \in rows' : v.op.id = d => v \in rows
      BY <1>6, <1>7
    <2>3. \A w \in rows : w.op.id = d => w \in rows'
      BY <1>6, <1>7
    <2>4. \A w, v \in rows' : w.op.id = v.op.id /\ w.op.id = d => w = v
      BY <2>1, <2>2
    <2>5. CASE \E w \in rows : w.op.id = d
      <3>1. PICK w \in rows : w.op.id = d /\ w \in rows'
        BY <2>3, <2>5
      <3>2. PhoneOf(rows)[d] = w.st
        BY <2>1, <3>1, PhoneReads
      <3>3. PhoneOf(rows')[d] = w.st
        BY <2>4, <3>1, PhoneReads
      <3> QED BY <3>2, <3>3
    <2>6. CASE ~ \E w \in rows : w.op.id = d
      <3>1. PhoneOf(rows)[d] = "unsaved"
        BY <2>6, PhoneReads
      <3>2. PhoneOf(rows')[d] = "unsaved"
        BY <2>2, <2>6, PhoneReads
      <3> QED BY <3>1, <3>2
    <2> QED BY <2>5, <2>6
  <1>8. CASE \A w \in rows : w.op.id \in Changes => f[w] = w
    <2>1. PhoneOf(rows') = PhoneOf(rows)
      BY <1>7, <1>8 DEF PhoneOf
    <2> QED BY <2>1, LedgerReads
  <1>9. ASSUME NEW u \in rows, u.op.id \in Changes, f[u] # u
        PROVE  \E c \in Changes :
                 /\ LedgerPhone[c] = "local"
                 /\ \/ /\ LedgerServer[c] = "taken"
                       /\ LedgerPhone' = [LedgerPhone EXCEPT ![c] = "synced"]
                    \/ /\ LedgerServer[c] = "refused" \/ (r = key /\ status[r] = "revoked")
                       /\ LedgerPhone' = [LedgerPhone EXCEPT ![c] = "rejected"]
    <2> DEFINE c == u.op.id
               x == NextStatus(u.st, res)
    <2>1. c = res.id /\ f[u].st = x /\ f[u].op = u.op
      BY <1>6, <1>9
    <2>2. u.st # x
      <3>1. u \in Row /\ f[u] \in Row
        BY <1>6 DEF RowTypes
      <3> QED BY <1>9, <2>1, <3>1 DEF Row
    <2>3. x \in {"local", "synced", "rejected"} /\ u.st \in {"local", "synced", "rejected"}
      BY <1>6, <2>1 DEF Row, RowTypes
    <2>4. /\ u.st = "local"
          /\ \/ x = "synced" /\ res.status # "rejected"
             \/ x = "rejected" /\ res.status = "rejected"
      BY <2>2, <2>3 DEF NextStatus
    <2>5. \A w \in rows : w.op.id = c => w = u
      BY <1>9 DEF ChangeOnce
    <2>6. \A v \in rows' : v.op.id = c => v = f[u]
      BY <1>6, <2>5
    <2>7. f[u] \in rows' /\ f[u].op.id = c
      BY <1>6, <2>1
    <2> HIDE DEF x, c
    <2>8. c \in Changes
      BY <1>9 DEF c
    <2>9. PhoneOf(rows)[c] = "local"
      BY <2>4, <2>5, <2>8, PhoneReads DEF c
    <2>10. PhoneOf(rows')[c] = x
      <3>1. \A w, v \in rows' : w.op.id = v.op.id /\ w.op.id = c => w = v
        BY <2>6
      <3> QED BY <2>1, <2>7, <2>8, <3>1, PhoneReads
    <2>11. ASSUME NEW d \in Changes, d # c PROVE PhoneOf(rows')[d] = PhoneOf(rows)[d]
      <3>1. \A w \in rows : w.op.id = d => f[w] = w
        BY <1>6, <2>1, <2>11
      <3> QED BY <1>7, <3>1
    <2>12. PhoneOf(rows') = [PhoneOf(rows) EXCEPT ![c] = x]
      BY <2>8, <2>10, <2>11, OneReading
    <2>13. LedgerPhone[c] = "local" /\ LedgerPhone' = [LedgerPhone EXCEPT ![c] = x]
      BY <2>9, <2>12, LedgerReads
    <2>14. /\ c \in Server!IdsIn(log) => LedgerServer[c] = "taken"
           /\ c \in Unlogged(refused, log) => LedgerServer[c] = "refused"
      BY <2>8, ServerReads, LedgerReads
    <2>15. CASE x = "synced" /\ res.status # "rejected"
      <3>1. LedgerServer[c] = "taken"
        BY <1>4, <2>1, <2>14, <2>15
      <3> QED BY <2>8, <2>13, <2>15, <3>1
    <2>16. CASE x = "rejected" /\ res.status = "rejected"
      <3>1. status[r] = "revoked" \/ LedgerServer[c] = "refused"
        BY <1>5, <2>1, <2>14, <2>16 DEF TrueRejection
      <3> QED BY <1>3, <2>8, <2>13, <2>16, <3>1
    <2> QED BY <2>4, <2>15, <2>16
  <1> QED BY <1>8, <1>9

\* A commit judges changes the phone has saved and does not show as synced; a
\* verdict stands.
LEMMA CommitJudges ==
    ASSUME LedgerInv, Untroubled, [Next]_vars, Server!Commit
    PROVE  /\ LedgerServer' \in [Changes -> {"unjudged", "refused", "taken"}]
           /\ \A c \in Changes :
                 IF LedgerServer[c] # "unjudged" THEN LedgerServer'[c] = LedgerServer[c]
                 ELSE LedgerServer'[c] # "unjudged" => LedgerPhone[c] \in {"local", "rejected"}
  <1> USE DEF LedgerInv, HonestInv, DurableInv, RowsInv
  <1>1. \A L, Q : ServerOf(L, Q) \in [Changes -> {"unjudged", "refused", "taken"}]
    BY DEF ServerOf
  <1>2. Logged \subseteq Logged' /\ Unlogged(refused, log) \subseteq Unlogged(refused', log')
    BY LogGrows, RefusedStays
  <1>3. Server!IdsIn(log) \subseteq Server!IdsIn(log')
    BY <1>2 DEF Logged, Server!IdsIn
  <1>4. Seen(refused', log') \cap Changes \subseteq saved
    <2>1. Server!IsOpen /\ log' = tx.log /\ refused' = tx.refused
      BY DEF Server!Commit, Server!IsOpen
    <2> QED BY <2>1 DEF OnlySaved
  <1>5. ASSUME NEW c \in Changes
        PROVE  IF ServerOf(log, refused)[c] # "unjudged"
               THEN ServerOf(log', refused')[c] = ServerOf(log, refused)[c]
               ELSE ServerOf(log', refused')[c] # "unjudged" =>
                       PhoneOf(rows)[c] \in {"local", "rejected"}
    <2>1. ServerOf(log, refused)[c] \in {"unjudged", "refused", "taken"}
      BY <1>1
    <2>2. CASE ServerOf(log, refused)[c] = "taken"
      BY <1>3, <2>2, ServerReads
    <2>3. CASE ServerOf(log, refused)[c] = "refused"
      BY <1>2, <2>3, ServerReads
    <2>4. CASE ServerOf(log, refused)[c] = "unjudged"
      <3> SUFFICES ASSUME ServerOf(log', refused')[c] # "unjudged"
                   PROVE  PhoneOf(rows)[c] \in {"local", "rejected"}
        BY <2>4
      <3>1. c \in saved
        BY <1>4, ServerReads
      <3>2. PICK w \in rows : w.op.id = c
        BY <3>1 DEF SavedHeld
      <3>3. PhoneOf(rows)[c] = w.st
        BY <3>2, PhoneReads DEF ChangeOnce
      <3>4. c \notin Server!IdsIn(log)
        BY <2>4, ServerReads
      <3>5. w.st # "synced"
        BY <3>2, <3>4 DEF SyncedIsDurable, Logged
      <3> QED BY <3>3, <3>5 DEF RowTypes, Row
    <2> QED BY <2>1, <2>2, <2>3, <2>4
  <1> QED BY <1>1, <1>5, LedgerReads

\* The registrations of a step that moves no change.
LEMMA TrustMoves ==
    ASSUME LedgerInv, Untroubled, [Next]_vars
    PROVE  \/ LedgerTrusted' <=> LedgerTrusted
           \/ /\ Revocable /\ LedgerTrusted /\ ~LedgerTrusted'
              /\ UNCHANGED <<rows, log, refused>>
           \/ /\ ~LedgerTrusted /\ LedgerTrusted'
              /\ UNCHANGED <<rows, log, refused>>
  <1> USE DEF LedgerInv, HonestInv, DurableInv
  <1>1. /\ status \in [Reg -> {"unknown", "active", "revoked"}]
        /\ key \in Nat /\ draft \in Nat /\ draft \in {0, key} /\ Reg \subseteq Nat \ {0}
    BY ServerTypes, RegIsNat DEF SP!TypeOK, IdentityInv, Names
  <1>2. CASE key' # key
    <2>1. key' = key + 1 /\ UNCHANGED <<status, rows, log, refused>>
      BY <1>2, KeyMade DEF server, phoneRows
    <2>2. LedgerTrusted'
      BY <1>1, <2>1 DEF AheadUnknown, LedgerTrusted
    <2> QED BY <2>1, <2>2
  <1>3. CASE key' = key /\ status' = status
    BY <1>3 DEF LedgerTrusted
  <1>4. CASE key' = key /\ EnrolOnServer
    <2>1. \A r \in Reg : r = key => (status'[r] = "revoked" <=> status[r] = "revoked")
      <3> SUFFICES ASSUME key \in Reg PROVE status'[key] = "revoked" <=> status[key] = "revoked"
        OBVIOUS
      <3>1. draft = key /\ status[draft] = "unknown"
        BY <1>1, <1>4 DEF EnrolOnServer, IdentityInv
      <3>2. status'[draft] = "active"
        BY <1>4, <3>1 DEF EnrolOnServer
      <3> QED BY <3>1, <3>2
    <2> QED BY <1>4, <2>1 DEF LedgerTrusted
  <1>5. ASSUME NEW r \in Reg, RevokeByOwner(r), key' = key
        PROVE  \/ LedgerTrusted' <=> LedgerTrusted
               \/ /\ Revocable /\ LedgerTrusted /\ ~LedgerTrusted'
                  /\ UNCHANGED <<rows, log, refused>>
    <2>1. /\ Revocable /\ status[r] = "active" /\ status' = [status EXCEPT ![r] = "revoked"]
          /\ UNCHANGED <<rows, log, refused>>
      BY <1>5 DEF RevokeByOwner, Server!Revoke, phoneRows
    <2>2. CASE r = key
      <3>1. LedgerTrusted
        BY <2>1, <2>2 DEF LedgerTrusted
      <3>2. status'[r] = "revoked"
        BY <1>1, <2>1
      <3>3. ~LedgerTrusted'
        BY <1>5, <2>2, <3>2 DEF LedgerTrusted
      <3> QED BY <2>1, <3>1, <3>3
    <2>3. CASE r # key
      <3>1. \A q \in Reg : q = key => status'[q] = status[q]
        BY <1>1, <2>1, <2>3
      <3> QED BY <1>5, <3>1 DEF LedgerTrusted
    <2> QED BY <2>2, <2>3
  <1> QED BY <1>2, <1>3, <1>4, <1>5, StatusMovesSo

\* Where the ledger's phone moves, its server and its trust stay.
LEMMA PhoneStepAlone ==
    ASSUME \/ CommitCommand \/ EmitGenesis \/ CarryOver
           \/ \E r \in Reg : MarkResult(r)
    PROVE  UNCHANGED <<log, refused, status, key>>
  BY DEF CommitCommand, EmitGenesis, CarryOver, MarkResult, PhoneOnly, server, identity

\* How the ledger's phone moves.
LEMMA PhoneMoves ==
    ASSUME LedgerInv, Untroubled, [Next]_vars
    PROVE  \/ LedgerPhone' = LedgerPhone
           \/ /\ UNCHANGED <<log, refused, status, key>>
              /\ \E c \in Changes :
                    \/ /\ LedgerPhone[c] = "unsaved"
                       /\ LedgerPhone' = [LedgerPhone EXCEPT ![c] = "local"]
                    \/ /\ LedgerPhone[c] = "local"
                       /\ \/ /\ LedgerServer[c] = "taken"
                             /\ LedgerPhone' = [LedgerPhone EXCEPT ![c] = "synced"]
                          \/ /\ LedgerServer[c] = "refused" \/ ~LedgerTrusted
                             /\ LedgerPhone' = [LedgerPhone EXCEPT ![c] = "rejected"]
  <1>1. DurableInv'
    BY DurableStep DEF LedgerInv, HonestInv
  <1>2. CASE UNCHANGED rows
    BY <1>2, LedgerReads
  <1>3. CASE CommitCommand
    BY <1>3, CommandSaves, PhoneStepAlone
  <1>4. CASE EmitGenesis \/ CarryOver
    BY <1>1, <1>4, GenesisReadsSame, CarryOverReadsSame
  <1>5. ASSUME NEW r \in Reg, MarkResult(r), LedgerPhone' # LedgerPhone
        PROVE  \E c \in Changes :
                    /\ LedgerPhone[c] = "local"
                    /\ \/ /\ LedgerServer[c] = "taken"
                          /\ LedgerPhone' = [LedgerPhone EXCEPT ![c] = "synced"]
                       \/ /\ LedgerServer[c] = "refused" \/ ~LedgerTrusted
                          /\ LedgerPhone' = [LedgerPhone EXCEPT ![c] = "rejected"]
    <2>1. r = key /\ status[r] = "revoked" => ~LedgerTrusted
      BY DEF LedgerTrusted
    <2> QED BY <1>5, <2>1, MarkLearns
  <1> QED BY <1>2, <1>3, <1>4, <1>5, PhoneStepAlone, TablesMoveSo DEF BeginCommand

\* The system starts with an empty ledger.
LEMMA StartsEmpty == Init => Ledger!LedgerInit
  <1> SUFFICES ASSUME Init PROVE Ledger!LedgerInit
    OBVIOUS
  <1>1. rows = {} /\ log = {} /\ refused = {} /\ key = 0
    BY DEF Init, Server!Init
  <1>2. LedgerPhone = [c \in Changes |-> "unsaved"]
    BY <1>1 DEF LedgerPhone
  <1>3. LedgerServer = [c \in Changes |-> "unjudged"]
    BY <1>1 DEF LedgerServer, Logged, Server!IdsIn
  <1>4. LedgerTrusted = TRUE
    BY <1>1, RegIsNat DEF LedgerTrusted
  <1> QED BY <1>2, <1>3, <1>4 DEF Ledger!LedgerInit

\* Every step is one step of the ledger, or none.
LEMMA LedgerStep ==
    Untroubled /\ LedgerInv /\ [Next]_vars => [Ledger!LedgerNext]_(Ledger!ledgerVars)
  <1> SUFFICES ASSUME Untroubled, LedgerInv, [Next]_vars
               PROVE  [Ledger!LedgerNext]_(Ledger!ledgerVars)
    OBVIOUS
  <1>1. CASE LedgerPhone' # LedgerPhone
    <2>1. /\ UNCHANGED <<log, refused, status, key>>
          /\ \E c \in Changes :
                \/ /\ LedgerPhone[c] = "unsaved"
                   /\ LedgerPhone' = [LedgerPhone EXCEPT ![c] = "local"]
                \/ /\ LedgerPhone[c] = "local"
                   /\ \/ /\ LedgerServer[c] = "taken"
                         /\ LedgerPhone' = [LedgerPhone EXCEPT ![c] = "synced"]
                      \/ /\ LedgerServer[c] = "refused" \/ ~LedgerTrusted
                         /\ LedgerPhone' = [LedgerPhone EXCEPT ![c] = "rejected"]
      BY <1>1, PhoneMoves
    <2>2. LedgerServer' = LedgerServer
      BY <2>1, LedgerReads
    <2>3. LedgerTrusted' = LedgerTrusted
      BY <2>1 DEF LedgerTrusted
    <2>4. \E c \in Changes : Ledger!Save(c) \/ Ledger!Learn(c) \/ Ledger!SetAside(c)
      BY <2>1, <2>2, <2>3 DEF Ledger!Save, Ledger!Learn, Ledger!SetAside
    <2> QED BY <2>4 DEF Ledger!LedgerNext
  <1>2. CASE LedgerPhone' = LedgerPhone /\ Server!Commit
    <2>1. LedgerTrusted' = LedgerTrusted
      <3>1. UNCHANGED <<status, key>>
        <4>1. status' = status
          BY <1>2 DEF Server!Commit
        <4>2. key' = key
          BY <1>2, KeyMade DEF server, Server!Commit, Server!IsOpen, Server!NoTx
        <4> QED BY <4>1, <4>2
      <3> QED BY <3>1 DEF LedgerTrusted
    <2>2. Ledger!Judge
      BY <1>2, <2>1, CommitJudges DEF Ledger!Judge
    <2> QED BY <2>2 DEF Ledger!LedgerNext
  <1>3. CASE LedgerPhone' = LedgerPhone /\ ~Server!Commit
    <2>1. LedgerServer' = LedgerServer
      BY <1>3, OnlyCommitWrites, LedgerReads
    <2>2. CASE LedgerTrusted' <=> LedgerTrusted
      <3>1. LedgerTrusted' = LedgerTrusted
        BY <2>2 DEF LedgerTrusted
      <3> QED BY <1>3, <2>1, <3>1 DEF Ledger!ledgerVars
    <2>3. CASE Revocable /\ LedgerTrusted /\ ~LedgerTrusted'
      <3>1. LedgerTrusted' = FALSE
        BY <2>3 DEF LedgerTrusted
      <3>2. Ledger!Revoke
        BY <1>3, <2>1, <2>3, <3>1 DEF Ledger!Revoke
      <3> QED BY <3>2 DEF Ledger!LedgerNext
    <2>4. CASE ~LedgerTrusted /\ LedgerTrusted'
      <3>1. LedgerTrusted' = TRUE
        BY <2>4 DEF LedgerTrusted
      <3>2. Ledger!Renew
        BY <1>3, <2>1, <2>4, <3>1 DEF Ledger!Renew
      <3> QED BY <3>2 DEF Ledger!LedgerNext
    <2> QED BY <2>2, <2>3, <2>4, TrustMoves
  <1> QED BY <1>1, <1>2, <1>3

\* Only committed changes are judged, each once, and the phone learns that very
\* verdict, through every lost or repeated push, crash, revocation and
\* re-enrolment; it sets a change aside without one only while its newest
\* registration is revoked.
THEOREM LedgerIsKept ==
    ASSUME Untroubled
    PROVE  Spec => ImplementsLedger
  <1>1. LedgerInv /\ [Next]_vars => [Ledger!LedgerNext]_(Ledger!ledgerVars)
    BY LedgerStep
  <1> QED BY <1>1, StartsEmpty, AlwaysLedgered, PTL
          DEF Spec, ImplementsLedger, Ledger!LedgerSpec

=============================================================================
