----------------------------- MODULE PartsProofs -----------------------------
(* The parts beside the exchange of operations, each on its own: the loop    *)
(* that starts sync cycles, the queue that runs pushes, the QR of a payment, *)
(* the upload of captures, the lockout of a PIN, the enrolments of devices,  *)
(* and what is derived from a log of operations: the rows a device projects  *)
(* from its own, and the conflicts the server finds among those it takes.    *)
(* Each section is about one module and uses none of the others.             *)
EXTENDS SyncLoop, TenantQueue, QrisCharge, MediaUpload, PinLock, EnrolmentRequests,
        Projection, ConflictDetection, LogStoreProofs

-----------------------------------------------------------------------------
(* The sync loop is single-flight, and a retired loop stays retired, for    *)
(* any number of activations, triggers and failures.  The invariant is      *)
(* inductive as it stands: a cycle begins only by a move of the machine out *)
(* of a state that has no cycle in flight.                                  *)

LEMMA MovesStayInStates == \A event : Targets(event) \subseteq States
  BY DEF Targets, Moves, States

\* Where the machine's events lead, and from where.
LEMMA MoveFacts ==
    /\ Move("push_drained") => loopState = "pushing" /\ loopState' = "pulling"
    /\ Move("pull_drained") \/ Move("pull_paused") => loopState = "pulling" /\ loopState' = "idle"
    /\ Move("transport_failure") => loopState' = "backoff"
    /\ Move("device_revoked") => loopState' = "idle"
    /\ Move("trigger") \/ Move("timer_elapsed") => loopState' = "pushing"
    /\ CanMove("trigger") \/ CanMove("timer_elapsed") => loopState \in {"idle", "backoff"}
  BY DEF Move, CanMove, Targets, Moves

\* The bounds hold: apart from the rest, for they need arithmetic.
LEMMA CountersStep == LoopTypeOK /\ [Next]_loopVars => calls' \in 0..MaxTriggers /\ faults' \in 0..MaxFaults
  <1> SUFFICES ASSUME LoopTypeOK, [Next]_loopVars
               PROVE  calls' \in 0..MaxTriggers /\ faults' \in 0..MaxFaults
    OBVIOUS
  <1>0. calls \in 0..MaxTriggers /\ faults \in 0..MaxFaults /\ MaxTriggers \in Nat /\ MaxFaults \in Nat
    BY SyncLoopBounds DEF LoopTypeOK
  <1>1. CASE calls < MaxTriggers /\ calls' = calls + 1 /\ faults' = faults
    BY <1>0, <1>1
  <1>2. CASE faults < MaxFaults /\ faults' = faults + 1 /\ calls' = calls
    BY <1>0, <1>2
  <1>3. CASE UNCHANGED <<calls, faults>>
    BY <1>0, <1>3
  <1> QED
    BY <1>1, <1>2, <1>3
       DEF Next, RequestSync, Call, Pause, Stop, TimerFires, CycleStep, CycleFails, PushEnds,
           PushRecorded, PullPaused, PullDrained, BundleRefreshed, CycleEnds, RefusalRecorded,
           UpdateNoted, DisableRecorded, FailureRecorded, Outside, loopVars

\* So do the awaits and the machine's state.
Kinds == loopState \in States /\ at \in [Act -> Awaits]

LEMMA KindsStep == LoopTypeOK /\ [Next]_loopVars => Kinds'
  <1> SUFFICES ASSUME LoopTypeOK, [Next]_loopVars PROVE Kinds'
    OBVIOUS
  <1>0. Kinds
    BY DEF LoopTypeOK, Kinds
  <1>0a. ASSUME NEW a \in Act, NEW where \in Awaits, Go(a, where) PROVE at' \in [Act -> Awaits]
    BY <1>0a DEF LoopTypeOK, Go
  <1>1. {"push", "pushed", "pull", "bundle", "updating", "none", "refused", "revoking",
         "failing", "drained"} \subseteq Awaits
    BY DEF Awaits, Pushing, Pulling
  <1>2. ASSUME NEW event, Move(event) PROVE loopState' \in States
    BY <1>2, MovesStayInStates DEF Move
  <1>3. ASSUME NEW a \in Act, NEW event, Begin(a, event) PROVE Kinds'
    BY <1>0, <1>0a, <1>1, <1>2, <1>3 DEF Begin, Kinds, States
  <1>4. ASSUME NEW a \in Act, BackOff(a) \/ Disable(a) \/ Await(a, "refused") \/ Await(a, "updating")
                              \/ Await(a, "none")
        PROVE  Kinds'
    BY <1>0, <1>0a, <1>1, <1>2, <1>4 DEF BackOff, Disable, Await, Kinds
  <1>5. CASE UNCHANGED <<loopState, at>>
    BY <1>0, <1>5 DEF Kinds
  <1>6. ASSUME NEW a \in Act, CycleStep(a) PROVE Kinds'
    BY <1>0, <1>0a, <1>1, <1>2, <1>3, <1>4, <1>6
       DEF CycleStep, PushEnds, PushRecorded, PullPaused, PullDrained, BundleRefreshed, CycleEnds,
           RefusalRecorded, UpdateNoted, DisableRecorded, FailureRecorded, Kinds
  <1> QED
    BY <1>3, <1>4, <1>5, <1>6
       DEF Next, RequestSync, Pause, Stop, TimerFires, CycleFails, Free, loopVars

LEMMA LoopTypeStep == LoopTypeOK /\ [Next]_loopVars => LoopTypeOK'
  <1> SUFFICES ASSUME LoopTypeOK, [Next]_loopVars PROVE LoopTypeOK'
    OBVIOUS
  <1>1. rerun' \in BOOLEAN /\ manualRerun' \in BOOLEAN /\ wanted' \in BOOLEAN
    BY Zenon DEF LoopTypeOK, Next, RequestSync, Begin, Pause, Stop, TimerFires, CycleStep, CycleFails,
           PushEnds, PushRecorded, PullPaused, PullDrained, BundleRefreshed, CycleEnds,
           RefusalRecorded, UpdateNoted, DisableRecorded, FailureRecorded, BackOff, Disable,
           Await, loopVars, flags
  <1>2. pauseRequested' \in BOOLEAN /\ stopped' \in BOOLEAN /\ paused' \in BOOLEAN
    BY Zenon DEF LoopTypeOK, Next, RequestSync, Pause, Stop, TimerFires, CycleStep, CycleFails,
           PushEnds, PushRecorded, PullPaused, PullDrained, BundleRefreshed, CycleEnds,
           RefusalRecorded, UpdateNoted, DisableRecorded, FailureRecorded, Outside, loopVars, flags
  <1>3. syncDisabled' \in BOOLEAN /\ pushHalted' \in BOOLEAN /\ timer' \in BOOLEAN
    BY Zenon DEF LoopTypeOK, Next, RequestSync, TimerAfter, Pause, Stop, TimerFires, CycleStep,
           CycleFails, PushEnds, PushRecorded, PullPaused, PullDrained, BundleRefreshed, CycleEnds,
           RefusalRecorded, UpdateNoted, DisableRecorded, FailureRecorded, BackOff, Disable,
           Await, loopVars, flags
  <1> QED BY <1>1, <1>2, <1>3, CountersStep, KindsStep DEF LoopTypeOK, Kinds

\* The loop's variables are of their kinds in every reachable state.
THEOREM LoopTypeCorrect == LoopSpec => []LoopTypeOK
  <1>1. Init => LoopTypeOK
    <2>1. 0 \in 0..MaxTriggers /\ 0 \in 0..MaxFaults
      BY SyncLoopBounds
    <2> QED BY <2>1, Zenon DEF Init, LoopTypeOK, States, Awaits
  <1> QED BY <1>1, LoopTypeStep, PTL DEF LoopSpec
-----------------------------------------------------------------------------
FlightAwaits == Pushing \cup Pulling \cup {"refused"}

\* One activation moves: what SingleFlight asks of the step.
LEMMA OneMoves ==
    ASSUME LoopTypeOK, SingleFlight, NEW a \in Act, NEW where,
           at' = [at EXCEPT ![a] = where],
           a \in InFlight \/ InFlight = {},
           loopState' \in {"pushing", "pulling"} <=> where \in FlightAwaits,
           where \in Pushing => loopState' = "pushing",
           where \in Pulling => loopState' = "pulling"
    PROVE  SingleFlight'
  <1>1. at'[a] = where /\ \A b \in Act \ {a} : at'[b] = at[b]
    BY DEF LoopTypeOK
  <1>2. \A b \in Act \ {a} : b \notin InFlight'
    BY <1>1 DEF SingleFlight, InFlight
  <1>3. a \in InFlight' <=> where \in FlightAwaits
    BY <1>1 DEF InFlight, FlightAwaits
  <1>4. InFlight' \subseteq {a}
    BY <1>2 DEF InFlight
  <1> QED BY <1>1, <1>3, <1>4 DEF SingleFlight, Busy

LEMMA BeginKeepsFlight ==
    ASSUME LoopTypeOK, SingleFlight, NEW a \in Act, NEW event \in {"trigger", "timer_elapsed"},
           Begin(a, event)
    PROVE  SingleFlight'
  <1>1. loopState \in {"idle", "backoff"}
    BY MoveFacts DEF Begin
  <1>2. InFlight = {}
    BY <1>1 DEF SingleFlight, Busy
  <1>3. \/ at' = [at EXCEPT ![a] = "pull"] /\ loopState' = "pulling"
        \/ at' = [at EXCEPT ![a] = "push"] /\ loopState' = "pushing"
    BY MoveFacts DEF Begin, Go
  <1> QED BY <1>2, <1>3, OneMoves DEF FlightAwaits, Pushing, Pulling

LEMMA SameFlight ==
    ASSUME SingleFlight, UNCHANGED <<loopState, at>> PROVE SingleFlight'
  BY DEF SingleFlight, InFlight, Busy

\* An activation that is not in flight leaves an await for another outside.
LEMMA BystanderMoves ==
    ASSUME LoopTypeOK, SingleFlight, NEW a \in Act, a \notin InFlight, Go(a, "none"),
           UNCHANGED loopState
    PROVE  SingleFlight'
  <1>1. at'[a] = "none" /\ \A b \in Act \ {a} : at'[b] = at[b]
    BY DEF LoopTypeOK, Go
  <1>2. InFlight' = InFlight
    BY <1>1 DEF InFlight, Pushing, Pulling
  <1>3. \A b \in InFlight : at'[b] = at[b]
    BY <1>1 DEF InFlight
  <1> QED BY <1>2, <1>3 DEF SingleFlight, Busy

LEMMA FlightStep == LoopTypeOK /\ SingleFlight /\ [Next]_loopVars => SingleFlight'
  <1> SUFFICES ASSUME LoopTypeOK, SingleFlight, [Next]_loopVars PROVE SingleFlight'
    OBVIOUS
  <1>1. ASSUME NEW reason \in Reasons, RequestSync(reason) PROVE SingleFlight'
    BY <1>1, BeginKeepsFlight, SameFlight DEF RequestSync, Free
  <1>2. CASE Pause \/ Stop
    BY <1>2, SameFlight DEF Pause, Stop
  <1>3. CASE TimerFires
    BY <1>3, BeginKeepsFlight, SameFlight DEF TimerFires, Free
  <1>4. ASSUME NEW a \in Act, BackOff(a) \/ Disable(a), a \in InFlight PROVE SingleFlight'
    <2>1. \/ loopState' = "backoff" /\ (Go(a, "none") \/ Go(a, "failing"))
          \/ loopState' = "idle" /\ Go(a, "revoking")
      BY <1>4, MoveFacts DEF BackOff, Disable
    <2> QED BY <1>4, <2>1, OneMoves DEF Go, FlightAwaits, Pushing, Pulling
  <1>5. ASSUME NEW a \in Act, CycleStep(a) PROVE SingleFlight'
    <2>1. CASE PushEnds(a) \/ PushRecorded(a)
      <3>1. a \in InFlight
        BY <2>1 DEF PushEnds, PushRecorded, InFlight, Pushing
      <3>2. \/ Go(a, "pushed") /\ loopState = "pushing" /\ loopState' = "pushing"
            \/ Go(a, "pull") /\ loopState' = "pulling"
        BY <2>1, <3>1, MoveFacts DEF PushEnds, PushRecorded, SingleFlight, Pushing
      <3> QED BY <3>1, <3>2, OneMoves DEF Go, FlightAwaits, Pushing, Pulling
    <2>2. CASE PullPaused(a) \/ PullDrained(a) \/ BundleRefreshed(a)
      <3>1. a \in InFlight
        BY <2>2 DEF PullPaused, PullDrained, BundleRefreshed, InFlight, Pulling
      <3>2. \/ Go(a, "bundle") /\ loopState = "pulling" /\ loopState' = "pulling"
            \/ (Go(a, "none") \/ Go(a, "drained")) /\ loopState' = "idle"
        BY <2>2, <3>1, MoveFacts
           DEF PullPaused, PullDrained, BundleRefreshed, SingleFlight, Pulling
      <3> QED BY <3>1, <3>2, OneMoves DEF Go, FlightAwaits, Pushing, Pulling
    <2>3. CASE CycleEnds(a)
      <3>1. a \notin InFlight
        BY <2>3 DEF CycleEnds, InFlight, Pushing, Pulling
      <3> QED BY <2>3, <3>1, BeginKeepsFlight, BystanderMoves DEF CycleEnds
    <2>4. CASE RefusalRecorded(a) \/ UpdateNoted(a)
      <3>1. a \in InFlight /\ (BackOff(a) \/ Disable(a))
        BY <2>4 DEF RefusalRecorded, UpdateNoted, InFlight, Pulling
      <3> QED BY <1>4, <3>1
    <2>5. CASE DisableRecorded(a)
      <3>1. a \notin InFlight /\ Go(a, "none") /\ UNCHANGED loopState
        BY <2>5 DEF DisableRecorded, Await, InFlight, Pushing, Pulling
      <3> QED BY <3>1, BystanderMoves
    <2>6. CASE FailureRecorded(a)
      <3>1. a \notin InFlight
        BY <2>6 DEF FailureRecorded, InFlight, Pushing, Pulling
      <3> QED BY <2>6, <3>1, BeginKeepsFlight, BystanderMoves DEF FailureRecorded
    <2> QED BY <1>5, <2>1, <2>2, <2>3, <2>4, <2>5, <2>6 DEF CycleStep
  <1>6. ASSUME NEW a \in Act, CycleFails(a) PROVE SingleFlight'
    <2>1. a \in InFlight
      BY <1>6 DEF CycleFails, InFlight, Pushing, Pulling
    <2>2. CASE BackOff(a) \/ Disable(a)
      BY <1>4, <2>1, <2>2
    <2>3. CASE Await(a, "refused") \/ (at[a] = "pull" /\ Await(a, "updating"))
      <3>1. \/ Go(a, "refused") /\ loopState' \in {"pushing", "pulling"}
            \/ Go(a, "updating") /\ loopState' = "pulling"
        BY <2>1, <2>3 DEF Await, SingleFlight, Busy, Pulling
      <3> QED BY <2>1, <3>1, OneMoves DEF Go, FlightAwaits, Pushing, Pulling
    <2> QED BY <1>6, <2>2, <2>3 DEF CycleFails
  <1>7. CASE UNCHANGED loopVars
    BY <1>7, SameFlight DEF loopVars
  <1> QED BY <1>1, <1>2, <1>3, <1>5, <1>6, <1>7 DEF Next

\* At most one cycle pushes or pulls, and the machine's state is its state
\* (the claim of loop.ts's header, for its tails and failures as well).
THEOREM LoopIsSingleFlight == LoopSpec => []SingleFlight
  <1>1. Init => SingleFlight
    BY DEF Init, SingleFlight, InFlight, Busy, Pushing, Pulling
  <1> QED BY <1>1, FlightStep, LoopTypeCorrect, PTL DEF LoopSpec
-----------------------------------------------------------------------------
\* stop() forgets the reruns, and nobody asks for one of a stopped loop.
StoppedForgets == stopped => rerun = FALSE /\ manualRerun = FALSE

LEMMA StoppedForgetsStep == StoppedForgets /\ [Next]_loopVars => StoppedForgets'
  <1> SUFFICES ASSUME StoppedForgets, [Next]_loopVars, stopped' PROVE rerun' = FALSE /\ manualRerun' = FALSE
    BY DEF StoppedForgets
  <1>1. CASE Stop
    BY <1>1 DEF Stop
  <1>2. CASE ~Stop
    <2>1. UNCHANGED stopped
      BY <1>2 DEF Next, RequestSync, Pause, TimerFires, CycleStep, CycleFails, PushEnds,
                  PushRecorded, PullPaused, PullDrained, BundleRefreshed, CycleEnds,
                  RefusalRecorded, UpdateNoted, DisableRecorded, FailureRecorded, Outside,
                  loopVars, flags
    <2>2. stopped /\ rerun = FALSE /\ manualRerun = FALSE
      BY <2>1 DEF StoppedForgets
    <2>3. ASSUME NEW a \in Act, CycleStep(a) PROVE rerun' = FALSE /\ manualRerun' = FALSE
      BY <2>2, <2>3
         DEF CycleStep, Begin, PushEnds, PushRecorded, PullPaused, PullDrained, BundleRefreshed,
             CycleEnds, RefusalRecorded, UpdateNoted, DisableRecorded, FailureRecorded, BackOff,
             Disable, Await, flags
    <2>4. ASSUME NEW a \in Act, CycleFails(a) PROVE rerun' = FALSE /\ manualRerun' = FALSE
      BY <2>2, <2>4 DEF CycleFails, BackOff, Disable, Await
    <2>5. CASE Pause \/ TimerFires \/ UNCHANGED loopVars
      BY <2>2, <2>5 DEF Pause, TimerFires, Begin, loopVars, flags
    <2>6. ASSUME NEW reason \in Reasons, RequestSync(reason) PROVE FALSE
      BY <2>2, <2>6 DEF RequestSync, MayStart
    <2> QED BY <1>2, <2>3, <2>4, <2>5, <2>6 DEF Next
  <1> QED BY <1>1, <1>2

\* Whoever starts a cycle has just checked that the loop is not retired.
LEMMA RetiredStep ==
    ASSUME LoopTypeOK, StoppedForgets, [Next]_loopVars, stopped \/ syncDisabled, NEW a \in Act
    PROVE  ~Starts(a)
  <1> SUFFICES ASSUME Starts(a) PROVE FALSE
    OBVIOUS
  <1>0. at[a] \in {"none", "drained", "failing"} /\ at'[a] \in {"push", "pull"}
    BY DEF Starts
  <1>1. ASSUME NEW reason \in Reasons, RequestSync(reason) PROVE FALSE
    BY <1>1 DEF RequestSync, MayStart
  <1>2. CASE Pause \/ Stop \/ TimerFires
    BY <1>0, <1>2 DEF Pause, Stop, TimerFires, RetryDue, MayStart
  <1>3. ASSUME NEW b \in Act, NEW where, Go(b, where), where \notin {"push", "pull"} PROVE FALSE
    BY <1>0, <1>3 DEF Go, LoopTypeOK
  <1>4. ASSUME NEW b \in Act, at[b] \notin {"none", "drained", "failing"}, NEW where, Go(b, where)
        PROVE FALSE
    BY <1>0, <1>4 DEF Go, LoopTypeOK
  <1>5. ASSUME NEW b \in Act, CycleStep(b) PROVE FALSE
    <2>1. CASE CycleEnds(b)
      BY <1>3, <2>1 DEF CycleEnds, RerunDue, MayStart
    <2>2. CASE FailureRecorded(b)
      BY <1>3, <2>2 DEF FailureRecorded, StoppedForgets
    <2> QED BY <1>3, <1>4, <1>5, <2>1, <2>2
            DEF CycleStep, PushEnds, PushRecorded, PullPaused, PullDrained, BundleRefreshed,
                RefusalRecorded, UpdateNoted, DisableRecorded, BackOff, Disable, Await
  <1>6. ASSUME NEW b \in Act, CycleFails(b) PROVE FALSE
    BY <1>4, <1>6 DEF CycleFails, BackOff, Disable, Await
  <1>7. CASE UNCHANGED loopVars
    BY <1>0, <1>7 DEF loopVars
  <1> QED BY <1>1, <1>2, <1>5, <1>6, <1>7 DEF Next

\* A stopped or disabled loop starts no cycle, whatever timers, reruns and
\* presses were on their way (requestSync, runCycle's tail, the timer callback).
THEOREM RetiredStaysRetired == LoopSpec => RetiredNeverStarts
  <1>1. Init => StoppedForgets
    BY DEF Init, StoppedForgets
  <1>2. LoopTypeOK /\ StoppedForgets /\ [Next]_loopVars
           => [stopped \/ syncDisabled => \A a \in Act : ~Starts(a)]_loopVars
    BY RetiredStep
  <1> QED BY <1>1, <1>2, StoppedForgetsStep, LoopTypeCorrect, PTL DEF LoopSpec, RetiredNeverStarts

-----------------------------------------------------------------------------
(* One push at a time per tenant, and never more than the limit, for any    *)
(* tasks, tenants and limit.  PushesAreBounded does not say why a tenant's  *)
(* pushes take turns: promises point backwards, one to the one before.  The *)
(* invariant lays a tenant's unsettled pushes out in line: each is chained  *)
(* to the one before it, the tail is the last, and all but the first are    *)
(* still chained.                                                           *)

Unsettled == {"chained", "waiting", "running"}
Lines == [Tenants -> Seq(Task)]

\* The pushes of tenant t that have begun and not ended are l, in order.
InLine(t, l) ==
    /\ \A i \in 1..Len(l) : TenantOf[l[i]] = t /\ stage[l[i]] \in Unsettled
    /\ \A i, j \in 1..Len(l) : l[i] = l[j] => i = j
    /\ \A p \in Task : TenantOf[p] = t /\ stage[p] \in Unsettled => \E i \in 1..Len(l) : l[i] = p
    /\ \A i \in 2..Len(l) : stage[l[i]] = "chained" /\ previous[l[i]] = l[i - 1]
    /\ IF l = <<>> THEN Settled(tails[t]) ELSE tails[t] = l[Len(l)]

TakeTurns == \E line \in Lines : \A t \in Tenants : InLine(t, line[t])

WaitersWait ==
    /\ \A i \in 1..Len(waiting) : stage[waiting[i]] = "waiting"
    /\ \A i, j \in 1..Len(waiting) : waiting[i] = waiting[j] => i = j

SlotsCounted ==
    /\ IsFiniteSet(Running) /\ Cardinality(Running) = slots
    /\ waiting # <<>> => slots = MaxRunning

QueueInv == QueueTypeOK /\ TakeTurns /\ WaitersWait /\ SlotsCounted

-----------------------------------------------------------------------------
LEMMA TailFacts ==
    ASSUME NEW S, NEW s \in Seq(S), s # <<>>
    PROVE  /\ Head(s) \in S /\ Head(s) = s[1] /\ Tail(s) \in Seq(S)
           /\ Len(Tail(s)) = Len(s) - 1 /\ Len(s) >= 1
           /\ \A i \in 1..Len(Tail(s)) : Tail(s)[i] = s[i + 1]
  OBVIOUS

LEMMA AppendFacts ==
    ASSUME NEW S, NEW s \in Seq(S), NEW e \in S
    PROVE  /\ Append(s, e) \in Seq(S) /\ Append(s, e) # <<>> /\ Len(Append(s, e)) = Len(s) + 1
           /\ \A i \in 1..Len(s) : Append(s, e)[i] = s[i]
           /\ Append(s, e)[Len(s) + 1] = e
  OBVIOUS

\* Only the first of a line waits for a slot or has one.
LEMMA FirstOfLine ==
    ASSUME NEW t \in Tenants, NEW l \in Seq(Task), InLine(t, l),
           NEW p \in Task, TenantOf[p] = t, stage[p] \in Unsettled,
           Behind(p) \/ Settled(previous[p])
    PROVE  l # <<>> /\ l[1] = p
  <1>1. PICK i \in 1..Len(l) : l[i] = p
    BY DEF InLine
  <1>2. ASSUME i # 1 PROVE FALSE
    <2>1. i \in 2..Len(l) /\ i - 1 \in 1..Len(l)
      BY <1>2
    <2>2. stage[p] = "chained" /\ previous[p] = l[i - 1] /\ stage[l[i - 1]] \in Unsettled
      BY <1>1, <2>1 DEF InLine
    <2>3. l[i - 1] \in Task
      BY <2>1
    <2>4. ~Behind(p)
      BY <2>2 DEF Behind
    <2>5. ~Settled(previous[p])
      BY <2>2, <2>3, QueueConstants DEF Settled, Unsettled
    <2> QED
      BY <2>4, <2>5
  <1> QED
    BY <1>1, <1>2

LEMMA QueueInitOK == QueueInit => QueueInv
  <1> SUFFICES ASSUME QueueInit PROVE QueueInv
    OBVIOUS
  <1> USE DEF QueueInit
  <1>1. QueueTypeOK
    BY QueueConstants DEF QueueTypeOK
  <1>2. TakeTurns
    <2>1. [t \in Tenants |-> <<>>] \in Lines
      BY DEF Lines
    <2>2. \A t \in Tenants : InLine(t, <<>>)
      BY DEF InLine, Settled, Unsettled, Tenants
    <2> QED
      BY <2>1, <2>2 DEF TakeTurns
  <1>3. WaitersWait
    BY DEF WaitersWait
  <1>4. Running = {}
    BY DEF Running
  <1>5. SlotsCounted
    BY <1>4, FS_EmptySet DEF SlotsCounted
  <1> QED
    BY <1>1, <1>2, <1>3, <1>5 DEF QueueInv

\* A push is chained to the end of its tenant's line, or begins one.
LEMMA ChainTaskOK == ASSUME QueueInv, NEW p \in Task, ChainTask(p) PROVE QueueInv'
  <1> USE DEF ChainTask
  <1>0. TenantOf[p] \in Tenants /\ stage \in [Task -> {"new", "chained", "waiting", "running", "over"}]
    BY DEF Tenants, QueueInv, QueueTypeOK
  <1>1. QueueTypeOK'
    BY <1>0 DEF QueueInv, QueueTypeOK
  <1>2. TakeTurns'
    <2>1. PICK line \in Lines : \A t \in Tenants : InLine(t, line[t])
      BY DEF QueueInv, TakeTurns
    <2> DEFINE own == TenantOf[p]
               l == line[own]
               longer == [line EXCEPT ![own] = Append(l, p)]
    <2>2. l \in Seq(Task) /\ longer \in Lines
      BY <1>0, <2>1, AppendFacts DEF Lines
    <2>3. \A q \in Task : q # p => stage'[q] = stage[q] /\ previous'[q] = previous[q]
      BY DEF QueueInv, QueueTypeOK
    <2>4. stage'[p] = "chained" /\ previous'[p] = tails[own] /\ tails'[own] = p
      BY <1>0 DEF QueueInv, QueueTypeOK
    <2>5. \A i \in 1..Len(l) : l[i] \in Task /\ l[i] # p
      BY <1>0, <2>1, <2>2 DEF InLine, Unsettled
    <2>6. InLine(own, Append(l, p))'
      <3> DEFINE m == Append(l, p)
      <3>0. InLine(own, l) /\ Len(l) \in Nat
        BY <1>0, <2>1, <2>2
      <3>1. Len(m) = Len(l) + 1 /\ m[Len(l) + 1] = p /\ m # <<>> /\ \A i \in 1..Len(l) : m[i] = l[i]
        BY <2>2, AppendFacts
      <3> HIDE DEF m, l, own
      <3>2. \A i \in 1..Len(m) : TenantOf[m[i]] = own /\ stage'[m[i]] \in Unsettled
        BY <2>3, <2>4, <2>5, <3>0, <3>1 DEF InLine, Unsettled, own
      <3>3. \A i, j \in 1..Len(m) : m[i] = m[j] => i = j
        BY <2>5, <3>0, <3>1 DEF InLine
      <3>4. ASSUME NEW q \in Task, TenantOf[q] = own, stage'[q] \in Unsettled
            PROVE  \E i \in 1..Len(m) : m[i] = q
        <4>1. CASE q = p
          BY <4>1, <3>0, <3>1
        <4>2. CASE q # p
          <5>1. PICK i \in 1..Len(l) : l[i] = q
            BY <3>0, <3>4, <4>2, <2>3 DEF InLine
          <5> QED
            BY <5>1, <3>0, <3>1
        <4> QED
          BY <4>1, <4>2
      <3>5. \A i \in 2..Len(m) : stage'[m[i]] = "chained" /\ previous'[m[i]] = m[i - 1]
        <4>1. ASSUME NEW i \in 2..Len(l) PROVE stage'[m[i]] = "chained" /\ previous'[m[i]] = m[i - 1]
          BY <2>3, <2>5, <3>0, <3>1 DEF InLine
        <4>2. Len(l) >= 1 => previous'[p] = m[Len(l)]
          <5>1. Len(l) >= 1 => l # <<>>
            BY <2>2
          <5> QED
            BY <5>1, <2>4, <3>0, <3>1 DEF InLine
        <4>3. ASSUME NEW i \in 2..Len(m) PROVE stage'[m[i]] = "chained" /\ previous'[m[i]] = m[i - 1]
          <5>1. CASE i \in 2..Len(l)
            BY <4>1, <5>1
          <5>2. CASE i = Len(l) + 1
            <6>1. m[i] = p /\ m[i - 1] = m[Len(l)] /\ Len(l) >= 1
              BY <5>2, <3>0, <3>1
            <6> QED
              BY <6>1, <4>2, <2>4
          <5>3. i \in 2..Len(l) \/ i = Len(l) + 1
            BY <3>0, <3>1
          <5> QED
            BY <5>1, <5>2, <5>3
        <4> QED
          BY <4>3
      <3>6. tails'[own] = m[Len(m)]
        BY <2>4, <3>1
      <3> QED
        BY <3>1, <3>2, <3>3, <3>4, <3>5, <3>6 DEF InLine, m
    <2>7. ASSUME NEW t \in Tenants, t # own PROVE InLine(t, line[t])'
      BY <1>0, <2>1, <2>3, <2>4, <2>7 DEF InLine, Lines, Unsettled, Settled, QueueInv, QueueTypeOK
    <2>8. \A t \in Tenants : InLine(t, longer[t])'
      BY <2>1, <2>6, <2>7 DEF Lines
    <2> QED
      BY <2>2, <2>8 DEF TakeTurns
  <1>3. WaitersWait'
    BY <1>0 DEF QueueInv, QueueTypeOK, WaitersWait
  <1>4. SlotsCounted'
    <2>1. Running' = Running
      BY <1>0 DEF Running
    <2> QED
      BY <2>1 DEF QueueInv, SlotsCounted
  <1> QED
    BY <1>1, <1>2, <1>3, <1>4 DEF QueueInv

\* The first of a line stays there, whether it gets a slot or waits for one.
LEMMA TakeSlotOK == ASSUME QueueInv, NEW p \in Task, TakeSlot(p) PROVE QueueInv'
  <1> USE DEF TakeSlot
  <1>0. /\ TenantOf[p] \in Tenants /\ slots \in 0..MaxRunning /\ MaxRunning \in Nat /\ waiting \in Seq(Task)
        /\ stage \in [Task -> {"new", "chained", "waiting", "running", "over"}]
    BY QueueConstants DEF Tenants, QueueInv, QueueTypeOK
  <1>1. \A q \in Task : q # p => stage'[q] = stage[q]
    BY <1>0
  <1>2. stage'[p] \in {"waiting", "running"} /\ stage[p] = "chained"
    BY <1>0
  <1>3. QueueTypeOK'
    <2>1. waiting' \in Seq(Task)
      <3>1. Append(waiting, p) \in Seq(Task)
        BY <1>0, AppendFacts
      <3>2. waiting' = waiting \/ waiting' = Append(waiting, p)
        OBVIOUS
      <3> HIDE DEF TakeSlot
      <3> QED
        BY <1>0, <3>1, <3>2
    <2>2. slots' \in 0..MaxRunning
      BY <1>0
    <2>3. stage' \in [Task -> {"new", "chained", "waiting", "running", "over"}]
      BY <1>0
    <2> QED
      BY <2>1, <2>2, <2>3 DEF QueueInv, QueueTypeOK
  <1>4. TakeTurns'
    <2>1. PICK line \in Lines : \A t \in Tenants : InLine(t, line[t])
      BY DEF QueueInv, TakeTurns
    <2>2. ASSUME NEW t \in Tenants PROVE InLine(t, line[t])'
      <3> DEFINE l == line[t]
      <3>1. l \in Seq(Task) /\ InLine(t, l)
        BY <2>1 DEF Lines
      <3>2. TenantOf[p] = t => l # <<>> /\ l[1] = p
        BY <1>2, <3>1, FirstOfLine DEF Unsettled
      <3>3. ASSUME NEW i \in 2..Len(l) PROVE l[i] # p
        <4>1. i \in 1..Len(l) /\ i # 1 /\ 1 \in 1..Len(l)
          BY <3>1
        <4>2. CASE TenantOf[p] = t
          BY <4>1, <4>2, <3>1, <3>2 DEF InLine
        <4>3. CASE TenantOf[p] # t
          BY <4>1, <4>3, <3>1 DEF InLine
        <4> QED
          BY <4>2, <4>3
      <3>4. \A i \in 1..Len(l) : stage'[l[i]] \in Unsettled
        BY <1>1, <1>2, <3>1 DEF InLine, Unsettled
      <3>5. \A i \in 2..Len(l) : stage'[l[i]] = "chained" /\ previous'[l[i]] = l[i - 1]
        BY <1>1, <3>1, <3>3 DEF InLine
      <3>6. \A q \in Task : stage'[q] \in Unsettled => stage[q] \in Unsettled
        BY <1>1, <1>2 DEF Unsettled
      <3>7. IF l = <<>> THEN Settled(tails[t])' ELSE tails'[t] = l[Len(l)]
        BY <1>0, <1>1, <1>2, <3>1 DEF InLine, Settled, QueueInv, QueueTypeOK
      <3> QED
        BY <3>1, <3>4, <3>5, <3>6, <3>7 DEF InLine
    <2> QED
      BY <2>1, <2>2 DEF TakeTurns
  <1>5. WaitersWait'
    <2>1. \A i \in 1..Len(waiting) : waiting[i] \in Task /\ waiting[i] # p
      BY <1>0, <1>2 DEF QueueInv, WaitersWait
    <2>2. CASE slots < MaxRunning
      BY <1>1, <2>1, <2>2 DEF QueueInv, WaitersWait
    <2>3. CASE ~(slots < MaxRunning)
      <3>1. waiting' = Append(waiting, p) /\ stage'[p] = "waiting"
        BY <1>0, <2>3
      <3> QED
        BY <1>0, <1>1, <2>1, <3>1, AppendFacts DEF QueueInv, WaitersWait
    <2> QED
      BY <2>2, <2>3
  <1>6. SlotsCounted'
    <2>1. CASE slots < MaxRunning
      <3>1. Running' = Running \cup {p} /\ p \notin Running
        BY <1>0, <2>1 DEF Running
      <3>2. IsFiniteSet(Running') /\ Cardinality(Running') = Cardinality(Running) + 1
        BY <3>1, FS_AddElement DEF QueueInv, SlotsCounted
      <3> QED
        BY <1>0, <2>1, <3>2 DEF QueueInv, SlotsCounted
    <2>2. CASE ~(slots < MaxRunning)
      <3>1. Running' = Running
        BY <1>0, <2>2 DEF Running
      <3> QED
        BY <1>0, <2>2, <3>1 DEF QueueInv, SlotsCounted
    <2> QED
      BY <2>1, <2>2
  <1> QED
    BY <1>3, <1>4, <1>5, <1>6 DEF QueueInv

\* The first leaves its line; a slot it hands on goes to the first of another.
LEMMA EndOK == ASSUME QueueInv, NEW p \in Task, End(p) PROVE QueueInv'
  <1> USE DEF End
  <1> DEFINE next == Head(waiting)
  <1>0. /\ TenantOf[p] \in Tenants /\ slots \in 0..MaxRunning /\ MaxRunning \in Nat /\ waiting \in Seq(Task)
        /\ stage \in [Task -> {"new", "chained", "waiting", "running", "over"}]
    BY QueueConstants DEF Tenants, QueueInv, QueueTypeOK
  <1>1. waiting # <<>> =>
           /\ next \in Task /\ next = waiting[1] /\ stage[next] = "waiting" /\ next # p
           /\ Tail(waiting) \in Seq(Task)
    BY <1>0, TailFacts DEF QueueInv, WaitersWait
  <1>2. stage'[p] = "over" /\ (waiting # <<>> => stage'[next] = "running")
    BY <1>0, <1>1
  <1>3. \A q \in Task : q # p /\ (waiting = <<>> \/ q # next) => stage'[q] = stage[q]
    BY <1>0, <1>1
  <1>4. Running \in SUBSET Task /\ p \in Running /\ slots >= 1
    <2>1. p \in Running /\ Running # {}
      BY DEF Running
    <2>2. Cardinality(Running) # 0
      BY <2>1, FS_EmptySet DEF QueueInv, SlotsCounted
    <2> QED
      BY <1>0, <2>1, <2>2 DEF Running, QueueInv, SlotsCounted
  <1>5. QueueTypeOK'
    <2>1. waiting' \in Seq(Task)
      BY <1>0, <1>1
    <2>2. slots' \in 0..MaxRunning
      BY <1>0, <1>4
    <2>3. stage' \in [Task -> {"new", "chained", "waiting", "running", "over"}]
      BY <1>0, <1>1
    <2> QED
      BY <2>1, <2>2, <2>3 DEF QueueInv, QueueTypeOK
  <1>6. TakeTurns'
    <2>1. PICK line \in Lines : \A t \in Tenants : InLine(t, line[t])
      BY DEF QueueInv, TakeTurns
    <2> DEFINE own == TenantOf[p]
               l == line[own]
               m == Tail(l)
    <2>2. l \in Seq(Task) /\ InLine(own, l)
      BY <1>0, <2>1 DEF Lines
    <2> HIDE DEF l
    <2>3. l # <<>> /\ l[1] = p
      BY <1>0, <2>2, FirstOfLine DEF Behind, Unsettled
    <2>4. ASSUME NEW q \in Task, TenantOf[q] = own, Behind(q) PROVE q = p
      BY <1>0, <2>2, <2>3, <2>4, FirstOfLine DEF Behind, Unsettled
    <2>5. m \in Seq(Task) /\ Len(m) = Len(l) - 1 /\ Len(l) >= 1 /\ \A i \in 1..Len(m) : m[i] = l[i + 1]
      BY <2>2, <2>3, TailFacts
    <2>6. \A q \in Task : TenantOf[q] = own /\ q # p => stage'[q] = stage[q]
      BY <1>1, <1>3, <2>4 DEF Behind
    <2>7. \A i \in 2..Len(l) : l[i] \in Task /\ l[i] # p /\ TenantOf[l[i]] = own
      BY <2>2, <2>3 DEF InLine
    <2>8. InLine(own, m)'
      <3> HIDE DEF m, l, own
      <3>0. Len(m) \in Nat /\ Len(l) \in Nat
        BY <2>2, <2>5
      <3>1. \A i \in 1..Len(m) : TenantOf[m[i]] = own /\ stage'[m[i]] \in Unsettled
        BY <2>2, <2>5, <2>6, <2>7, <3>0 DEF InLine
      <3>2. ASSUME NEW i \in 1..Len(m), NEW j \in 1..Len(m), m[i] = m[j] PROVE i = j
        <4>1. i + 1 \in 1..Len(l) /\ j + 1 \in 1..Len(l) /\ l[i + 1] = l[j + 1]
          BY <2>5, <3>0, <3>2
        <4>2. i + 1 = j + 1
          BY <2>2, <4>1 DEF InLine
        <4> QED
          BY <4>2
      <3>3. ASSUME NEW q \in Task, TenantOf[q] = own, stage'[q] \in Unsettled
            PROVE  \E i \in 1..Len(m) : m[i] = q
        <4>1. q # p
          BY <1>2, <3>3 DEF Unsettled
        <4>2. PICK i \in 1..Len(l) : l[i] = q
          BY <2>2, <2>6, <3>3, <4>1 DEF InLine
        <4>3. i - 1 \in 1..Len(m) /\ m[i - 1] = l[i]
          BY <2>3, <2>5, <3>0, <4>1, <4>2
        <4> QED
          BY <4>2, <4>3
      <3>4. ASSUME NEW i \in 2..Len(m) PROVE stage'[m[i]] = "chained" /\ previous'[m[i]] = m[i - 1]
        <4>1. i + 1 \in 2..Len(l) /\ m[i] = l[i + 1] /\ m[i - 1] = l[i]
          BY <2>5, <3>0
        <4>2. stage[l[i + 1]] = "chained" /\ previous[l[i + 1]] = l[i]
          BY <2>2, <4>1, <3>0 DEF InLine
        <4> QED
          BY <2>6, <2>7, <4>1, <4>2
      <3>5. CASE m = <<>>
        <4>1. Len(m) = 0
          BY <3>5
        <4>2. tails'[own] = p
          <5>1. Len(l) = 1
            BY <2>5, <3>0, <4>1
          <5> QED
            BY <2>2, <2>3, <5>1 DEF InLine
        <4> QED
          BY <1>2, <3>1, <3>2, <3>3, <3>4, <3>5, <4>2 DEF InLine, Settled
      <3>6. CASE m # <<>>
        <4>1. Len(m) # 0
          BY <2>5, <3>6
        <4>2. tails'[own] = m[Len(m)]
          BY <2>2, <2>3, <2>5, <3>0, <4>1 DEF InLine
        <4> QED
          BY <3>1, <3>2, <3>3, <3>4, <3>6, <4>2 DEF InLine
      <3> QED
        BY <3>5, <3>6
    <2>9. ASSUME NEW t \in Tenants, t # own PROVE InLine(t, line[t])'
      <3> DEFINE k == line[t]
      <3>1. k \in Seq(Task) /\ InLine(t, k)
        BY <2>1 DEF Lines
      <3>2. \A i \in 1..Len(k) : k[i] \in Task /\ k[i] # p /\ TenantOf[k[i]] = t
        BY <2>9, <3>1 DEF InLine
      <3>3. \A i \in 1..Len(k) : stage'[k[i]] \in Unsettled
        BY <1>2, <1>3, <3>1, <3>2 DEF InLine, Unsettled
      <3>4. \A i \in 2..Len(k) : stage'[k[i]] = "chained" /\ previous'[k[i]] = k[i - 1]
        <4>1. \A i \in 2..Len(k) : stage[k[i]] = "chained"
          BY <3>1 DEF InLine
        <4> QED
          BY <1>1, <1>3, <3>1, <3>2, <4>1 DEF InLine
      <3>5. \A q \in Task : TenantOf[q] = t /\ stage'[q] \in Unsettled => stage[q] \in Unsettled
        BY <1>1, <1>2, <1>3, <2>9 DEF Unsettled
      <3>6. IF k = <<>> THEN Settled(tails[t])' ELSE tails'[t] = k[Len(k)]
        <4>1. tails[t] \in Task /\ stage[tails[t]] = "over" => stage'[tails[t]] = "over"
          BY <1>1, <1>2, <1>3
        <4> QED
          BY <3>1, <4>1 DEF InLine, Settled, QueueInv, QueueTypeOK
      <3> HIDE DEF k
      <3>7. InLine(t, k)'
        BY <3>1, <3>3, <3>4, <3>5, <3>6 DEF InLine
      <3> QED
        BY <3>7 DEF k
    <2> DEFINE shorter == [line EXCEPT ![own] = m]
    <2>10. shorter \in Lines
      BY <2>1, <2>5 DEF Lines
    <2>11. ASSUME NEW t \in Tenants PROVE InLine(t, shorter[t])'
      <3>1. shorter[t] = IF t = own THEN m ELSE line[t]
        BY <2>1 DEF Lines
      <3> HIDE DEF shorter, m
      <3>2. CASE t = own
        BY <2>8, <3>1, <3>2
      <3>3. CASE t # own
        BY <2>9, <3>1, <3>3
      <3> QED
        BY <3>2, <3>3
    <2> QED
      BY <2>10, <2>11 DEF TakeTurns
  <1>7. WaitersWait'
    <2>1. CASE waiting = <<>>
      BY <2>1 DEF WaitersWait
    <2>2. CASE waiting # <<>>
      <3>1. /\ waiting' = Tail(waiting) /\ Len(Tail(waiting)) = Len(waiting) - 1
            /\ \A i \in 1..Len(Tail(waiting)) : Tail(waiting)[i] = waiting[i + 1]
        BY <1>0, <2>2, TailFacts
      <3>2. \A i \in 2..Len(waiting) : waiting[i] \in Task /\ waiting[i] # next /\ waiting[i] # p
        BY <1>0, <1>1, <2>2 DEF QueueInv, WaitersWait
      <3>3. Len(waiting) \in Nat
        BY <1>0
      <3> HIDE DEF next
      <3> QED
        BY <1>3, <3>1, <3>2, <3>3 DEF QueueInv, WaitersWait
    <2> QED
      BY <2>1, <2>2
  <1>8. SlotsCounted'
    <2>0. IsFiniteSet(Running \ {p}) /\ Cardinality(Running \ {p}) = slots - 1
      BY <1>4, FS_RemoveElement DEF QueueInv, SlotsCounted
    <2>1. CASE waiting = <<>>
      <3>1. Running' = Running \ {p}
        BY <1>2, <1>3, <2>1 DEF Running
      <3> QED
        BY <2>0, <2>1, <3>1 DEF QueueInv, SlotsCounted
    <2>2. CASE waiting # <<>>
      <3>1. Running' = (Running \ {p}) \cup {next} /\ next \notin Running \ {p}
        BY <1>1, <1>2, <1>3, <2>2 DEF Running
      <3>2. IsFiniteSet(Running') /\ Cardinality(Running') = slots - 1 + 1
        BY <2>0, <3>1, FS_AddElement
      <3> QED
        BY <1>0, <2>2, <3>2 DEF QueueInv, SlotsCounted
    <2> QED
      BY <2>1, <2>2
  <1> QED
    BY <1>5, <1>6, <1>7, <1>8 DEF QueueInv

\* A tail is forgotten when its line is empty.
LEMMA ForgetOK == ASSUME QueueInv, NEW p \in Task, Forget(p) PROVE QueueInv'
  <1> USE DEF Forget
  <1>1. QueueTypeOK'
    BY DEF QueueInv, QueueTypeOK
  <1>2. TakeTurns'
    <2>1. PICK line \in Lines : \A t \in Tenants : InLine(t, line[t])
      BY DEF QueueInv, TakeTurns
    <2>2. ASSUME NEW t \in Tenants PROVE InLine(t, line[t])'
      <3>1. line[t] \in Seq(Task) /\ InLine(t, line[t])
        BY <2>1 DEF Lines
      <3>2. CASE t = TenantOf[p]
        <4>1. line[t] = <<>>
          <5>1. ASSUME line[t] # <<>> PROVE FALSE
            <6>1. Len(line[t]) \in 1..Len(line[t])
              BY <3>1, <5>1
            <6>2. stage[p] \in Unsettled
              BY <3>1, <3>2, <5>1, <6>1 DEF InLine
            <6> QED
              BY <6>2 DEF Unsettled
          <5> QED
            BY <5>1
        <4>2. tails'[t] = NoTask
          BY <3>2 DEF QueueInv, QueueTypeOK
        <4> QED
          BY <3>1, <4>1, <4>2 DEF InLine, Settled
      <3>3. CASE t # TenantOf[p]
        <4>1. tails'[t] = tails[t]
          BY <3>3 DEF QueueInv, QueueTypeOK
        <4> QED
          BY <3>1, <4>1 DEF InLine, Settled
      <3> QED
        BY <3>2, <3>3
    <2> QED
      BY <2>1, <2>2 DEF TakeTurns
  <1>3. WaitersWait' /\ SlotsCounted'
    BY DEF QueueInv, WaitersWait, SlotsCounted, Running
  <1> QED
    BY <1>1, <1>2, <1>3 DEF QueueInv

-----------------------------------------------------------------------------
LEMMA QueueInvHolds == QueueSpec => []QueueInv
  <1>1. ASSUME QueueInv, [QueueNext]_queueVars PROVE QueueInv'
    <2>1. CASE UNCHANGED queueVars
      <3>1. QueueTypeOK' /\ WaitersWait' /\ SlotsCounted'
        BY <1>1, <2>1 DEF queueVars, QueueInv, QueueTypeOK, WaitersWait, SlotsCounted, Running
      <3>2. TakeTurns'
        <4>1. \A t, l : InLine(t, l) => InLine(t, l)'
          BY <2>1 DEF queueVars, InLine, Settled
        <4> QED
          BY <1>1, <4>1 DEF QueueInv, TakeTurns
      <3> QED
        BY <3>1, <3>2 DEF QueueInv
    <2>2. ASSUME NEW p \in Task, ChainTask(p) \/ TakeSlot(p) \/ End(p) \/ Forget(p) PROVE QueueInv'
      BY <1>1, <2>2, ChainTaskOK, TakeSlotOK, EndOK, ForgetOK
    <2> QED
      BY <1>1, <2>1, <2>2 DEF QueueNext
  <1> QED
    BY <1>1, QueueInitOK, PTL DEF QueueSpec

\* No tenant has two pushes behind its lock, no more than MaxRunning run, and
\* no slot is idle while a push waits for one (tenant-queue.ts runExclusive and
\* limited), for any pushes of any tenants.
THEOREM PushesStayBounded == QueueSpec => []PushesAreBounded
  <1>1. ASSUME QueueInv PROVE PushesAreBounded
    <2>1. ASSUME NEW p \in Task, NEW q \in Task, Behind(p), Behind(q), TenantOf[p] = TenantOf[q]
          PROVE  p = q
      <3>1. PICK line \in Lines : \A t \in Tenants : InLine(t, line[t])
        BY <1>1 DEF QueueInv, TakeTurns
      <3>2. TenantOf[p] \in Tenants /\ line[TenantOf[p]] \in Seq(Task)
        BY <3>1 DEF Lines, Tenants
      <3>3. line[TenantOf[p]][1] = p /\ line[TenantOf[p]][1] = q
        BY <2>1, <3>1, <3>2, FirstOfLine DEF Behind, Unsettled
      <3> QED
        BY <3>3
    <2>2. slots <= MaxRunning
      BY <1>1, QueueConstants DEF QueueInv, QueueTypeOK
    <2> QED
      BY <1>1, <2>1, <2>2 DEF PushesAreBounded, QueueInv, SlotsCounted
  <1> QED
    BY <1>1, QueueInvHolds, PTL

-----------------------------------------------------------------------------
(* A QR records one payment at most, for any askers, bodies and times.  The *)
(* invariant adds who may be looking or recording: only a call that found   *)
(* the row, which is never taken away again.                                *)

ChargeRows == [qr : {{c} : c \in Asker}, body : Body, expiresAt : Int, checkedAt : Int, paidAt : Int]

OnRow == {"looking", "recording", "told expired"}
Calls == [step : {"idle", "recording", "told expired"}] \cup
         [step : {"making", "storing"}, body : Body] \cup
         [step : {"looking"}, seen : Int, at : Int]

Rows ==
    /\ charge = NoCharge \/ charge \in ChargeRows
    /\ clock \in Nat /\ ledger \in Nat /\ validTo \in [Asker -> Nat] /\ call \in [ChargeCall -> Calls]
    /\ charge = NoCharge => \A c \in ChargeCall : call[c].step \notin OnRow

ChargeInv == Rows /\ PaymentRecordedOnce

-----------------------------------------------------------------------------
LEMMA RowIsNone == NoCharge \notin ChargeRows
  BY DEF NoCharge, ChargeRows

LEMMA ChargeInitOK == ChargeInit => ChargeInv
  <1> SUFFICES ASSUME ChargeInit PROVE ChargeInv
    OBVIOUS
  <1>1. Idle \in Calls /\ Idle.step \notin OnRow
    BY DEF Idle, Calls, OnRow
  <1>2. call = [c \in ChargeCall |-> Idle] /\ charge = NoCharge /\ clock = 0 /\ ledger = 0
    BY DEF ChargeInit
  <1>3. validTo \in [Asker -> Nat]
    BY DEF ChargeInit
  <1>4. Rows
    BY <1>1, <1>2, <1>3 DEF Rows
  <1> QED
    BY <1>2, <1>4 DEF ChargeInv, PaymentRecordedOnce

\* What a device is told about a row.
LEMMA ViewIsCall == \A r, n : View(r, n) \in Calls
  BY DEF View, Calls, Idle

\* A look remembers when the row was looked at before, and when it claimed it.
LEMMA LookingIsCall == \A a, b \in Int : [step |-> "looking", seen |-> a, at |-> b] \in Calls
  BY DEF Calls

\* The row and the ledger rest; one call goes on.
LEMMA CallGoes ==
    ASSUME ChargeInv, NEW c \in ChargeCall, NEW s \in Calls, Goes(c, s),
           UNCHANGED <<clock, charge, ledger>>, validTo' \in [Asker -> Nat],
           charge = NoCharge => s.step \notin OnRow
    PROVE  ChargeInv'
  <1>1. call' \in [ChargeCall -> Calls]
    BY DEF Goes, ChargeInv, Rows
  <1>2. charge' = NoCharge => \A d \in ChargeCall : call'[d].step \notin OnRow
    BY DEF Goes, ChargeInv, Rows
  <1>3. PaymentRecordedOnce'
    BY DEF ChargeInv, PaymentRecordedOnce
  <1> QED
    BY <1>1, <1>2, <1>3 DEF ChargeInv, Rows

\* A look claims the row or puts the claim back.
LEMMA Claiming ==
    ASSUME ChargeInv, charge # NoCharge, NEW n \in Int, NEW c \in ChargeCall, NEW s \in Calls, Goes(c, s),
           charge' = [charge EXCEPT !.checkedAt = n], UNCHANGED <<clock, ledger, validTo>>
    PROVE  ChargeInv'
  <1>1. charge \in ChargeRows
    BY DEF ChargeInv, Rows
  <1>2. charge' \in ChargeRows /\ charge'.paidAt = charge.paidAt
    BY <1>1 DEF ChargeRows
  <1>3. charge' # NoCharge
    BY <1>2, RowIsNone
  <1>4. call' \in [ChargeCall -> Calls]
    BY DEF Goes, ChargeInv, Rows
  <1>5. PaymentRecordedOnce'
    BY <1>2, <1>3 DEF ChargeInv, PaymentRecordedOnce
  <1> QED
    BY <1>2, <1>3, <1>4, <1>5 DEF ChargeInv, Rows

LEMMA StoreQrOK == ASSUME ChargeInv, NEW c \in Asker, StoreQr(c) PROVE ChargeInv'
  <1>0. c \in ChargeCall /\ call \in [ChargeCall -> Calls] /\ validTo[c] \in Nat
    BY DEF ChargeCall, ChargeInv, Rows
  <1>1. call[c] \in Calls /\ call[c].step = "storing"
    BY <1>0 DEF StoreQr
  <1>2. call[c].body \in Body
    BY <1>1 DEF Calls
  <1>3. UNCHANGED <<clock, ledger, validTo>> /\ Goes(c, Idle) /\ Idle \in Calls
    BY DEF StoreQr, Provider, Calls, Idle
  <1>4. call' \in [ChargeCall -> Calls]
    BY <1>0, <1>3 DEF Goes
  <1>5. charge' \in ChargeRows /\ charge' # NoCharge
    <2>1. RowOf(c) \in ChargeRows
      BY <1>0, <1>2 DEF RowOf, ChargeRows, Never
    <2> QED
      BY <2>1, RowIsNone DEF StoreQr, StoredRow, ChargeInv, Rows
  <1>6. PaymentRecordedOnce'
    <2>1. CASE charge = NoCharge
      <3>1. charge'.paidAt = Never
        BY <2>1 DEF StoreQr, StoredRow, RowOf
      <3> QED
        BY <1>3, <1>5, <2>1, <3>1 DEF ChargeInv, PaymentRecordedOnce
    <2>2. CASE charge # NoCharge
      BY <1>3, <2>2 DEF StoreQr, StoredRow, ChargeInv, PaymentRecordedOnce
    <2> QED
      BY <2>1, <2>2
  <1> QED
    BY <1>3, <1>4, <1>5, <1>6 DEF ChargeInv, Rows

\* The first to record finds the row unpaid, and leaves it paid.
LEMMA RecordPaymentOK == ASSUME ChargeInv, NEW c \in ChargeCall, RecordPayment(c) PROVE ChargeInv'
  <1>1. charge # NoCharge /\ charge \in ChargeRows
    BY DEF RecordPayment, ChargeInv, Rows, OnRow
  <1>2. UNCHANGED <<clock, validTo>> /\ clock \in Nat /\ ledger \in Nat
    BY DEF RecordPayment, Provider, ChargeInv, Rows
  <1>3. call' \in [ChargeCall -> Calls]
    <2>1. PICK s \in Calls : Goes(c, s)
      BY ViewIsCall DEF RecordPayment, Calls, Idle
    <2> QED
      BY <2>1 DEF Goes, ChargeInv, Rows
  <1>4. CASE charge.paidAt # Never
    BY <1>1, <1>2, <1>3, <1>4 DEF RecordPayment, ChargeInv, Rows, PaymentRecordedOnce
  <1>5. CASE charge.paidAt = Never
    <2>1. ledger = 0 /\ ledger' = 1
      BY <1>1, <1>2, <1>5 DEF RecordPayment, ChargeInv, PaymentRecordedOnce
    <2>2. charge' = [charge EXCEPT !.paidAt = clock]
      BY <1>5 DEF RecordPayment
    <2>3. charge' \in ChargeRows /\ charge'.paidAt # Never
      BY <1>1, <1>2, <2>2 DEF ChargeRows, Never
    <2>4. charge' # NoCharge
      BY <2>3, RowIsNone
    <2> QED
      BY <1>2, <1>3, <2>1, <2>3, <2>4 DEF ChargeInv, Rows, PaymentRecordedOnce
  <1> QED
    BY <1>4, <1>5

LEMMA ChargeStep == ASSUME ChargeInv, ChargeNext PROVE ChargeInv'
  <1>0. Asker \subseteq ChargeCall /\ Hook \in ChargeCall /\ Idle \in Calls
    BY DEF ChargeCall, Calls, Idle
  <1>1. CASE Passes
    BY <1>1 DEF Passes, Provider, ChargeInv, Rows, PaymentRecordedOnce
  <1>2. CASE PaidCallback
    <2> DEFINE s == [step |-> "looking", seen |-> charge.checkedAt, at |-> clock]
    <2>1. charge \in ChargeRows /\ charge # NoCharge
      BY <1>2 DEF PaidCallback, ChargeInv, Rows
    <2>2. s \in Calls
      <3>1. charge.checkedAt \in Int /\ clock \in Int
        BY <2>1 DEF ChargeRows, ChargeInv, Rows
      <3> QED
        BY <3>1, LookingIsCall
    <2>3. Goes(Hook, s) /\ UNCHANGED <<clock, charge, ledger, validTo>>
      BY <1>2 DEF PaidCallback, Shop, Provider
    <2> HIDE DEF s
    <2> QED
      BY <1>0, <2>1, <2>2, <2>3, CallGoes DEF ChargeInv, Rows
  <1>3. CASE Restart
    <2>1. UNCHANGED <<clock, charge, ledger, validTo>> /\ call' = [c \in ChargeCall |-> Idle]
      BY <1>3 DEF Restart, Shop, Provider
    <2>2. Rows'
      BY <1>0, <2>1 DEF ChargeInv, Rows, OnRow, Idle
    <2> QED
      BY <2>1, <2>2 DEF ChargeInv, PaymentRecordedOnce
  <1>4. ASSUME NEW c \in Asker, NEW body \in Body, AskForQr(c, body) PROVE ChargeInv'
    <2>1. UNCHANGED <<clock, charge, ledger, validTo>>
      BY <1>4 DEF AskForQr, Provider
    <2>2. CASE charge = NoCharge
      <3> DEFINE s == [step |-> "making", body |-> body]
      <3>1. Goes(c, s) /\ s \in Calls /\ s.step \notin OnRow
        BY <1>4, <2>2 DEF AskForQr, Calls, OnRow
      <3> HIDE DEF s
      <3> QED
        BY <1>0, <2>1, <3>1, CallGoes DEF ChargeInv, Rows
    <2>3. CASE charge # NoCharge
      BY <1>4, <2>1, <2>3 DEF AskForQr, ChargeInv, Rows, PaymentRecordedOnce
    <2> QED
      BY <2>2, <2>3
  <1>5. ASSUME NEW c \in Asker, MakeQr(c) PROVE ChargeInv'
    <2> DEFINE s == [step |-> "storing", body |-> call[c].body]
    <2>1. UNCHANGED <<clock, charge, ledger>> /\ Goes(c, s)
      BY <1>5 DEF MakeQr, Shop
    <2>2. call[c] \in Calls /\ call[c].step = "making"
      BY <1>0, <1>5 DEF MakeQr, ChargeInv, Rows
    <2>3. s \in Calls /\ s.step \notin OnRow
      BY <2>2 DEF Calls, OnRow
    <2>4. validTo' \in [Asker -> Nat]
      BY <1>5, ChargeConstants DEF MakeQr, ChargeInv, Rows
    <2> HIDE DEF s
    <2> QED
      BY <1>0, <2>1, <2>3, <2>4, CallGoes
  <1>6. ASSUME NEW c \in Asker, AskStatus(c) PROVE ChargeInv'
    <2>1. charge # NoCharge /\ charge \in ChargeRows /\ clock \in Nat
      BY <1>6 DEF AskStatus, ChargeInv, Rows
    <2>2. UNCHANGED <<clock, ledger, validTo>>
      BY <1>6 DEF AskStatus, Shop, Provider
    <2>3. CASE UNCHANGED charge /\ Goes(c, View(charge, clock))
      BY <1>0, <2>1, <2>2, <2>3, CallGoes, ViewIsCall DEF ChargeInv, Rows
    <2> DEFINE s == [step |-> "looking", seen |-> charge.checkedAt, at |-> clock]
    <2>4. CASE charge' = [charge EXCEPT !.checkedAt = clock] /\ Goes(c, s)
      <3>1. s \in Calls
        <4>1. charge.checkedAt \in Int /\ clock \in Int
          BY <2>1 DEF ChargeRows
        <4> QED
          BY <4>1, LookingIsCall
      <3> HIDE DEF s
      <3> QED
        BY <1>0, <2>1, <2>2, <2>4, <3>1, Claiming
    <2> QED
      BY <1>6, <2>3, <2>4 DEF AskStatus
  <1>7. ASSUME NEW c \in Asker, Told(c) PROVE ChargeInv'
    <2>1. UNCHANGED <<clock, charge, ledger, validTo>> /\ Goes(c, Idle)
      BY <1>7 DEF Told, Shop, Provider
    <2> QED
      BY <1>0, <2>1, CallGoes DEF ChargeInv, Rows, OnRow, Idle
  <1>8. ASSUME NEW c \in Asker, Pay(c) PROVE ChargeInv'
    BY <1>8 DEF Pay, Shop, ChargeInv, Rows, PaymentRecordedOnce
  <1>9. ASSUME NEW c \in ChargeCall, Look(c) PROVE ChargeInv'
    <2>1. charge # NoCharge
      BY <1>9 DEF Look, ChargeInv, Rows, OnRow
    <2>2. PICK s \in Calls : Goes(c, s)
      BY <1>9, <1>0, ViewIsCall DEF Look, Calls
    <2>3. UNCHANGED <<clock, charge, ledger, validTo>>
      BY <1>9 DEF Look, Shop, Provider
    <2> QED
      BY <2>1, <2>2, <2>3, CallGoes DEF ChargeInv, Rows
  <1>10. ASSUME NEW c \in ChargeCall, LookFails(c) PROVE ChargeInv'
    <2>1. charge # NoCharge
      BY <1>10 DEF LookFails, ChargeInv, Rows, OnRow
    <2>2. PICK s \in Calls : Goes(c, s)
      BY <1>10, <1>0, ViewIsCall DEF LookFails
    <2>3. UNCHANGED <<clock, ledger, validTo>>
      BY <1>10 DEF LookFails, Shop, Provider
    <2>4. call[c] \in Calls /\ call[c].step = "looking"
      BY <1>10 DEF LookFails, ChargeInv, Rows
    <2>5. call[c].seen \in Int
      BY <2>4 DEF Calls
    <2>6. CASE UNCHANGED charge
      BY <2>1, <2>2, <2>3, <2>6, CallGoes DEF ChargeInv, Rows
    <2>7. CASE charge' = [charge EXCEPT !.checkedAt = call[c].seen]
      BY <2>1, <2>2, <2>3, <2>5, <2>7, Claiming
    <2> QED
      BY <1>10, <2>6, <2>7 DEF LookFails
  <1> QED
    BY <1>1, <1>2, <1>3, <1>4, <1>5, <1>6, <1>7, <1>8, <1>9, <1>10, StoreQrOK, RecordPaymentOK DEF ChargeNext

\* One QR records one payment at most, and its row says paid exactly when the
\* payment is recorded (qris/service.ts recordPayment), however callbacks,
\* status checks and restarts interleave.
THEOREM PaymentStaysSingle == ChargeSpec => []PaymentRecordedOnce
  <1>1. ASSUME ChargeInv, [ChargeNext]_chargeVars PROVE ChargeInv'
    <2>1. CASE UNCHANGED chargeVars
      BY <1>1, <2>1 DEF chargeVars, ChargeInv, Rows, PaymentRecordedOnce
    <2> QED
      BY <1>1, <2>1, ChargeStep
  <1>2. ChargeInv => PaymentRecordedOnce
    BY DEF ChargeInv
  <1> QED
    BY <1>1, <1>2, ChargeInitOK, PTL DEF ChargeSpec

-----------------------------------------------------------------------------
(* A capture is marked uploaded only when the server has its file, for any   *)
(* captures, chunks and mishaps.  The invariant adds the one who marks it:   *)
(* an attempt that ends "uploaded" ends so on a file the server completed,   *)
(* and what is processed late or twice never undoes a completed file.        *)

Whats == {"init", "put", "complete"}
UploadFields == {"state", "owner", "chunks", "blob"}
OnItem == {"init", "status", "send", "settle"}

ItemsOK ==
    /\ DOMAIN items = Item
    /\ \A i \in Item : "status" \in DOMAIN items[i]
UploadsOK ==
    /\ DOMAIN uploads = Item
    /\ \A i \in Item : /\ UploadFields \subseteq DOMAIN uploads[i]
                       /\ uploads[i].state \in {"none", "receiving", "complete"}
                       /\ uploads[i].state = "complete" => uploads[i].blob = "kept"
WireOK == \A r \in onTheWay : r.what \in Whats

\* The verdict an attempt carries to its row.
DrainOK ==
    /\ "at" \in DOMAIN drain
    /\ drain.at \in OnItem => "item" \in DOMAIN drain
    /\ drain.at = "settle" => "how" \in DOMAIN drain
    /\ drain.at = "settle" /\ drain.how = "uploaded" /\ drain.item \in Item =>
           uploads[drain.item].state = "complete"

MediaInv == ItemsOK /\ UploadsOK /\ WireOK /\ DrainOK /\ UploadedIsStored

\* What no step undoes.
Grows == UploadsOK' /\ \A i \in Item : uploads[i].state = "complete" => uploads'[i].state = "complete"
\* A row comes to be marked only by a file that is complete.
MarksWell ==
    /\ ItemsOK'
    /\ \A i \in Item : items'[i].status = "uploaded" =>
           items[i].status = "uploaded" \/ uploads'[i].state = "complete"

-----------------------------------------------------------------------------
LEMMA MediaInitOK == MediaInit => MediaInv
  <1> SUFFICES ASSUME MediaInit PROVE MediaInv
    OBVIOUS
  <1>1. ItemsOK /\ UploadedIsStored
    BY DEF MediaInit, ItemsOK, UploadedIsStored, NewItem
  <1>2. UploadsOK
    BY DEF MediaInit, UploadsOK, NoUpload, UploadFields
  <1>3. WireOK /\ DrainOK
    BY DEF MediaInit, WireOK, DrainOK, Off, OnItem
  <1> QED
    BY <1>1, <1>2, <1>3 DEF MediaInv

\* Whatever a request is and whenever it is processed.
LEMMA AfterOK ==
    ASSUME UploadsOK, NEW r, r.what \in Whats, r.item \in Item
    PROVE  /\ UploadFields \subseteq DOMAIN After(r)
           /\ After(r).state \in {"none", "receiving", "complete"}
           /\ After(r).state = "complete" => After(r).blob = "kept"
           /\ uploads[r.item].state = "complete" => After(r).state = "complete"
  <1> DEFINE u == uploads[r.item]
  <1>1. /\ UploadFields \subseteq DOMAIN u /\ u.state \in {"none", "receiving", "complete"}
        /\ u.state = "complete" => u.blob = "kept"
    BY DEF UploadsOK
  <1>2. CASE r.what = "init"
    <2>1. After(r) = IF u.state = "none" THEN [NoUpload EXCEPT !.state = "receiving", !.owner = r.device] ELSE u
      BY <1>2 DEF After, AfterInit
    <2> HIDE DEF u
    <2> QED
      BY <1>1, <2>1 DEF NoUpload, UploadFields, u
  <1>3. CASE r.what = "put"
    <2>1. After(r) = IF Open(r.item, r.device) THEN [u EXCEPT !.chunks = (r.chunk :> r.as) @@ @] ELSE u
      BY <1>3 DEF After, AfterPut
    <2> QED
      BY <1>1, <2>1 DEF UploadFields, Open
  <1>4. CASE r.what = "complete"
    <2>1. After(r) = AfterComplete(r.item, r.device)
      BY <1>4 DEF After
    <2>2. CASE ~Open(r.item, r.device) \/ Missing(r.item) # {}
      BY <1>1, <2>1, <2>2 DEF AfterComplete
    <2>3. CASE Open(r.item, r.device) /\ Missing(r.item) = {} /\ Hashes(r.item)
      <3>1. After(r) = [u EXCEPT !.chunks = <<>>, !.state = "complete", !.blob = "kept"]
        BY <2>1, <2>3 DEF AfterComplete, Hashes
      <3> QED
        BY <1>1, <3>1 DEF UploadFields
    <2>4. CASE Open(r.item, r.device) /\ Missing(r.item) = {} /\ ~Hashes(r.item)
      <3>1. After(r) = [u EXCEPT !.chunks = <<>>]
        BY <2>1, <2>4 DEF AfterComplete
      <3> QED
        BY <1>1, <2>4, <3>1 DEF UploadFields, Open
    <2> QED
      BY <2>2, <2>3, <2>4
  <1> QED
    BY <1>2, <1>3, <1>4 DEF Whats

LEMMA ProcessedOK ==
    ASSUME UploadsOK, NEW r, r.what \in Whats, uploads' = [uploads EXCEPT ![r.item] = After(r)]
    PROVE  Grows
  <1>1. DOMAIN uploads' = Item
    BY DEF UploadsOK
  <1>2. ASSUME NEW i \in Item
        PROVE  /\ UploadFields \subseteq DOMAIN uploads'[i]
               /\ uploads'[i].state \in {"none", "receiving", "complete"}
               /\ uploads'[i].state = "complete" => uploads'[i].blob = "kept"
               /\ uploads[i].state = "complete" => uploads'[i].state = "complete"
    <2>1. CASE i = r.item
      <3>1. uploads'[i] = After(r)
        BY <2>1 DEF UploadsOK
      <3> QED
        BY <2>1, <3>1, AfterOK
    <2>2. CASE i # r.item
      <3>1. uploads'[i] = uploads[i]
        BY <2>2 DEF UploadsOK
      <3> QED
        BY <3>1 DEF UploadsOK
    <2> QED
      BY <2>1, <2>2
  <1> QED
    BY <1>1, <1>2 DEF Grows, UploadsOK

LEMMA RestsOK == ASSUME UploadsOK, UNCHANGED uploads PROVE Grows
  BY DEF Grows, UploadsOK

LEMMA MarkedOK == ASSUME MediaInv, Grows, MarksWell PROVE UploadedIsStored' /\ ItemsOK' /\ UploadsOK'
  BY DEF MediaInv, Grows, MarksWell, UploadedIsStored, UploadsOK

LEMMA RowsRest == ASSUME ItemsOK, UNCHANGED items PROVE MarksWell
  BY DEF ItemsOK, MarksWell

LEMMA RowSetOK ==
    ASSUME ItemsOK, NEW i, NEW entry, "status" \in DOMAIN entry,
           items' = [items EXCEPT ![i] = entry],
           entry.status = "uploaded" /\ i \in Item => items[i].status = "uploaded" \/ uploads'[i].state = "complete"
    PROVE  MarksWell
  <1>1. DOMAIN items' = Item
    BY DEF ItemsOK
  <1>2. ASSUME NEW j \in Item
        PROVE  /\ "status" \in DOMAIN items'[j]
               /\ items'[j].status = "uploaded" => items[j].status = "uploaded" \/ uploads'[j].state = "complete"
    <2>1. CASE j = i
      <3>1. items'[j] = entry
        BY <2>1 DEF ItemsOK
      <3> QED
        BY <2>1, <3>1
    <2>2. CASE j # i
      <3>1. items'[j] = items[j]
        BY <2>2 DEF ItemsOK
      <3> QED
        BY <3>1 DEF ItemsOK
    <2> QED
      BY <2>1, <2>2
  <1> QED
    BY <1>1, <1>2 DEF MarksWell, ItemsOK

LEMMA UpdatedOK ==
    ASSUME ItemsOK, NEW i, NEW entry, "status" \in DOMAIN entry, items' = Updated(i, entry),
           entry.status = "uploaded" /\ i \in Item => items[i].status = "uploaded" \/ uploads'[i].state = "complete"
    PROVE  MarksWell
  <1>1. CASE i \in Item /\ items[i].status # "deleted"
    <2>1. items' = [items EXCEPT ![i] = entry]
      BY <1>1 DEF Updated
    <2> QED
      BY <2>1, RowSetOK
  <1>2. CASE i \in Item /\ items[i].status = "deleted"
    <2>1. items' = [items EXCEPT ![i] = items[i]]
      BY <1>2 DEF Updated
    <2>2. "status" \in DOMAIN items[i]
      BY <1>2 DEF ItemsOK
    <2> QED
      BY <2>1, <2>2, RowSetOK
  <1>3. CASE i \notin Item
    <2>1. DOMAIN items' = Item /\ \A j \in Item : items'[j] = items[j]
      BY <1>3 DEF Updated, ItemsOK
    <2> QED
      BY <2>1 DEF MarksWell, ItemsOK
  <1> QED
    BY <1>1, <1>2, <1>3

\* An attempt ends, with a verdict.
LEMMA EndsOK ==
    ASSUME MediaInv, drain.at \in OnItem, NEW how, UploadEnds(how), Grows, WireOK',
           how = "uploaded" /\ drain.item \in Item => uploads'[drain.item].state = "complete"
    PROVE  MediaInv'
  <1>1. MarksWell
    BY RowsRest DEF MediaInv, UploadEnds
  <1>2. /\ drain'.at = "settle" /\ drain'.how = how /\ drain'.item = drain.item
        /\ DOMAIN drain' = {"at", "flags", "todo", "item", "how"}
    BY DEF UploadEnds
  <1>3. DrainOK'
    BY <1>2 DEF DrainOK
  <1> QED
    BY <1>1, <1>3, MarkedOK DEF MediaInv

\* The loop is elsewhere than at a verdict.
LEMMA GoesOnOK ==
    ASSUME MediaInv, Grows, WireOK', MarksWell, "at" \in DOMAIN drain', drain'.at # "settle",
           drain'.at \in OnItem => "item" \in DOMAIN drain'
    PROVE  MediaInv'
  BY MarkedOK DEF MediaInv, DrainOK

\* The loop is where it was.
LEMMA StaysOK ==
    ASSUME MediaInv, Grows, WireOK', MarksWell, DOMAIN drain' = DOMAIN drain, drain'.at = drain.at,
           "item" \in DOMAIN drain => drain'.item = drain.item,
           "how" \in DOMAIN drain => drain'.how = drain.how
    PROVE  MediaInv'
  <1>1. DrainOK'
    BY DEF MediaInv, DrainOK, Grows, OnItem
  <1> QED
    BY <1>1, MarkedOK DEF MediaInv

LEMMA TriggerOK == ASSUME MediaInv, Trigger \/ PauseDrain PROVE MediaInv'
  <1>1. UNCHANGED <<items, uploads, onTheWay>>
    BY DEF Trigger, PauseDrain, OnlyDrain, Wire
  <1>2. Grows /\ MarksWell /\ WireOK' /\ "at" \in DOMAIN drain
    BY <1>1, RestsOK, RowsRest DEF MediaInv, WireOK, DrainOK
  <1>3. CASE drain' = Pass(drain.flags)
    BY <1>2, <1>3, GoesOnOK DEF Pass, OnItem
  <1>4. CASE drain' = [drain EXCEPT !.flags.again = TRUE]
    BY <1>2, <1>4, StaysOK
  <1>5. CASE drain' = [drain EXCEPT !.flags.paused = TRUE]
    BY <1>2, <1>5, StaysOK
  <1> QED
    BY <1>3, <1>4, <1>5 DEF Trigger, PauseDrain

LEMMA NextItemOK == ASSUME MediaInv, NextItem PROVE MediaInv'
  <1>1. UNCHANGED <<items, uploads, onTheWay>>
    BY DEF NextItem, OnlyDrain, Wire
  <1>2. Grows /\ MarksWell /\ WireOK'
    BY <1>1, RestsOK, RowsRest DEF MediaInv, WireOK
  <1>3. CASE PassEnds
    <2>1. CASE drain' = Pass(drain.flags)
      BY <1>2, <2>1, GoesOnOK DEF Pass, OnItem
    <2>2. CASE drain' = [Off EXCEPT !.flags.halted = drain.flags.halted]
      <3>1. "at" \in DOMAIN drain' /\ drain'.at = "off"
        BY <2>2 DEF Off
      <3> QED
        BY <1>2, <3>1, GoesOnOK DEF OnItem
    <2> QED
      BY <1>3, <2>1, <2>2 DEF PassEnds
  <1>4. CASE ~PassEnds
    <2>1. "at" \in DOMAIN drain' /\ drain'.at \in {"next", "init"} /\ "item" \in DOMAIN drain'
      BY <1>4 DEF NextItem
    <2> QED
      BY <1>2, <2>1, GoesOnOK
  <1> QED
    BY <1>3, <1>4

\* The verdict reaches its row.
LEMMA SettleItemOK == ASSUME MediaInv, SettleItem PROVE MediaInv'
  <1> DEFINE entry == Attempted(items[drain.item], drain.how)
  <1>1. /\ drain.at = "settle" /\ UNCHANGED <<uploads, onTheWay>> /\ items' = Updated(drain.item, entry)
        /\ "at" \in DOMAIN drain' /\ drain'.at \in {"off", "next"}
    BY DEF SettleItem, Wire, Off
  <1>2. Grows /\ WireOK'
    BY <1>1, RestsOK DEF MediaInv, WireOK
  <1>3. MarksWell
    <2>1. CASE drain.item \in Item
      <3>1. "status" \in DOMAIN items[drain.item]
        BY <2>1 DEF MediaInv, ItemsOK
      <3>2. "status" \in DOMAIN entry
        BY <3>1 DEF Attempted
      <3>3. entry.status = "uploaded" => items[drain.item].status = "uploaded" \/ drain.how = "uploaded"
        BY <3>1 DEF Attempted
      <3>4. drain.how = "uploaded" => uploads'[drain.item].state = "complete"
        BY <1>1, <2>1 DEF MediaInv, DrainOK
      <3> HIDE DEF entry
      <3> QED
        BY <1>1, <3>2, <3>3, <3>4, UpdatedOK DEF MediaInv
    <2>2. CASE drain.item \notin Item
      <3>1. DOMAIN items' = Item /\ \A j \in Item : items'[j] = items[j]
        BY <1>1, <2>2 DEF Updated, MediaInv, ItemsOK
      <3> QED
        BY <3>1 DEF MarksWell, MediaInv, ItemsOK
    <2> QED
      BY <2>1, <2>2
  <1> HIDE DEF entry
  <1> QED
    BY <1>1, <1>2, <1>3, GoesOnOK DEF OnItem

\* A request that gets no answer, or is refused: the attempt has failed.
LEMMA UnansweredOK ==
    ASSUME MediaInv, drain.at \in OnItem, NEW r, r.what \in Whats, Sends(r, FALSE)
    PROVE  MediaInv'
  <1>1. UploadEnds("revoked") \/ UploadEnds("failed")
    BY DEF Sends
  <1>2. WireOK'
    BY DEF Sends, Wire, MediaInv, WireOK
  <1>3. UNCHANGED uploads \/ uploads' = [uploads EXCEPT ![r.item] = After(r)]
    BY DEF Sends, Wire
  <1>4. Grows
    BY <1>3, RestsOK, ProcessedOK DEF MediaInv
  <1> QED
    BY <1>1, <1>2, <1>4, EndsOK

\* A request that is answered.
LEMMA AnsweredOK ==
    ASSUME MediaInv, NEW r, r.what \in Whats, uploads' = [uploads EXCEPT ![r.item] = After(r)], UNCHANGED onTheWay
    PROVE  Grows /\ WireOK'
  BY ProcessedOK DEF MediaInv, WireOK

LEMMA SendInitOK == ASSUME MediaInv, SendInit PROVE MediaInv'
  <1> DEFINE i == drain.item
             r == [what |-> "init", item |-> i, device |-> identity.device]
             onward == IF Theirs(i) THEN UploadEnds("failed")
                       ELSE IF uploads[i].state = "complete" THEN Immutable
                       ELSE ItemBecomes("status", i)
  <1>1. drain.at = "init" /\ drain.at \in OnItem /\ r.what \in Whats /\ r.item = i /\ Sends(r, onward)
    BY DEF SendInit, OnItem, Whats
  <1> HIDE DEF r
  <1>2. CASE Sends(r, FALSE)
    BY <1>1, <1>2, UnansweredOK
  <1>3. CASE onward /\ uploads' = [uploads EXCEPT ![r.item] = After(r)] /\ UNCHANGED onTheWay
    <2>1. Grows /\ WireOK'
      BY <1>1, <1>3, AnsweredOK
    <2>2. CASE UploadEnds("failed")
      BY <1>1, <2>1, <2>2, EndsOK
    <2>3. CASE uploads[i].state = "complete" /\ Immutable
      <3>1. i \in Item => uploads'[i].state = "complete"
        BY <2>1, <2>3 DEF Grows
      <3> QED
        BY <1>1, <2>1, <2>3, <3>1, EndsOK DEF Immutable
    <2>4. CASE ItemBecomes("status", i)
      <3>1. drain' = [drain EXCEPT !.at = "status"] /\ items' = Updated(i, [items[i] EXCEPT !.status = "uploading"])
        BY <2>4 DEF ItemBecomes
      <3>2. "at" \in DOMAIN drain' /\ drain'.at = "status" /\ "item" \in DOMAIN drain'
        BY <1>1, <3>1 DEF MediaInv, DrainOK
      <3>3. MarksWell
        <4>1. CASE i \in Item
          <5> DEFINE entry == [items[i] EXCEPT !.status = "uploading"]
          <5>1. "status" \in DOMAIN entry /\ entry.status = "uploading"
            BY <4>1 DEF MediaInv, ItemsOK
          <5>2. items' = Updated(i, entry)
            BY <3>1
          <5> HIDE DEF entry, i
          <5> QED
            BY <5>1, <5>2, UpdatedOK DEF MediaInv
        <4>2. CASE i \notin Item
          <5>1. DOMAIN items' = Item /\ \A j \in Item : items'[j] = items[j]
            BY <3>1, <4>2 DEF Updated, MediaInv, ItemsOK
          <5> QED
            BY <5>1 DEF MarksWell, MediaInv, ItemsOK
        <4> QED
          BY <4>1, <4>2
      <3> QED
        BY <2>1, <3>2, <3>3, GoesOnOK
    <2> QED
      BY <1>3, <2>2, <2>3, <2>4
  <1> QED
    BY <1>1, <1>2, <1>3 DEF Sends

LEMMA AskUploadOK == ASSUME MediaInv, AskUpload PROVE MediaInv'
  <1>1. drain.at \in OnItem /\ UNCHANGED <<uploads, onTheWay>>
    BY DEF AskUpload, OnItem, Wire
  <1>2. Grows /\ WireOK'
    BY <1>1, RestsOK DEF MediaInv, WireOK
  <1>3. CASE UploadEnds("failed") \/ UploadEnds("revoked")
    BY <1>1, <1>2, <1>3, EndsOK
  <1>4. CASE uploads[drain.item].state = "complete" /\ UploadEnds("uploaded")
    BY <1>1, <1>2, <1>4, EndsOK
  <1>5. CASE drain' = Sending(Missing(drain.item)) /\ UNCHANGED items
    BY <1>2, <1>5, GoesOnOK, RowsRest DEF Sending, MediaInv
  <1> QED
    BY <1>3, <1>4, <1>5 DEF AskUpload

LEMMA SendChunkOK == ASSUME MediaInv, SendChunk PROVE MediaInv'
  <1> DEFINE i == drain.item
             k == CHOOSE c \in drain.left : TRUE
             put(as) == [what |-> "put", item |-> i, device |-> identity.device, chunk |-> k, as |-> as]
             sent == drain' = [drain EXCEPT !.left = @ \ {k}] /\ UNCHANGED items
             onward == IF uploads[i].state = "complete" THEN Immutable
                       ELSE IF Open(i, identity.device) THEN sent ELSE UploadEnds("failed")
  <1>0. drain.at = "send" /\ drain.at \in OnItem
    BY DEF SendChunk, OnItem
  <1>1. \/ UploadEnds("released") /\ UNCHANGED <<Wire, mishaps>>
        \/ UploadEnds("thrown") /\ UNCHANGED <<Wire, mishaps>>
        \/ Sends(put("kept"), onward)
        \/ sent /\ uploads' = [uploads EXCEPT ![i] = After(put("other"))] /\ UNCHANGED onTheWay
    BY DEF SendChunk
  <1>2. ASSUME sent, Grows, WireOK' PROVE MediaInv'
    <2>1. "at" \in DOMAIN drain' /\ drain'.at = "send" /\ "item" \in DOMAIN drain'
      BY <1>0, <1>2 DEF MediaInv, DrainOK
    <2>2. MarksWell
      BY <1>2, RowsRest DEF MediaInv
    <2> QED
      BY <1>2, <2>1, <2>2, GoesOnOK
  <1>3. CASE (UploadEnds("released") \/ UploadEnds("thrown")) /\ UNCHANGED <<Wire, mishaps>>
    <2>1. Grows /\ WireOK'
      BY <1>3, RestsOK DEF MediaInv, WireOK, Wire
    <2> QED
      BY <1>0, <1>3, <2>1, EndsOK
  <1>4. \A as : put(as).what \in Whats /\ put(as).item = i
    BY DEF Whats
  <1> HIDE DEF put
  <1>5. CASE Sends(put("kept"), onward)
    <2>1. CASE Sends(put("kept"), FALSE)
      BY <1>0, <1>4, <2>1, UnansweredOK
    <2>2. CASE onward /\ uploads' = [uploads EXCEPT ![put("kept").item] = After(put("kept"))] /\ UNCHANGED onTheWay
      <3>1. Grows /\ WireOK'
        BY <1>4, <2>2, AnsweredOK
      <3>2. CASE uploads[i].state = "complete" /\ Immutable
        <4>1. i \in Item => uploads'[i].state = "complete"
          BY <3>1, <3>2 DEF Grows
        <4> QED
          BY <1>0, <3>1, <3>2, <4>1, EndsOK DEF Immutable
      <3>3. CASE sent
        BY <1>2, <3>1, <3>3
      <3>4. CASE UploadEnds("failed")
        BY <1>0, <3>1, <3>4, EndsOK
      <3> QED
        BY <2>2, <3>2, <3>3, <3>4
    <2> QED
      BY <1>5, <2>1, <2>2 DEF Sends
  <1>6. CASE sent /\ uploads' = [uploads EXCEPT ![i] = After(put("other"))] /\ UNCHANGED onTheWay
    <2>1. Grows /\ WireOK'
      BY <1>4, <1>6, AnsweredOK
    <2> QED
      BY <1>2, <1>6, <2>1
  <1> QED
    BY <1>1, <1>3, <1>5, <1>6

\* A file that hashes is completed by the request that finds it so.
LEMMA CompletesIt ==
    ASSUME MediaInv, NEW r, r.what = "complete", NEW i \in Item, r.item = i, r.device = identity.device,
           ~Theirs(i), uploads[i].state # "none",
           uploads[i].state = "complete" \/ (Missing(i) = {} /\ Hashes(i)),
           uploads' = [uploads EXCEPT ![r.item] = After(r)]
    PROVE  uploads'[i].state = "complete"
  <1>1. /\ uploads'[i] = After(r) /\ After(r) = AfterComplete(i, identity.device)
        /\ UploadFields \subseteq DOMAIN uploads[i] /\ uploads[i].state \in {"none", "receiving", "complete"}
    BY DEF MediaInv, UploadsOK, After
  <1>2. CASE uploads[i].state = "complete"
    BY <1>1, <1>2 DEF AfterComplete, Open
  <1>3. CASE uploads[i].state # "complete" /\ Missing(i) = {} /\ Hashes(i)
    <2>1. Open(i, identity.device)
      BY <1>1, <1>3 DEF Open, Theirs
    <2>2. After(r) = [uploads[i] EXCEPT !.chunks = <<>>, !.state = "complete", !.blob = "kept"]
      BY <1>1, <1>3, <2>1 DEF AfterComplete, Hashes
    <2> QED
      BY <1>1, <2>2 DEF UploadFields
  <1> QED
    BY <1>2, <1>3

LEMMA SendCompleteOK == ASSUME MediaInv, SendComplete PROVE MediaInv'
  <1> DEFINE i == drain.item
             r == [what |-> "complete", item |-> i, device |-> identity.device]
             hashed == uploads[i].state = "complete" \/ (Missing(i) = {} /\ Hashes(i))
             again == drain' = [drain EXCEPT !.left = Missing(i), !.retried = TRUE] /\ UNCHANGED items
             onward == IF Theirs(i) \/ uploads[i].state = "none" THEN UploadEnds("failed")
                       ELSE IF hashed THEN UploadEnds("uploaded")
                       ELSE IF Missing(i) # {} THEN IF drain.retried THEN UploadEnds("failed") ELSE again
                       ELSE IF files[i] = "kept" THEN UploadEnds("failed") ELSE UploadEnds("thrown")
  <1>0. drain.at = "send" /\ drain.at \in OnItem
    BY DEF SendComplete, OnItem
  <1>1. \/ UploadEnds("released") /\ UNCHANGED <<Wire, mishaps>>
        \/ Sends(r, onward)
    BY DEF SendComplete
  <1>2. CASE UploadEnds("released") /\ UNCHANGED <<Wire, mishaps>>
    <2>1. Grows /\ WireOK'
      BY <1>2, RestsOK DEF MediaInv, WireOK, Wire
    <2> QED
      BY <1>0, <1>2, <2>1, EndsOK
  <1>3. r.what = "complete" /\ r.what \in Whats /\ r.item = i /\ r.device = identity.device
    BY DEF Whats
  <1> HIDE DEF r
  <1>4. CASE Sends(r, FALSE)
    BY <1>0, <1>3, <1>4, UnansweredOK
  <1>5. CASE onward /\ uploads' = [uploads EXCEPT ![r.item] = After(r)] /\ UNCHANGED onTheWay
    <2>1. Grows /\ WireOK'
      BY <1>3, <1>5, AnsweredOK
    <2>2. CASE UploadEnds("failed") \/ UploadEnds("thrown")
      BY <1>0, <2>1, <2>2, EndsOK
    <2>3. CASE ~Theirs(i) /\ uploads[i].state # "none" /\ hashed /\ UploadEnds("uploaded")
      <3>1. i \in Item => uploads'[i].state = "complete"
        BY <1>3, <1>5, <2>3, CompletesIt
      <3> QED
        BY <1>0, <2>1, <2>3, <3>1, EndsOK
    <2>4. CASE again
      <3>1. "at" \in DOMAIN drain' /\ drain'.at = "send" /\ "item" \in DOMAIN drain'
        BY <1>0, <2>4 DEF MediaInv, DrainOK
      <3>2. MarksWell
        BY <2>4, RowsRest DEF MediaInv
      <3> QED
        BY <2>1, <3>1, <3>2, GoesOnOK
    <2> QED
      BY <1>5, <2>2, <2>3, <2>4
  <1> QED
    BY <1>1, <1>2, <1>4, <1>5 DEF Sends

\* A row of the phone changes, and nothing else.
LEMMA RowOK ==
    ASSUME MediaInv, NEW i \in Item, NEW from, NEW to, Row(i, from, to), "status" \in DOMAIN to,
           to.status = "uploaded" => items[i].status = "uploaded"
    PROVE  MediaInv'
  <1>1. items' = [items EXCEPT ![i] = to] /\ UNCHANGED <<uploads, onTheWay, drain>>
    BY DEF Row, Wire
  <1>2. MarksWell
    BY <1>1, RowSetOK DEF MediaInv
  <1>3. Grows /\ WireOK'
    BY <1>1, RestsOK DEF MediaInv, WireOK
  <1> QED
    BY <1>1, <1>2, <1>3, StaysOK

LEMMA PhoneOK ==
    ASSUME MediaInv, NEW i \in Item,
           BackoffOver(i) \/ Capture(i) \/ Attach(i) \/ ReleaseItem(i) \/ Ages(i) \/ Rots(i)
    PROVE  MediaInv'
  <1>1. "status" \in DOMAIN items[i]
    BY DEF MediaInv, ItemsOK
  <1>2. CASE BackoffOver(i)
    <2>1. Row(i, ~items[i].due, [items[i] EXCEPT !.due = TRUE])
      BY <1>2 DEF BackoffOver, Row
    <2> QED
      BY <1>1, <2>1, RowOK
  <1>3. CASE Capture(i)
    <2>1. "status" \in DOMAIN [NewItem EXCEPT !.status = "pending"] /\ [NewItem EXCEPT !.status = "pending"].status = "pending"
      BY DEF NewItem
    <2> QED
      BY <1>3, <2>1, RowOK DEF Capture
  <1>4. CASE Attach(i)
    BY <1>1, <1>4, RowOK DEF Attach
  <1>5. CASE ReleaseItem(i)
    BY <1>1, <1>5, RowOK DEF ReleaseItem
  <1>6. CASE Ages(i)
    BY <1>1, <1>6, RowOK DEF Ages
  <1>7. CASE Rots(i)
    <2>1. UNCHANGED <<items, uploads, onTheWay, drain>>
      BY <1>7 DEF Rots, Wire
    <2> QED
      BY <2>1, RestsOK, RowsRest, StaysOK DEF MediaInv, WireOK
  <1> QED
    BY <1>2, <1>3, <1>4, <1>5, <1>6, <1>7

LEMMA PruneOK ==
    ASSUME MediaInv, PlanPruning \/ RevokePhone \/ \E p \in doomed : PruneFile(p) \/ PruneRow(p)
    PROVE  MediaInv'
  <1>1. CASE PlanPruning \/ RevokePhone \/ \E p \in doomed : PruneFile(p)
    <2>1. UNCHANGED <<items, uploads, onTheWay, drain>>
      BY <1>1 DEF PlanPruning, RevokePhone, PruneFile, Wire
    <2> QED
      BY <2>1, RestsOK, RowsRest, StaysOK DEF MediaInv, WireOK
  <1>2. ASSUME NEW p \in doomed, PruneRow(p) PROVE MediaInv'
    <2>1. UNCHANGED <<uploads, onTheWay, drain>>
      BY <1>2 DEF PruneRow, Wire
    <2>2. CASE items' = items
      BY <2>1, <2>2, RestsOK, RowsRest, StaysOK DEF MediaInv, WireOK
    <2>3. CASE items' = [items EXCEPT ![p.item].status = "deleted"]
      <3>1. DOMAIN items' = Item
        BY <2>3 DEF MediaInv, ItemsOK
      <3>2. ASSUME NEW j \in Item
            PROVE  "status" \in DOMAIN items'[j] /\ (items'[j].status = "uploaded" => items[j].status = "uploaded")
        BY <2>3 DEF MediaInv, ItemsOK
      <3>3. MarksWell
        BY <3>1, <3>2 DEF MarksWell, ItemsOK
      <3> QED
        BY <2>1, <3>3, RestsOK, StaysOK DEF MediaInv, WireOK
    <2> QED
      BY <1>2, <2>2, <2>3 DEF PruneRow
  <1> QED
    BY <1>1, <1>2

\* The app starts again; what was uploading is pending.
LEMMA StartOK == ASSUME MediaInv, RestartApp \/ EnrolAgain PROVE MediaInv'
  <1>1. drain' = Off /\ items' = Recovered /\ UNCHANGED <<uploads, onTheWay>>
    BY DEF RestartApp, EnrolAgain, Wire
  <1>2. \A j \in Item : items'[j] = IF items[j].status = "uploading" THEN [items[j] EXCEPT !.status = "pending"] ELSE items[j]
    BY <1>1 DEF Recovered
  <1>3. MarksWell
    <2>1. DOMAIN items' = Item
      BY <1>1 DEF Recovered
    <2>2. ASSUME NEW j \in Item
          PROVE  "status" \in DOMAIN items'[j] /\ (items'[j].status = "uploaded" => items[j].status = "uploaded")
      BY <1>2 DEF MediaInv, ItemsOK
    <2> QED
      BY <2>1, <2>2 DEF MarksWell, ItemsOK
  <1>4. Grows /\ WireOK'
    BY <1>1, RestsOK DEF MediaInv, WireOK
  <1> QED
    BY <1>1, <1>3, <1>4, GoesOnOK DEF Off, OnItem

LEMMA ArrivesOK == ASSUME MediaInv, NEW r \in onTheWay, Arrives(r) PROVE MediaInv'
  <1>1. /\ r.what \in Whats /\ uploads' = [uploads EXCEPT ![r.item] = After(r)]
        /\ UNCHANGED <<items, drain>> /\ onTheWay' = onTheWay \ {r}
    BY DEF Arrives, MediaInv, WireOK
  <1>2. Grows
    BY <1>1, ProcessedOK DEF MediaInv
  <1>3. MarksWell /\ WireOK'
    BY <1>1, RowsRest DEF MediaInv, WireOK
  <1> QED
    BY <1>1, <1>2, <1>3, StaysOK

LEMMA MediaStep == ASSUME MediaInv, [MediaNext]_mediaVars PROVE MediaInv'
  <1>1. CASE UNCHANGED mediaVars
    <2>1. UNCHANGED <<items, uploads, onTheWay, drain>>
      BY <1>1 DEF mediaVars
    <2> QED
      BY <2>1, RestsOK, RowsRest, StaysOK DEF MediaInv, WireOK
  <1> QED
    BY <1>1, TriggerOK, NextItemOK, SettleItemOK, SendInitOK, AskUploadOK, SendChunkOK, SendCompleteOK,
       PhoneOK, PruneOK, StartOK, ArrivesOK DEF MediaNext, DrainStep

\* A capture's row says uploaded, and its file may go, only when the server has
\* the file as captured (media/drain.ts, routes/media.ts), whatever was lost,
\* corrupted, processed late or asked twice.
THEOREM MarkedIsStored == MediaSpec => []UploadedIsStored
  <1>1. MediaInv => UploadedIsStored
    BY DEF MediaInv
  <1> QED
    BY <1>1, MediaInitOK, MediaStep, PTL DEF MediaSpec

-----------------------------------------------------------------------------
(* No wrong PIN reaches the KDF uncounted, for any thresholds, delays and    *)
(* numbers of attempts, PINs and kills.  AttemptsAreCounted is not inductive *)
(* alone: what makes the count hold across the awaits of an attempt is that  *)
(* the attempt at the head of the chain is the only one past its gate, and   *)
(* that the row still is what it read, or what it wrote.                     *)

PinRows == [failures : 0..Threshold, notBefore : Nat]
Queued == [kind : {"verify"}, at : {"queued"}, given : Nat] \cup
          [kind : {"clear", "reset"}, at : {"queued"}]
InGate == [kind : {"verify"}, at : {"read"}, given : Nat, before : PinRows] \cup
          [kind : {"clear"}, at : {"emitted"}]
PastBank == [kind : {"verify"}, at : {"banked", "derived"}, given : Nat, before : PinRows, against : Nat]

PinTypes ==
    /\ row \in PinRows /\ pin \in Nat /\ now \in Nat /\ guesses \in Nat /\ alerts \in Nat
    /\ tasks \in Seq(Queued \cup InGate \cup PastBank)

\* What holds the lock, and what the row is to it.
Holder ==
    /\ \A i \in 2..Len(tasks) : tasks[i] \in Queued
    /\ Runs("verify", "read") => row = Head(tasks).before /\ row.failures < Threshold
    /\ Runs("verify", "banked") => row.failures = Head(tasks).before.failures + 1 /\ guesses < row.failures
    /\ Runs("verify", "derived") => row.failures = Head(tasks).before.failures + 1

PinInv == PinTypes /\ Holder /\ AttemptsAreCounted

-----------------------------------------------------------------------------
LEMMA ChainFacts ==
    ASSUME NEW S, NEW s \in Seq(S), s # <<>>
    PROVE  /\ Head(s) \in S /\ Head(s) = s[1] /\ Tail(s) \in Seq(S) /\ Len(Tail(s)) = Len(s) - 1
           /\ \A i \in 1..Len(Tail(s)) : Tail(s)[i] = s[i + 1]
           /\ Tail(s) # <<>> => Head(Tail(s)) = s[2] /\ 2 \in 2..Len(s)
  OBVIOUS

LEMMA WaitFacts ==
    ASSUME NEW S, NEW s \in Seq(S), NEW e \in S
    PROVE  /\ Append(s, e) \in Seq(S) /\ Append(s, e) # <<>> /\ Len(Append(s, e)) = Len(s) + 1
           /\ \A i \in 1..Len(s) : Append(s, e)[i] = s[i]
           /\ Append(s, e)[Len(s) + 1] = e
           /\ s = <<>> => Head(Append(s, e)) = e
           /\ s # <<>> => Head(Append(s, e)) = Head(s)
  OBVIOUS

\* The next in the chain has not passed its gate.
LEMMA HolderAfterEnd ==
    ASSUME PinTypes, Holder, tasks # <<>>, Ends
    PROVE  /\ tasks' \in Seq(Queued \cup InGate \cup PastBank)
           /\ \A i \in 2..Len(tasks') : tasks'[i] \in Queued
           /\ tasks' # <<>> => Head(tasks').at = "queued"
  <1> DEFINE S == Queued \cup InGate \cup PastBank
  <1>1. tasks \in Seq(S)
    BY DEF PinTypes
  <1> HIDE DEF S
  <1>2. /\ Tail(tasks) \in Seq(S) /\ Len(Tail(tasks)) = Len(tasks) - 1 /\ Len(tasks) \in Nat
        /\ \A i \in 1..Len(Tail(tasks)) : Tail(tasks)[i] = tasks[i + 1]
        /\ Tail(tasks) # <<>> => Head(Tail(tasks)) = tasks[2] /\ 2 \in 2..Len(tasks)
    BY <1>1, ChainFacts
  <1>3. \A i \in 2..Len(Tail(tasks)) : Tail(tasks)[i] \in Queued
    BY <1>2 DEF Holder
  <1>4. Tail(tasks) # <<>> => Head(Tail(tasks)).at = "queued"
    BY <1>2 DEF Holder, Queued
  <1> QED
    BY <1>2, <1>3, <1>4 DEF Ends, S

\* The head goes on, and the others wait.
LEMMA HolderAfterMove ==
    ASSUME PinTypes, Holder, tasks # <<>>, NEW task \in Queued \cup InGate \cup PastBank, Becomes(task)
    PROVE  /\ tasks' \in Seq(Queued \cup InGate \cup PastBank) /\ tasks' # <<>> /\ Head(tasks') = task
           /\ \A i \in 2..Len(tasks') : tasks'[i] \in Queued
  <1> DEFINE S == Queued \cup InGate \cup PastBank
  <1>1. tasks \in Seq(S) /\ task \in S
    BY DEF PinTypes
  <1> HIDE DEF S
  <1>2. /\ Tail(tasks) \in Seq(S) /\ Len(Tail(tasks)) = Len(tasks) - 1 /\ Len(tasks) \in Nat
        /\ \A i \in 1..Len(Tail(tasks)) : Tail(tasks)[i] = tasks[i + 1]
    BY <1>1, ChainFacts
  <1> DEFINE longer == <<task>> \o Tail(tasks)
  <1>3. /\ longer \in Seq(S) /\ longer # <<>> /\ Head(longer) = task /\ Len(longer) = Len(tasks)
        /\ \A i \in 2..Len(longer) : longer[i] = Tail(tasks)[i - 1]
    BY <1>1, <1>2
  <1> HIDE DEF longer
  <1>4. \A i \in 2..Len(longer) : longer[i] \in Queued
    <2>1. ASSUME NEW i \in 2..Len(longer) PROVE longer[i] = tasks[i]
      <3>1. i - 1 \in 1..Len(Tail(tasks))
        BY <1>2, <1>3
      <3> QED
        BY <1>2, <1>3, <3>1
    <2> QED
      BY <1>3, <2>1 DEF Holder
  <1>5. tasks' = longer
    BY DEF Becomes, longer
  <1> QED
    BY <1>3, <1>4, <1>5 DEF S

\* Who comes waits, whoever runs.
LEMMA HolderAfterWait ==
    ASSUME PinTypes, Holder, NEW task \in Queued, Waits(task)
    PROVE  /\ tasks' \in Seq(Queued \cup InGate \cup PastBank) /\ tasks' # <<>>
           /\ IF tasks = <<>> THEN Head(tasks').at = "queued" ELSE Head(tasks') = Head(tasks)
           /\ \A i \in 2..Len(tasks') : tasks'[i] \in Queued
  <1> DEFINE S == Queued \cup InGate \cup PastBank
  <1>1. tasks \in Seq(S) /\ task \in S /\ task.at = "queued" /\ Len(tasks) \in Nat
    BY DEF PinTypes, Queued
  <1>2. tasks' = Append(tasks, task)
    BY DEF Waits
  <1> HIDE DEF S
  <1>3. /\ tasks' \in Seq(S) /\ tasks' # <<>> /\ Len(tasks') = Len(tasks) + 1
        /\ \A i \in 1..Len(tasks) : tasks'[i] = tasks[i]
        /\ tasks'[Len(tasks) + 1] = task
        /\ tasks = <<>> => Head(tasks') = task
        /\ tasks # <<>> => Head(tasks') = Head(tasks)
    BY <1>1, <1>2, WaitFacts
  <1>4. \A i \in 2..Len(tasks') : tasks'[i] \in Queued
    BY <1>1, <1>3 DEF Holder
  <1> QED
    BY <1>1, <1>3, <1>4 DEF S

LEMMA PinInitOK == PinInit => PinInv
  <1> SUFFICES ASSUME PinInit PROVE PinInv
    OBVIOUS
  <1>1. tasks = <<>> /\ tasks \in Seq(Queued \cup InGate \cup PastBank) /\ Len(tasks) = 0
    BY DEF PinInit
  <1>2. row = [failures |-> 0, notBefore |-> 0] /\ row \in PinRows
    BY PinConstants DEF PinInit, ClearedRow, PinRows
  <1>3. PinTypes
    BY <1>1, <1>2 DEF PinInit, PinTypes
  <1>4. Holder
    BY <1>1 DEF Holder, Runs
  <1>5. AttemptsAreCounted
    BY <1>2, PinConstants DEF PinInit, AttemptsAreCounted
  <1> QED
    BY <1>3, <1>4, <1>5 DEF PinInv

\* A row written by an attempt that passed the gate counts one more, up to the threshold.
LEMMA FailureCounts ==
    ASSUME NEW r \in PinRows, r.failures < Threshold, now \in Nat
    PROVE  Failure(r) \in PinRows /\ Failure(r).failures = r.failures + 1
  <1>1. r.failures \in 0..Threshold /\ Threshold \in Nat
    BY PinConstants DEF PinRows
  <1>2. r.failures + 1 \in 0..Threshold
    BY <1>1
  <1>3. Delay[r.failures + 1] \in Nat
    BY <1>2, PinConstants
  <1> QED
    BY <1>2, <1>3 DEF Failure, PinRows

LEMMA ClearedIsZero == Cleared => row' \in PinRows /\ row'.failures = 0 /\ guesses' = 0
  BY PinConstants DEF Cleared, ClearedRow, PinRows

\* While the row and the count rest, the invariant is about the chain alone.
LEMMA Resting ==
    ASSUME PinInv, UNCHANGED <<row, guesses, alerts>>, pin' \in Nat, now' \in Nat,
           tasks' \in Seq(Queued \cup InGate \cup PastBank), \A i \in 2..Len(tasks') : tasks'[i] \in Queued,
           \/ tasks' = <<>>
           \/ Head(tasks').at \in {"queued", "emitted"}
           \/ tasks # <<>> /\ Head(tasks') = Head(tasks)
    PROVE  PinInv'
  <1>1. PinTypes'
    BY DEF PinInv, PinTypes
  <1>2. Holder'
    BY DEF PinInv, Holder, Runs
  <1>3. AttemptsAreCounted'
    BY DEF PinInv, AttemptsAreCounted
  <1> QED
    BY <1>1, <1>2, <1>3 DEF PinInv

\* After the row was cleared, whoever comes next finds it so.
LEMMA Clearing ==
    ASSUME PinInv, Cleared, UNCHANGED <<pin, now, alerts>>, tasks # <<>>, Ends
    PROVE  PinInv'
  <1>1. /\ tasks' \in Seq(Queued \cup InGate \cup PastBank)
        /\ \A i \in 2..Len(tasks') : tasks'[i] \in Queued
        /\ tasks' # <<>> => Head(tasks').at = "queued"
    BY HolderAfterEnd DEF PinInv
  <1>2. PinTypes'
    BY <1>1, ClearedIsZero DEF PinInv, PinTypes
  <1>3. Holder'
    BY <1>1 DEF Holder, Runs
  <1>4. AttemptsAreCounted'
    BY ClearedIsZero, PinConstants DEF PinInv, AttemptsAreCounted
  <1> QED
    BY <1>2, <1>3, <1>4 DEF PinInv

LEMMA StepOK == ASSUME PinInv, PinNext PROVE PinInv'
  <1> USE DEF PinInv
  <1>0. pin \in Nat /\ now \in Nat /\ row \in PinRows /\ tasks \in Seq(Queued \cup InGate \cup PastBank)
    BY DEF PinTypes
  <1>1. CASE Submit
    <2>1. PICK task \in Queued : Waits(task)
      <3>1. CASE \E given \in 0..pin : Waits([kind |-> "verify", at |-> "queued", given |-> given])
        BY <1>0, <3>1 DEF Queued
      <3>2. CASE Waits([kind |-> "clear", at |-> "queued"])
        BY <3>2 DEF Queued
      <3> QED
        BY <1>1, <3>1, <3>2 DEF Submit
    <2>2. UNCHANGED <<row, pin, now, guesses, alerts>>
      BY <1>1 DEF Submit
    <2> QED
      BY <1>0, <2>1, <2>2, HolderAfterWait, Resting
  <1>2. CASE Gate
    <2>1. tasks # <<>> /\ Head(tasks) \in Queued \cup InGate \cup PastBank /\ Head(tasks).kind = "verify" /\ Head(tasks).at = "queued"
      BY <1>0, <1>2, ChainFacts DEF Gate, Runs
    <2>2. UNCHANGED <<row, pin, now, guesses, alerts>>
      BY <1>2 DEF Gate
    <2>3. CASE Gated(row)
      <3>1. Ends
        BY <1>2, <2>3 DEF Gate
      <3> QED
        BY <1>0, <2>1, <2>2, <3>1, HolderAfterEnd, Resting
    <2>4. CASE ~Gated(row)
      <3> DEFINE task == [kind |-> "verify", at |-> "read", given |-> Head(tasks).given, before |-> row]
      <3>1. Becomes(task)
        BY <1>2, <2>4 DEF Gate
      <3>2. Head(tasks).given \in Nat
        BY <2>1 DEF Queued, InGate, PastBank
      <3>3. task \in Queued \cup InGate \cup PastBank /\ task.before = row /\ task.at = "read"
        BY <1>0, <3>2 DEF InGate
      <3> HIDE DEF task
      <3>4. /\ tasks' \in Seq(Queued \cup InGate \cup PastBank) /\ tasks' # <<>> /\ Head(tasks') = task
            /\ \A i \in 2..Len(tasks') : tasks'[i] \in Queued
        BY <2>1, <3>1, <3>3, HolderAfterMove
      <3>5. row.failures < Threshold
        BY <1>0, <2>4, PinConstants DEF Gated, LockedOut, PinRows
      <3>6. Holder'
        BY <2>2, <3>3, <3>4, <3>5 DEF Holder, Runs
      <3> QED
        BY <2>2, <3>4, <3>6 DEF PinTypes, AttemptsAreCounted
    <2> QED
      BY <2>3, <2>4
  <1>3. CASE Bank
    <2> DEFINE task == [kind |-> "verify", at |-> "banked", given |-> Head(tasks).given,
                        before |-> Head(tasks).before, against |-> pin]
    <2>1. tasks # <<>> /\ Head(tasks) \in Queued \cup InGate \cup PastBank /\ Head(tasks).kind = "verify" /\ Head(tasks).at = "read"
      BY <1>0, <1>3, ChainFacts DEF Bank, Runs
    <2>2. Head(tasks).given \in Nat /\ Head(tasks).before \in PinRows
      BY <2>1 DEF Queued, InGate, PastBank
    <2>3. row = Head(tasks).before /\ row.failures < Threshold
      BY <1>3 DEF Bank, Holder
    <2>4. row' \in PinRows /\ row'.failures = row.failures + 1
      BY <1>0, <1>3, <2>2, <2>3, FailureCounts DEF Bank
    <2>5. Becomes(task) /\ UNCHANGED <<pin, now, guesses, alerts>>
      BY <1>3 DEF Bank
    <2>6. task \in Queued \cup InGate \cup PastBank /\ task.before = row /\ task.at = "banked"
      BY <1>0, <2>2, <2>3 DEF PastBank
    <2> HIDE DEF task
    <2>7. /\ tasks' \in Seq(Queued \cup InGate \cup PastBank) /\ tasks' # <<>> /\ Head(tasks') = task
          /\ \A i \in 2..Len(tasks') : tasks'[i] \in Queued
      BY <2>1, <2>5, <2>6, HolderAfterMove
    <2>8. PinTypes'
      BY <2>4, <2>5, <2>7 DEF PinTypes
    <2>9. guesses' < row'.failures /\ row'.failures <= Threshold
      BY <1>0, <2>3, <2>4, <2>5, PinConstants DEF PinTypes, AttemptsAreCounted, PinRows
    <2>10. Holder'
      BY <2>4, <2>6, <2>7, <2>9 DEF Holder, Runs
    <2>11. AttemptsAreCounted'
      BY <2>4, <2>5, <2>8, <2>9, PinConstants DEF AttemptsAreCounted, PinTypes, PinRows
    <2> QED
      BY <2>8, <2>10, <2>11
  <1>4. CASE Derive
    <2> DEFINE task == [Head(tasks) EXCEPT !.at = "derived"]
    <2>1. tasks # <<>> /\ Head(tasks) \in Queued \cup InGate \cup PastBank /\ Head(tasks).kind = "verify" /\ Head(tasks).at = "banked"
      BY <1>0, <1>4, ChainFacts DEF Derive, Runs
    <2>2. Head(tasks) \in PastBank
      BY <2>1 DEF Queued, InGate
    <2>3. task \in Queued \cup InGate \cup PastBank /\ task.before = Head(tasks).before /\ task.at = "derived"
      BY <2>2 DEF PastBank
    <2>4. row.failures = Head(tasks).before.failures + 1 /\ guesses < row.failures
      BY <1>4 DEF Derive, Holder
    <2>5. Becomes(task) /\ UNCHANGED <<row, pin, now, alerts>> /\ guesses' \in {guesses, guesses + 1}
      BY <1>4 DEF Derive
    <2> HIDE DEF task
    <2>6. /\ tasks' \in Seq(Queued \cup InGate \cup PastBank) /\ tasks' # <<>> /\ Head(tasks') = task
          /\ \A i \in 2..Len(tasks') : tasks'[i] \in Queued
      BY <2>1, <2>3, <2>5, HolderAfterMove
    <2>7. PinTypes'
      BY <2>5, <2>6 DEF PinTypes
    <2>8. Holder'
      BY <2>3, <2>4, <2>5, <2>6 DEF Holder, Runs
    <2>9. AttemptsAreCounted'
      BY <1>0, <2>4, <2>5 DEF AttemptsAreCounted, PinTypes, PinRows
    <2> QED
      BY <2>7, <2>8, <2>9
  <1>5. CASE SettleTask
    <2>1. tasks # <<>> /\ Head(tasks) \in Queued \cup InGate \cup PastBank /\ Head(tasks).kind = "verify" /\ Head(tasks).at = "derived"
      BY <1>0, <1>5, ChainFacts DEF SettleTask, Runs
    <2>2. CASE Head(tasks).given = Head(tasks).against
      BY <1>5, <2>1, <2>2, Clearing DEF SettleTask
    <2>3. CASE Head(tasks).given # Head(tasks).against
      <3>1. Head(tasks) \in PastBank
        BY <2>1 DEF Queued, InGate
      <3>2. Head(tasks).before \in PinRows
        BY <3>1 DEF PastBank
      <3>3. row.failures = Head(tasks).before.failures + 1
        BY <1>5 DEF SettleTask, Holder
      <3>4. Failure(Head(tasks).before).failures = row.failures
        BY <3>3 DEF Failure
      <3>5. UNCHANGED <<row, guesses, alerts, pin, now>> /\ Ends
        BY <1>5, <2>3, <3>4 DEF SettleTask, LockedOut
      <3> QED
        BY <1>0, <2>1, <3>5, HolderAfterEnd, Resting
    <2> QED
      BY <2>2, <2>3
  <1>6. CASE StartClear
    <2>1. tasks # <<>> /\ UNCHANGED <<row, pin, now, guesses, alerts>>
      BY <1>6 DEF StartClear, Runs
    <2>2. CASE LockedOut(row)
      <3> DEFINE task == [kind |-> "clear", at |-> "emitted"]
      <3>1. Becomes(task)
        BY <1>6, <2>2 DEF StartClear
      <3>2. task \in Queued \cup InGate \cup PastBank
        BY DEF InGate
      <3> QED
        BY <1>0, <2>1, <3>1, <3>2, HolderAfterMove, Resting
    <2>3. CASE ~LockedOut(row)
      <3>1. Ends
        BY <1>6, <2>3 DEF StartClear
      <3> QED
        BY <1>0, <2>1, <3>1, HolderAfterEnd, Resting
    <2> QED
      BY <2>2, <2>3
  <1>7. CASE EndClear
    BY <1>7, Clearing DEF EndClear, Runs
  <1>8. CASE NewPin
    <2>1. pin' \in Nat /\ UNCHANGED <<row, guesses, now, alerts>>
      BY <1>0, <1>8 DEF NewPin
    <2>2. CASE Waits([kind |-> "reset", at |-> "queued"])
      <3>1. [kind |-> "reset", at |-> "queued"] \in Queued
        BY DEF Queued
      <3> QED
        BY <1>0, <2>1, <2>2, <3>1, HolderAfterWait, Resting
    <2>3. CASE tasks' = <<>>
      <3>1. tasks' \in Seq(Queued \cup InGate \cup PastBank) /\ Len(tasks') = 0
        BY <2>3
      <3> QED
        BY <1>0, <2>1, <2>3, <3>1, Resting
    <2> QED
      BY <1>8, <2>2, <2>3 DEF NewPin
  <1>9. CASE Reset
    BY <1>9, Clearing DEF Reset, Runs
  <1>10. CASE Killed
    <2>1. tasks' = <<>> /\ UNCHANGED <<row, pin, now, guesses, alerts>>
      BY <1>10 DEF Killed
    <2>2. tasks' \in Seq(Queued \cup InGate \cup PastBank) /\ Len(tasks') = 0
      BY <2>1
    <2> QED
      BY <1>0, <2>1, <2>2, Resting
  <1>11. CASE TimePasses
    <2>1. now' \in Nat /\ UNCHANGED <<row, pin, tasks, guesses, alerts>>
      BY <1>0, <1>11 DEF TimePasses
    <2>2. \A i \in 2..Len(tasks') : tasks'[i] \in Queued
      BY <2>1 DEF Holder
    <2> QED
      BY <1>0, <2>1, <2>2, Resting
  <1> QED
    BY <1>1, <1>2, <1>3, <1>4, <1>5, <1>6, <1>7, <1>8, <1>9, <1>10, <1>11 DEF PinNext

LEMMA PinInvHolds == PinSpec => []PinInv
  <1>1. ASSUME PinInv, [PinNext]_pinVars PROVE PinInv'
    <2>1. CASE UNCHANGED pinVars
      BY <1>1, <2>1 DEF pinVars, PinInv, PinTypes, Holder, Runs, AttemptsAreCounted
    <2> QED
      BY <1>1, <2>1, StepOK
  <1> QED
    BY <1>1, PinInitOK, PTL DEF PinSpec

\* However attempts, an owner's clears, new PINs and kills interleave at the
\* awaits of pin-verify.ts and pin-flows.ts, the stored count is never below
\* the number of wrong PINs tried since it was cleared, never above the hard
\* lock, and no alert is raised for a row that does not read locked.
THEOREM EveryAttemptIsCounted == PinSpec => []AttemptsAreCounted
  <1>1. PinInv => AttemptsAreCounted
    BY DEF PinInv
  <1> QED
    BY <1>1, PinInvHolds, PTL

-----------------------------------------------------------------------------
(* Enrolments and revocations are done once, for any requests, keys, bodies  *)
(* and devices, however their statements interleave.  DoneOnce is about      *)
(* committed rows and answers; the invariant adds what an open transaction   *)
(* holds: rows nobody else has written and no earlier commit left behind.    *)

Steps == {"new", "look up", "raced", "claim", "permitted?", "revoke", "flip",
          "unused?", "insert", "commit", "close sockets", "answer", "over"}
AfterClaim == {"permitted?", "revoke", "flip", "unused?", "insert", "commit"}
AfterRevoke == {"unused?", "insert", "commit"}
Ended == {"close sockets", "answer", "over"}

EnrolTypes ==
    /\ registered \in [DeviceIds -> EnrolRequest \cup {Before, Nobody}]
    /\ revokedBy \in [DeviceIds -> Request \cup {Nobody}]
    /\ audits \in [DeviceIds -> Nat] /\ closed \in [DeviceIds -> Nat]
    /\ keyRow \in [Keys -> EnrolRequest \cup {Nobody}]
    /\ writes \in [Request -> SUBSET {"key", "revocation", "device"}]
    /\ step \in [Request -> Steps]
    /\ answer \in [Request -> EnrolRequest \cup Outcomes \cup {Nobody}]

\* A row written and not committed is free among the committed ones.
Unclaimed ==
    \A r \in Request :
        /\ "key" \in writes[r] => r \in EnrolRequest /\ keyRow[KeyOf[r]] = Nobody
        /\ "device" \in writes[r] =>
               r \in EnrolRequest /\ step[r] = "commit" /\ registered[NewDevice[r]] = Nobody
        /\ "revocation" \in writes[r] =>
               /\ Replaced[r] \in DeviceIds /\ revokedBy[Replaced[r]] = Nobody
               /\ step[r] \in AfterRevoke

\* ... and written by nobody else.
Alone ==
    \A r, q \in Request : r # q =>
        /\ "key" \in writes[r] /\ "key" \in writes[q] => KeyOf[r] # KeyOf[q]
        /\ "device" \in writes[r] /\ "device" \in writes[q] => NewDevice[r] # NewDevice[q]
        /\ "revocation" \in writes[r] /\ "revocation" \in writes[q] => Replaced[r] # Replaced[q]

\* What a request has done when it is at a statement.
PlacedAt(r) ==
    /\ step[r] \in {"revoke", "flip"} => Replaced[r] \in DeviceIds
    /\ step[r] \in {"look up", "raced", "claim", "permitted?", "unused?", "insert"} => r \in EnrolRequest
    /\ r \in EnrolRequest /\ step[r] \in AfterClaim => "key" \in writes[r]
    /\ r \in EnrolRequest /\ step[r] = "commit" => "device" \in writes[r]
    /\ step[r] \in Ended => writes[r] = {}
    /\ step[r] = "close sockets" =>
           Replaced[r] \in DeviceIds /\ revokedBy[Replaced[r]] = r /\ closed[Replaced[r]] = 0
    /\ r \in EnrolRequest /\ step[r] \in {"close sockets", "answer"} => registered[NewDevice[r]] = r
Placed == \A r \in Request : PlacedAt(r)

\* What a commit left behind.
Left ==
    /\ \A d \in DeviceIds : registered[d] \in EnrolRequest =>
           d = NewDevice[registered[d]] /\ step[registered[d]] \in Ended
    /\ \A k \in Keys : keyRow[k] # Nobody => registered[NewDevice[keyRow[k]]] = keyRow[k]
    /\ \A r \in Request : answer[r] = "taken" => r \in EnrolRequest /\ registered[NewDevice[r]] # Nobody

EnrolInv == EnrolTypes /\ Unclaimed /\ Alone /\ Placed /\ Left /\ DoneOnce

-----------------------------------------------------------------------------
LEMMA Names ==
    /\ EnrolRequest \subseteq Request /\ Nobody \notin Request /\ Before \notin Request
    /\ \A r \in Request : r \notin Outcomes
    /\ \A r \in EnrolRequest : KeyOf[r] \in Keys /\ NewDevice[r] \in DeviceIds
    /\ Nobody \notin Outcomes /\ Before # Nobody
  BY EnrolmentConstants DEF Keys, DeviceIds, Outcomes, Before, Nobody

\* One more of something.
LEMMA CountedUp ==
    ASSUME NEW S, NEW n \in [S -> Nat], NEW d \in S, NEW n2, n2 = [n EXCEPT ![d] = @ + 1]
    PROVE  n2 \in [S -> Nat] /\ n2[d] = n[d] + 1 /\ \A e \in S \ {d} : n2[e] = n[e]
  OBVIOUS

\* Audits and closings of one device, before its revocation and after it.
LEMMA Tallies ==
    /\ \A c \in Nat : \A a : a = 0 /\ c <= a => c = 0
    /\ \A c \in Nat : \A a, b : a = 0 /\ c <= a /\ b = a + 1 => b = 1 /\ c <= b
    /\ \A c, a : c = 1 /\ a = 1 => c <= a
  OBVIOUS

LEMMA StepMoves ==
    ASSUME EnrolTypes, NEW r \in Request, NEW s \in Steps, To(r, s)
    PROVE  step' \in [Request -> Steps] /\ step'[r] = s /\ \A q \in Request \ {r} : step'[q] = step[q]
  BY DEF EnrolTypes, To

LEMMA EnrolInitOK == EnrolInit => EnrolInv
  <1> SUFFICES ASSUME EnrolInit PROVE EnrolInv
    OBVIOUS
  <1>1. EnrolTypes
    BY DEF EnrolInit, EnrolTypes, Steps
  <1>2. Unclaimed /\ Alone /\ Placed
    BY DEF EnrolInit, Unclaimed, Alone, Placed, PlacedAt, AfterClaim, Ended
  <1>3. Left
    BY Names DEF EnrolInit, Left, Nobody
  <1>4. DoneOnce
    BY Names DEF EnrolInit, DoneOnce, AnsweredRight, ReplacedTogether, Nobody
  <1> QED
    BY <1>1, <1>2, <1>3, <1>4 DEF EnrolInv

\* A statement that only reads.
LEMMA ReadOK ==
    ASSUME EnrolInv, NEW r \in Request, NEW s \in Steps \ Ended, Reads(r, s),
           step[r] \notin Ended \cup {"commit"},
           s \in {"revoke", "flip"} => Replaced[r] \in DeviceIds,
           s \in {"look up", "raced", "claim", "permitted?", "unused?", "insert"} => r \in EnrolRequest,
           r \in EnrolRequest => s # "commit" /\ (s \in AfterClaim => "key" \in writes[r]),
           "revocation" \in writes[r] => s \in AfterRevoke
    PROVE  EnrolInv'
  <1>1. UNCHANGED <<registered, revokedBy, audits, keyRow, writes, closed, answer>>
    BY DEF Reads, committed
  <1>2. step' \in [Request -> Steps] /\ step'[r] = s /\ \A q \in Request \ {r} : step'[q] = step[q]
    BY StepMoves DEF EnrolInv, Reads
  <1>3. EnrolTypes'
    BY <1>1, <1>2 DEF EnrolInv, EnrolTypes
  <1>4. Unclaimed' /\ Alone'
    BY <1>1, <1>2 DEF EnrolInv, Unclaimed, Alone
  <1>5. Placed'
    BY <1>1, <1>2 DEF EnrolInv, Placed, PlacedAt, Ended
  <1>6. Left'
    BY <1>1, <1>2, Names DEF EnrolInv, Left
  <1>7. DoneOnce'
    BY <1>1 DEF EnrolInv, DoneOnce, AnsweredRight, ReplacedTogether
  <1> QED
    BY <1>3, <1>4, <1>5, <1>6, <1>7 DEF EnrolInv

\* A transaction that is rolled back, and what its caller is told, if anything.
LEMMA RollbackOK ==
    ASSUME EnrolInv, NEW r \in Request, To(r, "over"), NEW told \in Outcomes \cup EnrolRequest \cup {Nobody},
           writes' = [writes EXCEPT ![r] = {}], answer' = [answer EXCEPT ![r] = told],
           UNCHANGED <<committed, closed>>,
           told = "taken" =>
               r \in EnrolRequest /\ registered[NewDevice[r]] # Nobody /\ keyRow[KeyOf[r]] = Nobody,
           told \in EnrolRequest => r \in EnrolRequest /\ registered[NewDevice[r]] = told
    PROVE  EnrolInv'
  <1>1. UNCHANGED <<registered, revokedBy, audits, keyRow, closed>>
    BY DEF committed
  <1>2. step' \in [Request -> Steps] /\ step'[r] = "over" /\ \A q \in Request \ {r} : step'[q] = step[q]
    BY StepMoves DEF EnrolInv, Steps
  <1>3. EnrolTypes'
    BY <1>1, <1>2 DEF EnrolInv, EnrolTypes
  <1>4. /\ writes'[r] = {} /\ answer'[r] = told
        /\ \A q \in Request \ {r} : writes'[q] = writes[q] /\ answer'[q] = answer[q]
    BY DEF EnrolInv, EnrolTypes
  <1>5. Unclaimed' /\ Alone'
    BY <1>1, <1>2, <1>4 DEF EnrolInv, Unclaimed, Alone
  <1>6. Placed'
    <2>1. PlacedAt(r)'
      BY <1>2, <1>4 DEF PlacedAt, Ended, AfterClaim
    <2>2. \A q \in Request \ {r} : PlacedAt(q)'
      <3> TAKE q \in Request \ {r}
      <3>1. step'[q] = step[q] /\ writes'[q] = writes[q] /\ PlacedAt(q)
        BY <1>2, <1>4 DEF EnrolInv, Placed
      <3> QED
        BY <1>1, <3>1 DEF PlacedAt, Ended, AfterClaim
    <2> QED
      BY <2>1, <2>2 DEF Placed
  <1>7. Left'
    BY <1>1, <1>2, <1>4, Names DEF EnrolInv, Left, Ended
  <1>8. AnsweredRight'
    <2> SUFFICES ASSUME NEW q \in EnrolRequest
                 PROVE  /\ answer[q]' \in EnrolRequest => registered[NewDevice[q]]' = answer[q]'
                        /\ answer[q]' = "taken" /\ registered[NewDevice[q]]' \in EnrolRequest =>
                             LET first == registered[NewDevice[q]]'
                             IN  keyRow[KeyOf[q]]' # first \/ BodyOf[q] # BodyOf[first] \/ KeyOf[first] # KeyOf[q]
      BY DEF AnsweredRight
    <2>1. CASE q = r
      BY <1>1, <1>4, <2>1, Names
    <2>2. CASE q # r
      BY <1>1, <1>4, <2>2, Names DEF EnrolInv, DoneOnce, AnsweredRight
    <2> QED
      BY <2>1, <2>2
  <1>9. DoneOnce'
    BY <1>1, <1>8 DEF EnrolInv, DoneOnce, ReplacedTogether
  <1> QED
    BY <1>3, <1>5, <1>6, <1>7, <1>9 DEF EnrolInv

LEMMA RefuseOK ==
    ASSUME EnrolInv, NEW r \in Request, NEW why \in Outcomes, Refuse(r, why),
           why = "taken" =>
               r \in EnrolRequest /\ registered[NewDevice[r]] # Nobody /\ keyRow[KeyOf[r]] = Nobody
    PROVE  EnrolInv'
  <1>1. why \notin EnrolRequest
    BY Names
  <1> QED
    BY <1>1, RollbackOK DEF Refuse

\* A statement that writes a row nobody else has written.
LEMMA WriteOK ==
    ASSUME EnrolInv, NEW r \in Request, NEW s \in AfterClaim, NEW what \in {"key", "revocation", "device"},
           Writes(r, what, s), step[r] \notin Ended \cup {"commit"},
           s \in {"revoke", "flip"} => Replaced[r] \in DeviceIds,
           s \in {"permitted?", "unused?", "insert"} => r \in EnrolRequest,
           r \in EnrolRequest => what = "key" \/ "key" \in writes[r],
           r \in EnrolRequest /\ s = "commit" => what = "device",
           "revocation" \in writes[r] => s \in AfterRevoke,
           what = "key" => /\ r \in EnrolRequest /\ keyRow[KeyOf[r]] = Nobody
                           /\ \A q \in Request \ {r} : "key" \in writes[q] => KeyOf[q] # KeyOf[r],
           what = "device" => /\ r \in EnrolRequest /\ s = "commit" /\ registered[NewDevice[r]] = Nobody
                              /\ \A q \in Request \ {r} : "device" \in writes[q] => NewDevice[q] # NewDevice[r],
           what = "revocation" => /\ Replaced[r] \in DeviceIds /\ revokedBy[Replaced[r]] = Nobody
                                  /\ s \in AfterRevoke
                                  /\ \A q \in Request \ {r} : "revocation" \in writes[q] => Replaced[q] # Replaced[r]
    PROVE  EnrolInv'
  <1>1. UNCHANGED <<registered, revokedBy, audits, keyRow, closed, answer>> /\ s \in Steps /\ s \notin Ended
    BY DEF Writes, committed, AfterClaim, Steps, Ended
  <1>2. step' \in [Request -> Steps] /\ step'[r] = s /\ \A q \in Request \ {r} : step'[q] = step[q]
    BY <1>1, StepMoves DEF EnrolInv, Writes
  <1>3. /\ writes' \in [Request -> SUBSET {"key", "revocation", "device"}]
        /\ writes'[r] = writes[r] \cup {what} /\ \A q \in Request \ {r} : writes'[q] = writes[q]
    BY DEF EnrolInv, EnrolTypes, Writes
  <1>4. EnrolTypes'
    BY <1>1, <1>2, <1>3 DEF EnrolInv, EnrolTypes
  <1>5. Unclaimed'
    <2>1. "device" \notin writes[r]
      BY DEF EnrolInv, Unclaimed
    <2> QED
      BY <1>1, <1>2, <1>3, <2>1 DEF EnrolInv, Unclaimed
  <1>6. Alone'
    BY <1>3 DEF EnrolInv, Alone
  <1>7. Placed'
    <2>1. PlacedAt(r)'
      BY <1>1, <1>2, <1>3 DEF PlacedAt, Ended, AfterClaim
    <2>2. \A q \in Request \ {r} : PlacedAt(q)'
      <3> TAKE q \in Request \ {r}
      <3>1. step'[q] = step[q] /\ writes'[q] = writes[q] /\ PlacedAt(q)
        BY <1>2, <1>3 DEF EnrolInv, Placed
      <3> QED
        BY <1>1, <3>1 DEF PlacedAt, Ended, AfterClaim
    <2> QED
      BY <2>1, <2>2 DEF Placed
  <1>8. Left'
    BY <1>1, <1>2, Names DEF EnrolInv, Left
  <1>9. DoneOnce'
    BY <1>1 DEF EnrolInv, DoneOnce, AnsweredRight, ReplacedTogether
  <1> QED
    BY <1>4, <1>5, <1>6, <1>7, <1>8, <1>9 DEF EnrolInv

LEMMA PurgeOK == ASSUME EnrolInv, NEW r \in Request, Purge(r) PROVE EnrolInv'
  <1>1. /\ r \in EnrolRequest /\ UNCHANGED <<registered, revokedBy, audits, writes, closed, answer>>
        /\ \A k \in Keys : keyRow'[k] \in {keyRow[k], Nobody}
        /\ keyRow' \in [Keys -> EnrolRequest \cup {Nobody}]
    BY DEF Purge, EnrolInv, EnrolTypes
  <1>2. step' \in [Request -> Steps] /\ step'[r] = "look up" /\ \A q \in Request \ {r} : step'[q] = step[q]
    BY StepMoves DEF EnrolInv, Purge, Steps
  <1>3. step[r] = "new"
    BY DEF Purge
  <1>4. EnrolTypes'
    BY <1>1, <1>2 DEF EnrolInv, EnrolTypes
  <1>5. Unclaimed'
    BY <1>1, <1>2, <1>3, Names DEF EnrolInv, Unclaimed, AfterRevoke
  <1>6. Alone'
    BY <1>1 DEF EnrolInv, Alone
  <1>7. Placed'
    <2>1. PlacedAt(r)'
      BY <1>1, <1>2 DEF PlacedAt, Ended, AfterClaim
    <2>2. \A q \in Request \ {r} : PlacedAt(q)'
      <3> TAKE q \in Request \ {r}
      <3>1. step'[q] = step[q] /\ PlacedAt(q)
        BY <1>2 DEF EnrolInv, Placed
      <3> QED
        BY <1>1, <3>1 DEF PlacedAt, Ended, AfterClaim
    <2> QED
      BY <2>1, <2>2 DEF Placed
  <1>8. Left'
    BY <1>1, <1>2, <1>3, Names DEF EnrolInv, Left, Ended
  <1>9. DoneOnce'
    <2>1. AnsweredRight'
      <3> SUFFICES ASSUME NEW q \in EnrolRequest
                   PROVE  /\ answer[q] \in EnrolRequest => registered[NewDevice[q]] = answer[q]
                          /\ answer[q] = "taken" /\ registered[NewDevice[q]] \in EnrolRequest =>
                               LET first == registered[NewDevice[q]]
                               IN  keyRow'[KeyOf[q]] # first \/ BodyOf[q] # BodyOf[first] \/ KeyOf[first] # KeyOf[q]
        BY <1>1 DEF AnsweredRight
      <3>1. keyRow'[KeyOf[q]] \in {keyRow[KeyOf[q]], Nobody}
        BY <1>1, Names
      <3> QED
        BY <3>1, Names DEF EnrolInv, DoneOnce, AnsweredRight
    <2> QED
      BY <1>1, <2>1 DEF EnrolInv, DoneOnce, ReplacedTogether
  <1> QED
    BY <1>4, <1>5, <1>6, <1>7, <1>8, <1>9 DEF EnrolInv

LEMMA LookUpOK == ASSUME EnrolInv, NEW r \in Request, LookUp(r) PROVE EnrolInv'
  <1> DEFINE holder == keyRow[KeyOf[r]]
  <1>1. /\ step[r] \in {"look up", "raced"} /\ r \in EnrolRequest /\ writes[r] \in SUBSET {"key", "revocation", "device"}
        /\ "revocation" \notin writes[r] /\ KeyOf[r] \in Keys
    BY Names DEF LookUp, EnrolInv, EnrolTypes, Unclaimed, Placed, PlacedAt, AfterRevoke
  <1>2. CASE holder = Nobody
    <2>1. PICK s \in {"look up", "claim"} : Reads(r, s)
      BY <1>2 DEF LookUp
    <2>2. s \in Steps \ Ended /\ s \notin AfterClaim /\ s \notin {"revoke", "flip", "commit"}
      BY DEF Steps, Ended, AfterClaim
    <2>3. step[r] \notin Ended \cup {"commit"}
      BY <1>1 DEF Ended
    <2> QED
      BY <1>1, <2>1, <2>2, <2>3, ReadOK
  <1>3. CASE holder # Nobody /\ BodyOf[holder] # BodyOf[r]
    BY <1>3, RefuseOK DEF LookUp, Outcomes
  <1>4. CASE holder # Nobody /\ BodyOf[holder] = BodyOf[r]
    <2>1. holder \in EnrolRequest /\ registered[NewDevice[holder]] = holder
      <3>1. holder \in EnrolRequest
        BY <1>1, <1>4 DEF EnrolInv, EnrolTypes
      <3>2. \A k \in Keys : keyRow[k] # Nobody => registered[NewDevice[keyRow[k]]] = keyRow[k]
        BY DEF EnrolInv, Left
      <3> QED
        BY <1>1, <1>4, <3>1, <3>2
    <2>2. NewDevice[r] = NewDevice[holder]
      BY <1>1, <1>4, <2>1, EnrolmentConstants
    <2>3. Replay(r)
      BY <1>4 DEF LookUp
    <2>4. writes[r] = {}
      <3>1. "key" \notin writes[r] /\ "device" \notin writes[r]
        BY <1>1, <1>4 DEF EnrolInv, Unclaimed
      <3> QED
        BY <1>1, <3>1
    <2>5. writes' = [writes EXCEPT ![r] = {}]
      BY <2>3, <2>4 DEF Replay, EnrolInv, EnrolTypes
    <2>6. holder # "taken"
      BY <2>1, Names DEF Outcomes
    <2> HIDE DEF holder
    <2>7. To(r, "over") /\ answer' = [answer EXCEPT ![r] = holder] /\ UNCHANGED <<committed, closed>>
      BY <2>3 DEF Replay, holder
    <2> QED
      BY <1>1, <2>1, <2>2, <2>5, <2>6, <2>7, RollbackOK
  <1> QED
    BY <1>2, <1>3, <1>4

LEMMA ClaimOK == ASSUME EnrolInv, NEW r \in Request, Claim(r) PROVE EnrolInv'
  <1>1. step[r] = "claim" /\ r \in EnrolRequest /\ "revocation" \notin writes[r]
    BY DEF Claim, EnrolInv, Unclaimed, Placed, PlacedAt, AfterRevoke
  <1>2. CASE keyRow[KeyOf[r]] # Nobody
    <2>1. Reads(r, "raced")
      BY <1>2 DEF Claim
    <2> QED
      BY <1>1, <2>1, ReadOK DEF Steps, Ended, AfterClaim
  <1>3. CASE keyRow[KeyOf[r]] = Nobody
    <2>1. Writes(r, "key", "permitted?")
      BY <1>3 DEF Claim
    <2>2. \A q \in Request \ {r} : "key" \in writes[q] => KeyOf[q] # KeyOf[r]
      BY DEF Claim, Locked
    <2> QED
      BY <1>1, <1>3, <2>1, <2>2, WriteOK DEF Ended, AfterClaim
  <1> QED
    BY <1>2, <1>3

LEMMA PermittedOK == ASSUME EnrolInv, NEW r \in Request, Permitted(r) PROVE EnrolInv'
  <1>1. /\ step[r] \in {"permitted?", "new"} /\ "revocation" \notin writes[r]
        /\ r \in EnrolRequest => "key" \in writes[r]
    BY DEF Permitted, EnrolInv, Unclaimed, Placed, PlacedAt, AfterRevoke, AfterClaim
  <1>2. CASE Refuse(r, "denied")
    BY <1>2, RefuseOK DEF Outcomes
  <1>3. CASE Replaced[r] = NoDevice /\ Reads(r, "unused?")
    <2>1. r \in EnrolRequest
      BY <1>3, EnrolmentConstants
    <2> QED
      BY <1>1, <1>3, <2>1, ReadOK DEF Steps, Ended, AfterClaim
  <1>4. CASE Replaced[r] # NoDevice /\ Reads(r, "revoke")
    <2>1. Replaced[r] \in DeviceIds
      BY <1>4, EnrolmentConstants DEF DeviceIds
    <2> QED
      BY <1>1, <1>4, <2>1, ReadOK DEF Steps, Ended, AfterClaim
  <1> QED
    BY <1>2, <1>3, <1>4 DEF Permitted

LEMMA FindActiveOK == ASSUME EnrolInv, NEW r \in Request, FindActive(r) PROVE EnrolInv'
  <1>1. /\ step[r] = "revoke" /\ Replaced[r] \in DeviceIds /\ "revocation" \notin writes[r]
        /\ r \in EnrolRequest => "key" \in writes[r]
    BY DEF FindActive, EnrolInv, Unclaimed, Placed, PlacedAt, AfterRevoke, AfterClaim
  <1>2. CASE Refuse(r, "not found")
    BY <1>2, RefuseOK DEF Outcomes
  <1>3. CASE Reads(r, "flip")
    BY <1>1, <1>3, ReadOK DEF Steps, Ended, AfterClaim
  <1>4. CASE r \in EnrolRequest /\ Reads(r, "unused?")
    BY <1>1, <1>4, ReadOK DEF Steps, Ended, AfterClaim
  <1>5. CASE r \notin EnrolRequest /\ Reads(r, "commit")
    BY <1>1, <1>5, ReadOK DEF Steps, Ended, AfterClaim
  <1> QED
    BY <1>2, <1>3, <1>4, <1>5 DEF FindActive

LEMMA FlipOK == ASSUME EnrolInv, NEW r \in Request, Flip(r) PROVE EnrolInv'
  <1> DEFINE next == IF r \in EnrolRequest THEN "unused?" ELSE "commit"
  <1>1. /\ step[r] = "flip" /\ Replaced[r] \in DeviceIds /\ "revocation" \notin writes[r]
        /\ r \in EnrolRequest => "key" \in writes[r]
    BY DEF Flip, EnrolInv, Unclaimed, Placed, PlacedAt, AfterRevoke, AfterClaim
  <1>2. /\ next \in AfterRevoke /\ next \in AfterClaim /\ next \in Steps \ Ended /\ next \notin {"revoke", "flip"}
        /\ next \in {"permitted?", "unused?", "insert"} => r \in EnrolRequest
        /\ next \in {"look up", "raced", "claim", "permitted?", "unused?", "insert"} => r \in EnrolRequest
        /\ r \in EnrolRequest => next # "commit"
    BY DEF AfterRevoke, AfterClaim, Steps, Ended
  <1>3. \/ revokedBy[Replaced[r]] = Nobody /\ Writes(r, "revocation", next)
        \/ Reads(r, next)
    BY DEF Flip
  <1>4. \A q \in Request \ {r} : "revocation" \in writes[q] => Replaced[q] # Replaced[r]
    BY DEF Flip, Locked
  <1> HIDE DEF next
  <1>5. CASE Reads(r, next)
    BY <1>1, <1>2, <1>5, ReadOK DEF Ended
  <1>6. CASE revokedBy[Replaced[r]] = Nobody /\ Writes(r, "revocation", next)
    BY <1>1, <1>2, <1>4, <1>6, WriteOK DEF Ended
  <1> QED
    BY <1>3, <1>5, <1>6

\* Both statements that find the device id used: the claim is still held.
LEMMA TakenOK ==
    ASSUME EnrolInv, NEW r \in EnrolRequest, step[r] \in AfterClaim,
           registered[NewDevice[r]] # Nobody, Refuse(r, "taken")
    PROVE  EnrolInv'
  <1>1. r \in Request /\ keyRow[KeyOf[r]] = Nobody
    BY Names DEF EnrolInv, Placed, PlacedAt, Unclaimed
  <1> QED
    BY <1>1, RefuseOK DEF Outcomes

LEMMA UnusedOK == ASSUME EnrolInv, NEW r \in Request, Unused(r) PROVE EnrolInv'
  <1>1. step[r] = "unused?" /\ r \in EnrolRequest /\ "key" \in writes[r]
    BY DEF Unused, EnrolInv, Placed, PlacedAt, AfterClaim
  <1>2. CASE registered[NewDevice[r]] # Nobody
    BY <1>1, <1>2, TakenOK DEF Unused, AfterClaim
  <1>3. CASE registered[NewDevice[r]] = Nobody
    <2>1. Reads(r, "insert")
      BY <1>3 DEF Unused
    <2> QED
      BY <1>1, <2>1, ReadOK DEF Steps, Ended, AfterClaim, AfterRevoke
  <1> QED
    BY <1>2, <1>3

LEMMA InsertOK == ASSUME EnrolInv, NEW r \in Request, Insert(r) PROVE EnrolInv'
  <1>1. step[r] = "insert" /\ r \in EnrolRequest /\ "key" \in writes[r]
    BY DEF Insert, EnrolInv, Placed, PlacedAt, AfterClaim
  <1>2. CASE registered[NewDevice[r]] # Nobody
    BY <1>1, <1>2, TakenOK DEF Insert, AfterClaim
  <1>3. CASE registered[NewDevice[r]] = Nobody
    <2>1. Writes(r, "device", "commit")
      BY <1>3 DEF Insert
    <2>2. \A q \in Request \ {r} : "device" \in writes[q] => NewDevice[q] # NewDevice[r]
      BY DEF Insert, EnrolInv, Unclaimed
    <2> QED
      BY <1>1, <1>3, <2>1, <2>2, WriteOK DEF Ended, AfterClaim, AfterRevoke
  <1> QED
    BY <1>2, <1>3

LEMMA FireHooksOK == ASSUME EnrolInv, NEW r \in Request, FireHooks(r) PROVE EnrolInv'
  <1>1. UNCHANGED <<registered, revokedBy, audits, keyRow, writes, answer>> /\ step[r] = "close sockets"
    BY DEF FireHooks, committed
  <1>2. step' \in [Request -> Steps] /\ step'[r] = "answer" /\ \A q \in Request \ {r} : step'[q] = step[q]
    BY StepMoves DEF EnrolInv, FireHooks, Steps
  <1>3. Replaced[r] \in DeviceIds /\ revokedBy[Replaced[r]] = r /\ closed[Replaced[r]] = 0
    BY <1>1 DEF EnrolInv, Placed, PlacedAt
  <1>4. /\ closed' \in [DeviceIds -> Nat] /\ closed'[Replaced[r]] = 1
        /\ \A d \in DeviceIds \ {Replaced[r]} : closed'[d] = closed[d]
    <2>1. closed \in [DeviceIds -> Nat] /\ closed' = [closed EXCEPT ![Replaced[r]] = @ + 1]
      BY DEF FireHooks, EnrolInv, EnrolTypes
    <2> QED
      BY <1>3, <2>1, CountedUp
  <1>5. EnrolTypes'
    BY <1>1, <1>2, <1>4 DEF EnrolInv, EnrolTypes
  <1>6. Unclaimed' /\ Alone'
    BY <1>1, <1>2 DEF EnrolInv, Unclaimed, Alone, AfterRevoke
  <1>7. Placed'
    <2>1. PlacedAt(r)'
      BY <1>1, <1>2 DEF EnrolInv, Placed, PlacedAt, Ended, AfterClaim
    <2>2. \A q \in Request \ {r} : PlacedAt(q)'
      <3> TAKE q \in Request \ {r}
      <3>1. step'[q] = step[q] /\ PlacedAt(q)
        BY <1>2 DEF EnrolInv, Placed
      <3>2. step[q] = "close sockets" => closed'[Replaced[q]] = closed[Replaced[q]]
        BY <1>3, <1>4, <3>1 DEF PlacedAt
      <3> QED
        BY <1>1, <3>1, <3>2 DEF PlacedAt, Ended, AfterClaim
    <2> QED
      BY <2>1, <2>2 DEF Placed
  <1>8. Left'
    BY <1>1, <1>2, Names DEF EnrolInv, Left, Ended
  <1>9. DoneOnce'
    <2>1. audits[Replaced[r]] = 1
      BY <1>3, Names DEF EnrolInv, DoneOnce
    <2>2. \A d \in DeviceIds : audits'[d] = (IF revokedBy'[d] = Nobody THEN 0 ELSE 1)
      BY <1>1 DEF EnrolInv, DoneOnce
    <2>3. \A d \in DeviceIds : closed'[d] <= audits'[d]
      <3> SUFFICES ASSUME NEW d \in DeviceIds PROVE closed'[d] <= audits'[d]
        OBVIOUS
      <3>1. CASE d = Replaced[r]
        <4>1. closed'[d] = 1 /\ audits'[d] = 1
          BY <1>1, <1>4, <2>1, <3>1
        <4> QED
          BY <4>1, Tallies
      <3>2. CASE d # Replaced[r]
        <4>1. closed'[d] = closed[d] /\ audits'[d] = audits[d]
          BY <1>1, <1>4, <3>2
        <4>2. closed[d] <= audits[d]
          BY DEF EnrolInv, DoneOnce
        <4> QED
          BY <4>1, <4>2
      <3> QED
        BY <3>1, <3>2
    <2>4. AnsweredRight' /\ ReplacedTogether'
      BY <1>1 DEF EnrolInv, DoneOnce, AnsweredRight, ReplacedTogether
    <2> QED
      BY <2>2, <2>3, <2>4 DEF DoneOnce
  <1> QED
    BY <1>5, <1>6, <1>7, <1>8, <1>9 DEF EnrolInv

LEMMA AnswerOK == ASSUME EnrolInv, NEW r \in Request, Answer(r) PROVE EnrolInv'
  <1> DEFINE told == IF r \in EnrolRequest THEN r ELSE "revoked"
  <1>1. To(r, "over") /\ answer' = [answer EXCEPT ![r] = told] /\ UNCHANGED <<committed, closed>>
    BY DEF Answer
  <1>2. writes' = [writes EXCEPT ![r] = {}]
    BY DEF Answer, EnrolInv, EnrolTypes, Placed, PlacedAt, Ended
  <1>3. told \in Outcomes \cup EnrolRequest \cup {Nobody} /\ told # "taken"
    BY Names DEF Outcomes
  <1>4. told \in EnrolRequest => r \in EnrolRequest /\ registered[NewDevice[r]] = told
    BY Names DEF Answer, EnrolInv, Placed, PlacedAt, Outcomes
  <1> HIDE DEF told
  <1> QED
    BY <1>1, <1>2, <1>3, <1>4, RollbackOK

\* Nobody is told anything new.
LEMMA LostOK == ASSUME EnrolInv, NEW r \in Request, Lost(r) PROVE EnrolInv'
  <1>1. To(r, "over") /\ writes' = [writes EXCEPT ![r] = {}] /\ UNCHANGED <<committed, closed, answer>>
    BY DEF Lost
  <1>2. UNCHANGED <<registered, revokedBy, audits, keyRow, closed, answer>>
    BY <1>1 DEF committed
  <1>3. step' \in [Request -> Steps] /\ step'[r] = "over" /\ \A q \in Request \ {r} : step'[q] = step[q]
    BY <1>1, StepMoves DEF EnrolInv, Steps
  <1>4. writes'[r] = {} /\ \A q \in Request \ {r} : writes'[q] = writes[q]
    BY <1>1 DEF EnrolInv, EnrolTypes
  <1>5. EnrolTypes'
    BY <1>1, <1>2, <1>3 DEF EnrolInv, EnrolTypes
  <1>6. Unclaimed' /\ Alone'
    BY <1>2, <1>3, <1>4 DEF EnrolInv, Unclaimed, Alone
  <1>7. Placed'
    <2>1. PlacedAt(r)'
      BY <1>3, <1>4 DEF PlacedAt, Ended, AfterClaim
    <2>2. \A q \in Request \ {r} : PlacedAt(q)'
      <3> TAKE q \in Request \ {r}
      <3>1. step'[q] = step[q] /\ writes'[q] = writes[q] /\ PlacedAt(q)
        BY <1>3, <1>4 DEF EnrolInv, Placed
      <3> QED
        BY <1>2, <3>1 DEF PlacedAt, Ended, AfterClaim
    <2> QED
      BY <2>1, <2>2 DEF Placed
  <1>8. Left'
    BY <1>2, <1>3, Names DEF EnrolInv, Left, Ended
  <1>9. DoneOnce'
    BY <1>2 DEF EnrolInv, DoneOnce, AnsweredRight, ReplacedTogether
  <1> QED
    BY <1>5, <1>6, <1>7, <1>8, <1>9 DEF EnrolInv

\* A commit with a revocation: of its device only.
LEMMA RevokesOK ==
    ASSUME EnrolInv, NEW r \in Request, Commit(r), "revocation" \in writes[r]
    PROVE  /\ revokedBy' \in [DeviceIds -> Request \cup {Nobody}] /\ audits' \in [DeviceIds -> Nat]
           /\ Replaced[r] \in DeviceIds /\ revokedBy[Replaced[r]] = Nobody
           /\ revokedBy'[Replaced[r]] = r /\ audits'[Replaced[r]] = audits[Replaced[r]] + 1
           /\ \A d \in DeviceIds : revokedBy'[d] # revokedBy[d] \/ audits'[d] # audits[d] => d = Replaced[r]
  <1>1. Replaced[r] \in DeviceIds /\ revokedBy[Replaced[r]] = Nobody
    BY DEF EnrolInv, Unclaimed
  <1>2. revokedBy \in [DeviceIds -> Request \cup {Nobody}] /\ revokedBy' = [revokedBy EXCEPT ![Replaced[r]] = r]
    BY DEF Commit, EnrolInv, EnrolTypes
  <1>3. audits \in [DeviceIds -> Nat] /\ audits' = [audits EXCEPT ![Replaced[r]] = @ + 1]
    BY DEF Commit, EnrolInv, EnrolTypes
  <1>4. /\ revokedBy' \in [DeviceIds -> Request \cup {Nobody}] /\ revokedBy'[Replaced[r]] = r
        /\ \A d \in DeviceIds \ {Replaced[r]} : revokedBy'[d] = revokedBy[d]
    BY <1>1, <1>2
  <1>5. /\ audits' \in [DeviceIds -> Nat] /\ audits'[Replaced[r]] = audits[Replaced[r]] + 1
        /\ \A d \in DeviceIds \ {Replaced[r]} : audits'[d] = audits[d]
    BY <1>1, <1>3, CountedUp
  <1> QED
    BY <1>1, <1>4, <1>5

LEMMA CommitOK == ASSUME EnrolInv, NEW r \in Request, Commit(r) PROVE EnrolInv'
  <1>1. /\ step[r] = "commit" /\ UNCHANGED <<closed, answer>>
        /\ r \in EnrolRequest => "key" \in writes[r] /\ "device" \in writes[r]
        /\ "key" \in writes[r] \/ "device" \in writes[r] => r \in EnrolRequest
    BY DEF Commit, EnrolInv, Unclaimed, Placed, PlacedAt, AfterClaim
  <1>2. PICK s \in {"close sockets", "answer"} : To(r, s) /\ (s = "close sockets" => "revocation" \in writes[r])
    <2>1. CASE "revocation" \in writes[r]
      BY <2>1 DEF Commit
    <2>2. CASE "revocation" \notin writes[r]
      BY <2>2 DEF Commit
    <2> QED
      BY <2>1, <2>2
  <1>3. step' \in [Request -> Steps] /\ step'[r] = s /\ \A q \in Request \ {r} : step'[q] = step[q]
    BY <1>2, StepMoves DEF EnrolInv, Steps
  <1>4. /\ writes' \in [Request -> SUBSET {"key", "revocation", "device"}]
        /\ writes'[r] = {} /\ \A q \in Request \ {r} : writes'[q] = writes[q]
    BY DEF Commit, EnrolInv, EnrolTypes
  \* the device
  <1>5. /\ registered' \in [DeviceIds -> EnrolRequest \cup {Before, Nobody}]
        /\ r \in EnrolRequest => registered[NewDevice[r]] = Nobody /\ registered'[NewDevice[r]] = r
        /\ \A d \in DeviceIds : registered'[d] # registered[d] => r \in EnrolRequest /\ d = NewDevice[r]
    BY <1>1, Names DEF Commit, EnrolInv, EnrolTypes, Unclaimed
  \* the key
  <1>6. /\ keyRow' \in [Keys -> EnrolRequest \cup {Nobody}]
        /\ r \in EnrolRequest => keyRow'[KeyOf[r]] = r
        /\ \A k \in Keys : keyRow'[k] # keyRow[k] => r \in EnrolRequest /\ k = KeyOf[r]
    BY <1>1, Names DEF Commit, EnrolInv, EnrolTypes
  \* the revocation
  <1>7. /\ revokedBy' \in [DeviceIds -> Request \cup {Nobody}] /\ audits' \in [DeviceIds -> Nat]
        /\ "revocation" \in writes[r] =>
             /\ Replaced[r] \in DeviceIds /\ revokedBy[Replaced[r]] = Nobody
             /\ revokedBy'[Replaced[r]] = r /\ audits'[Replaced[r]] = audits[Replaced[r]] + 1
        /\ \A d \in DeviceIds : revokedBy'[d] # revokedBy[d] \/ audits'[d] # audits[d] =>
             "revocation" \in writes[r] /\ d = Replaced[r]
    <2>1. CASE "revocation" \in writes[r]
      BY <2>1, RevokesOK
    <2>2. CASE "revocation" \notin writes[r]
      BY <2>2 DEF Commit, EnrolInv, EnrolTypes
    <2> QED
      BY <2>1, <2>2
  <1>8. EnrolTypes'
    BY <1>1, <1>3, <1>4, <1>5, <1>6, <1>7 DEF EnrolInv, EnrolTypes
  \* What others have written, r has not.
  <1>9. Unclaimed'
    <2> SUFFICES ASSUME NEW q \in Request \ {r}
                 PROVE  /\ "key" \in writes[q] => q \in EnrolRequest /\ keyRow'[KeyOf[q]] = Nobody
                        /\ "device" \in writes[q] =>
                               q \in EnrolRequest /\ step[q] = "commit" /\ registered'[NewDevice[q]] = Nobody
                        /\ "revocation" \in writes[q] =>
                               /\ Replaced[q] \in DeviceIds /\ revokedBy'[Replaced[q]] = Nobody
                               /\ step[q] \in AfterRevoke
      BY <1>3, <1>4 DEF Unclaimed, AfterRevoke
    <2>1. "key" \in writes[q] => q \in EnrolRequest /\ keyRow'[KeyOf[q]] = Nobody
      <3> SUFFICES ASSUME "key" \in writes[q] PROVE q \in EnrolRequest /\ keyRow'[KeyOf[q]] = Nobody
        OBVIOUS
      <3>1. q \in EnrolRequest /\ keyRow[KeyOf[q]] = Nobody /\ KeyOf[q] \in Keys
        BY Names DEF EnrolInv, Unclaimed
      <3>2. r \in EnrolRequest => KeyOf[q] # KeyOf[r]
        BY <1>1 DEF EnrolInv, Alone
      <3> QED
        BY <1>6, <3>1, <3>2
    <2>2. "device" \in writes[q] =>
              q \in EnrolRequest /\ step[q] = "commit" /\ registered'[NewDevice[q]] = Nobody
      <3> SUFFICES ASSUME "device" \in writes[q]
                   PROVE  q \in EnrolRequest /\ step[q] = "commit" /\ registered'[NewDevice[q]] = Nobody
        OBVIOUS
      <3>1. q \in EnrolRequest /\ step[q] = "commit" /\ registered[NewDevice[q]] = Nobody /\ NewDevice[q] \in DeviceIds
        BY Names DEF EnrolInv, Unclaimed
      <3>2. r \in EnrolRequest => NewDevice[q] # NewDevice[r]
        BY <1>1 DEF EnrolInv, Alone
      <3> QED
        BY <1>5, <3>1, <3>2
    <2>3. "revocation" \in writes[q] =>
              /\ Replaced[q] \in DeviceIds /\ revokedBy'[Replaced[q]] = Nobody /\ step[q] \in AfterRevoke
      BY <1>7 DEF EnrolInv, Unclaimed, Alone
    <2> QED
      BY <2>1, <2>2, <2>3
  <1>10. Alone'
    BY <1>4 DEF EnrolInv, Alone
  <1>11. Placed'
    <2>1. PlacedAt(r)'
      <3>1. "revocation" \in writes[r] => closed[Replaced[r]] = 0
        <4> SUFFICES ASSUME "revocation" \in writes[r] PROVE closed[Replaced[r]] = 0
          OBVIOUS
        <4>1. Replaced[r] \in DeviceIds /\ revokedBy[Replaced[r]] = Nobody
          BY <1>7
        <4>2. audits[Replaced[r]] = 0 /\ closed[Replaced[r]] <= audits[Replaced[r]]
          BY <4>1 DEF EnrolInv, DoneOnce
        <4>3. closed[Replaced[r]] \in Nat
          BY <4>1 DEF EnrolInv, EnrolTypes
        <4> QED
          BY <4>2, <4>3, Tallies
      <3> QED
        BY <1>1, <1>2, <1>3, <1>4, <1>5, <1>7, <3>1 DEF PlacedAt, Ended, AfterClaim
    <2>2. \A q \in Request \ {r} : PlacedAt(q)'
      <3> TAKE q \in Request \ {r}
      <3>1. step'[q] = step[q] /\ writes'[q] = writes[q] /\ PlacedAt(q)
        BY <1>3, <1>4 DEF EnrolInv, Placed
      <3>2. step[q] = "close sockets" => revokedBy'[Replaced[q]] = q
        BY <1>7, <3>1, Names DEF PlacedAt
      <3>3. q \in EnrolRequest /\ registered[NewDevice[q]] = q => registered'[NewDevice[q]] = q
        BY <1>5, Names
      <3> QED
        BY <1>1, <3>1, <3>2, <3>3 DEF PlacedAt, Ended, AfterClaim
    <2> QED
      BY <2>1, <2>2 DEF Placed
  \* What was registered stays registered.
  <1>12. \A d \in DeviceIds : registered[d] # Nobody => registered'[d] = registered[d]
    BY <1>5
  <1>13. Left'
    <2>1. \A d \in DeviceIds : registered'[d] \in EnrolRequest =>
              d = NewDevice[registered'[d]] /\ step'[registered'[d]] \in Ended
      <3> SUFFICES ASSUME NEW d \in DeviceIds, registered'[d] \in EnrolRequest
                   PROVE  d = NewDevice[registered'[d]] /\ step'[registered'[d]] \in Ended
        OBVIOUS
      <3>1. CASE registered'[d] # registered[d]
        BY <1>2, <1>3, <1>5, <3>1 DEF Ended
      <3>2. CASE registered'[d] = registered[d]
        <4>1. d = NewDevice[registered[d]] /\ step[registered[d]] \in Ended /\ registered[d] \in Request
          BY <3>2, Names DEF EnrolInv, Left
        <4>2. registered[d] # r
          BY <1>1, <4>1 DEF Ended
        <4> QED
          BY <1>3, <3>2, <4>1, <4>2
      <3> QED
        BY <3>1, <3>2
    <2>2. \A k \in Keys : keyRow'[k] # Nobody => registered'[NewDevice[keyRow'[k]]] = keyRow'[k]
      <3> SUFFICES ASSUME NEW k \in Keys, keyRow'[k] # Nobody
                   PROVE  registered'[NewDevice[keyRow'[k]]] = keyRow'[k]
        OBVIOUS
      <3>1. CASE keyRow'[k] = keyRow[k]
        <4>1. keyRow[k] \in EnrolRequest /\ registered[NewDevice[keyRow[k]]] = keyRow[k]
          BY <3>1 DEF EnrolInv, EnrolTypes, Left
        <4> QED
          BY <1>12, <3>1, <4>1, Names
      <3>2. CASE keyRow'[k] # keyRow[k]
        BY <1>5, <1>6, <3>2
      <3> QED
        BY <3>1, <3>2
    <2>3. \A q \in Request : answer'[q] = "taken" => q \in EnrolRequest /\ registered'[NewDevice[q]] # Nobody
      BY <1>1, <1>12, Names DEF EnrolInv, Left
    <2> QED
      BY <2>1, <2>2, <2>3 DEF Left
  <1>14. AnsweredRight'
    <2> SUFFICES ASSUME NEW q \in EnrolRequest
                 PROVE  /\ answer[q] \in EnrolRequest => registered'[NewDevice[q]] = answer[q]
                        /\ answer[q] = "taken" /\ registered'[NewDevice[q]] \in EnrolRequest =>
                             LET first == registered'[NewDevice[q]]
                             IN  keyRow'[KeyOf[q]] # first \/ BodyOf[q] # BodyOf[first] \/ KeyOf[first] # KeyOf[q]
      BY <1>1 DEF AnsweredRight
    <2>1. answer[q] \in EnrolRequest => registered'[NewDevice[q]] = answer[q]
      BY <1>12, Names DEF EnrolInv, DoneOnce, AnsweredRight
    <2>2. ASSUME answer[q] = "taken", registered'[NewDevice[q]] \in EnrolRequest
          PROVE  LET first == registered'[NewDevice[q]]
                 IN  keyRow'[KeyOf[q]] # first \/ BodyOf[q] # BodyOf[first] \/ KeyOf[first] # KeyOf[q]
      <3>1. registered[NewDevice[q]] # Nobody
        BY <2>2, Names DEF EnrolInv, Left
      <3>2. registered'[NewDevice[q]] = registered[NewDevice[q]]
        BY <1>12, <3>1, Names
      <3>3. registered[NewDevice[q]] # r
        BY <1>1, <2>2, <3>2, Names DEF EnrolInv, Left, Ended
      <3>4. KeyOf[q] \in Keys
        BY Names
      <3>5. CASE keyRow'[KeyOf[q]] = keyRow[KeyOf[q]]
        BY <2>2, <3>2, <3>5 DEF EnrolInv, DoneOnce, AnsweredRight
      <3>6. CASE keyRow'[KeyOf[q]] # keyRow[KeyOf[q]]
        BY <1>6, <3>2, <3>3, <3>4, <3>6
      <3> QED
        BY <3>5, <3>6
    <2> QED
      BY <2>1, <2>2
  <1>15. ReplacedTogether'
    <2> SUFFICES ASSUME NEW d \in DeviceIds, revokedBy'[d] \in EnrolRequest
                 PROVE  registered'[NewDevice[revokedBy'[d]]] = revokedBy'[d]
      BY DEF ReplacedTogether
    <2>1. CASE revokedBy'[d] = revokedBy[d]
      <3>1. registered[NewDevice[revokedBy[d]]] = revokedBy[d]
        BY <2>1 DEF EnrolInv, DoneOnce, ReplacedTogether
      <3> QED
        BY <1>12, <2>1, <3>1, Names
    <2>2. CASE revokedBy'[d] # revokedBy[d]
      BY <1>5, <1>7, <2>2
    <2> QED
      BY <2>1, <2>2
  <1>16. \A d \in DeviceIds : /\ audits'[d] = IF revokedBy'[d] = Nobody THEN 0 ELSE 1
                              /\ closed'[d] <= audits'[d]
    <2> SUFFICES ASSUME NEW d \in DeviceIds
                 PROVE  audits'[d] = (IF revokedBy'[d] = Nobody THEN 0 ELSE 1) /\ closed[d] <= audits'[d]
      BY <1>1
    <2>1. audits[d] = (IF revokedBy[d] = Nobody THEN 0 ELSE 1) /\ closed[d] <= audits[d] /\ closed[d] \in Nat
      BY DEF EnrolInv, EnrolTypes, DoneOnce
    <2>2. CASE "revocation" \in writes[r] /\ d = Replaced[r]
      <3>1. revokedBy[d] = Nobody /\ revokedBy'[d] # Nobody /\ audits'[d] = audits[d] + 1
        BY <1>7, <2>2, Names
      <3>2. audits[d] = 0
        BY <2>1, <3>1
      <3> QED
        BY <2>1, <3>1, <3>2, Tallies
    <2>3. CASE ~("revocation" \in writes[r] /\ d = Replaced[r])
      BY <1>7, <2>1, <2>3
    <2> QED
      BY <2>2, <2>3
  <1> QED
    BY <1>8, <1>9, <1>10, <1>11, <1>13, <1>14, <1>15, <1>16 DEF EnrolInv, DoneOnce

LEMMA EnrolStep == ASSUME EnrolInv, [EnrolNext]_enrolVars PROVE EnrolInv'
  <1>1. CASE KeyAges \/ UNCHANGED enrolVars
    <2>1. UNCHANGED <<registered, revokedBy, audits, keyRow, writes, step, closed, answer>>
      BY <1>1 DEF KeyAges, committed, enrolVars
    <2>2. EnrolTypes' /\ Unclaimed' /\ Alone'
      BY <2>1 DEF EnrolInv, EnrolTypes, Unclaimed, Alone
    <2>3. Placed' /\ Left'
      BY <2>1 DEF EnrolInv, Placed, PlacedAt, Left
    <2>4. DoneOnce'
      BY <2>1 DEF EnrolInv, DoneOnce, AnsweredRight, ReplacedTogether
    <2> QED
      BY <2>2, <2>3, <2>4 DEF EnrolInv
  <1> QED
    BY <1>1, PurgeOK, LookUpOK, ClaimOK, PermittedOK, FindActiveOK, FlipOK, UnusedOK, InsertOK,
       CommitOK, FireHooksOK, AnswerOK, LostOK DEF EnrolNext

\* Enrolments and their retries are answered by the one that was done, a
\* replaced device is revoked with its replacement registered, and a revocation
\* has one author, one audit row and closes sockets at most once
\* (identity/idempotency.ts, identity/revocation.ts, routes/devices.ts), however
\* the statements of any number of requests interleave.
THEOREM EnrolledOnce == EnrolSpec => []DoneOnce
  <1>1. EnrolInv => DoneOnce
    BY DEF EnrolInv
  <1> QED
    BY <1>1, EnrolInitOK, EnrolStep, PTL DEF EnrolSpec

-----------------------------------------------------------------------------
(* The rows are the canonical fold and a finished rebuild missed no record,  *)
(* for any operations, records, orders, page sizes and versions.  Neither is *)
(* inductive alone.  The rows of a record the device stops reading are right *)
(* only because a pulled operation in the log is of a record it may read; a  *)
(* rebuild is complete only because every record its cursor has passed is at *)
(* the version the cursor carries, and a cursor or batch that outlived an    *)
(* update carries another version.  What a fold is, is never computed: an    *)
(* operation that comes last is appended to the order (OrderExtends), and    *)
(* every other change folds the record again.                                *)

----------------------------------------------------------------------------
(* The invariant, and a step for each action.                                *)

Cursor == [to : Nat, after : Nat]
Fresh(r) == AtVersion(store.rows[r], version)

ProjectionInv ==
    /\ Sound(store, reads) /\ reads \in SUBSET Record
    /\ version \in Nat \ {0} /\ built \in [Module -> Nat]
    /\ cursor \in [Module -> Cursor] /\ batch \in [module : SUBSET Module, cursor : Cursor]
    /\ \A m \in Module : built[m] <= version /\ cursor[m].to <= version
    /\ \A m \in Module : batch.module = {m} => batch.cursor.to = version
    /\ \A m \in Module : cursor[m].to = version =>
           \A r \in Record : ModuleOf[r] = m /\ Walk[r] <= cursor[m].after => Fresh(r)
    /\ \A m \in Module : built[m] = version =>
           cursor[m] = NoCursor /\ \A r \in Record : ModuleOf[r] = m => Fresh(r)

LEMMA InitHolds ==
    ASSUME StoreConstants, ProjectionConstants, ProjectionInit
    PROVE  ProjectionInv
<1>1. store = EmptyStore /\ Held(store) = {} /\ Sound(store, reads)
  BY EmptyIsSound DEF ProjectionInit
<1>2. \A r \in Record : store.rows[r] = <<>>
  BY <1>1 DEF EmptyStore
<1>3. \A r \in Record : Fresh(r)
  BY <1>2 DEF Fresh, AtVersion
<1> QED
  BY <1>1, <1>3 DEF ProjectionInit, ProjectionInv, Cursor, NoCursor, NoBatch

\* A step that leaves the rebuilds alone, keeps the store sound and builds no
\* row with an older version keeps the invariant.
LEMMA StoreStep ==
    ASSUME ProjectionInv, Sound(store', reads'), reads' \in SUBSET Record, NoneOlder(store, store', version), Keep
    PROVE  ProjectionInv'
<1>1. UNCHANGED <<version, built, cursor, batch>>
  BY DEF Keep
<1>2. \A r \in Record : Fresh(r) => Fresh(r)'
  BY <1>1 DEF Fresh, NoneOlder
<1> QED
  BY <1>1, <1>2 DEF ProjectionInv

LEMMA AppendOwnStep ==
    ASSUME StoreConstants, ProjectionConstants, ProjectionInv, NEW o \in Op, AppendOwn(o)
    PROVE  ProjectionInv'
<1>1. OwnRow \in LogRow /\ ~OwnRow.refused /\ OwnRow.text /\ ~(OwnRow.arrival > 0)
  BY DEF OwnRow, LogRow
<1>2. o \in Op \ Held(store) /\ store' = Apply(WithRow(store, o, OwnRow), reads, version, o) /\ reads' = reads /\ Keep
  BY DEF AppendOwn, Appended
<1>3. Sound(store, reads) /\ reads \in SUBSET Record
  BY DEF ProjectionInv
<1> HIDE DEF OwnRow
<1>4. Sound(store', reads) /\ NoneOlder(store, store', version)
  BY <1>1, <1>2, <1>3, AppliedIsSound
<1> QED
  BY <1>2, <1>3, <1>4, StoreStep

LEMMA PullForeignStep ==
    ASSUME StoreConstants, ProjectionConstants, ProjectionInv, NEW o \in Op, PullForeign(o)
    PROVE  ProjectionInv'
<1> DEFINE newRow == PulledRow(NextArrival(store))
<1>1. /\ o \in Op \ Held(store) /\ store' = Apply(WithRow(store, o, newRow), reads, version, o)
      /\ RecordOf[o] \in reads /\ reads' = reads /\ Keep
  BY DEF PullForeign, Pulled
<1>2. Sound(store, reads) /\ reads \in SUBSET Record
  BY DEF ProjectionInv
<1>3. NextArrival(store) \in Nat
  BY <1>2, NextIs DEF Sound
<1>4. newRow \in LogRow /\ ~newRow.refused /\ newRow.text
  BY <1>3 DEF PulledRow, OwnRow, LogRow
<1> HIDE DEF newRow
<1>5. Sound(store', reads) /\ NoneOlder(store, store', version)
  BY <1>1, <1>2, <1>4, AppliedIsSound
<1> QED
  BY <1>1, <1>2, <1>5, StoreStep

LEMMA RefuseOwnStep ==
    ASSUME StoreConstants, ProjectionConstants, ProjectionInv, NEW o \in Op, RefuseOwn(o)
    PROVE  ProjectionInv'
<1> DEFINE w == [store EXCEPT !.log[o].refused = TRUE]
           r == RecordOf[o]
<1>1. o \in Held(store) /\ store' = Refold(w, reads, version, r) /\ reads' = reads /\ Keep
  BY DEF RefuseOwn
<1>2. /\ StoreOK(store) /\ RowsMatch(store, reads) /\ PulledIsReadable(store, reads)
      /\ reads \in SUBSET Record
  BY DEF ProjectionInv, Sound
<1>3. r \in Record
  BY DEF StoreConstants
<1>4. /\ w.rows = store.rows /\ w.mark = store.mark /\ Held(w) = Held(store)
      /\ w.log = [p \in Held(w) |-> w.log[p]] /\ w = [log |-> w.log, rows |-> w.rows, mark |-> w.mark]
      /\ w.log[o] = [store.log[o] EXCEPT !.refused = TRUE]
      /\ \A p \in Held(store) \ {o} : w.log[p] = store.log[p]
  <2> DEFINE log == [store.log EXCEPT ![o] = [@ EXCEPT !.refused = TRUE]]
  <2>1. w = [log |-> log, rows |-> store.rows, mark |-> store.mark]
    <3>1. w = [store EXCEPT !.log = log]
      OBVIOUS
    <3> HIDE DEF log, w
    <3>2. store = [log |-> store.log, rows |-> store.rows, mark |-> store.mark]
      BY <1>2 DEF StoreOK
    <3> QED
      BY <3>1, <3>2
  <2>2. store.log = [p \in Held(store) |-> store.log[p]]
    BY <1>2 DEF StoreOK
  <2>3. /\ DOMAIN log = Held(store) /\ log[o] = [store.log[o] EXCEPT !.refused = TRUE]
        /\ \A p \in Held(store) \ {o} : log[p] = store.log[p]
        /\ log = [p \in Held(store) |-> log[p]]
    BY <1>1, <2>2
  <2> HIDE DEF log, w
  <2>4. w.log = log /\ w.rows = store.rows /\ w.mark = store.mark
    BY <2>1
  <2> QED
    BY <2>1, <2>3, <2>4 DEF Held
<1> HIDE DEF w
<1>5. w.log[o] \in LogRow /\ w.log[o].arrival = store.log[o].arrival
  BY <1>1, <1>2, <1>4 DEF StoreOK, LogRow
<1>6. StoreOK(w)
  <2>1. PICK k \in Nat : Within(store, k)
    BY <1>2 DEF StoreOK
  <2>2. Within(w, k)
    BY <1>1, <1>4, <1>5, <2>1 DEF Within
  <2> QED
    BY <1>2, <1>4, <1>5, <2>2 DEF StoreOK
<1>7. store' = RefoldAll(w, reads, version, {r})
  BY <1>1, <1>3, <1>6, RefoldIs
<1> DEFINE e == store'
<1>8. e = RefoldAll(w, reads, version, {r})
  BY <1>7
<1> HIDE DEF e
<1>9. /\ StoreOK(e) /\ e.log = w.log /\ FoldsTo(e, reads, r) /\ NoneOlder(w, e, version)
      /\ \A s \in Record \ {r} : e.rows[s] = store.rows[s]
  BY <1>3, <1>4, <1>6, <1>8, RefoldAllIs, RefoldedFolds
<1>10. \A s \in Record \ {r} : Foldable(e, reads, s) = Foldable(store, reads, s)
  BY <1>4, <1>9 DEF Foldable, Held
<1>11. \A s \in Record \ {r} : FoldsTo(e, reads, s)
  BY <1>2, <1>9, <1>10 DEF RowsMatch, FoldsTo
<1>12. RowsMatch(e, reads)
  BY <1>9, <1>11 DEF RowsMatch
<1>13. PulledIsReadable(e, reads)
  BY <1>2, <1>4, <1>5, <1>9 DEF PulledIsReadable, Held
<1>14. NoneOlder(store, e, version)
  BY <1>4, <1>9 DEF NoneOlder
<1>15. Sound(store', reads') /\ NoneOlder(store, store', version)
  BY <1>1, <1>9, <1>12, <1>13, <1>14 DEF Sound, e
<1> QED
  BY <1>1, <1>2, <1>15, StoreStep

LEMMA NarrowStep ==
    ASSUME StoreConstants, ProjectionConstants, ProjectionInv, NEW r \in Record, Narrow(r)
    PROVE  ProjectionInv'
<1> DEFINE kept == reads \ {r}
           left == Purged(store, kept, version, {r})
           R == OwnRecords(left, {r})
           e == store'
<1>1. reads' = kept /\ e = RefoldAll(left, kept, version, R) /\ Keep
  BY DEF Narrow
<1>2. StoreOK(store) /\ RowsMatch(store, reads) /\ PulledIsReadable(store, reads) /\ reads \in SUBSET Record
  BY DEF ProjectionInv, Sound
<1> HIDE DEF e, left
<1>3. /\ StoreOK(left) /\ NoneOlder(store, left, version)
      /\ Held(left) = Remaining(store, {r})
      /\ \A o \in Held(left) : left.log[o] = store.log[o]
      /\ \A s \in Record \ {r} : left.rows[s] = store.rows[s]
      /\ \/ FoldsTo(left, kept, r)
         \/ left.rows[r] = store.rows[r] /\ \A o \in Held(store) : RecordOf[o] = r => o \in Held(left)
  <2>1. PurgedOf(store, left, kept, version, {r})
    BY <1>2, PurgedIs DEF left
  <2> QED
    BY <2>1 DEF PurgedOf
<1>4. R \in SUBSET {r}
  BY DEF OwnRecords
<1> HIDE DEF R
<1>5. /\ StoreOK(e) /\ e.log = left.log /\ NoneOlder(left, e, version) /\ \A s \in R \cap Record : FoldsTo(e, kept, s)
      /\ \A s \in Record \ {r} : e.rows[s] = store.rows[s]
      /\ r \notin R => e.rows[r] = left.rows[r]
  BY <1>1, <1>3, <1>4, RefoldAllIs, RefoldedFolds
<1>6. \A s : Foldable(e, kept, s) = Foldable(left, kept, s)
  BY <1>5 DEF Foldable, Held
<1>7. \A s \in Record \ {r} : Foldable(e, kept, s) = Foldable(store, reads, s)
  BY <1>3, <1>6 DEF Foldable, Remaining
<1>8. \A s \in Record \ {r} : FoldsTo(e, kept, s)
  BY <1>2, <1>5, <1>7 DEF RowsMatch, FoldsTo
<1>9. FoldsTo(e, kept, r)
  <2>1. CASE r \in R
    BY <1>5, <2>1
  <2>2. CASE r \notin R /\ FoldsTo(left, kept, r)
    BY <1>5, <1>6, <2>2 DEF FoldsTo
  <2>3. CASE r \notin R /\ left.rows[r] = store.rows[r] /\ \A o \in Held(store) : RecordOf[o] = r => o \in Held(left)
    <3>1. ASSUME NEW o \in Held(store), RecordOf[o] = r PROVE FALSE
      <4>1. o \in Held(left) /\ ~(store.log[o].arrival > 0) /\ left.log[o] = store.log[o]
        BY <1>3, <2>3, <3>1 DEF Remaining
      <4>2. store.log[o].arrival = 0
        BY <1>2, <4>1 DEF StoreOK, LogRow
      <4> QED
        BY <2>3, <3>1, <4>1, <4>2 DEF R, OwnRecords
    <3>2. Foldable(store, reads, r) = {} /\ Foldable(left, kept, r) = {}
      BY <1>3, <3>1 DEF Foldable, Remaining
    <3> QED
      <4>1. e.rows[r] = store.rows[r] /\ Foldable(e, kept, r) = Foldable(store, reads, r) /\ FoldsTo(store, reads, r)
        BY <1>2, <1>5, <1>6, <2>3, <3>2 DEF RowsMatch
      <4> QED
        BY <4>1, SameFold
  <2> QED
    BY <1>3, <2>1, <2>2, <2>3
<1>10. RowsMatch(e, kept)
  BY <1>8, <1>9 DEF RowsMatch
<1>11. PulledIsReadable(e, kept)
  BY <1>2, <1>3, <1>5 DEF PulledIsReadable, Held, Remaining
<1>12. NoneOlder(store, e, version)
  BY <1>3, <1>5 DEF NoneOlder
<1>13. Sound(store', reads') /\ NoneOlder(store, store', version) /\ reads' \in SUBSET Record
  BY <1>1, <1>2, <1>5, <1>10, <1>11, <1>12 DEF Sound, e
<1> QED
  BY <1>1, <1>13, StoreStep

LEMMA WidenStep ==
    ASSUME StoreConstants, ProjectionConstants, ProjectionInv, NEW r \in Record, Widen(r)
    PROVE  ProjectionInv'
<1> DEFINE more == reads \cup {r}
           R == OwnRecords(store, {r})
           e == store'
<1>1. r \notin reads /\ reads' = more /\ e = RefoldAll(store, more, version, R) /\ Keep
  BY DEF Widen
<1>2. StoreOK(store) /\ RowsMatch(store, reads) /\ PulledIsReadable(store, reads) /\ reads \in SUBSET Record
  BY DEF ProjectionInv, Sound
<1>3. R \in SUBSET {r}
  BY DEF OwnRecords
<1> HIDE DEF R, e
<1>4. /\ StoreOK(e) /\ e.log = store.log /\ NoneOlder(store, e, version) /\ \A s \in R \cap Record : FoldsTo(e, more, s)
      /\ \A s \in Record \ R : e.rows[s] = store.rows[s]
  BY <1>1, <1>2, RefoldAllIs, RefoldedFolds
<1>5. \A s \in Record \ {r} : Foldable(e, more, s) = Foldable(store, reads, s)
  BY <1>4 DEF Foldable, Held
<1>6. \A s \in Record \ {r} : FoldsTo(e, more, s)
  BY <1>2, <1>3, <1>4, <1>5 DEF RowsMatch, FoldsTo
<1>7. FoldsTo(e, more, r)
  <2>1. CASE r \in R
    BY <1>4, <2>1
  <2>2. CASE r \notin R
    <3>1. ASSUME NEW o \in Held(store), RecordOf[o] = r PROVE FALSE
      <4>1. ~(store.log[o].arrival > 0)
        BY <1>1, <1>2, <3>1 DEF PulledIsReadable
      <4>2. store.log[o].arrival = 0
        BY <1>2, <4>1 DEF StoreOK, LogRow
      <4> QED
        BY <2>2, <3>1, <4>2 DEF R, OwnRecords
    <3>2. Foldable(store, reads, r) = {} /\ Foldable(e, more, r) = {}
      BY <1>4, <3>1 DEF Foldable, Held
    <3> QED
      BY <1>2, <1>4, <2>2, <3>2 DEF RowsMatch, FoldsTo
  <2> QED
    BY <2>1, <2>2
<1>8. RowsMatch(e, more)
  BY <1>6, <1>7 DEF RowsMatch
<1>9. PulledIsReadable(e, more)
  BY <1>2, <1>4 DEF PulledIsReadable, Held
<1>10. Sound(store', reads') /\ NoneOlder(store, store', version) /\ reads' \in SUBSET Record
  BY <1>1, <1>2, <1>4, <1>8, <1>9 DEF Sound, e
<1> QED
  BY <1>1, <1>10, StoreStep

LEMMA UpdateAppStep ==
    ASSUME ProjectionInv, UpdateApp
    PROVE  ProjectionInv'
<1>1. version' = version + 1 /\ batch' = NoBatch /\ UNCHANGED <<store, reads, built, cursor>>
  BY DEF UpdateApp
<1>2. version' \in Nat \ {0}
  BY <1>1 DEF ProjectionInv
<1>3. \A m \in Module : built'[m] < version' /\ cursor'[m].to < version'
  BY <1>1 DEF ProjectionInv, Cursor
<1>4. batch' \in [module : SUBSET Module, cursor : Cursor] /\ \A m \in Module : batch'.module # {m}
  BY <1>1 DEF NoBatch, NoCursor, Cursor
<1>5. \A m \in Module : built'[m] <= version' /\ cursor'[m].to <= version' /\ built'[m] # version' /\ cursor'[m].to # version'
  BY <1>1, <1>2, <1>3 DEF ProjectionInv, Cursor
<1> QED
  BY <1>1, <1>2, <1>4, <1>5 DEF ProjectionInv

LEMMA StartBatchStep ==
    ASSUME ProjectionConstants, ProjectionInv, NEW m \in Module, StartBatch(m)
    PROVE  ProjectionInv'
<1>1. /\ Outdated(m) /\ cursor' = [cursor EXCEPT ![m] = Resumed(m)]
      /\ batch' = [module |-> {m}, cursor |-> Resumed(m)] /\ UNCHANGED <<store, reads, version, built>>
  BY DEF StartBatch
<1>2. Resumed(m) \in Cursor /\ Resumed(m).to = version
  BY DEF Resumed, ProjectionInv, Cursor
<1>3. built[m] # version
  BY <1>1 DEF Outdated, ProjectionInv
<1>4. \A r \in Record : ModuleOf[r] = m /\ Walk[r] <= Resumed(m).after => Fresh(r)
  <2>1. CASE cursor[m].to = version
    BY <2>1 DEF Resumed, ProjectionInv
  <2>2. CASE cursor[m].to # version
    <3>1. Resumed(m).after = 0
      BY <2>2 DEF Resumed
    <3>2. \A r \in Record : ~(Walk[r] <= 0)
      BY DEF ProjectionConstants
    <3> QED
      BY <3>1, <3>2
  <2> QED
    BY <2>1, <2>2
<1> DEFINE c == Resumed(m)
<1> HIDE DEF c
<1>5. /\ cursor' \in [Module -> Cursor] /\ cursor'[m] = c /\ \A n \in Module \ {m} : cursor'[n] = cursor[n]
      /\ batch' \in [module : SUBSET Module, cursor : Cursor] /\ batch'.module = {m} /\ batch'.cursor = c
  BY <1>1, <1>2 DEF ProjectionInv, c
<1>6. c.to = version /\ \A r \in Record : ModuleOf[r] = m /\ Walk[r] <= c.after => Fresh(r)
  BY <1>2, <1>4 DEF c
<1>7. \A r \in Record : Fresh(r)' <=> Fresh(r)
  BY <1>1 DEF Fresh
<1>8. \A n \in Module : built'[n] <= version' /\ cursor'[n].to <= version'
  BY <1>1, <1>5, <1>6 DEF ProjectionInv
<1>9. \A n \in Module : batch'.module = {n} => batch'.cursor.to = version'
  BY <1>1, <1>5, <1>6
<1>10. \A n \in Module : cursor'[n].to = version' =>
           \A r \in Record : ModuleOf[r] = n /\ Walk[r] <= cursor'[n].after => Fresh(r)'
  <2> TAKE n \in Module
  <2>1. CASE n = m
    BY <1>5, <1>6, <1>7, <2>1
  <2>2. CASE n # m
    BY <1>1, <1>5, <1>7, <2>2 DEF ProjectionInv
  <2> QED
    BY <2>1, <2>2
<1>11. \A n \in Module : built'[n] = version' =>
           cursor'[n] = NoCursor /\ \A r \in Record : ModuleOf[r] = n => Fresh(r)'
  <2> TAKE n \in Module
  <2>1. CASE n = m
    BY <1>1, <1>3, <2>1
  <2>2. CASE n # m
    BY <1>1, <1>5, <1>7, <2>2 DEF ProjectionInv
  <2> QED
    BY <2>1, <2>2
<1>12. Sound(store', reads') /\ reads' \in SUBSET Record /\ version' \in Nat \ {0} /\ built' \in [Module -> Nat]
  BY <1>1 DEF ProjectionInv
<1> QED
  BY <1>5, <1>8, <1>9, <1>10, <1>11, <1>12 DEF ProjectionInv

\* A record of m with no row to fold has nothing an older version built.
LEMMA UnwalkedIsFresh ==
    ASSUME ProjectionInv, NEW r \in Record, r \notin reads \/ ~\E o \in Held(store) : RecordOf[o] = r, NEW v
    PROVE  AtVersion(store.rows[r], v)
<1>1. Foldable(store, reads, r) = {}
  BY DEF Foldable
<1>2. InOrder({}) = <<>>
  <2>1. Cardinality({}) = 0
    BY FS_EmptySet
  <2> QED
    BY <2>1 DEF InOrder
<1>3. [i \in DOMAIN store.rows[r] |-> store.rows[r][i][1]] = <<>>
  BY <1>1, <1>2 DEF ProjectionInv, Sound, RowsMatch, FoldsTo
<1>4. DOMAIN store.rows[r] = {}
  <2>1. DOMAIN [i \in DOMAIN store.rows[r] |-> store.rows[r][i][1]] = DOMAIN store.rows[r]
    OBVIOUS
  <2> QED
    BY <1>3, <2>1
<1> QED
  BY <1>4 DEF AtVersion

LEMMA ToWalkIsFinite ==
    ASSUME ProjectionInv, NEW m, NEW k
    PROVE  IsFiniteSet(ToWalk(m, k))
<1> DEFINE T == {o \in Held(store) : RecordOf[o] \in ToWalk(m, k)}
           f == [o \in T |-> RecordOf[o]]
<1>1. IsFiniteSet(T)
  <2>1. T \in SUBSET Held(store) /\ IsFiniteSet(Held(store))
    BY DEF ProjectionInv, Sound, StoreOK
  <2> QED
    BY <2>1, FS_Subset
<1>2. \A r \in ToWalk(m, k) : \E o \in T : RecordOf[o] = r
  BY DEF ToWalk
<1>3. f \in Surjection(T, ToWalk(m, k))
  BY <1>2 DEF Surjection
<1> QED
  BY <1>1, <1>3, FS_Surjection

\* A page takes the first records of the walk: what comes before one of its
\* records is in it, and a short page is all that is left.
LEMMA PageIsAPrefix ==
    ASSUME ProjectionConstants, ProjectionInv, NEW m, NEW k
    PROVE  /\ Page(m, k) \in SUBSET ToWalk(m, k) /\ IsFiniteSet(Page(m, k))
           /\ \A r \in ToWalk(m, k), s \in Page(m, k) : Walk[r] <= Walk[s] => r \in Page(m, k)
           /\ Cardinality(Page(m, k)) < PageSize => Page(m, k) = ToWalk(m, k)
<1> DEFINE T == ToWalk(m, k)
           P == Page(m, k)
           Ahead(r) == {s \in T : Walk[s] < Walk[r]}
<1>1. IsFiniteSet(T)
  BY ToWalkIsFinite
<1>2. T \in SUBSET Record /\ \A r \in T : Walk[r] \in Nat
  BY DEF ToWalk, ProjectionConstants
<1>3. P = {r \in T : Cardinality(Ahead(r)) < PageSize}
  BY DEF Page
<1>4. PageSize \in Nat \ {0}
  BY DEF ProjectionConstants
<1> HIDE DEF T, P
<1>5. \A r : IsFiniteSet(Ahead(r)) /\ Cardinality(Ahead(r)) \in Nat
  <2> TAKE r
  <2>1. Ahead(r) \in SUBSET T
    OBVIOUS
  <2> QED
    BY <1>1, <2>1, FS_Subset, FS_CardinalityType
<1>6. P \in SUBSET T /\ IsFiniteSet(P) /\ Cardinality(P) \in Nat
  <2>1. P \in SUBSET T
    BY <1>3
  <2> QED
    BY <1>1, <2>1, FS_Subset, FS_CardinalityType
<1>7. ASSUME NEW r \in T, NEW s \in P, Walk[r] <= Walk[s] PROVE r \in P
  <2>1. s \in T /\ Cardinality(Ahead(s)) < PageSize
    BY <1>3
  <2>2. Walk[r] \in Nat /\ Walk[s] \in Nat /\ \A t \in T : Walk[t] \in Nat
    BY <1>2, <2>1
  <2>3. Ahead(r) \in SUBSET Ahead(s)
    BY <1>7, <2>2
  <2>4. Cardinality(Ahead(r)) <= Cardinality(Ahead(s))
    BY <1>5, <2>3, FS_Subset
  <2>5. Cardinality(Ahead(r)) \in Nat /\ Cardinality(Ahead(s)) \in Nat
    BY <1>5
  <2>6. Cardinality(Ahead(r)) < PageSize
    BY <1>4, <2>1, <2>4, <2>5
  <2> QED
    BY <1>3, <2>6
<1>8. ASSUME Cardinality(P) < PageSize PROVE P = T
  <2>1. SUFFICES ASSUME T \ P # {} PROVE FALSE
    BY <1>6
  <2> DEFINE W == {Walk[r] : r \in T \ P}
  <2>2. W \in SUBSET Nat /\ W # {}
    BY <1>2, <2>1
  <2>3. PICK n \in W : \A w \in W : n <= w
    BY <2>2, LeastNumber
  <2>4. PICK r \in T \ P : n = Walk[r]
    OBVIOUS
  <2>5. Ahead(r) \in SUBSET P
    <3> SUFFICES ASSUME NEW t \in T, Walk[t] < Walk[r], t \notin P PROVE FALSE
      OBVIOUS
    <3>1. Walk[t] \in W /\ Walk[t] \in Nat /\ Walk[r] \in Nat
      BY <1>2
    <3>2. Walk[r] <= Walk[t]
      BY <2>3, <2>4, <3>1
    <3> QED
      BY <3>1, <3>2
  <2>6. Cardinality(Ahead(r)) <= Cardinality(P)
    BY <1>6, <2>5, FS_Subset
  <2>7. ~(Cardinality(Ahead(r)) < PageSize)
    BY <1>3
  <2>8. Cardinality(Ahead(r)) \in Nat
    BY <1>5
  <2> QED
    BY <1>4, <1>6, <1>8, <2>6, <2>7, <2>8
<1> QED
  BY <1>6, <1>7, <1>8 DEF T, P

\* One of finitely many records comes last in the walk.
LEMMA LastInWalk ==
    ASSUME ProjectionConstants, NEW S \in SUBSET Record, IsFiniteSet(S), S # {}
    PROVE  \E s \in S : \A r \in S : Walk[r] <= Walk[s]
<1> DEFINE Ahead(r) == {t \in S : Walk[t] < Walk[r]}
           N == {Cardinality(Ahead(r)) : r \in S}
<1>1. \A r \in S : Walk[r] \in Nat
  BY DEF ProjectionConstants
<1>2. Cardinality(S) \in Nat
  BY FS_CardinalityType
<1>3. \A r : Ahead(r) \in SUBSET S /\ IsFiniteSet(Ahead(r)) /\ Cardinality(Ahead(r)) \in Nat
             /\ Cardinality(Ahead(r)) <= Cardinality(S)
  <2> TAKE r
  <2>1. Ahead(r) \in SUBSET S
    OBVIOUS
  <2> QED
    BY <2>1, FS_Subset, FS_CardinalityType
<1> HIDE DEF Ahead
<1>4. N \in SUBSET Nat /\ N # {} /\ \A n \in N : n <= Cardinality(S)
  BY <1>3
<1>5. Biggest(N) \in N /\ \A n \in N : n <= Biggest(N)
  <2> HIDE DEF N
  <2> QED
    BY <1>2, <1>4, BiggestIs
<1>6. PICK s \in S : Biggest(N) = Cardinality(Ahead(s))
  BY <1>5
<1>7. ASSUME NEW r \in S PROVE Walk[r] <= Walk[s]
  <2>1. SUFFICES ASSUME Walk[s] < Walk[r] PROVE FALSE
    BY <1>1
  <2>2. Ahead(s) \cup {s} \in SUBSET Ahead(r) /\ s \notin Ahead(s)
    BY <1>1, <2>1 DEF Ahead
  <2>3. Cardinality(Ahead(s) \cup {s}) = Cardinality(Ahead(s)) + 1
    BY <1>3, <2>2, FS_AddElement
  <2>4. Cardinality(Ahead(s) \cup {s}) <= Cardinality(Ahead(r))
    BY <1>3, <2>2, FS_Subset
  <2>5. Cardinality(Ahead(r)) \in N
    OBVIOUS
  <2>6. Cardinality(Ahead(r)) <= Cardinality(Ahead(s))
    BY <1>5, <1>6, <2>5
  <2> QED
    BY <1>3, <2>3, <2>4, <2>6
<1> QED
  BY <1>7

LEMMA FailBatchStep ==
    ASSUME ProjectionInv, FailBatch
    PROVE  ProjectionInv'
<1>1. batch' = NoBatch /\ UNCHANGED <<store, reads, version, built, cursor>>
  BY DEF FailBatch
<1>2. batch' \in [module : SUBSET Module, cursor : Cursor] /\ \A m \in Module : batch'.module # {m}
  BY <1>1 DEF NoBatch, NoCursor, Cursor
<1> QED
  BY <1>1, <1>2 DEF ProjectionInv, Fresh

\* A page in its transaction: what the cursor passes is re-folded or has no rows.
LEMMA CommitBatchStep ==
    ASSUME StoreConstants, ProjectionConstants, ProjectionInv, NEW m \in Module, CommitBatch(m)
    PROVE  ProjectionInv'
<1> DEFINE k == batch.cursor.after
           page == Page(m, k)
           done == Cardinality(page) < PageSize
           last == Biggest({Walk[r] : r \in page})
           e == store'
<1>1. batch.module = {m} /\ batch' = NoBatch /\ reads' = reads /\ version' = version
  BY DEF CommitBatch
<1>2. batch' \in [module : SUBSET Module, cursor : Cursor] /\ \A n \in Module : batch'.module # {n}
  BY <1>1 DEF NoBatch, NoCursor, Cursor
<1>3. CASE cursor[m] # batch.cursor
  <2>1. UNCHANGED <<store, built, cursor>>
    BY <1>3 DEF CommitBatch
  <2> QED
    BY <1>1, <1>2, <2>1 DEF ProjectionInv, Fresh
<1>4. CASE cursor[m] = batch.cursor
  <2>1. /\ e = RefoldAll(store, reads, version, page)
        /\ cursor' = [cursor EXCEPT ![m] = IF done THEN NoCursor ELSE [to |-> version, after |-> last]]
        /\ built' = IF done THEN [built EXCEPT ![m] = version] ELSE built
    BY <1>4 DEF CommitBatch
  <2>2. cursor[m].to = version /\ cursor[m].after = k /\ k \in Nat /\ version \in Nat \ {0}
    BY <1>1, <1>4 DEF ProjectionInv, Cursor
  <2>3. /\ page \in SUBSET ToWalk(m, k) /\ IsFiniteSet(page)
        /\ \A r \in ToWalk(m, k), s \in page : Walk[r] <= Walk[s] => r \in page
        /\ done => page = ToWalk(m, k)
    BY PageIsAPrefix
  <2>4. ToWalk(m, k) = {r \in Record : /\ ModuleOf[r] = m /\ r \in reads /\ Walk[r] > k
                                       /\ \E o \in Held(store) : RecordOf[o] = r}
    BY DEF ToWalk
  <2>5. StoreOK(store) /\ RowsMatch(store, reads) /\ PulledIsReadable(store, reads)
    BY DEF ProjectionInv, Sound
  <2> HIDE DEF page, e, k, done
  <2>6. /\ StoreOK(e) /\ e.log = store.log /\ NoneOlder(store, e, version)
        /\ \A r \in page \cap Record : FoldsTo(e, reads, r) /\ AtVersion(e.rows[r], version)
        /\ \A r \in Record \ page : e.rows[r] = store.rows[r]
    BY <2>1, <2>5, RefoldAllIs, RefoldedFolds
  <2>7. Sound(e, reads)
    <3>1. \A r : Foldable(e, reads, r) = Foldable(store, reads, r)
      BY <2>6 DEF Foldable, Held
    <3>2. \A r \in Record \ page : FoldsTo(e, reads, r)
      BY <2>5, <2>6, <3>1 DEF RowsMatch, FoldsTo
    <3>3. RowsMatch(e, reads)
      BY <2>6, <3>2 DEF RowsMatch
    <3>4. PulledIsReadable(e, reads)
      BY <2>5, <2>6 DEF PulledIsReadable, Held
    <3> QED
      BY <2>6, <3>3, <3>4 DEF Sound
  <2>8. \A r \in Record : Fresh(r) => Fresh(r)'
    BY <1>1, <2>6 DEF Fresh, NoneOlder, e
  <2>9. \A r \in page : Fresh(r)'
    <3>1. page \in SUBSET Record
      BY <2>3, <2>4
    <3> QED
      BY <1>1, <2>6, <3>1 DEF Fresh, e
  <2>10. ASSUME NEW r \in Record, ModuleOf[r] = m, r \in page \/ r \notin ToWalk(m, k) PROVE Fresh(r)'
    <3>1. CASE r \in page
      BY <2>9, <3>1
    <3>2. CASE r \notin ToWalk(m, k) /\ Walk[r] > k
      <4>1. r \notin reads \/ ~\E o \in Held(store) : RecordOf[o] = r
        BY <2>4, <2>10, <3>2
      <4>2. Fresh(r)
        BY <4>1, UnwalkedIsFresh DEF Fresh
      <4> QED
        BY <2>8, <4>2
    <3>3. CASE ~(Walk[r] > k)
      <4>1. Walk[r] <= cursor[m].after
        BY <2>2, <3>3 DEF ProjectionConstants
      <4>2. Fresh(r)
        BY <2>2, <2>10, <4>1 DEF ProjectionInv
      <4> QED
        BY <2>8, <4>2
    <3> QED
      BY <2>10, <3>1, <3>2, <3>3
  <2>11. built[m] # version
    <3>1. cursor[m] # NoCursor
      BY <2>2 DEF NoCursor
    <3> QED
      BY <3>1 DEF ProjectionInv
  <2>12. Sound(store', reads') /\ reads' \in SUBSET Record /\ version' \in Nat \ {0}
    BY <1>1, <2>7 DEF ProjectionInv, e
  <2>13. \A n \in Module \ {m} : cursor'[n] = cursor[n] /\ built'[n] = built[n]
    BY <2>1 DEF ProjectionInv
  <2>14. CASE done
    <3>1. cursor'[m] = NoCursor /\ built'[m] = version /\ built' \in [Module -> Nat] /\ cursor' \in [Module -> Cursor]
      BY <2>1, <2>2, <2>14 DEF ProjectionInv, NoCursor, Cursor
    <3>2. \A r \in Record : ModuleOf[r] = m => Fresh(r)'
      BY <2>3, <2>10, <2>14
    <3>3. \A n \in Module : built'[n] <= version' /\ cursor'[n].to <= version'
      <4>1. version <= version /\ NoCursor.to <= version
        BY <2>2 DEF NoCursor
      <4> QED
        BY <1>1, <2>13, <3>1, <4>1 DEF ProjectionInv
    <3>4. cursor'[m].to # version'
      BY <1>1, <2>2, <3>1 DEF NoCursor
    <3>5. \A n \in Module : cursor'[n].to = version' =>
              \A r \in Record : ModuleOf[r] = n /\ Walk[r] <= cursor'[n].after => Fresh(r)'
      BY <1>1, <2>8, <2>13, <3>4 DEF ProjectionInv
    <3>6. \A n \in Module : built'[n] = version' =>
              cursor'[n] = NoCursor /\ \A r \in Record : ModuleOf[r] = n => Fresh(r)'
      BY <1>1, <2>8, <2>13, <3>1, <3>2 DEF ProjectionInv
    <3> QED
      BY <1>2, <2>12, <3>1, <3>3, <3>5, <3>6 DEF ProjectionInv
  <2>15. CASE ~done
    <3> DEFINE W == {Walk[r] : r \in page}
    <3>1. page # {} /\ \A r \in page : Walk[r] \in Nat
      <4>1. page # {}
        BY <2>15, FS_EmptySet DEF done, ProjectionConstants
      <4> QED
        BY <2>3, <2>4, <4>1 DEF ProjectionConstants
    <3>2. \E b \in Nat : \A w \in W : w <= b
      <4>1. page \in SUBSET Record /\ IsFiniteSet(page)
        BY <2>3, <2>4
      <4>2. PICK s \in page : \A r \in page : Walk[r] <= Walk[s]
        BY <3>1, <4>1, LastInWalk
      <4> QED
        BY <3>1, <4>2
    <3>3. W \in SUBSET Nat /\ W # {}
      BY <3>1
    <3>4. last \in W /\ \A w \in W : w <= last
      <4> HIDE DEF W
      <4> QED
        BY <3>2, <3>3, BiggestIs DEF W
    <3>5. PICK s \in page : last = Walk[s]
      BY <3>4
    <3> HIDE DEF last
    <3>6. last \in Nat
      BY <3>3, <3>4
    <3>7. built' = built /\ cursor'[m] = [to |-> version, after |-> last] /\ cursor' \in [Module -> Cursor]
      BY <2>1, <2>2, <2>15, <3>6 DEF ProjectionInv, Cursor
    <3>8. \A r \in Record : ModuleOf[r] = m /\ Walk[r] <= last => Fresh(r)'
      BY <2>3, <2>10, <3>5
    <3>9. \A n \in Module : built'[n] <= version' /\ cursor'[n].to <= version'
      <4>1. version <= version
        BY <2>2
      <4> QED
        BY <1>1, <2>13, <3>7, <4>1 DEF ProjectionInv
    <3>10. \A n \in Module : cursor'[n].to = version' =>
              \A r \in Record : ModuleOf[r] = n /\ Walk[r] <= cursor'[n].after => Fresh(r)'
      BY <1>1, <2>8, <2>13, <3>7, <3>8 DEF ProjectionInv
    <3>11. \A n \in Module : built'[n] = version' =>
              cursor'[n] = NoCursor /\ \A r \in Record : ModuleOf[r] = n => Fresh(r)'
      BY <1>1, <2>8, <2>11, <2>13, <3>7 DEF ProjectionInv
    <3> QED
      BY <1>2, <2>12, <3>7, <3>9, <3>10, <3>11 DEF ProjectionInv
  <2> QED
    BY <2>14, <2>15
<1> QED
  BY <1>3, <1>4

LEMMA NextHolds ==
    ASSUME StoreConstants, ProjectionConstants, ProjectionInv, [ProjectionNext]_projectionVars
    PROVE  ProjectionInv'
<1>1. ASSUME NEW o \in Op, AppendOwn(o) \/ PullForeign(o) \/ RefuseOwn(o) PROVE ProjectionInv'
  BY <1>1, AppendOwnStep, PullForeignStep, RefuseOwnStep
<1>2. ASSUME NEW r \in Record, Narrow(r) \/ Widen(r) PROVE ProjectionInv'
  BY <1>2, NarrowStep, WidenStep
<1>3. ASSUME NEW m \in Module, StartBatch(m) \/ CommitBatch(m) PROVE ProjectionInv'
  BY <1>3, StartBatchStep, CommitBatchStep
<1>4. CASE UpdateApp
  BY <1>4, UpdateAppStep
<1>5. CASE FailBatch
  BY <1>5, FailBatchStep
<1>6. CASE UNCHANGED projectionVars
  BY <1>6 DEF projectionVars, ProjectionInv, Fresh
<1> QED
  BY <1>1, <1>2, <1>3, <1>4, <1>5, <1>6 DEF ProjectionNext

----------------------------------------------------------------------------
\* Order-independent convergence (engine.ts): the rows of every record are the
\* canonical fold of what the log holds, after any appends, pulls, refusals,
\* changes of what the device reads, updates and rebuild batches.
THEOREM RowsStayCanonical == ProjectionSpec => []RowsAreCanonical
<1>1. ProjectionInit => ProjectionInv
  BY InitHolds, StoreConstants, ProjectionConstants
<1>2. ProjectionInv /\ [ProjectionNext]_projectionVars => ProjectionInv'
  BY NextHolds, StoreConstants, ProjectionConstants
<1>3. ProjectionInv => RowsAreCanonical
  BY DEF ProjectionInv, Sound, RowsAreCanonical
<1> QED
  BY <1>1, <1>2, <1>3, PTL DEF ProjectionSpec

\* A module whose rebuild is recorded (rebuild.ts) has no row an older version
\* built, however the rebuild was paged, failed, resumed or overtaken.
THEOREM RebuildMissesNothing == ProjectionSpec => []RebuiltIsCurrent
<1>1. ProjectionInit => ProjectionInv
  BY InitHolds, StoreConstants, ProjectionConstants
<1>2. ProjectionInv /\ [ProjectionNext]_projectionVars => ProjectionInv'
  BY NextHolds, StoreConstants, ProjectionConstants
<1>3. ProjectionInv => RebuiltIsCurrent
  BY StoreConstants DEF ProjectionInv, RebuiltIsCurrent, Outdated, Fresh, AtVersion, StoreConstants
<1> QED
  BY <1>1, <1>2, <1>3, PTL DEF ProjectionSpec

-----------------------------------------------------------------------------
(* Every raced pair of edits is recorded, and once, for any devices, clocks, *)
(* batches and orders of pushes and pulls.  The invariant shows what the     *)
(* code's reading of last_pull_cursor costs: the column never moves, so any  *)
(* two edits of different devices are recorded, in sight of each other or    *)
(* not, and that is inductive where the property itself is not.  Once holds  *)
(* because a batch's pairs leave out those recorded before and are listed    *)
(* without repeats.                                                          *)

Write == [time : Clock, type : {"edit", "archive"}, saw : SUBSET Change]
Entry == [kind : {"change"}, change : Change] \cup [kind : {"conflict"}, pair : SUBSET Change]

\* What a log joined of two stores and records is what each does.
LEMMA JoinedLogs ==
    ASSUME NEW s \in Seq(Entry), NEW t \in Seq(Entry)
    PROVE  /\ s \o t \in Seq(Entry) /\ Len(s \o t) = Len(s) + Len(t)
           /\ Stored(s \o t) = Stored(s) \cup Stored(t)
           /\ Recorded(s \o t) = Recorded(s) \cup Recorded(t)
<1> DEFINE u == s \o t
<1>1. u \in Seq(Entry) /\ Len(u) = Len(s) + Len(t) /\ Len(s) \in Nat /\ Len(t) \in Nat
  OBVIOUS
<1>2. \A i \in 1..Len(s) : i \in 1..Len(u) /\ u[i] = s[i]
  OBVIOUS
<1>3. \A i \in 1..Len(t) : i + Len(s) \in 1..Len(u) /\ u[i + Len(s)] = t[i]
  BY <1>1
<1>4. \A i \in 1..Len(u) : i \in 1..Len(s) \/ \E j \in 1..Len(t) : i = j + Len(s)
  <2> TAKE i \in 1..Len(u)
  <2>1. CASE i <= Len(s)
    BY <1>1, <2>1
  <2>2. CASE i > Len(s)
    <3>1. i - Len(s) \in 1..Len(t) /\ i = (i - Len(s)) + Len(s)
      BY <1>1, <2>2
    <3> QED
      BY <3>1
  <2> QED
    BY <1>1, <2>1, <2>2
<1> HIDE DEF u
<1>5. Stored(u) = Stored(s) \cup Stored(t)
  <2>1. ASSUME NEW x \in Stored(u) PROVE x \in Stored(s) \cup Stored(t)
    <3>1. PICK i \in 1..Len(u) : u[i].kind = "change" /\ x = u[i].change
      BY DEF Stored
    <3>2. CASE i \in 1..Len(s)
      BY <1>2, <3>1, <3>2 DEF Stored
    <3>3. CASE \E j \in 1..Len(t) : i = j + Len(s)
      <4>1. PICK j \in 1..Len(t) : i = j + Len(s)
        BY <3>3
      <4>2. u[i] = t[j]
        BY <1>3, <4>1
      <4> QED
        BY <3>1, <4>2 DEF Stored
    <3> QED
      BY <1>4, <3>2, <3>3
  <2>2. ASSUME NEW x \in Stored(s) PROVE x \in Stored(u)
    <3>1. PICK i \in 1..Len(s) : s[i].kind = "change" /\ x = s[i].change
      BY DEF Stored
    <3> QED
      BY <1>2, <3>1 DEF Stored
  <2>3. ASSUME NEW x \in Stored(t) PROVE x \in Stored(u)
    <3>1. PICK i \in 1..Len(t) : t[i].kind = "change" /\ x = t[i].change
      BY DEF Stored
    <3>2. i + Len(s) \in 1..Len(u) /\ u[i + Len(s)] = t[i]
      BY <1>3
    <3> QED
      BY <3>1, <3>2 DEF Stored
  <2> QED
    BY <2>1, <2>2, <2>3
<1>6. Recorded(u) = Recorded(s) \cup Recorded(t)
  <2>1. ASSUME NEW x \in Recorded(u) PROVE x \in Recorded(s) \cup Recorded(t)
    <3>1. PICK i \in 1..Len(u) : u[i].kind = "conflict" /\ x = u[i].pair
      BY DEF Recorded
    <3>2. CASE i \in 1..Len(s)
      BY <1>2, <3>1, <3>2 DEF Recorded
    <3>3. CASE \E j \in 1..Len(t) : i = j + Len(s)
      <4>1. PICK j \in 1..Len(t) : i = j + Len(s)
        BY <3>3
      <4>2. u[i] = t[j]
        BY <1>3, <4>1
      <4> QED
        BY <3>1, <4>2 DEF Recorded
    <3> QED
      BY <1>4, <3>2, <3>3
  <2>2. ASSUME NEW x \in Recorded(s) PROVE x \in Recorded(u)
    <3>1. PICK i \in 1..Len(s) : s[i].kind = "conflict" /\ x = s[i].pair
      BY DEF Recorded
    <3> QED
      BY <1>2, <3>1 DEF Recorded
  <2>3. ASSUME NEW x \in Recorded(t) PROVE x \in Recorded(u)
    <3>1. PICK i \in 1..Len(t) : t[i].kind = "conflict" /\ x = t[i].pair
      BY DEF Recorded
    <3>2. i + Len(s) \in 1..Len(u) /\ u[i + Len(s)] = t[i]
      BY <1>3
    <3> QED
      BY <3>1, <3>2 DEF Recorded
  <2> QED
    BY <2>1, <2>2, <2>3
<1> QED
  BY <1>1, <1>5, <1>6 DEF u

\* A log of entries stores finitely many changes.
LEMMA StoredIsFinite ==
    ASSUME NEW s \in Seq(Entry)
    PROVE  IsFiniteSet(Stored(s))
<1> DEFINE I == {j \in 1..Len(s) : s[j].kind = "change"}
           f == [i \in I |-> s[i].change]
<1>1. IsFiniteSet(I)
  <2>1. I \in SUBSET (1..Len(s)) /\ IsFiniteSet(1..Len(s))
    BY FS_Interval
  <2> QED
    BY <2>1, FS_Subset
<1>2. f \in Surjection(I, Stored(s))
  BY DEF Stored, Surjection
<1> QED
  BY <1>1, <1>2, FS_Surjection

\* A finite set as a sequence: every element, once.
LEMMA ListedOnce ==
    ASSUME NEW S, IsFiniteSet(S), NEW q, q = SetToSeq(S)
    PROVE  /\ q \in [1..Cardinality(S) -> S] /\ Cardinality(S) \in Nat
           /\ \A i, j \in 1..Cardinality(S) : q[i] = q[j] => i = j
           /\ \A x \in S : \E i \in 1..Cardinality(S) : q[i] = x
<1> DEFINE n == Cardinality(S)
<1>1. n \in Nat /\ ExistsBijection(1..n, S)
  BY FS_CardinalityType
<1>2. PICK b \in Bijection(1..n, S) : TRUE
  BY <1>1 DEF ExistsBijection
<1>3. b \in [1..n -> S] /\ IsInjective(b)
  BY <1>2 DEF Bijection, Injection, IsInjective
<1>4. q = CHOOSE f \in [1..n -> S] : IsInjective(f)
  BY DEF SetToSeq
<1> HIDE DEF n
<1>5. q \in [1..n -> S] /\ IsInjective(q)
  BY <1>3, <1>4
<1>6. \A i, j \in 1..n : q[i] = q[j] => i = j
  BY <1>5 DEF IsInjective
<1>7. q \in Injection(1..n, S)
  BY <1>5, <1>6 DEF Injection, IsInjective
<1>8. Cardinality(1..n) = n
  BY <1>1, FS_Interval
<1>9. q \in Surjection(1..n, S)
  BY <1>7, <1>8, FS_Injection DEF n
<1>10. \A x \in S : \E i \in 1..n : q[i] = x
  BY <1>9 DEF Surjection
<1> QED
  BY <1>1, <1>5, <1>6, <1>10 DEF n

----------------------------------------------------------------------------
\* Any two stored edits of different devices are recorded.
Raced(log) ==
    \A x, y \in Stored(log) : x[1] # y[1] /\ IsEdit(x) /\ IsEdit(y) => {x, y} \in Recorded(log)
\* No pair is recorded twice.
Once(log) ==
    \A i, j \in 1..Len(log) :
        log[i].kind = "conflict" /\ log[j].kind = "conflict" /\ log[i].pair = log[j].pair => i = j

ConflictInv ==
    /\ made \in [Writer -> Seq(Write)] /\ \A d \in Writer : Len(made[d]) <= MaxChanges
    /\ stream \in Seq(Entry)
    /\ \A d \in Writer : lastPull[d] = 0
    /\ pulledTo \in [Writer -> Nat] /\ \A d \in Writer : pulledTo[d] <= Len(stream)
    /\ Stored(stream) \subseteq Made /\ \A p \in Recorded(stream) : p \subseteq Stored(stream)
    /\ Raced(stream) /\ Once(stream)

LEMMA ConflictsBegin ==
    ASSUME ConflictConstants, ConflictInit
    PROVE  ConflictInv
<1>1. Stored(<<>>) = {} /\ Recorded(<<>>) = {} /\ Len(<<>>) = 0
  BY DEF Stored, Recorded
<1>2. <<>> \in Seq(Entry) /\ <<>> \in Seq(Write)
  OBVIOUS
<1>3. made \in [Writer -> Seq(Write)] /\ \A d \in Writer : Len(made[d]) <= MaxChanges
  BY <1>1, <1>2 DEF ConflictInit, ConflictConstants
<1>4. Raced(stream) /\ Once(stream)
  BY <1>1 DEF ConflictInit, Raced, Once
<1> QED
  BY <1>1, <1>2, <1>3, <1>4 DEF ConflictInit, ConflictInv

\* What a device holds are changes.
LEMMA HeldAreChanges ==
    ASSUME ConflictInv, NEW d \in Writer
    PROVE  HeldBy(d) \in SUBSET Change
<1> DEFINE t == SubSeq(stream, 1, pulledTo[d])
<1>1. stream \in Seq(Entry) /\ pulledTo[d] \in Nat /\ pulledTo[d] <= Len(stream)
  BY DEF ConflictInv
<1>2. Len(t) = pulledTo[d] /\ \A i \in 1..Len(t) : i \in 1..Len(stream) /\ t[i] = stream[i]
  BY <1>1
<1> HIDE DEF t
<1>3. Stored(t) \in SUBSET Stored(stream)
  BY <1>2 DEF Stored
<1>4. Stored(stream) \in SUBSET Made
  BY DEF ConflictInv
<1> QED
  BY <1>3, <1>4 DEF HeldBy, Own, Made, t

\* A device that may write has room: its own changes are among those counted.
LEMMA RoomToWrite ==
    ASSUME ConflictConstants, ConflictInv, Cardinality(Made) < MaxChanges, NEW d \in Writer
    PROVE  Len(made[d]) < MaxChanges
<1>1. MaxChanges \in Nat /\ Len(made[d]) \in Nat /\ Len(made[d]) <= MaxChanges
  BY DEF ConflictConstants, ConflictInv
<1>2. SUFFICES ASSUME Len(made[d]) = MaxChanges PROVE FALSE
  BY <1>1
<1>3. IsFiniteSet(1..MaxChanges) /\ Cardinality(1..MaxChanges) = MaxChanges
  BY <1>1, FS_Interval
<1>4. IsFiniteSet({d}) /\ Cardinality({d}) = 1
  BY FS_Singleton
<1> DEFINE O == {d} \X (1..MaxChanges)
<1>5. Cardinality(O) = MaxChanges
  <2>1. Cardinality(O) = 1 * MaxChanges
    BY <1>3, <1>4, FS_Product
  <2> QED
    BY <1>1, <2>1
<1>6. O \in SUBSET Made
  BY <1>1, <1>2 DEF Made, Change
<1>7. IsFiniteSet(Made)
  <2>1. IsFiniteSet(Change)
    BY <1>3, FS_Product DEF Change, ConflictConstants
  <2> QED
    BY <2>1, FS_Subset DEF Made
<1>8. Cardinality(O) <= Cardinality(Made) /\ Cardinality(Made) \in Nat
  BY <1>6, <1>7, FS_Subset, FS_CardinalityType
<1> QED
  BY <1>1, <1>5, <1>8

LEMMA WriteStep ==
    ASSUME ConflictConstants, ConflictInv, NEW d \in Writer, NEW type \in {"edit", "archive"}, WriteChange(d, type)
    PROVE  ConflictInv'
<1>1. PICK t \in Clock : made' = [made EXCEPT ![d] = Append(@, [time |-> t, type |-> type, saw |-> HeldBy(d)])]
  BY DEF WriteChange
<1>2. Cardinality(Made) < MaxChanges /\ UNCHANGED <<stream, pulledTo, lastPull>>
  BY DEF WriteChange
<1> DEFINE w == [time |-> t, type |-> type, saw |-> HeldBy(d)]
<1>3. w \in Write
  BY HeldAreChanges DEF Write
<1>4. made \in [Writer -> Seq(Write)] /\ \A e \in Writer : Len(made[e]) <= MaxChanges
  BY DEF ConflictInv
<1>5. made' = [made EXCEPT ![d] = Append(@, w)]
  BY <1>1
<1> HIDE DEF w
<1>6. made'[d] = Append(made[d], w) /\ \A e \in Writer \ {d} : made'[e] = made[e]
  BY <1>4, <1>5
<1>7. made' \in [Writer -> Seq(Write)]
  BY <1>3, <1>4, <1>5
<1>8. Len(made'[d]) = Len(made[d]) + 1 /\ \A n \in 1..Len(made[d]) : made'[d][n] = made[d][n]
  BY <1>3, <1>4, <1>6
<1>9. \A e \in Writer : Len(made'[e]) <= MaxChanges
  <2>1. Len(made[d]) < MaxChanges /\ Len(made[d]) \in Nat /\ MaxChanges \in Nat
    BY <1>2, <1>4, RoomToWrite DEF ConflictConstants
  <2> QED
    BY <1>4, <1>6, <1>8, <2>1
<1>10. ASSUME NEW x \in Made PROVE x \in Made' /\ Of(x)' = Of(x)
  <2>1. x \in Change /\ x[1] \in Writer /\ x[2] \in 1..MaxChanges /\ x[2] <= Len(made[x[1]])
    BY DEF Made, Change
  <2>2. CASE x[1] = d
    <3>1. x[2] \in 1..Len(made[d])
      BY <1>4, <2>1, <2>2
    <3>2. x[2] <= Len(made'[d]) /\ made'[d][x[2]] = made[d][x[2]]
      BY <1>4, <1>8, <3>1
    <3> QED
      BY <2>1, <2>2, <3>2 DEF Made, Of, Change
  <2>3. CASE x[1] # d
    BY <1>6, <2>1, <2>3 DEF Made, Of, Change
  <2> QED
    BY <2>2, <2>3
<1>11. Stored(stream) \subseteq Made /\ Stored(stream)' = Stored(stream) /\ Recorded(stream)' = Recorded(stream)
  BY <1>2 DEF ConflictInv, Stored, Recorded
<1>12. \A x \in Stored(stream) : x \in Made' /\ (IsEdit(x)' <=> IsEdit(x))
  BY <1>10, <1>11 DEF IsEdit
<1>13. Raced(stream)'
  <2>1. Raced(stream)
    BY DEF ConflictInv
  <2> QED
    BY <1>11, <1>12, <2>1 DEF Raced
<1>14. Once(stream)'
  BY <1>2 DEF ConflictInv, Once
<1>15. \A p \in Recorded(stream)' : p \subseteq Stored(stream)'
  BY <1>11 DEF ConflictInv
<1> QED
  BY <1>2, <1>7, <1>9, <1>11, <1>12, <1>13, <1>14, <1>15 DEF ConflictInv

LEMMA PullStep ==
    ASSUME ConflictInv, NEW d \in Writer, PullPage(d)
    PROVE  ConflictInv'
<1>1. PICK n \in (pulledTo[d] + 1)..Len(stream) : pulledTo' = [pulledTo EXCEPT ![d] = n]
  BY DEF PullPage
<1>2. UNCHANGED <<made, stream, lastPull>>
  BY DEF PullPage
<1>3. stream \in Seq(Entry) /\ pulledTo \in [Writer -> Nat] /\ \A e \in Writer : pulledTo[e] <= Len(stream)
  BY DEF ConflictInv
<1>4. n \in Nat /\ n <= Len(stream)
  BY <1>3
<1>5. pulledTo' \in [Writer -> Nat] /\ \A e \in Writer : pulledTo'[e] <= Len(stream)
  BY <1>1, <1>3, <1>4
<1>6. Stored(stream)' = Stored(stream) /\ Recorded(stream)' = Recorded(stream)
  BY <1>2 DEF Stored, Recorded
<1>7. Made' = Made /\ \A x : IsEdit(x)' <=> IsEdit(x)
  BY <1>2 DEF Made, IsEdit, Of
<1>8. Raced(stream)'
  <2>1. Raced(stream)
    BY DEF ConflictInv
  <2> QED
    BY <1>6, <1>7, <2>1 DEF Raced
<1>9. Once(stream)'
  BY <1>2 DEF ConflictInv, Once
<1> QED
  BY <1>2, <1>5, <1>6, <1>7, <1>8, <1>9 DEF ConflictInv

\* A pair that is new to the log has one of the batch in it, so it is found.
LEMMA PushStep ==
    ASSUME ConflictConstants, ConflictInv, NEW d \in Writer, PushChanges(d)
    PROVE  ConflictInv'
<1> DEFINE mine == {x \in Stored(stream) : x[1] = d}
           next == Cardinality(mine) + 1
<1>1. UNCHANGED <<made, pulledTo, lastPull>>
  BY DEF PushChanges
<1>2. /\ made \in [Writer -> Seq(Write)] /\ \A e \in Writer : Len(made[e]) <= MaxChanges
      /\ stream \in Seq(Entry) /\ Stored(stream) \subseteq Made
      /\ \A p \in Recorded(stream) : p \subseteq Stored(stream)
      /\ \A e \in Writer : lastPull[e] = 0
      /\ Raced(stream) /\ Once(stream)
  BY DEF ConflictInv
<1>3. next \in Nat \ {0}
  <2>1. mine \in SUBSET Stored(stream) /\ IsFiniteSet(Stored(stream))
    BY <1>2, StoredIsFinite
  <2>2. Cardinality(mine) \in Nat
    BY <2>1, FS_Subset, FS_CardinalityType
  <2> QED
    BY <2>2
<1> HIDE DEF mine, next
<1>4. PICK last \in next..Len(made[d]) :
        LET brought == [i \in 1..(last - next + 1) |-> [kind |-> "change", change |-> <<d, next + i - 1>>]]
            log   == stream \o brought
            found == SetToSeq(Pairs(log, brought))
        IN  stream' = log \o [i \in 1..Len(found) |-> [kind |-> "conflict", pair |-> found[i]]]
  BY DEF PushChanges, mine, next
<1> DEFINE k == last - next + 1
           brought == [i \in 1..k |-> [kind |-> "change", change |-> <<d, next + i - 1>>]]
           log == stream \o brought
           B == {brought[i].change : i \in 1..Len(brought)}
           P == Pairs(log, brought)
           found == SetToSeq(P)
           new == [i \in 1..Len(found) |-> [kind |-> "conflict", pair |-> found[i]]]
<1>5. stream' = log \o new
  BY <1>4
<1>6. k \in Nat /\ Len(made[d]) \in Nat /\ last \in Nat /\ last <= Len(made[d]) /\ Len(made[d]) <= MaxChanges /\ MaxChanges \in Nat
  BY <1>2, <1>3, <1>4 DEF ConflictConstants
<1>7. \A i \in 1..k : <<d, next + i - 1>> \in Made
  <2> TAKE i \in 1..k
  <2>1. next + i - 1 \in 1..MaxChanges /\ next + i - 1 <= Len(made[d])
    BY <1>3, <1>6
  <2> QED
    BY <2>1 DEF Made, Change
<1>8. brought \in Seq(Entry) /\ Len(brought) = k
  <2>1. \A i \in 1..k : [kind |-> "change", change |-> <<d, next + i - 1>>] \in Entry
    BY <1>7 DEF Entry, Made
  <2>2. brought \in [1..k -> Entry]
    BY <2>1
  <2> HIDE DEF brought, k
  <2> QED
    BY <1>6, <2>2
<1>9. B \in SUBSET Made /\ Stored(brought) = B /\ Recorded(brought) = {}
  <2>1. \A i \in 1..k : brought[i].kind = "change" /\ brought[i].change \in Made
    BY <1>7
  <2> HIDE DEF brought, k
  <2> QED
    BY <1>8, <2>1 DEF Stored, Recorded
<1> HIDE DEF brought, k
<1>10. log \in Seq(Entry) /\ Stored(log) = Stored(stream) \cup B /\ Recorded(log) = Recorded(stream)
       /\ Len(log) = Len(stream) + Len(brought) /\ Len(brought) \in Nat
  <2>1. log \in Seq(Entry) /\ Len(log) = Len(stream) + Len(brought) /\ Len(brought) \in Nat
    BY <1>2, <1>6, <1>8, JoinedLogs
  <2>2. Stored(log) = Stored(stream) \cup Stored(brought)
    BY <1>2, <1>8, JoinedLogs
  <2>3. Recorded(log) = Recorded(stream) \cup Recorded(brought)
    BY <1>2, <1>8, JoinedLogs
  <2> HIDE DEF log, B
  <2> QED
    BY <1>9, <2>1, <2>2, <2>3
<1> HIDE DEF B
<1>11. Stored(log) \in SUBSET Made
  BY <1>2, <1>9, <1>10
<1>12. \A x \in Made : Candidates(log, x) = {y \in Stored(log) : y[1] # x[1] /\ IsEdit(y)}
  <2> TAKE x \in Made
  <2>1. lastPull[x[1]] = 0
    BY <1>2 DEF Made, Change
  <2>2. SubSeq(log, 0 + 1, Len(log)) = log
    <3> HIDE DEF log
    <3> QED
      BY <1>10
  <2> HIDE DEF log
  <2> QED
    BY <2>1, <2>2 DEF Candidates
<1> DEFINE edits == B \cap {x \in Made : IsEdit(x)}
<1>13. P = ((UNION {{{x, y} : y \in Candidates(log, x)} : x \in edits}) \cup {{x} : x \in {e \in edits : Preceded(log, e)}})
              \ Recorded(log)
  BY DEF Pairs, B
<1>14. edits \in SUBSET Made /\ edits \in SUBSET Stored(log)
  BY <1>9, <1>10
<1> HIDE DEF P, log
<1>15. \A p \in P : p \in SUBSET Stored(log) /\ p \notin Recorded(log)
  <2> SUFFICES ASSUME NEW p \in P PROVE p \in SUBSET Stored(log) /\ p \notin Recorded(log)
    OBVIOUS
  <2> DEFINE U == UNION {{{x, y} : y \in Candidates(log, x)} : x \in edits}
             A == {{x} : x \in {e \in edits : Preceded(log, e)}}
  <2>1. p \notin Recorded(log) /\ (p \in U \/ p \in A)
    <3>1. P = (U \cup A) \ Recorded(log)
      BY <1>13, Zenon
    <3> HIDE DEF U, A
    <3> QED
      BY <3>1
  <2>2. CASE p \in {{x} : x \in {e \in edits : Preceded(log, e)}}
    BY <1>14, <2>1, <2>2
  <2>3. CASE p \in UNION {{{x, y} : y \in Candidates(log, x)} : x \in edits}
    <3>1. PICK x \in edits : p \in {{x, y} : y \in Candidates(log, x)}
      BY <2>3
    <3>2. PICK y \in Candidates(log, x) : p = {x, y}
      BY <3>1
    <3>3. x \in Stored(log) /\ y \in Stored(log)
      BY <1>12, <1>14, <3>2
    <3> QED
      BY <2>1, <3>2, <3>3
  <2> QED
    BY <2>1, <2>2, <2>3
<1>16. \A x \in B, y \in Stored(log) : x[1] # y[1] /\ IsEdit(x) /\ IsEdit(y) => {x, y} \in P \cup Recorded(log)
  <2> SUFFICES ASSUME NEW x \in B, NEW y \in Stored(log), x[1] # y[1], IsEdit(x), IsEdit(y)
               PROVE  {x, y} \in P \cup Recorded(log)
    OBVIOUS
  <2>1. x \in edits /\ x \in Made
    BY <1>9
  <2>2. y \in Candidates(log, x)
    BY <1>12, <2>1
  <2>3. {x, y} \in UNION {{{u, v} : v \in Candidates(log, u)} : u \in edits}
    BY <2>1, <2>2
  <2> QED
    BY <1>13, <2>3
<1> HIDE DEF edits
<1>17. IsFiniteSet(P)
  <2>1. IsFiniteSet(SUBSET Stored(log))
    BY <1>10, StoredIsFinite, FS_SUBSET
  <2>2. P \in SUBSET (SUBSET Stored(log))
    BY <1>15
  <2> QED
    BY <2>1, <2>2, FS_Subset
<1> DEFINE n == Cardinality(P)
<1>18. /\ found \in [1..n -> P] /\ n \in Nat
       /\ \A i, j \in 1..n : found[i] = found[j] => i = j
       /\ \A x \in P : \E i \in 1..n : found[i] = x
  BY <1>17, ListedOnce
<1> HIDE DEF found, n
<1>19. Len(found) = n
  BY <1>18
<1>20. /\ new = [i \in 1..n |-> [kind |-> "conflict", pair |-> found[i]]]
       /\ \A i \in 1..n : new[i].kind = "conflict" /\ new[i].pair = found[i] /\ found[i] \in P
  BY <1>18, <1>19
<1> HIDE DEF new
<1>21. new \in Seq(Entry) /\ Len(new) = n
  <2>1. \A i \in 1..n : [kind |-> "conflict", pair |-> found[i]] \in Entry
    <3>1. P \in SUBSET (SUBSET Change)
      BY <1>11, <1>15 DEF Made
    <3> QED
      BY <1>20, <3>1 DEF Entry
  <2>2. new \in [1..n -> Entry]
    BY <1>20, <2>1
  <2> QED
    BY <1>18, <2>2
<1>22. Stored(new) = {} /\ Recorded(new) = P
  <2>1. Stored(new) = {}
    BY <1>20, <1>21 DEF Stored
  <2>2. \A p \in Recorded(new) : p \in P
    BY <1>20, <1>21 DEF Recorded
  <2>3. ASSUME NEW p \in P PROVE p \in Recorded(new)
    <3>1. PICK i \in 1..n : found[i] = p
      BY <1>18
    <3> QED
      BY <1>20, <1>21, <3>1 DEF Recorded
  <2> QED
    BY <2>1, <2>2, <2>3
<1>23. /\ stream' \in Seq(Entry) /\ Len(stream') = Len(log) + n
       /\ Stored(stream') = Stored(log) /\ Recorded(stream') = Recorded(log) \cup P
  <2>1. stream' \in Seq(Entry) /\ Len(stream') = Len(log) + n
    BY <1>5, <1>10, <1>21
  <2>2. Stored(log \o new) = Stored(log) \cup Stored(new)
    BY <1>10, <1>21, JoinedLogs
  <2>3. Recorded(log \o new) = Recorded(log) \cup Recorded(new)
    BY <1>10, <1>21, JoinedLogs
  <2> QED
    BY <1>5, <1>22, <2>1, <2>2, <2>3
<1>24. Made' = Made /\ \A x : IsEdit(x)' <=> IsEdit(x)
  BY <1>1 DEF Made, IsEdit, Of
<1>25. \A x, y \in Stored(log) : x[1] # y[1] /\ IsEdit(x) /\ IsEdit(y) => {x, y} \in P \cup Recorded(log)
  <2> SUFFICES ASSUME NEW x \in Stored(log), NEW y \in Stored(log), x[1] # y[1], IsEdit(x), IsEdit(y)
               PROVE  {x, y} \in P \cup Recorded(log)
    OBVIOUS
  <2>1. CASE x \in B
    BY <1>16, <2>1
  <2>2. CASE y \in B
    <3>1. {y, x} \in P \cup Recorded(log)
      BY <1>16, <2>2
    <3>2. {y, x} = {x, y}
      OBVIOUS
    <3> QED
      BY <3>1, <3>2
  <2>3. CASE x \in Stored(stream) /\ y \in Stored(stream)
    BY <1>2, <1>10, <2>3 DEF Raced
  <2> QED
    BY <1>10, <2>1, <2>2, <2>3
<1>26. Raced(stream)'
  BY <1>23, <1>24, <1>25 DEF Raced
<1>27. \A i \in 1..Len(stream') :
          \/ i \in 1..Len(stream) /\ stream'[i] = stream[i]
          \/ stream'[i].kind = "change"
          \/ \E j \in 1..n : i = j + Len(log) /\ stream'[i] = new[j]
  <2> TAKE i \in 1..Len(stream')
  <2>1. Len(log) = Len(stream) + Len(brought) /\ Len(stream) \in Nat /\ Len(brought) \in Nat /\ n \in Nat /\ Len(log) \in Nat
        /\ i \in 1..(Len(log) + n)
    BY <1>2, <1>10, <1>18, <1>23
  <2>2. CASE i <= Len(stream)
    <3>1. i \in 1..Len(stream) /\ i \in 1..Len(log)
      BY <2>1, <2>2
    <3>2. stream'[i] = log[i]
      BY <1>5, <1>10, <1>21, <3>1
    <3>3. log[i] = stream[i]
      BY <1>2, <1>8, <3>1 DEF log
    <3> QED
      BY <3>1, <3>2, <3>3
  <2>3. CASE i > Len(stream) /\ i <= Len(log)
    <3> DEFINE j == i - Len(stream)
    <3>1. j \in 1..Len(brought) /\ i \in 1..Len(log) /\ i = j + Len(stream)
      BY <2>1, <2>3
    <3>2. stream'[i] = log[i]
      BY <1>5, <1>10, <1>21, <3>1
    <3>3. log[i] = brought[j]
      BY <1>2, <1>8, <2>3, <3>1 DEF log
    <3>4. brought[j].kind = "change"
      BY <1>8, <3>1 DEF brought
    <3> QED
      BY <3>2, <3>3, <3>4
  <2>4. CASE i > Len(log)
    <3> DEFINE j == i - Len(log)
    <3>1. j \in 1..n /\ i = j + Len(log)
      BY <2>1, <2>4
    <3>2. stream'[i] = new[j]
      <4> HIDE DEF j
      <4>1. log \in Seq(Entry) /\ new \in Seq(Entry) /\ Len(new) = n
        BY <1>10, <1>21
      <4>2. (log \o new)[j + Len(log)] = new[j]
        BY <2>1, <3>1, <4>1
      <4> QED
        BY <1>5, <3>1, <4>2
    <3> QED
      BY <3>1, <3>2
  <2> QED
    BY <2>1, <2>2, <2>3, <2>4
<1>28. Once(stream)'
  <2> SUFFICES ASSUME NEW i \in 1..Len(stream'), NEW j \in 1..Len(stream'), stream'[i].kind = "conflict",
                      stream'[j].kind = "conflict", stream'[i].pair = stream'[j].pair
               PROVE  i = j
    BY DEF Once
  <2> DEFINE Old(h) == h \in 1..Len(stream) /\ stream'[h] = stream[h]
             New(h) == \E g \in 1..n : h = g + Len(log) /\ stream'[h] = new[g]
  <2>1. (Old(i) \/ New(i)) /\ (Old(j) \/ New(j))
    BY <1>27
  <2>2. \A h : Old(h) /\ stream'[h].kind = "conflict" => stream'[h].pair \in Recorded(log)
    BY <1>10 DEF Recorded
  <2>3. \A h : New(h) => stream'[h].pair \in P
    BY <1>20
  <2>4. CASE Old(i) /\ Old(j)
    BY <1>2, <2>4 DEF Once
  <2>5. CASE New(i) /\ New(j)
    <3>1. PICK g \in 1..n : i = g + Len(log) /\ stream'[i] = new[g]
      BY <2>5
    <3>2. PICK h \in 1..n : j = h + Len(log) /\ stream'[j] = new[h]
      BY <2>5
    <3>3. found[g] = found[h]
      BY <1>20, <3>1, <3>2
    <3>4. g = h
      BY <1>18, <3>3
    <3> QED
      BY <3>1, <3>2, <3>4
  <2>6. ~(Old(i) /\ New(j)) /\ ~(New(i) /\ Old(j))
    BY <1>15, <2>2, <2>3
  <2> QED
    BY <2>1, <2>4, <2>5, <2>6
<1>29. Stored(stream') \subseteq Made' /\ \A p \in Recorded(stream') : p \subseteq Stored(stream')
  BY <1>2, <1>10, <1>11, <1>15, <1>23, <1>24
<1>30. \A e \in Writer : pulledTo[e] <= Len(stream')
  <2>1. Len(stream) <= Len(stream') /\ Len(stream) \in Nat /\ Len(stream') \in Nat
    BY <1>2, <1>10, <1>18, <1>23
  <2> QED
    BY <2>1 DEF ConflictInv
<1> QED
  BY <1>1, <1>2, <1>23, <1>26, <1>28, <1>29, <1>30 DEF ConflictInv

LEMMA ConflictsGoOn ==
    ASSUME ConflictConstants, ConflictInv, [ConflictNext]_conflictVars
    PROVE  ConflictInv'
<1>1. ASSUME NEW d \in Writer, WriteChange(d, "edit") \/ WriteChange(d, "archive") PROVE ConflictInv'
  BY <1>1, WriteStep
<1>2. ASSUME NEW d \in Writer, PushChanges(d) PROVE ConflictInv'
  BY <1>2, PushStep
<1>3. ASSUME NEW d \in Writer, PullPage(d) PROVE ConflictInv'
  BY <1>3, PullStep
<1>4. CASE UNCHANGED conflictVars
  <2>1. UNCHANGED <<made, stream, pulledTo, lastPull>>
    BY <1>4 DEF conflictVars
  <2>2. Stored(stream)' = Stored(stream) /\ Recorded(stream)' = Recorded(stream)
    BY <2>1 DEF Stored, Recorded
  <2>3. Made' = Made /\ \A x : IsEdit(x)' <=> IsEdit(x)
    BY <2>1 DEF Made, IsEdit, Of
  <2>4. Raced(stream)'
    <3>1. Raced(stream)
      BY DEF ConflictInv
    <3> QED
      BY <2>2, <2>3, <3>1 DEF Raced
  <2>5. Once(stream)'
    BY <2>1 DEF ConflictInv, Once
  <2> QED
    BY <2>1, <2>2, <2>3, <2>4, <2>5 DEF ConflictInv
<1> QED
  BY <1>1, <1>2, <1>3, <1>4 DEF ConflictNext

LEMMA InvImpliesRaced ==
    ASSUME ConflictInv
    PROVE  RacedIsRecorded
<1> SUFFICES ASSUME NEW x \in Stored(stream), NEW y \in Stored(stream), x[1] # y[1], IsEdit(x), IsEdit(y)
             PROVE  Cardinality({i \in 1..Len(stream) : stream[i].kind = "conflict" /\ stream[i].pair = {x, y}}) = 1
  BY DEF RacedIsRecorded
<1> DEFINE I == {i \in 1..Len(stream) : stream[i].kind = "conflict" /\ stream[i].pair = {x, y}}
<1>1. {x, y} \in Recorded(stream)
  BY DEF ConflictInv, Raced
<1>2. PICK i \in 1..Len(stream) : stream[i].kind = "conflict" /\ stream[i].pair = {x, y}
  BY <1>1 DEF Recorded
<1>3. I = {i}
  BY <1>2 DEF ConflictInv, Once
<1> QED
  BY <1>3, FS_Singleton

----------------------------------------------------------------------------
\* Rule 1 misses no race (conflict-detection.ts): two edits of different
\* devices, neither made in sight of the other, have exactly one conflict
\* in the log once both are stored.
THEOREM RacedStaysRecorded == ConflictSpec => []RacedIsRecorded
<1>1. ConflictInit => ConflictInv
  BY ConflictsBegin, ConflictConstants
<1>2. ConflictInv /\ [ConflictNext]_conflictVars => ConflictInv'
  BY ConflictsGoOn, ConflictConstants
<1>3. ConflictInv => RacedIsRecorded
  BY InvImpliesRaced
<1> QED
  BY <1>1, <1>2, <1>3, PTL DEF ConflictSpec

\* The log stores only changes that were made, and a recorded pair is of
\* changes the log stores.
THEOREM ConflictTypes == ConflictSpec => []ConflictTypeOK
<1>1. ConflictInit => ConflictInv
  BY ConflictsBegin, ConflictConstants
<1>2. ConflictInv /\ [ConflictNext]_conflictVars => ConflictInv'
  BY ConflictsGoOn, ConflictConstants
<1>3. ConflictInv => ConflictTypeOK
  BY DEF ConflictInv, ConflictTypeOK
<1> QED
  BY <1>1, <1>2, <1>3, PTL DEF ConflictSpec
=============================================================================
