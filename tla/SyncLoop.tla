------------------------------- MODULE SyncLoop -------------------------------
(***************************************************************************)
(* The client's sync loop (packages/core/src/sync/loop.ts) as the code     *)
(* between its awaits.  A call of runCycle is an activation; while one     *)
(* awaits, others run, and so do requestSync, pause, stop and the backoff  *)
(* timer.  One action is the code from one await to the next.              *)
(*                                                                         *)
(* What a push or a pull does is ChangeSync's subject: here they end, fail *)
(* in one of the ways the loop tells apart, or go on.  The local database  *)
(* is taken not to fail.                                                   *)
(***************************************************************************)
EXTENDS Integers

CONSTANTS
    Act,           \* bound: activations of runCycle at once
    MaxTriggers,   \* bound: calls of requestSync, pause and stop
    MaxFaults      \* bound: cycles that fail

ASSUME SyncLoopBounds == Act # {} /\ MaxTriggers \in Nat /\ MaxFaults \in Nat

VARIABLES
    loopState,        \* the machine's state
    at,               \* per activation: the await it is at, or "none"
    rerun, manualRerun,
    pauseRequested, stopped,
    syncDisabled, pushHalted,
    timer,            \* a backoff timer is armed
    wanted,           \* history: a trigger came that no cycle answers yet
    paused,           \* history: pause() was called and no trigger came since
    calls, faults     \* so far

flags == <<rerun, manualRerun, pauseRequested, stopped, syncDisabled, pushHalted>>
loopVars == <<loopState, at, flags, timer, wanted, paused, calls, faults>>

Reasons == {"manual", "connectivity", "periodic"}
EarlyExit == {"manual", "connectivity"}

States == {"idle", "pushing", "pulling", "backoff"}
Pushing == {"push", "pushed"}
Pulling == {"pull", "bundle", "updating"}
Awaits == Pushing \cup Pulling \cup
          {"none",
           "refused",    \* storing the token-refusal streak
           "revoking",   \* storing syncDisabled
           "failing",    \* storing the failure
           "drained"}    \* storing the success, counting what is pending

\* Mutant: a trigger also takes a pulling loop to its next push.
MovesRetriggered ==
    { <<"idle", "trigger", "pushing">>,        <<"idle", "device_revoked", "idle">>,
      <<"pushing", "push_drained", "pulling">>, <<"pushing", "transport_failure", "backoff">>,
      <<"pushing", "device_revoked", "idle">>, <<"pulling", "trigger", "pushing">>,
      <<"pulling", "pull_drained", "idle">>,   <<"pulling", "pull_paused", "idle">>,
      <<"pulling", "transport_failure", "backoff">>, <<"pulling", "device_revoked", "idle">>,
      <<"backoff", "timer_elapsed", "pushing">>, <<"backoff", "trigger", "pushing">>,
      <<"backoff", "device_revoked", "idle">> }
\* Mutant: a paused pull has a state of its own.
MovesPaused ==
    { <<"idle", "trigger", "pushing">>, <<"pushing", "push_drained", "pulling">>,
      <<"pulling", "pull_drained", "idle">>, <<"pulling", "pull_paused", "paused">> }

\* SYNC_LOOP_MACHINE.
Moves ==
    { <<"idle", "trigger", "pushing">>,        <<"idle", "device_revoked", "idle">>,
      <<"pushing", "push_drained", "pulling">>, <<"pushing", "transport_failure", "backoff">>,
      <<"pushing", "device_revoked", "idle">>,
      <<"pulling", "pull_drained", "idle">>,   <<"pulling", "pull_paused", "idle">>,
      <<"pulling", "transport_failure", "backoff">>, <<"pulling", "device_revoked", "idle">>,
      <<"backoff", "timer_elapsed", "pushing">>, <<"backoff", "trigger", "pushing">>,
      <<"backoff", "device_revoked", "idle">> }
Targets(event) == {m[3] : m \in {n \in Moves : n[1] = loopState /\ n[2] = event}}
CanMove(event) == Targets(event) # {}
Move(event) == loopState' \in Targets(event)

Busy == loopState \in {"pushing", "pulling"}
Free == {a \in Act : at[a] = "none"}
Go(a, where) == at' = [at EXCEPT ![a] = where]
-----------------------------------------------------------------------------
(* A cycle begins.                                                         *)

\* The synchronous start of runCycle after the given event.  A halted push is
\* skipped, and the loop is pulling before the first await.
Begin(a, event) ==
    /\ CanMove(event)
    /\ IF pushHalted THEN Go(a, "pull") /\ loopState' = "pulling"
                     ELSE Go(a, "push") /\ Move(event)
    /\ rerun' = FALSE /\ manualRerun' = FALSE /\ wanted' = FALSE

Call == calls < MaxTriggers /\ calls' = calls + 1
MayStart == ~syncDisabled /\ ~stopped

\* Mutant: every trigger cancels the timer.
TimerAfterAny(reason) == IF loopState = "backoff" THEN FALSE ELSE timer

\* Only the two early exits touch a running backoff's timer.
TimerAfter(reason) == IF loopState = "backoff" /\ reason \in EarlyExit THEN FALSE ELSE timer

\* requestSync.  A trigger in a cycle that was asked to pause goes with it.
RequestSync(reason) ==
    /\ Call /\ MayStart
    /\ paused' = FALSE
    /\ timer' = TimerAfter(reason)
    /\ \/ /\ Busy
          /\ rerun' = TRUE /\ manualRerun' = (manualRerun \/ reason = "manual")
          /\ wanted' = (wanted \/ ~pauseRequested)
          /\ UNCHANGED <<loopState, at, pauseRequested>>
       \/ /\ loopState = "backoff" /\ reason \notin EarlyExit
          /\ UNCHANGED <<loopState, at, rerun, manualRerun, pauseRequested, wanted>>
       \/ /\ loopState = "idle" \/ (loopState = "backoff" /\ reason \in EarlyExit)
          /\ pauseRequested' = FALSE
          /\ \E a \in Free : Begin(a, "trigger")
    /\ UNCHANGED <<stopped, syncDisabled, pushHalted, faults>>

Pause ==
    /\ Call /\ Free # Act
    /\ paused' = TRUE
    /\ pauseRequested' = (pauseRequested \/ Busy)
    /\ wanted' = FALSE
    /\ UNCHANGED <<loopState, at, rerun, manualRerun, stopped, syncDisabled, pushHalted,
                   timer, faults>>

Stop ==
    /\ Call /\ ~stopped
    /\ stopped' = TRUE
    /\ pauseRequested' = (pauseRequested \/ Busy)
    /\ rerun' = FALSE /\ manualRerun' = FALSE /\ timer' = FALSE
    /\ UNCHANGED <<loopState, at, syncDisabled, pushHalted, wanted, paused, faults>>

\* Mutant: the callback does not look whether the loop was stopped.
RetryDueIfStopped == ~syncDisabled /\ loopState = "backoff"

\* The timer's callback.
RetryDue == MayStart /\ loopState = "backoff"
TimerFires ==
    /\ timer
    /\ timer' = FALSE
    /\ IF RetryDue THEN \E a \in Free : Begin(a, "timer_elapsed")
       ELSE UNCHANGED <<loopState, at, rerun, manualRerun, wanted>>
    /\ UNCHANGED <<pauseRequested, stopped, syncDisabled, pushHalted, paused, calls, faults>>
-----------------------------------------------------------------------------
(* runCycle, from await to await.                                          *)

Outside == UNCHANGED <<stopped, paused, calls>>

\* runPushPhase is over: drained, paused, gapped, or the chain is broken.
PushEnds(a) ==
    /\ at[a] = "push" /\ Go(a, "pushed")
    /\ pushHalted' \in {pushHalted, TRUE}
    /\ UNCHANGED <<loopState, rerun, manualRerun, pauseRequested, syncDisabled, timer, wanted, faults>>
    /\ Outside

PushRecorded(a) ==
    /\ at[a] = "pushed" /\ Go(a, "pull") /\ Move("push_drained")
    /\ UNCHANGED <<flags, timer, wanted, faults>> /\ Outside

\* A page was committed with more to come, and shouldContinue says no.
PullPaused(a) ==
    /\ at[a] = "pull" /\ pauseRequested
    /\ Go(a, "none") /\ Move("pull_paused")
    /\ pauseRequested' = FALSE
    /\ UNCHANGED <<rerun, manualRerun, syncDisabled, pushHalted, timer, wanted, faults>> /\ Outside

\* The last page is in; the bundle is refreshed if that is due.
PullDrained(a) ==
    /\ at[a] = "pull"
    /\ \/ Go(a, "bundle") /\ UNCHANGED loopState
       \/ Go(a, "drained") /\ Move("pull_drained")
    /\ UNCHANGED <<flags, timer, wanted, faults>> /\ Outside

BundleRefreshed(a) ==
    /\ at[a] = "bundle" /\ Go(a, "drained") /\ Move("pull_drained")
    /\ UNCHANGED <<flags, timer, wanted, faults>> /\ Outside

\* Mutant: only a press reruns.
RerunDueIfPressed == manualRerun /\ MayStart /\ ~pauseRequested

\* The end of runCycle.  A rerun from a state that takes no trigger throws,
\* and the activation ends with it.
RerunDue == rerun /\ MayStart /\ ~pauseRequested
CycleEnds(a) ==
    /\ at[a] = "drained"
    /\ pauseRequested' = FALSE
    /\ IF RerunDue /\ CanMove("trigger") THEN Begin(a, "trigger")
       ELSE Go(a, "none") /\ UNCHANGED <<loopState, rerun, manualRerun, wanted>>
    /\ UNCHANGED <<syncDisabled, pushHalted, timer, faults>> /\ Outside
-----------------------------------------------------------------------------
(* handleCycleFailure.                                                     *)

\* disableSync up to its await.
Disable(a) ==
    /\ Go(a, "revoking") /\ Move("device_revoked")
    /\ syncDisabled' = TRUE /\ rerun' = FALSE /\ timer' = FALSE
    /\ UNCHANGED <<manualRerun, pushHalted, wanted>>

\* Into backoff; a retired loop records nothing.
BackOff(a) ==
    /\ Move("transport_failure")
    /\ Go(a, IF stopped THEN "none" ELSE "failing")
    /\ UNCHANGED <<rerun, manualRerun, syncDisabled, pushHalted, timer, wanted>>

Await(a, where) ==
    /\ Go(a, where)
    /\ UNCHANGED <<loopState, rerun, manualRerun, syncDisabled, pushHalted, timer, wanted>>

\* A request of the cycle failed: no connection, DEVICE_REVOKED, an unknown
\* token, or a pulled op this build cannot fold.
CycleFails(a) ==
    /\ at[a] \in {"push", "pull", "bundle"}
    /\ faults < MaxFaults /\ faults' = faults + 1
    /\ pauseRequested' = FALSE
    /\ \/ BackOff(a)
       \/ Disable(a)
       \/ Await(a, "refused")
       \/ at[a] = "pull" /\ ~stopped /\ Await(a, "updating")
    /\ Outside

\* The streak is stored: three refusals over ten minutes disable sync.
RefusalRecorded(a) ==
    /\ at[a] = "refused"
    /\ BackOff(a) \/ Disable(a)
    /\ UNCHANGED <<pauseRequested, faults>> /\ Outside

\* An update is required: the bundle was refreshed anyway, or not.
UpdateNoted(a) ==
    /\ at[a] = "updating"
    /\ BackOff(a)
    /\ UNCHANGED <<pauseRequested, faults>> /\ Outside

DisableRecorded(a) ==
    /\ at[a] = "revoking" /\ Await(a, "none")
    /\ UNCHANGED <<pauseRequested, faults>> /\ Outside

\* The failure is stored.  A press that came meanwhile gets its own attempt;
\* otherwise the retry timer is armed, whatever it was before.
FailureRecorded(a) ==
    /\ at[a] = "failing"
    /\ \/ /\ manualRerun /\ ~syncDisabled
          /\ timer' = FALSE
          /\ IF CanMove("trigger") THEN Begin(a, "trigger")
             ELSE Go(a, "none") /\ manualRerun' = FALSE /\ UNCHANGED <<loopState, rerun, wanted>>
       \/ /\ ~(manualRerun /\ ~syncDisabled)
          /\ timer' = TRUE
          /\ Go(a, "none") /\ UNCHANGED <<loopState, rerun, manualRerun, wanted>>
    /\ UNCHANGED <<pauseRequested, syncDisabled, pushHalted, faults>> /\ Outside
-----------------------------------------------------------------------------
Init ==
    /\ loopState = "idle" /\ at = [a \in Act |-> "none"]
    /\ rerun = FALSE /\ manualRerun = FALSE /\ pauseRequested = FALSE /\ stopped = FALSE
    /\ syncDisabled \in BOOLEAN /\ pushHalted \in BOOLEAN      \* hydrate()
    /\ timer = FALSE /\ wanted = FALSE /\ paused = FALSE
    /\ calls = 0 /\ faults = 0

CycleStep(a) ==
    \/ PushEnds(a) \/ PushRecorded(a) \/ PullPaused(a) \/ PullDrained(a) \/ BundleRefreshed(a)
    \/ CycleEnds(a) \/ RefusalRecorded(a) \/ UpdateNoted(a) \/ DisableRecorded(a)
    \/ FailureRecorded(a)

Next ==
    \/ \E reason \in Reasons : RequestSync(reason)
    \/ Pause \/ Stop \/ TimerFires
    \/ \E a \in Act : CycleStep(a) \/ CycleFails(a)

\* Every await of a cycle settles and an armed timer fires; nobody need ever
\* trigger, pause or stop the loop.
LoopFairness == (\A a \in Act : WF_loopVars(CycleStep(a))) /\ WF_loopVars(TimerFires)
LoopSpec == Init /\ [][Next]_loopVars /\ LoopFairness
-----------------------------------------------------------------------------
\* States, awaits and flags are of their kinds.
LoopTypeOK ==
    /\ loopState \in States /\ at \in [Act -> Awaits]
    /\ rerun \in BOOLEAN /\ manualRerun \in BOOLEAN /\ pauseRequested \in BOOLEAN
    /\ stopped \in BOOLEAN /\ syncDisabled \in BOOLEAN /\ pushHalted \in BOOLEAN
    /\ timer \in BOOLEAN /\ wanted \in BOOLEAN /\ paused \in BOOLEAN
    /\ calls \in 0..MaxTriggers /\ faults \in 0..MaxFaults

InFlight == {a \in Act : at[a] \in Pushing \cup Pulling \cup {"refused"}}

\* "Single-flight": however triggers, retries and reruns interleave with the
\* tails of earlier cycles, one cycle pushes or pulls, the machine's state is
\* that cycle's, and it never says busy with no cycle left to end it.
SingleFlight ==
    /\ \A a, b \in InFlight : a = b
    /\ Busy <=> InFlight # {}
    /\ \A a \in InFlight : /\ at[a] \in Pushing => loopState = "pushing"
                           /\ at[a] \in Pulling => loopState = "pulling"

Starts(a) == /\ at[a] \in {"none", "drained", "failing"}
             /\ at'[a] \in {"push", "pull"}

\* A loop that was stopped, or told its device is revoked, starts no cycle
\* again: not from a rerun, not from a press, not from a timer armed late.
RetiredNeverStarts ==
    [][stopped \/ syncDisabled => \A a \in Act : ~Starts(a)]_loopVars

\* A trigger that finds a cycle running is answered by a cycle begun after it,
\* unless the loop is retired first: neither a failure of the running cycle
\* nor another cycle's end loses it.
TriggerAnswered == wanted ~> (~wanted \/ stopped \/ syncDisabled)

\* A loop in backoff leaves it, with nobody triggering: some timer stays armed
\* through every press, failure and cancelled retry.
BackoffEnds == loopState = "backoff" ~> (loopState # "backoff" \/ stopped \/ syncDisabled)

\* "The running cycle stops at its next batch boundary and no rerun follows",
\* and "a pause that arrived too late to stop the pull still suppresses the
\* rerun" (loop.ts): a cycle that ends after pause() starts no other.
PauseSuppressesRerun ==
    [][\A a \in Act : paused /\ at[a] = "drained" => ~Starts(a)]_loopVars
=============================================================================
