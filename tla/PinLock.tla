-------------------------------- MODULE PinLock --------------------------------
(***************************************************************************)
(* One user's PIN on one device (packages/core/src/auth: pin-verify.ts,    *)
(* lockout.ts, pin-flows.ts): attempts, an owner's clearing of a lockout   *)
(* and the reset after a new PIN take turns behind the attempt lock, each  *)
(* over several awaits; a new PIN itself commits without it, and the app   *)
(* may be killed at any await.  The stored row is [failures, notBefore].   *)
(***************************************************************************)
EXTENDS Integers, Sequences

CONSTANTS
    FreeAttempts,   \* PIN_FREE_ATTEMPTS
    Threshold,      \* PIN_HARD_LOCK_THRESHOLD
    Delay,          \* delayMsForFailureCount
    MaxTasks,       \* bound: calls that wait for the lock
    MaxTime,        \* bound: the last moment
    MaxPins         \* bound: PINs the user has had

ASSUME PinConstants ==
    /\ FreeAttempts \in Nat \ {0} /\ Threshold \in Nat /\ FreeAttempts < Threshold
    /\ Delay \in [0..Threshold -> Nat]
    /\ MaxTasks \in Nat \ {0} /\ MaxTime \in Nat /\ MaxPins \in Nat \ {0}

VARIABLES
    row,      \* pin_attempt_state
    pin,      \* which PIN the stored verifier is of
    now,      \* the clock
    tasks,    \* the attempt chain: the first runs, the others wait
    guesses,  \* history: wrong PINs put to the KDF since the count last went to 0
    alerts    \* history: how many auth.pin_locked_out were emitted for a row that was not locked
pinVars == <<row, pin, now, tasks, guesses, alerts>>

ClearedRow == [failures |-> 0, notBefore |-> 0]

PinInit ==
    /\ row = ClearedRow /\ pin = 1 /\ now = 0 /\ tasks = <<>>
    /\ guesses = 0 /\ alerts = 0

Runs(kind, at) == tasks # <<>> /\ Head(tasks).kind = kind /\ Head(tasks).at = at
Becomes(task) == tasks' = <<task>> \o Tail(tasks)
Ends == tasks' = Tail(tasks)
Cleared == row' = ClearedRow /\ guesses' = 0

LockedOut(r) == r.failures >= Threshold
Gated(r) == LockedOut(r) \/ (r.failures >= FreeAttempts /\ now < r.notBefore)
\* recordFailure.
Failure(r) == LET n == r.failures + 1
              IN  [failures |-> n, notBefore |-> IF Delay[n] > 0 THEN now + Delay[n] ELSE 0]

Waits(task) == Len(tasks) < MaxTasks /\ tasks' = Append(tasks, task)

\* verifyPin with some PIN the user has or had, or none of them, and
\* clearPinLockoutFlow, chained to what runs already.
Submit ==
    /\ \/ \E given \in 0..pin : Waits([kind |-> "verify", at |-> "queued", given |-> given])
       \/ Waits([kind |-> "clear", at |-> "queued"])
    /\ UNCHANGED <<row, pin, now, guesses, alerts>>

\* runAttempt: the row is read, and a gated attempt ends.
Gate ==
    /\ Runs("verify", "queued")
    /\ IF Gated(row) THEN Ends
       ELSE Becomes([kind |-> "verify", at |-> "read", given |-> Head(tasks).given, before |-> row])
    /\ UNCHANGED <<row, pin, now, guesses, alerts>>

\* Mutant: only what the KDF refused is counted, after it.
BankNothing ==
    /\ Runs("verify", "read")
    /\ Becomes([kind |-> "verify", at |-> "banked", given |-> Head(tasks).given,
                before |-> Head(tasks).before, against |-> pin])
    /\ UNCHANGED <<row, pin, now, guesses, alerts>>
\* The verifier is read, and the failure counted before the KDF runs.
Bank ==
    /\ Runs("verify", "read")
    /\ row' = Failure(Head(tasks).before)
    /\ Becomes([kind |-> "verify", at |-> "banked", given |-> Head(tasks).given,
                before |-> Head(tasks).before, against |-> pin])
    /\ UNCHANGED <<pin, now, guesses, alerts>>

\* The KDF.
Derive ==
    /\ Runs("verify", "banked")
    /\ Becomes([Head(tasks) EXCEPT !.at = "derived"])
    /\ guesses' = IF Head(tasks).given = Head(tasks).against THEN guesses ELSE guesses + 1
    /\ UNCHANGED <<row, pin, now, alerts>>

\* A right PIN clears the row; the last wrong one emits auth.pin_locked_out.
SettleTask ==
    /\ Runs("verify", "derived") /\ Ends
    /\ IF Head(tasks).given = Head(tasks).against THEN Cleared /\ UNCHANGED alerts
       ELSE /\ UNCHANGED <<row, guesses>>
            /\ alerts' = IF LockedOut(Failure(Head(tasks).before)) /\ ~LockedOut(row)
                         THEN alerts + 1 ELSE alerts
    /\ UNCHANGED <<pin, now>>

\* An owner's clear: the row must be locked; its op commits, then the row is written.
StartClear ==
    /\ Runs("clear", "queued")
    /\ IF LockedOut(row) THEN Becomes([kind |-> "clear", at |-> "emitted"]) ELSE Ends
    /\ UNCHANGED <<row, pin, now, guesses, alerts>>
EndClear ==
    /\ Runs("clear", "emitted") /\ Ends /\ Cleared
    /\ UNCHANGED <<pin, now, alerts>>

\* Mutant: the count is reset at once, without the attempt lock.
NewPinUnlocked ==
    /\ pin < MaxPins /\ pin' = pin + 1 /\ Cleared
    /\ UNCHANGED <<now, tasks, alerts>>
\* emitVerifierChange: op, verifier and queued upload commit together; the
\* reset is then chained, unless the app is killed first.
NewPin ==
    /\ pin < MaxPins /\ pin' = pin + 1
    /\ \/ Waits([kind |-> "reset", at |-> "queued"]) /\ UNCHANGED <<row, guesses>>
       \/ tasks' = <<>> /\ UNCHANGED <<row, guesses>>
    /\ UNCHANGED <<now, alerts>>
Reset ==
    /\ Runs("reset", "queued") /\ Ends /\ Cleared
    /\ UNCHANGED <<pin, now, alerts>>

\* The app is killed: what waits and what runs is gone.
Killed == tasks # <<>> /\ tasks' = <<>> /\ UNCHANGED <<row, pin, now, guesses, alerts>>

TimePasses == now < MaxTime /\ now' = now + 1 /\ UNCHANGED <<row, pin, tasks, guesses, alerts>>

PinNext ==
    \/ Submit \/ Gate \/ Bank \/ Derive \/ SettleTask \/ StartClear \/ EndClear
    \/ NewPin \/ Reset \/ Killed \/ TimePasses
PinSpec == PinInit /\ [][PinNext]_pinVars

----------------------------------------------------------------------------
PinTypeOK ==
    /\ row.failures \in 0..Threshold /\ row.notBefore \in Nat
    /\ pin \in 1..MaxPins /\ now \in 0..MaxTime /\ Len(tasks) <= MaxTasks

\* "10 consecutive failures, not 10 x callers", nor one more per kill or per
\* new PIN (pin-verify.ts): however attempts, clears, resets and kills come,
\* no more wrong PINs reach the KDF than the row counts, and auth.pin_locked_out
\* is never emitted for a user whose row does not read locked.
AttemptsAreCounted == guesses <= row.failures /\ row.failures <= Threshold /\ alerts = 0
=============================================================================
