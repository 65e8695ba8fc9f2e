----------------------------- MODULE TenantQueue -----------------------------
(***************************************************************************)
(* The in-memory queue of the server's push transactions                   *)
(* (apps/server/src/sync/tenant-queue.ts): one at a time per tenant, a few *)
(* at a time in all.  A promise that settles runs what was chained to it   *)
(* in a later microtask, so other requests come in between.                *)
(***************************************************************************)
EXTENDS Integers, FiniteSets, Sequences

CONSTANTS
    Task,       \* pushes, and the payments qris/service.ts records
    TenantOf,   \* per task, its tenant
    MaxRunning, \* PUSH_CONCURRENCY
    NoTask      \* no promise

ASSUME QueueConstants == MaxRunning \in Nat \ {0} /\ NoTask \notin Task

VARIABLES
    stage,    \* per task: "new", "chained" behind the one before it, "waiting" for a slot, "running", "over"
    previous, \* per task, the promise it was chained to
    tails,    \* per tenant, the last promise of its chain, or NoTask
    slots,    \* "running": slots in use
    waiting   \* those that wait for a slot, the longest first

queueVars == <<stage, previous, tails, slots, waiting>>
Tenants == {TenantOf[p] : p \in Task}

QueueInit ==
    /\ stage = [p \in Task |-> "new"] /\ previous = [p \in Task |-> NoTask]
    /\ tails = [t \in Tenants |-> NoTask] /\ slots = 0 /\ waiting = <<>>

ChainTask(p) ==
    /\ stage[p] = "new" /\ stage' = [stage EXCEPT ![p] = "chained"]
    /\ previous' = [previous EXCEPT ![p] = tails[TenantOf[p]]]
    /\ tails' = [tails EXCEPT ![TenantOf[p]] = p]
    /\ UNCHANGED <<slots, waiting>>

Settled(p) == IF p = NoTask THEN TRUE ELSE stage[p] = "over"

\* limited, once the promise before has settled, either way.
TakeSlot(p) ==
    /\ stage[p] = "chained" /\ Settled(previous[p])
    /\ IF slots < MaxRunning
       THEN /\ slots' = slots + 1 /\ stage' = [stage EXCEPT ![p] = "running"]
            /\ UNCHANGED waiting
       ELSE /\ waiting' = Append(waiting, p) /\ stage' = [stage EXCEPT ![p] = "waiting"]
            /\ UNCHANGED slots
    /\ UNCHANGED <<previous, tails>>

\* Mutant: the slot is freed as well as handed on.
EndTwice(p) ==
    /\ stage[p] = "running" /\ slots' = slots - 1
    /\ IF waiting = <<>>
       THEN /\ stage' = [stage EXCEPT ![p] = "over"] /\ UNCHANGED waiting
       ELSE /\ waiting' = Tail(waiting)
            /\ stage' = [stage EXCEPT ![p] = "over", ![Head(waiting)] = "running"]
    /\ UNCHANGED <<previous, tails>>
\* Mutant: the slot is freed, and who waits for one is left waiting.
EndFreeing(p) ==
    /\ stage[p] = "running" /\ slots' = slots - 1
    /\ stage' = [stage EXCEPT ![p] = "over"]
    /\ UNCHANGED <<waiting, previous, tails>>
\* The transaction ends, well or not: its slot goes to the longest-waiting push.
End(p) ==
    /\ stage[p] = "running"
    /\ IF waiting = <<>>
       THEN /\ slots' = slots - 1 /\ stage' = [stage EXCEPT ![p] = "over"]
            /\ UNCHANGED waiting
       ELSE /\ waiting' = Tail(waiting)
            /\ stage' = [stage EXCEPT ![p] = "over", ![Head(waiting)] = "running"]
            /\ UNCHANGED slots
    /\ UNCHANGED <<previous, tails>>

\* Mutant: the tenant's chain is forgotten although it went on.
ForgetAny(p) ==
    /\ stage[p] = "over" /\ tails[TenantOf[p]] # NoTask
    /\ tails' = [tails EXCEPT ![TenantOf[p]] = NoTask]
    /\ UNCHANGED <<stage, previous, slots, waiting>>
Forget(p) ==
    /\ stage[p] = "over" /\ tails[TenantOf[p]] = p
    /\ tails' = [tails EXCEPT ![TenantOf[p]] = NoTask]
    /\ UNCHANGED <<stage, previous, slots, waiting>>

QueueNext == \E p \in Task : ChainTask(p) \/ TakeSlot(p) \/ End(p) \/ Forget(p)
QueueSpec == QueueInit /\ [][QueueNext]_queueVars

\* Microtasks run, and the database ends every transaction.
QueueFairness == \A p \in Task : WF_queueVars(TakeSlot(p)) /\ WF_queueVars(End(p))

----------------------------------------------------------------------------
QueueTypeOK ==
    /\ stage \in [Task -> {"new", "chained", "waiting", "running", "over"}]
    /\ previous \in [Task -> Task \cup {NoTask}] /\ tails \in [Tenants -> Task \cup {NoTask}]
    /\ slots \in 0..MaxRunning /\ waiting \in Seq(Task)

Running == {p \in Task : stage[p] = "running"}
Behind(p) == stage[p] \in {"waiting", "running"}

\* "One push at a time per tenant, and only a few tenants' pushes at once"
\* (tenant-queue.ts): pushes chained, forgotten and handed slots in any order
\* never run two for a tenant, nor more than the limit, nor leave a slot
\* unused while a push waits for one.
PushesAreBounded ==
    /\ \A p, q \in Task : Behind(p) /\ Behind(q) /\ TenantOf[p] = TenantOf[q] => p = q
    /\ Cardinality(Running) = slots /\ slots <= MaxRunning
    /\ waiting # <<>> => slots = MaxRunning

\* "A failed push must not wedge the tenant", nor a burst of others starve it.
EveryPushRuns == \A p \in Task : stage[p] = "chained" ~> stage[p] = "over"
=============================================================================
