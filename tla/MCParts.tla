-------------------------------- MODULE MCParts --------------------------------
(***************************************************************************)
(* The components about what must run, which share no state with each      *)
(* other: a behaviour chooses one of them and runs it while the rest stay  *)
(* as they begin.  Where nothing has begun nothing is enabled that is      *)
(* promised to happen, so the fairness of every part can be assumed of     *)
(* each behaviour.                                                         *)
(***************************************************************************)
EXTENDS SyncLoop, TenantQueue, QrisCharge, MediaUpload, Realtime

VARIABLE part  \* the component that runs

MCTenantOf == [p \in Task |-> CASE p = "p4" -> "u" [] p = "p5" -> "v" [] OTHER -> "t"]

PartsInit ==
    /\ Init /\ QueueInit /\ ChargeInit /\ MediaInit /\ RealtimeInit
    /\ part \in {"loop", "queue", "qris", "media", "realtime"}
    /\ part # "loop" => ~syncDisabled /\ ~pushHalted
PartsNext ==
    /\ UNCHANGED part
    /\ \/ part = "loop" /\ Next /\ UNCHANGED <<queueVars, chargeVars, mediaVars, realtimeVars>>
       \/ part = "queue" /\ QueueNext /\ UNCHANGED <<loopVars, chargeVars, mediaVars, realtimeVars>>
       \/ part = "qris" /\ ChargeNext /\ UNCHANGED <<loopVars, queueVars, mediaVars, realtimeVars>>
       \/ part = "media" /\ MediaNext /\ UNCHANGED <<loopVars, queueVars, chargeVars, realtimeVars>>
       \/ part = "realtime" /\ RealtimeNext /\ UNCHANGED <<loopVars, queueVars, chargeVars, mediaVars>>
PartsSpec ==
    /\ PartsInit /\ [][PartsNext]_<<loopVars, queueVars, chargeVars, mediaVars, realtimeVars, part>>
    /\ LoopFairness /\ QueueFairness /\ ChargeFairness /\ MediaFairness /\ RealtimeFairness

\* Every part's state is of its type.
PartsTypeOK == LoopTypeOK /\ QueueTypeOK /\ ChargeTypeOK /\ MediaTypeOK /\ RealtimeTypeOK
=============================================================================
