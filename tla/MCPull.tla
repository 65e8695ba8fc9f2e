-------------------------------- MODULE MCPull --------------------------------
(* One device with two records it may have to ask permission for: "a" of   *)
(* its own and another device's changes, "b" of a device that enrols late. *)
EXTENDS PullPhase

MCRecordOf == [o \in Op |-> IF o \in {"a1", "m"} THEN "a" ELSE IF o = "g" THEN "free" ELSE "b"]
MCModuleOf == [r \in Record |-> IF r = "a" THEN "A" ELSE "B"]
MCPlace == [o \in Op |-> CASE o = "m" -> 1 [] o = "a1" -> 2 [] o = "b1" -> 3 [] o = "g" -> 4]
MCReadOf == [r \in Record |-> IF r = "free" THEN "everyone" ELSE r]
MCAuthorOf == [o \in Op |-> CASE o = "m" -> "me" [] o = "b1" -> "late" [] OTHER -> "peer"]
=============================================================================
