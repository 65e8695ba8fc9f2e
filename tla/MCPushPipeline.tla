--------------------------- MODULE MCPushPipeline ---------------------------
(* Two registrations of one phone and a small repertoire of pushed ops:    *)
(* honest ones, a rival at a taken position, one re-signed under the       *)
(* second registration, one badly signed, one whose id is another tenant's.*)
EXTENDS PushPipeline

CONSTANTS d1, d2, a, b, c, f

MCDevices == {d1, d2}

MkOp(id, d, n, prev, key) ==
    [id |-> id, dev |-> d, seq |-> n, prev |-> prev, hash |-> <<id, d, n>>, sig |-> key]

MCOp ==
    { MkOp(a, d1, 1, Genesis, d1),
      MkOp(b, d1, 2, <<a, d1, 1>>, d1),
      MkOp(a, d2, 1, Genesis, d2),        \* carried over from d1
      MkOp(c, d1, 2, <<a, d1, 1>>, d2),   \* signed with the wrong key
      MkOp(f, d1, 1, Genesis, d1) }       \* rival for position 1; another tenant holds the id

MCForeignIds == {f}
=============================================================================
