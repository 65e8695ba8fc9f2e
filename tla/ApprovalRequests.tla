--------------------------- MODULE ApprovalRequests ---------------------------
(***************************************************************************)
(* Asking for a decision one may not make (packages/modules/src/approvals) *)
(* about a servisan: a lower price or a cancel.  Whoever holds the         *)
(* decision approves, which records the approval and, by the same command, *)
(* the decision as their own; or rejects; or the asker withdraws.  A       *)
(* request is its own entity: its answer only updates a row that is there. *)
(***************************************************************************)
EXTENDS RepairTicket

Kinds == {"discount", "cancel"}
Answers == {"approved", "rejected", "withdrawn"}

\* What a request depends on: where the servisan is, how it stands, its price
\* and how many lines it has ever had.
Basis(r) == <<r.ticket.outcome, r.ticket.location, r.ticket.total, Cardinality(DOMAIN r.lines)>>
Unchanged(r, asked) ==
    r.ticket.opened /\ Basis(r) = asked.basis /\ (asked.kind = "cancel" => Open(r.ticket))

Waiting(r, id) == id \in DOMAIN r.requests /\ r.requests[id].status = "waiting"
\* What a screen still offers to answer: a waiting request whose servisan has not moved on.
Answerable(r, id) == Waiting(r, id) /\ Unchanged(r, r.requests[id])
Asked(op) == [kind |-> op.how, amount |-> op.amount, basis |-> op.basis, by |-> op.by, status |-> "waiting"]

RequestAllows(r, op) ==
    CASE op.type = "asked" ->
             /\ Unchanged(r, Asked(op))
             /\ \A id \in DOMAIN r.requests \ {op.id} :
                    ~(Waiting(r, id) /\ r.requests[id].kind = op.how /\ r.requests[id].basis = op.basis)
      [] op.type = "approved" -> /\ Waiting(r, op.id) /\ op.by \in Decider \ {r.requests[op.id].by}
                                 /\ Unchanged(r, r.requests[op.id])
      [] op.type = "rejected" -> Waiting(r, op.id) /\ op.by \in Decider \ {r.requests[op.id].by}
      [] op.type = "withdrawn" -> Waiting(r, op.id) /\ op.by = r.requests[op.id].by

\* The first answer to fold settles the request.
FoldRequest(r, op) ==
    CASE op.type = "asked" -> [r EXCEPT !.requests = Filed(@, op.id, Asked(op))]
      [] op.type \in Answers /\ Waiting(r, op.id) -> [r EXCEPT !.requests[op.id].status = op.type]
      [] OTHER -> r

\* The decision an approval runs, as the approver: a lower price is a line.
Decision(r, id, line) ==
    LET asked == r.requests[id]
        change == IF asked.kind = "cancel" THEN Act("cancelled")
                  ELSE [Act("changed") EXCEPT !.id = line, !.amount = asked.amount]
    IN <<[change EXCEPT !.answers = id]>>

-----------------------------------------------------------------------------
(* The two entities together. *)

IsRequestOp(op) == op.type \in Answers \union {"asked"}
Allows(r, op) == IF IsRequestOp(op) THEN RequestAllows(r, op) ELSE TicketAllows(r, op)
FoldOp(r, op) == IF IsRequestOp(op) THEN FoldRequest(r, op) ELSE FoldTicket(r, op)
=============================================================================
