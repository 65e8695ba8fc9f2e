----------------------------- MODULE RepairTicket -----------------------------
(***************************************************************************)
(* A servisan as its operations fold to it, and the rules that judge each  *)
(* operation (packages/modules/src/repair).  The rules run on the phone    *)
(* that records and again on the server, in the order operations arrive;   *)
(* both sides fold in canonical order, by the clocks of the phones.        *)
(*                                                                         *)
(* What is kept of a record: the ticket's row, its price lines, and the    *)
(* history of folded operations, which a ticket opened late replays.       *)
(***************************************************************************)
EXTENDS Phones

CONSTANT Price  \* the price the ticket is taken in at
ASSUME PriceAssumption == Price \in Nat

NoTicket == [opened |-> FALSE, outcome |-> "received", location |-> "in_store",
             technician |-> NoOne, total |-> 0, returnedAt |-> 0]
Empty == [ticket |-> NoTicket, lines |-> <<>>, history |-> <<>>, requests |-> <<>>]

HasLine(r, id) == id \in DOMAIN r.lines
Undecided(r) == {id \in DOMAIN r.lines : r.lines[id].status = "proposed"}
Sum(lines, statuses) ==
    SumFunction([id \in {id \in DOMAIN lines : lines[id].status \in statuses} |-> lines[id].amount])

-----------------------------------------------------------------------------
(* The rules. *)

Open(t) == t.location # "returned" /\ t.outcome # "cancelled"
WorkSteps == {"claimed", "started", "paused", "repaired", "cancelled"}
TicketTypes == WorkSteps \union {"opened", "returned", "reversed", "proposed", "changed", "declined"}
Startable == {"received", "waiting_for_parts", "repaired"}

Handovers(r, types) == {op \in Range(r.history) : op.type \in types}
LastStart(r) == Max({op.at : op \in {past \in Range(r.history) : past.type = "started"}} \union {0})
\* Marking repaired brings an after photo; one taken since work last started must be there.
Photographed(r, op) == \E done \in Range(r.history) \union {op} : done.type = "repaired" /\ done.at >= LastStart(r)

\* checkTotal: only a line that lowers the total is refused.
TotalStays(t, amount) == amount >= 0 \/ t.total + amount >= 0
MayLower(op) == op.amount >= 0 \/ op.by \in Decider

WorkAllows(t, r, op) ==
    CASE op.type = "claimed" -> Open(t) /\ t.technician = op.from /\ t.technician # op.by
      [] op.type = "started" -> Open(t) /\ t.outcome \in Startable /\ t.technician = op.by
      [] op.type = "paused" -> Open(t) /\ t.outcome \in {"received", "in_repair"}
      [] op.type = "repaired" -> Open(t) /\ t.outcome = "in_repair" /\ Photographed(r, op)
      [] op.type = "cancelled" -> Open(t) /\ t.returnedAt = 0 /\ op.by \in Decider

HandoverAllows(t, r, op) ==
    CASE op.type = "returned" -> /\ t.location # "returned" /\ t.outcome \in {"repaired", "cancelled"}
                                 /\ t.outcome = "repaired" => Undecided(r) = {}
      [] op.type = "reversed" -> t.location = "returned" /\ t.returnedAt # 0 /\ op.by \in Decider

\* The customer's yes to a line that waits for it; any other change is a new line.
Agrees(op) == op.type = "changed" /\ op.how = "agreed"
PriceAllows(t, r, op) ==
    IF op.type = "declined" THEN op.id \in Undecided(r)
    ELSE /\ Open(t) /\ MayLower(op) /\ TotalStays(t, op.amount)
         /\ IF Agrees(op) THEN op.id \in Undecided(r) ELSE ~HasLine(r, op.id)

TicketAllows(r, op) ==
    LET t == r.ticket IN
    CASE op.type = "opened" -> ~t.opened
      [] op.type \in WorkSteps -> t.opened /\ WorkAllows(t, r, op)
      [] op.type \in {"returned", "reversed"} -> t.opened /\ HandoverAllows(t, r, op)
      [] op.type \in {"proposed", "changed", "declined"} -> t.opened /\ PriceAllows(t, r, op)

-----------------------------------------------------------------------------
(* The fold. *)

\* A work step that folds after a cancel or a handover was judged before it.
PutToWork(t, outcome) == IF Open(t) THEN [t EXCEPT !.outcome = outcome] ELSE t
Repaired(t) == IF t.outcome = "cancelled" THEN t ELSE [t EXCEPT !.outcome = "repaired"]
SoonerOf(a, b) == IF a = 0 \/ b < a THEN b ELSE a

\* What one operation writes on the ticket's row.
TicketChange(t, op) ==
    CASE op.type = "claimed" /\ (op.from # NoOne \/ t.technician = NoOne) -> [t EXCEPT !.technician = op.by]
      [] op.type = "started" -> PutToWork(t, "in_repair")
      [] op.type = "paused" -> PutToWork(t, "waiting_for_parts")
      [] op.type = "repaired" -> Repaired(t)
      [] op.type = "cancelled" -> [t EXCEPT !.outcome = "cancelled"]
      [] op.type = "returned" -> [Repaired(t) EXCEPT !.returnedAt = SoonerOf(@, op.at)]
      [] OTHER -> t

\* Every update is of a row that is there.
Written(r, op) == IF r.ticket.opened THEN [r EXCEPT !.ticket = TicketChange(@, op)] ELSE r
Remembered(r, op) == [r EXCEPT !.history = Append(@, op)]
Priced(r) == IF r.ticket.opened THEN [r EXCEPT !.ticket.total = Sum(r.lines, {"intake", "applied"})] ELSE r

\* Where the phone is after all its handovers and undos, in whatever order they fold.
SettleHandover(r) ==
    LET n(type) == Cardinality(Handovers(r, {type}))
    IN IF Handovers(r, {"returned", "reversed"}) = {} \/ ~r.ticket.opened THEN r
       ELSE [r EXCEPT !.ticket.location = IF n("returned") > n("reversed") THEN "returned" ELSE "in_store"]

\* A ticket just opened replays what folded before it.
ReplayNothing(r) == SettleHandover(r)
Replaying == INSTANCE Folding WITH Step <- TicketChange, Before <- SortsBefore
ReplayEarlierChanges(r) ==
    SettleHandover([r EXCEPT !.ticket = Replaying!Along(r.ticket, r.history)])

\* The customer's yes wins over a concurrent decline.
ApproveLine(line, op) ==
    IF line.status \in {"proposed", "declined"} THEN [line EXCEPT !.amount = op.amount, !.status = "applied"] ELSE line
DeclineLine(line, op) ==
    IF line.status = "proposed" THEN [line EXCEPT !.status = "declined"] ELSE line
DecideLine(line, op) ==
    CASE line.id = op.id /\ Agrees(op) -> ApproveLine(line, op)
      [] line.id = op.id /\ op.type = "declined" -> DeclineLine(line, op)
      [] OTHER -> line
Decide(r, op) == [r EXCEPT !.lines = [id \in DOMAIN @ |-> DecideLine(@[id], op)]]

\* A price change just recorded as waiting, with the decisions on it that folded first.
Deciding == INSTANCE Folding WITH Step <- DecideLine, Before <- SortsBefore
SettleEarlierDecisions(line, history) == Deciding!Along(line, history)
LineOf(op, status) == [id |-> op.id, amount |-> op.amount, status |-> status]
AddLine(r, op, status) ==
    LET line == LineOf(op, status)
        settled == IF status = "proposed" THEN SettleEarlierDecisions(line, r.history) ELSE line
    IN [r EXCEPT !.lines = Filed(@, op.id, settled)]

\* Two folded operations that add the same line: the second insert fails on the key.
Inserts(op) == op.type = "proposed" \/ (op.type = "changed" /\ ~Agrees(op))
Clashes(r, op) == Inserts(op) /\ HasLine(r, op.id)

FoldOpened(r, op) ==
    LET opened == [r EXCEPT !.ticket = [NoTicket EXCEPT !.opened = TRUE, !.total = op.amount],
                            !.lines = Filed(@, op.id, LineOf(op, "intake"))]
    IN IF r.history = <<>> THEN opened ELSE Priced(ReplayEarlierChanges(opened))
FoldProposed(r, op) == Priced(AddLine(r, op, "proposed"))
FoldChanged(r, op) ==
    Priced(IF Agrees(op) THEN Decide(r, op)
           ELSE AddLine(r, op, IF op.how = "waits" THEN "proposed" ELSE "applied"))
FoldHandover(r, op) == SettleHandover(Remembered(Written(r, op), op))

FoldTicket(r, op) ==
    CASE op.type \in {"returned", "reversed"} -> FoldHandover(r, op)
      [] op.type = "opened" -> Remembered(FoldOpened(r, op), op)
      [] op.type = "proposed" -> Remembered(FoldProposed(r, op), op)
      [] op.type = "changed" -> Remembered(FoldChanged(r, op), op)
      [] op.type = "declined" -> Remembered(Decide(r, op), op)
      [] OTHER -> Remembered(Written(r, op), op)
=============================================================================
