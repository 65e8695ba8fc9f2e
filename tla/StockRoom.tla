------------------------------ MODULE StockRoom ------------------------------
(***************************************************************************)
(* One part of a store's stock, and the order that brings more of it       *)
(* (packages/modules/src/inventory and purchasing), as phones record them  *)
(* and the server judges them (JudgedRecords), next to the shelf itself.   *)
(***************************************************************************)
EXTENDS Phones

CONSTANTS StockStories, \* what happened before, with who did it
          Keeper,       \* who works with the part
          MaxStockSteps \* bound: commands run after that
ASSUME StockAssumption == Keeper \subseteq Person

VARIABLES shelf,  \* history: how many of the part are on the shelf
          bench,  \* history: how many are out on the servisan
          refused \* history: what moved though nobody could record it any more
stockVars == <<shelf, bench, refused>>

-----------------------------------------------------------------------------
(* The fold.  A movement is a row of its own, a count among them; `ordered` *)
(* is how many of the part the order's lines name, 0 when it is not on     *)
(* them.                                                                   *)

NoStock == [movements |-> <<>>, archived |-> FALSE, archivedAt |-> 0, receipts |-> <<>>,
            status |-> "none", ordered |-> 0, orderedAt |-> 0, cancelledAt |-> 0]
Movements == {"stockCounted", "itemTaken", "itemPutBack", "stockReceived"}
Movement(op) == [kind |-> op.type, qty |-> op.amount, source |-> op.source, at |-> op.at]
FoldStock(r, op) ==
    CASE op.type \in Movements -> [r EXCEPT !.movements = Filed(@, op.id, Movement(op))]
      [] op.type = "itemEdited" -> [r EXCEPT !.archived = op.archives, !.archivedAt = op.at]
      [] op.type = "orderDrafted" -> [r EXCEPT !.status = "draft", !.ordered = op.amount]
      [] op.type = "orderEdited" -> [r EXCEPT !.ordered = op.amount]
      [] op.type = "orderPlaced" -> [r EXCEPT !.status = "ordered", !.orderedAt = op.at]
      [] op.type = "orderCancelled" -> [r EXCEPT !.status = "cancelled", !.cancelledAt = op.at]
      [] op.type = "orderReceived" -> [r EXCEPT !.receipts = Filed(@, op.id, op.amount)]
      [] OTHER -> r
StockClashes(r, op) == op.id \in IF op.type = "orderReceived" THEN DOMAIN r.receipts
                                 ELSE IF op.type \in Movements THEN DOMAIN r.movements ELSE {}

\* The latest count, by the phones' clocks, and what moved after it by the same clocks.
Put(m) == CASE m.kind = "stockCounted" -> 0 [] m.kind = "itemTaken" -> -m.qty [] OTHER -> m.qty
StockCounts(moved) == {id \in DOMAIN moved : moved[id].kind = "stockCounted"}
LatestCount(moved) == CHOOSE c \in StockCounts(moved) : \A other \in StockCounts(moved) : moved[other].at <= moved[c].at
SumPut(moved, ids) == SumFunction([id \in ids |-> Put(moved[id])])
OnHand(moved) ==
    IF StockCounts(moved) = {} THEN SumPut(moved, DOMAIN moved)
    ELSE LET count == moved[LatestCount(moved)]
         IN count.qty + SumPut(moved, {id \in DOMAIN moved : moved[id].at > count.at})
\* There is one use: a servisan in work.
OutOnUse(r) == -SumPut(r.movements, {id \in DOMAIN r.movements : r.movements[id].kind \in {"itemTaken", "itemPutBack"}})
Arrived(r) == SumFunction(r.receipts)
InFull(r) == r.ordered > 0 /\ Arrived(r) >= r.ordered

-----------------------------------------------------------------------------
(* The rules. *)

\* A take recorded before the part was archived still counts, and so does a
\* receipt recorded while the order stood.
ItemTakenAllows(r, op) == ~(r.archived /\ r.archivedAt <= op.at)
ReceivedBeforeCancel(r, op) == /\ r.status = "cancelled" /\ r.orderedAt # 0 /\ r.cancelledAt # 0
                               /\ op.at >= r.orderedAt /\ op.at < r.cancelledAt
\* Mutant: a receipt waits for the order to stand when the server judges it.
OrderReceivedIfOrdered(r, op) == r.status = "ordered" /\ r.ordered > 0
OrderReceivedAllows(r, op) == (r.status = "ordered" \/ ReceivedBeforeCancel(r, op)) /\ r.ordered > 0
\* What comes into stock is what a receipt lists, once.
StockReceivedAllows(r, op) ==
    /\ op.source \in DOMAIN r.receipts /\ r.receipts[op.source] = op.amount
    /\ \A id \in DOMAIN r.movements : r.movements[id].source # op.source
OrderCancelledAllows(r) == r.status \notin {"none", "cancelled"} /\ ~(r.status = "ordered" /\ InFull(r))

StockAllows(r, op) ==
    ~StockClashes(r, op) /\
    CASE op.type = "itemTaken" -> ItemTakenAllows(r, op)
      [] op.type = "itemPutBack" -> op.amount <= OutOnUse(r)
      [] op.type = "stockReceived" -> StockReceivedAllows(r, op)
      [] op.type = "orderReceived" -> OrderReceivedAllows(r, op)
      [] op.type = "orderCancelled" -> OrderCancelledAllows(r)
      [] op.type = "orderDrafted" -> r.status = "none"
      [] op.type \in {"orderEdited", "orderPlaced"} -> r.status = "draft"
      [] OTHER -> TRUE

Stock == INSTANCE JudgedRecords WITH Empty <- NoStock, FoldOp <- FoldStock, Allows <- StockAllows,
             Clashes <- StockClashes, Stories <- StockStories, MaxCommands <- MaxStockSteps

-----------------------------------------------------------------------------
(* What people do. *)

One(type, d) == [Act(type) EXCEPT !.id = NewId(d), !.amount = 1]

TakePart(d) ==
    /\ shelf > 0
    /\ Stock!Run(d, <<One("itemTaken", d)>>)
    /\ shelf' = shelf - 1 /\ bench' = bench + 1 /\ UNCHANGED refused
PutBackPart(d) ==
    /\ bench > 0
    /\ Stock!Run(d, <<One("itemPutBack", d)>>)
    /\ shelf' = shelf + 1 /\ bench' = bench - 1 /\ UNCHANGED refused

\* The receipt, and the part into stock as the receipt lists it.
Receipt(d) == <<One("orderReceived", d), [One("stockReceived", d) EXCEPT !.source = NewId(d)]>>
ReceiveOrder(d) ==
    /\ Stock!PhoneRecords(d).status = "ordered"
    /\ Stock!Run(d, Receipt(d))
    /\ shelf' = shelf + 1 /\ UNCHANGED <<bench, refused>>

CountStock(d) == Stock!Run(d, <<[One("stockCounted", d) EXCEPT !.amount = shelf]>>) /\ UNCHANGED stockVars

\* Archive the part, or bring it back; change the draft, place the order, cancel it.
Manage(d) ==
    /\ \E op \in {[Act("itemEdited") EXCEPT !.archives = ~Stock!PhoneRecords(d).archived],
                  [Act("orderEdited") EXCEPT !.amount = 0], Act("orderPlaced"), Act("orderCancelled")} :
          Stock!Run(d, <<op>>)
    /\ UNCHANGED stockVars

\* What the server no longer takes, since before it was recorded someone had
\* archived the part or cancelled the order; the put-back of what could not be
\* taken, or of what another person took or put back too; and the
\* receipt of an order whose draft was changed or dropped before the server
\* heard that it was placed.
Overtaken(op, accepted, ops) ==
    LET before(type) == \E past \in Range(accepted) : past.type = type /\ past.at < op.at
        refuses(type) == \E other \in Range(ops) \ Range(accepted) : other.type = type
        shared == \E past \in Range(accepted) : past.type \in {"itemTaken", "itemPutBack"} /\ past.by # op.by
        changed == \E past \in Range(accepted) : past.type = "orderEdited"
    IN CASE op.type = "itemTaken" -> before("itemEdited")
         [] op.type = "itemPutBack" -> refuses("itemTaken") \/ shared
         [] op.type = "stockReceived" -> before("orderCancelled") \/ changed \/ refuses("orderPlaced")
         [] OTHER -> FALSE
PushStock(d) ==
    /\ Stock!Push(d)
    /\ LET gone == {op \in Range(own[d]) : op.type \in Movements /\ op \notin Range(taken') /\ Overtaken(op, taken', own[d])}
       IN refused' = [id \in {op.id : op \in gone} |-> Movement(CHOOSE op \in gone : op.id = id)] @@ refused
    /\ UNCHANGED <<shelf, bench>>

StockInit ==
    /\ Stock!Opens({0})
    /\ shelf = OnHand(Stock!ServerRecords.movements) /\ bench = 0 /\ refused = <<>>
StockEmpty == shelf = 0 /\ bench = 0 /\ refused = <<>>
StockNext ==
    \E d \in Keeper :
       \/ /\ Stock!More
          /\ TakePart(d) \/ PutBackPart(d) \/ ReceiveOrder(d) \/ CountStock(d) \/ Manage(d)
       \/ PushStock(d)
       \/ Stock!Pull(d) /\ UNCHANGED stockVars
StockSpec == StockInit /\ [][StockNext]_<<shopVars, stockVars>>

-----------------------------------------------------------------------------
(* Properties. *)

\* There is never less than nothing on the shelf, and nobody has pulled past
\* what the server accepted.
StockTypeOK == shelf \in Nat /\ bench \in Nat /\ \A d \in Keeper : fetched[d] \in 0..Len(taken)

\* The recorded stock is what is on the shelf: whoever took, put back, received
\* or counted without having heard of the others, and in whatever order it
\* reached the server, nothing that moved while it could be recorded is
\* refused, comes in twice, or is both in a count and next to it
\* (inventory/queries.ts stockByPart, inventory/rules.ts itemTakenRule,
\* stockReceivedRule, purchasing/rules.ts orderReceivedRule).
StockFollowsShelf == AllPushed => OnHand(refused @@ Stock!ServerRecords.movements) = shelf
=============================================================================
