------------------------------ MODULE CashDrawer ------------------------------
(***************************************************************************)
(* The cash drawer of a store (packages/modules/src/money): payments in    *)
(* cash, moves, counts and an owner's corrections, as phones record them   *)
(* and the server judges them (JudgedRecords), next to the drawer itself.  *)
(***************************************************************************)
EXTENDS Phones

CONSTANTS DrawerStories, \* what happened before, with who did it
          Cashier,       \* who is at the drawer
          MaxCashSteps   \* bound: commands run after that
\* Every record is an entry; a correction settles a count.  `mistyped` marks a
\* move of no cash, which may be voided.
EntryKinds == {"paymentReceived", "cashMoved", "cashCounted", "cashAdjusted"}
ASSUME DrawerAssumption ==
    /\ Cashier \subseteq Person /\ AreStories(DrawerStories) /\ MaxCashSteps \in Nat
    /\ \A story \in DrawerStories : \A i, j \in DOMAIN story :
           LET change == story[i].change  other == story[j].change IN
           /\ change.type \in EntryKinds \union {"cashMoveVoided"}
           /\ change.amount \in Int /\ change.id # NoLine /\ change.id \notin Person \X Nat
           /\ change.settles # NoLine => change.type = "cashAdjusted"
           /\ change.mistyped \in BOOLEAN /\ (change.mistyped => change.type = "cashMoved")
           /\ other.type \in EntryKinds /\ other.id = change.id =>
                  IF change.type = "cashMoveVoided" THEN j < i /\ other.mistyped ELSE i = j

VARIABLES drawer,  \* history: the cash that is in the drawer
          lost     \* history: the cash that went missing since it was last counted
drawerVars == <<drawer, lost>>

-----------------------------------------------------------------------------
(* The fold: every record is an entry of its own, which a void marks. *)

NoEntries == <<>>
Entry(op) == [kind |-> op.type, amount |-> op.amount, at |-> op.at, settles |-> op.settles,
              mistyped |-> op.mistyped, voided |-> FALSE]
FoldEntry(r, op) ==
    CASE op.type \in EntryKinds -> Filed(r, op.id, Entry(op))
      [] op.type = "cashMoveVoided" /\ op.id \in DOMAIN r -> [r EXCEPT ![op.id].voided = TRUE]
      [] OTHER -> r
EntryClashes(r, op) == op.type \in EntryKinds /\ op.id \in DOMAIN r

\* What an entry's lines debit the drawer by; a voided move's are reversed, and a count posts nothing.
Debits(e) ==
    CASE e.kind = "cashMoved" -> IF e.voided THEN 0 ELSE -e.amount
      [] e.kind = "cashCounted" -> 0
      [] OTHER -> e.amount
Total(r, ids) == SumFunction([id \in ids |-> Debits(r[id])])
Book(r) == Total(r, DOMAIN r)

Counts(r) == {id \in DOMAIN r : r[id].kind = "cashCounted"}
Settling(r, count) == {id \in DOMAIN r : r[id].settles = count}
IsLatest(r, count) == \A other \in Counts(r) : r[other].at <= r[count].at

\* A correction stands at the moment of the count it settled; a void's reversal at its move's.
StandsAt(r, id) == IF r[id].settles = NoLine THEN r[id].at ELSE r[r[id].settles].at
Expected(r, count) == Total(r, {id \in DOMAIN r : StandsAt(r, id) < r[count].at})
Difference(r, count) == r[count].amount - Expected(r, count)

-----------------------------------------------------------------------------
(* The rules. *)

\* Mutant: an older count may be settled too.
AdjustsAnyCount(r, op) ==
    /\ op.settles \in Counts(r)
    /\ Settling(r, op.settles) = {}
    /\ op.amount = Difference(r, op.settles)

\* What a count finds missing once more, since nobody settled the one before,
\* is corrected once: with the latest count, and as the difference is now.
CashAdjustedAllows(r, op) ==
    /\ op.settles \in Counts(r)
    /\ Settling(r, op.settles) = {}
    /\ IsLatest(r, op.settles)
    /\ op.amount = Difference(r, op.settles)

CashMoveVoidedAllows(r, op) ==
    /\ op.id \in DOMAIN r /\ r[op.id].kind = "cashMoved" /\ ~r[op.id].voided
    /\ \A count \in Counts(r) : Settling(r, count) # {} => r[count].at <= r[op.id].at

EntryAllows(r, op) ==
    CASE op.type = "cashMoveVoided" -> CashMoveVoidedAllows(r, op) /\ op.by \in Decider
      [] op.type = "cashAdjusted" -> op.id \notin DOMAIN r /\ CashAdjustedAllows(r, op) /\ op.by \in Decider
      [] OTHER -> op.id \notin DOMAIN r

Drawer == INSTANCE JudgedRecords WITH Empty <- NoEntries, FoldOp <- FoldEntry, Allows <- EntryAllows,
              Clashes <- EntryClashes, Stories <- DrawerStories, MaxCommands <- MaxCashSteps

-----------------------------------------------------------------------------
(* What people do. *)

RecordEntry(d, op) == Drawer!Run(d, <<[op EXCEPT !.id = NewId(d)]>>)

ReceivePayment(d) ==
    /\ RecordEntry(d, [Act("paymentReceived") EXCEPT !.amount = 1])
    /\ drawer' = drawer + 1 /\ UNCHANGED lost

\* Who sees what the book says takes out no more than that.
MayMove(d) == d \in Decider => Book(Drawer!PhoneRecords(d)) >= 1
MoveCash(d) ==
    /\ MayMove(d) /\ drawer > 0
    /\ RecordEntry(d, [Act("cashMoved") EXCEPT !.amount = 1])
    /\ drawer' = drawer - 1 /\ UNCHANGED lost
MistypeMove(d) ==
    /\ MayMove(d)
    /\ RecordEntry(d, [Act("cashMoved") EXCEPT !.amount = 1, !.mistyped = TRUE])
    /\ UNCHANGED drawerVars
VoidMove(d) ==
    /\ d \in Decider
    /\ LET r == Drawer!PhoneRecords(d)
       IN \E id \in {id \in DOMAIN r : r[id].mistyped} :
            Drawer!Run(d, <<[Act("cashMoveVoided") EXCEPT !.id = id]>>)
    /\ UNCHANGED drawerVars

CountCash(d) ==
    /\ RecordEntry(d, [Act("cashCounted") EXCEPT !.amount = drawer])
    /\ lost' = 0 /\ UNCHANGED drawer
\* The owner settles the difference the phone shows.
AdjustCash(d) ==
    /\ d \in Decider
    /\ LET r == Drawer!PhoneRecords(d)
       IN \E count \in Counts(r) :
            /\ Difference(r, count) # 0
            /\ RecordEntry(d, [Act("cashAdjusted") EXCEPT !.settles = count, !.amount = Difference(r, count)])
    /\ UNCHANGED drawerVars

\* What was last counted, and what was put in since and not just typed; some
\* of it may have gone missing, and nobody records that.
Moved(r, id) == r[id].kind \in {"paymentReceived", "cashMoved"} /\ ~r[id].mistyped
Since(r, count) == {id \in DOMAIN r : Moved(r, id) /\ r[id].at > r[count].at}
Left(r) == IF Counts(r) = {} THEN Total(r, {id \in DOMAIN r : Moved(r, id)})
           ELSE LET count == CHOOSE count \in Counts(r) : IsLatest(r, count)
                IN  r[count].amount + Total(r, Since(r, count))
DrawerInit ==
    /\ Drawer!Opens({0})
    /\ lost \in 0..1 /\ drawer = Left(Drawer!ServerRecords) - lost /\ drawer \in Nat
DrawerEmpty == drawer = 0 /\ lost = 0
DrawerNext ==
    \E d \in Cashier :
          \/ /\ Drawer!More
             /\ \/ ReceivePayment(d) \/ MoveCash(d) \/ MistypeMove(d)
                \/ VoidMove(d) \/ CountCash(d) \/ AdjustCash(d)
          \/ (Drawer!Push(d) \/ Drawer!Pull(d)) /\ UNCHANGED drawerVars
DrawerSpec == DrawerInit /\ [][DrawerNext]_<<shopVars, drawerVars>>

\* Nothing is in the drawer but the moves and payments people made, and
\* nobody has pulled past what the server accepted.
DrawerTypeOK ==
    /\ drawer \in Nat /\ lost \in 0..1
    /\ \A d \in Person : fetched[d] \in 0..Len(taken)

\* Once the latest count is settled, the book says what is in the drawer: no
\* difference is corrected twice or taken back, whoever counted, voided and
\* settled without having heard of the others.  What may still be off is what
\* went missing or was mistyped after the count, and what reached the server
\* after the correction from before it (money/rules.ts cashAdjustedRule,
\* cashMoveVoidedRule, countExpected).
JudgedAt(id) == CHOOSE i \in 1..Len(taken) : taken[i].type \in EntryKinds /\ taken[i].id = id
SettledIsRight ==
    LET r == Drawer!ServerRecords
        late(id, count) == \E a \in Settling(r, count) : JudgedAt(id) > JudgedAt(a) /\ r[id].at < r[count].at
        typedSince(id, count) == r[id].mistyped /\ r[id].at > r[count].at
    IN AllPushed => \A count \in Counts(r) : IsLatest(r, count) /\ Settling(r, count) # {} =>
        Book(r) = drawer + lost + Total(r, {id \in DOMAIN r : late(id, count) \/ typedSince(id, count)})
=============================================================================
