------------------------------- MODULE MCRecords -------------------------------
(***************************************************************************)
(* The components about what is recorded, which share no state with each   *)
(* other: a behaviour chooses one of them and runs it while the rest stay  *)
(* as they begin.                                                          *)
(***************************************************************************)
EXTENDS Projection, ConflictDetection, EnrolmentRequests, PinLock, MCShop, CashDrawer, StockRoom

VARIABLE recordPart  \* the component that runs

MCRecordOf == [o \in Op |-> IF o = "f3" THEN "r2" ELSE "r1"]
MCModuleOf == [r \in Record |-> "A"]
MCPlace == [o \in Op |-> CASE o = "f1" -> 1 [] o = "m1" -> 2 [] o = "f2" -> 3 [] o = "f3" -> 4]
MCWalk == [r \in Record |-> IF r = "r1" THEN 1 ELSE 2]

\* "retry" repeats "first"; "other" wants the same device id for itself.
MCKeyOf == [r \in EnrolRequest |-> IF r = "other" THEN "k2" ELSE "k1"]
MCBodyOf == [r \in EnrolRequest |-> IF r = "other" THEN "b2" ELSE "b1"]
MCNewDevice == [r \in EnrolRequest |-> "new"]
MCReplaced == [r \in Request |-> IF r = "other" THEN "nodev" ELSE "old"]

MCDelay == [n \in 0..Threshold |-> IF n < FreeAttempts THEN 0 ELSE 1]

\* A payment, a mistyped move and a count; a note may have gone missing since.
Given(n, op) == [op EXCEPT !.id = <<n>>]
MCDrawerStories ==
    {<<By(2, Given(0, [Act("paymentReceived") EXCEPT !.amount = 2])),
       By(1, Given(1, [Act("cashMoved") EXCEPT !.amount = 1, !.mistyped = TRUE])),
       By(2, Given(2, [Act("cashCounted") EXCEPT !.amount = 2]))>>}

\* One part on the shelf, and two more on a draft or on an order.
InStock == <<By(2, Given(0, [Act("stockCounted") EXCEPT !.amount = 1])),
             By(2, [Act("orderDrafted") EXCEPT !.amount = 2])>>
MCStockStories == {InStock, InStock \o <<By(2, Act("orderPlaced"))>>}

\* Only the running business module starts with a story; elsewhere nothing happens in a shop.
RecordsInit ==
    /\ recordPart \in {"projection", "conflicts", "enrolment", "pin", "shop", "drawer", "stock"}
    /\ ProjectionInit /\ ConflictInit /\ EnrolInit /\ PinInit
    /\ CASE recordPart = "shop" -> ShopInit
         [] recordPart = "drawer" -> DrawerInit
         [] recordPart = "stock" -> StockInit
         [] OTHER -> ShopClosed
    /\ recordPart # "drawer" => DrawerEmpty
    /\ recordPart # "stock" => StockEmpty
\* What the components outside the shops change.
coreVars == <<projectionVars, conflictVars, enrolVars, pinVars>>
RecordsNext ==
    /\ UNCHANGED recordPart
    /\ \/ recordPart = "projection" /\ ProjectionNext /\ UNCHANGED <<conflictVars, enrolVars, pinVars, shopVars, drawerVars, stockVars>>
       \/ recordPart = "conflicts" /\ ConflictNext /\ UNCHANGED <<projectionVars, enrolVars, pinVars, shopVars, drawerVars, stockVars>>
       \/ recordPart = "enrolment" /\ EnrolNext /\ UNCHANGED <<projectionVars, conflictVars, pinVars, shopVars, drawerVars, stockVars>>
       \/ recordPart = "pin" /\ PinNext /\ UNCHANGED <<projectionVars, conflictVars, enrolVars, shopVars, drawerVars, stockVars>>
       \/ recordPart = "shop" /\ ShopNext /\ UNCHANGED <<coreVars, drawerVars, stockVars>>
       \/ recordPart = "drawer" /\ DrawerNext /\ UNCHANGED <<coreVars, stockVars>>
       \/ recordPart = "stock" /\ StockNext /\ UNCHANGED <<coreVars, drawerVars>>
RecordsSpec == RecordsInit /\ [][RecordsNext]_<<coreVars, shopVars, drawerVars, stockVars, recordPart>>

\* The state of the conflict detector, the enrolments, the PIN lock, the shop, the
\* drawer and the stock is of its type: no op is stored past the head, no failure is counted past the
\* threshold, no device is enrolled by a request that does not enrol.
RecordsTypeOK ==
    ConflictTypeOK /\ EnrolTypeOK /\ PinTypeOK /\ ShopTypeOK /\ DrawerTypeOK /\ StockTypeOK
=============================================================================
