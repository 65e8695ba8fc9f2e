-------------------------------- MODULE MCShop --------------------------------
(***************************************************************************)
(* Three people on one servisan: the counter (1), a technician who also    *)
(* decides (2) and the owner (3).  Each does what their work is, from six   *)
(* points of a servisan's life.                                            *)
(***************************************************************************)
EXTENDS ShopRecords

MCDoes == <<{"asked", "withdrawn", "returned", "changed", "declined"},
            {"claimed", "started", "paused", "repaired", "proposed", "approved"},
            {"approved", "rejected", "cancelled", "reversed"}>>

Line(type) == [Act(type) EXCEPT !.id = <<1>>]
Opened == <<By(1, [Act("opened") EXCEPT !.id = <<0>>, !.amount = Price])>>
InRepair == Opened \o <<By(1, Act("claimed")), By(1, Act("started"))>>
Fixed == InRepair \o <<By(1, Act("repaired"))>>
HandedOver == Fixed \o <<By(1, Act("returned"))>>
DiscountAsked == Opened \o <<By(1, [Line("asked") EXCEPT !.how = "discount", !.amount = -1,
                                                        !.basis = <<"received", "in_store", Price, 1>>])>>
ChangeProposed == Opened \o <<By(1, [Line("proposed") EXCEPT !.how = "waits", !.amount = 1])>>
MCStories == {Opened, InRepair, Fixed, HandedOver, DiscountAsked, ChangeProposed}

=============================================================================
