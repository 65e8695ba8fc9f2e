----------------------------- MODULE ShopRecords -----------------------------
(***************************************************************************)
(* One servisan and the requests about it, as several phones and the       *)
(* server record them (JudgedRecords).  A phone's clock may run behind.    *)
(***************************************************************************)
EXTENDS ApprovalRequests

CONSTANTS Does,         \* person -> the commands they run here (a bound), named by their first change
          Stories,      \* what happened before, as sequences of changes with who made them
          MaxCommands   \* bound: commands run after that

\* A story makes an id once, and none that is made later; what a decision in it
\* answers is not kept.
ASSUME ShopAssumption ==
    /\ AreStories(Stories) /\ MaxCommands \in Nat
    /\ \A story \in Stories : \A i, j \in DOMAIN story :
           LET change == story[i].change IN
           /\ change.type \in TicketTypes \union Answers \union {"asked"}
           /\ change.amount \in Int /\ change.answers = NoLine
           /\ change.type = "asked" => change.id \notin Person \X Nat
           /\ change.type = "asked" /\ story[j].change.type = "asked" /\ story[j].change.id = change.id => i = j

Shop == INSTANCE JudgedRecords

-----------------------------------------------------------------------------
(* Commands: each composes operations, judged one after the other. *)

\* A decision's first new id is the request's own, so it makes the same record whoever approves.
DecidingAfresh(id, d) == NewId(d)
DecidingOnce(id, d) == id
Start(t, d) == (IF t.technician = d THEN <<>> ELSE <<[Act("claimed") EXCEPT !.from = t.technician]>>)
                   \o <<Act("started")>>
WorkCommands(r, d) ==
    {<<Act(type)>> : type \in {"paused", "repaired", "cancelled", "returned", "reversed"}}
    \union {<<[Act("claimed") EXCEPT !.from = r.ticket.technician]>>, Start(r.ticket, d)}
NewLine(d, type, how, amount) == [Act(type) EXCEPT !.id = NewId(d), !.how = how, !.amount = amount]
PriceCommands(r, d) ==
    {<<NewLine(d, "proposed", "waits", 1)>>, <<NewLine(d, "changed", "counts", -1)>>, <<NewLine(d, "changed", "waits", 1)>>}
    \union {<<[Act("changed") EXCEPT !.id = id, !.how = "agreed", !.amount = r.lines[id].amount]>> : id \in Undecided(r)}
    \union {<<[Act("declined") EXCEPT !.id = id]>> : id \in Undecided(r)}
RequestCommands(r, d) ==
    LET answerable == {id \in DOMAIN r.requests : Answerable(r, id)}
    IN {<<[Act("asked") EXCEPT !.id = NewId(d), !.how = kind, !.basis = Basis(r),
             !.amount = IF kind = "discount" THEN -1 ELSE 0]>> : kind \in Kinds}
       \union {<<[Act("approved") EXCEPT !.id = id]>> \o Decision(r, id, DecidingOnce(id, d)) : id \in answerable}
       \union {<<[Act("rejected") EXCEPT !.id = id]>> : id \in answerable}
       \union {<<[Act("withdrawn") EXCEPT !.id = id]>> : id \in answerable}
Commands(r, d) == WorkCommands(r, d) \union PriceCommands(r, d) \union RequestCommands(r, d)

RunShop(d) ==
    /\ Shop!More
    /\ \E c \in {c \in Commands(Shop!PhoneRecords(d), d) : c[1].type \in Does[d]} : Shop!Run(d, c)
ShopInit == Shop!Opens(Lags)
ShopNext == \E d \in Person : RunShop(d) \/ Shop!Push(d) \/ Shop!Pull(d)
ShopSpec == ShopInit /\ [][ShopNext]_shopVars

-----------------------------------------------------------------------------
(* Properties. *)

\* What is recorded names who signed it and when, and nobody has pulled past
\* what the server accepted.
ShopTypeOK ==
    /\ \A d \in Person : fetched[d] \in 0..Len(taken) /\ lag[d] \in Lags
    /\ \A op \in Range(taken) \union UNION {Range(own[d]) : d \in Person} : op.by \in Person /\ op.at >= 1

\* The server's records as it judged them, one operation after the other.
Judged == Shop!Fold!Along(Empty, taken)
\* However late the clock of a phone runs, what the server let happen stands in
\* the records everyone folds: a cancel stays a cancel, the phone is where the
\* last handover or undo left it, the price and its lines are the ones agreed,
\* and a servisan handed over keeps the outcome it went home with
\* (repair/applier.ts, repair-fold-order.test.ts).
JudgedStands ==
    LET was == Judged.ticket  now == Shop!ServerRecords.ticket
    IN /\ (was.outcome = "cancelled") = (now.outcome = "cancelled")
       /\ was.location = now.location /\ was.total = now.total
       /\ Judged.lines = Shop!ServerRecords.lines
       /\ was.location = "returned" => was.outcome = now.outcome

\* Two people who approve one request on phones that have not heard of each
\* other lower the price, or cancel, once: the second decision is refused, even
\* when it is judged before the records show the request answered
\* (approvals/commands.ts decidingOnce).
DecidedOnce == \A i, j \in 1..Len(taken) :
    taken[i].answers # NoLine /\ taken[i].answers = taken[j].answers => i = j

\* A request the server holds answered is answered once: no later answer to it
\* is taken (approvals/applier.ts "the first one to fold settles the request").
AnsweredOnce == \A i, j \in 1..Len(taken) :
    taken[i].type \in Answers /\ taken[j].type \in Answers /\ taken[i].id = taken[j].id => i = j
=============================================================================
