-------------------------------- MODULE Phones --------------------------------
(***************************************************************************)
(* What the business modules share: a shop's phones and the server.  A     *)
(* phone keeps what its person does until it pushes; the server keeps what *)
(* it accepted, in the order it judged it (packages/core oplog/append.ts,  *)
(* module/op-rules.ts).                                                    *)
(***************************************************************************)
EXTENDS Integers, Sequences, FiniteSets, TLC, SequencesExt, FiniteSetsExt

CONSTANTS Person,   \* the phones, each with the person who uses it
          Decider,  \* who holds the owner's decisions
          Lags      \* how far behind a phone's clock may be, in commands
ASSUME PhonesAssumption ==
    /\ Decider \subseteq Person /\ Person \subseteq Nat /\ Lags \subseteq Nat
    /\ \E most \in Lags : \A behind \in Lags : behind <= most

VARIABLES
    taken,    \* the operations the server accepted, in the order it judged them
    own,      \* phone -> its operations not pushed yet, in order
    fetched,  \* phone -> how many of `taken` it has pulled
    lag,      \* phone -> how far its clock is behind
    commands  \* how many commands were run, which is the time they are run at
shopVars == <<taken, own, fetched, lag, commands>>

NoOne == 0
NoLine == <<>>

\* Rows by their id, and one more, or another in its place.
Filed(rows, id, row) == [each \in DOMAIN rows \union {id} |-> IF each = id THEN row ELSE rows[each]]

\* What an operation carries.  `id` names a record (a price line, a request, an
\* entry of the drawer); `how` tells a line that counts at once from one that
\* waits for the customer and from the customer's yes to a waiting one.  It may
\* settle a count, bring a receipt's part, archive the part.  `answers`, the
\* request it decides, and `mistyped`, a move of no cash, are history.
Act(type) == [type |-> type, id |-> NoLine, amount |-> 0, how |-> "counts", from |-> NoOne,
              basis |-> <<>>, answers |-> NoLine, settles |-> NoLine, mistyped |-> FALSE,
              source |-> NoLine, archives |-> FALSE, by |-> NoOne, seq |-> 0, at |-> 0]
\* Stories of what happened before: changes, and who made them.
By(d, change) == [by |-> d, change |-> change]
AreStories(stories) ==
    /\ stories # {} /\ IsFiniteSet(stories)
    /\ \A story \in stories :
           /\ story \in Seq(Range(story))
           /\ \A told \in Range(story) :
                  told.by \in Person /\ told.change = [field \in DOMAIN Act("any") |-> told.change[field]]
\* What a phone's clock shows, and what it signs as the nth operation of a command.
Now(d) == Max(Lags) + 2 + commands - lag[d]
Signed(op, d, n) == [op EXCEPT !.by = d, !.seq = n, !.at = Now(d)]
NewId(d) == <<d, commands>>
AllPushed == \A d \in Person : own[d] = <<>>

\* Canonical order: by the signing phone's clock, then phone, then its chain.
SortsBefore(a, b) ==
    \/ a.at < b.at
    \/ a.at = b.at /\ a.by < b.by
    \/ a.at = b.at /\ a.by = b.by /\ a.seq < b.seq

\* A shop nothing happens in.
ShopClosed == /\ taken = <<>> /\ own = [d \in Person |-> <<>>] /\ commands = 0
              /\ fetched = [d \in Person |-> 0] /\ lag = [d \in Person |-> 0]
=============================================================================
