---------------------------- MODULE JudgedRecords ----------------------------
(***************************************************************************)
(* Records that several phones and the server keep of the same things.  A  *)
(* phone judges what its person does by its own records; the server judges *)
(* each operation again, in the order it arrives, by its own; both fold in *)
(* canonical order, by the phones' clocks.  What is recorded, how it folds *)
(* and what the rules allow are a business module's.                       *)
(***************************************************************************)
EXTENDS Phones

CONSTANTS Empty,           \* nothing recorded
          FoldOp(_, _),    \* records and an operation -> the records with it
          Allows(_, _),    \* what the rules say of an operation on these records
          Clashes(_, _),   \* an operation whose row the records already have
          Stories,         \* what happened before, as sequences of changes with who made them
          MaxCommands      \* bound: commands run after that

\* What a set of operations folds to, in canonical order.
Fold == INSTANCE Folding WITH Step <- FoldOp, Before <- SortsBefore
Records(ops) == Fold!InOrder(Empty, ops)

\* What a phone knows: what it pulled, and everything of its own.
Known(d) == {taken[i] : i \in {i \in 1..Len(taken) : i <= fetched[d] \/ taken[i].by = d}} \union Range(own[d])
PhoneRecords(d) == Records(Known(d))
ServerRecords == Records(Range(taken))

Longest == Max({Len(story) : story \in Stories})

\* A command's operations as the phone signs them, and whether its rules let
\* each of them follow the ones before.
Draft(ops, d) == [i \in 1..Len(ops) |-> Signed(ops[i], d, i)]
AllAllowed(ops, known) ==
    \A i \in 1..Len(ops) : Allows(Records(known \union {ops[j] : j \in 1..(i - 1)}), ops[i])

More == commands < Longest + MaxCommands
Run(d, changes) ==
    /\ LET ops == Draft(changes, d)
       IN AllAllowed(ops, Known(d)) /\ own' = [own EXCEPT ![d] = @ \o ops]
    /\ commands' = commands + 1
    /\ UNCHANGED <<taken, fetched, lag>>

\* The server judges each operation on what it has; a refused one leaves the phone's records too.
Judge(accepted, op) ==
    IF Allows(Records(Range(accepted)), op) THEN Append(accepted, op) ELSE accepted
Judging == INSTANCE Folding WITH Step <- Judge, Before <- SortsBefore

Push(d) ==
    /\ own[d] # <<>>
    /\ taken' = Judging!Along(taken, own[d])
    /\ own' = [own EXCEPT ![d] = <<>>]
    /\ UNCHANGED <<fetched, lag, commands>>

\* A page whose fold fails on a key is not applied; the pull is tried again after the next push.
Pull(d) ==
    /\ \E i \in 1..Len(taken) : i > fetched[d] /\ taken[i].by # d
    /\ LET known == Range(taken) \union Range(own[d])
       IN \A op \in known : ~Clashes(Records({p \in known : SortsBefore(p, op)}), op)
    /\ fetched' = [fetched EXCEPT ![d] = Len(taken)]
    /\ UNCHANGED <<taken, own, lag, commands>>

\* A story is told as it happened, everyone online.
Told(story, clock) ==
    [i \in 1..Len(story) |-> [story[i].change EXCEPT !.by = story[i].by, !.seq = 1,
                               !.at = Max(Lags) + 1 + Longest - Len(story) + i - clock[story[i].by]]]
Opens(lags) ==
    /\ lag \in {l \in [Person -> lags] : Cardinality({d \in Person : l[d] # 0}) <= 1}
    /\ \E story \in Stories : taken = Judging!Along(<<>>, Told(story, lag))
    /\ commands = Longest
    /\ own = [d \in Person |-> <<>>]
    /\ fetched = [d \in Person |-> Len(taken)]
=============================================================================
