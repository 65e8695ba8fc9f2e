--------------------------- MODULE ConflictDetection ---------------------------
(***************************************************************************)
(* Conflict detection inside the push transaction                          *)
(* (apps/server/src/sync/conflict-detection.ts and                         *)
(* packages/db-server/src/conflict-candidates.ts), over one note that      *)
(* several devices edit and archive (packages/modules/src/notes).  Pushes  *)
(* of a tenant run one after the other (lockTenantCounter), acceptance and *)
(* detection commit together, and a detected conflict is an operation of   *)
(* the log that every device pulls.  saw is history: what the author's     *)
(* device held when the change was made.                                   *)
(***************************************************************************)
EXTENDS Integers, FiniteSets, Sequences, SequencesExt

CONSTANTS
    Writer,    \* devices, numbered: the canonical order compares them
    Clock,     \* what their clocks may say
    MaxChanges \* bound: changes, of all devices

ASSUME ConflictConstants ==
    /\ Writer \subseteq Nat /\ IsFiniteSet(Writer) /\ Clock \subseteq Nat /\ MaxChanges \in Nat

VARIABLES
    made,    \* per device, its changes: [time, type, saw]
    stream,  \* operations in server order: changes <<device, seq>> and conflicts {x, y}
    pulledTo, \* per device, its pull cursor
    lastPull  \* devices.last_pull_cursor
conflictVars == <<made, stream, pulledTo, lastPull>>

Change == Writer \X (1..MaxChanges)
Made == {x \in Change : x[2] <= Len(made[x[1]])}
Of(x) == made[x[1]][x[2]]
IsEdit(x) == Of(x).type = "edit"

Stored(log) == {log[i].change : i \in {j \in 1..Len(log) : log[j].kind = "change"}}
\* The conflicts projection: unordered pairs, a pair of one for rule 2.
Recorded(log) == {log[i].pair : i \in {j \in 1..Len(log) : log[j].kind = "conflict"}}

Own(d) == {x \in Made : x[1] = d}
HeldBy(d) == Own(d) \cup Stored(SubSeq(stream, 1, pulledTo[d]))
\* Where a change sorts: (timestamp, deviceId, seq).
Earlier(x, y) == \/ Of(x).time < Of(y).time
                 \/ /\ Of(x).time = Of(y).time
                    /\ (x[1] < y[1] \/ (x[1] = y[1] /\ x[2] < y[2]))

----------------------------------------------------------------------------
ConflictInit ==
    /\ made = [d \in Writer |-> <<>>] /\ stream = <<>>
    /\ pulledTo = [d \in Writer |-> 0] /\ lastPull = [d \in Writer |-> 0]

\* editNoteBody and archiveNote refuse a note archived in the local projection.
WriteChange(d, type) ==
    /\ Cardinality(Made) < MaxChanges /\ \A x \in HeldBy(d) : IsEdit(x)
    /\ \E t \in Clock : made' = [made EXCEPT ![d] = Append(@, [time |-> t, type |-> type, saw |-> HeldBy(d)])]
    /\ UNCHANGED <<stream, pulledTo, lastPull>>

\* findRule1Candidates: other devices' changes of the key past the cursor the
\* server has for the pusher.
CandidatesLater(log, x) ==
    {y \in Stored(SubSeq(log, lastPull[x[1]] + 1, Len(log))) : y[1] # x[1] /\ IsEdit(y) /\ Earlier(y, x)}
Candidates(log, x) ==
    {y \in Stored(SubSeq(log, lastPull[x[1]] + 1, Len(log))) : y[1] # x[1] /\ IsEdit(y)}
\* existsPrecedingOp, for notes:edit_after_archive.
Preceded(log, x) == \E y \in Stored(log) : ~IsEdit(y) /\ Earlier(y, x)

\* collectPairs over a batch, once per unordered pair.
Pairs(log, batch) ==
    LET edits == {batch[i].change : i \in 1..Len(batch)} \cap {x \in Made : IsEdit(x)} IN
    ((UNION {{{x, y} : y \in Candidates(log, x)} : x \in edits}) \cup {{x} : x \in {e \in edits : Preceded(log, e)}})
        \ Recorded(log)

\* A batch of changes not stored yet, in order, and the conflicts it makes.
PushChanges(d) ==
    LET next == Cardinality({x \in Stored(stream) : x[1] = d}) + 1 IN
    \E last \in next..Len(made[d]) :
        LET batch == [i \in 1..(last - next + 1) |-> [kind |-> "change", change |-> <<d, next + i - 1>>]]
            log   == stream \o batch
            found == SetToSeq(Pairs(log, batch))
        IN  /\ stream' = log \o [i \in 1..Len(found) |-> [kind |-> "conflict", pair |-> found[i]]]
            /\ UNCHANGED <<made, pulledTo, lastPull>>

\* Mutant: the pull also moves the column, as its comment has it.
PullPageRecorded(d) ==
    \E n \in (pulledTo[d] + 1)..Len(stream) :
        /\ pulledTo' = [pulledTo EXCEPT ![d] = n] /\ lastPull' = [lastPull EXCEPT ![d] = n]
        /\ UNCHANGED <<made, stream>>
\* Mutant: the cursor moves to where the next page begins.
PullPagePast(d) ==
    \E n \in (pulledTo[d] + 1)..Len(stream) :
        /\ pulledTo' = [pulledTo EXCEPT ![d] = n + 1] /\ UNCHANGED <<made, stream, lastPull>>
\* A page of the stream.  The server keeps no record of the cursor it served.
PullPage(d) ==
    \E n \in (pulledTo[d] + 1)..Len(stream) :
        /\ pulledTo' = [pulledTo EXCEPT ![d] = n] /\ UNCHANGED <<made, stream, lastPull>>

ConflictNext ==
    \E d \in Writer : WriteChange(d, "edit") \/ WriteChange(d, "archive") \/ PushChanges(d) \/ PullPage(d)
ConflictSpec == ConflictInit /\ [][ConflictNext]_conflictVars

----------------------------------------------------------------------------
ConflictTypeOK ==
    /\ \A d \in Writer : pulledTo[d] \in 0..Len(stream) /\ lastPull[d] \in 0..Len(stream)
    /\ Stored(stream) \subseteq Made /\ \A p \in Recorded(stream) : p \subseteq Stored(stream)

Unseen(x, y) == x \notin Of(y).saw /\ y \notin Of(x).saw

\* Two edits of one note from different devices, neither made in sight of the
\* other, are recorded as one conflict once both are stored, whichever device
\* pushes first and whatever it pulled between writing and pushing.
RacedIsRecorded ==
    \A x, y \in Stored(stream) : x[1] # y[1] /\ IsEdit(x) /\ IsEdit(y) /\ Unseen(x, y)
        => Cardinality({i \in 1..Len(stream) : stream[i].kind = "conflict" /\ stream[i].pair = {x, y}}) = 1

\* Rule 1's reading (conflict-candidates.ts): edits are a conflict only when
\* the later one's device had not pulled the other when it was made.
SeenIsNoConflict ==
    \A p \in Recorded(stream) : \A x, y \in p : x # y => Unseen(x, y)

\* An edit made without seeing an archive that sorts before it is flagged
\* (rule 2), whichever of the two is stored first.
EditAfterArchiveFlagged ==
    \A x, y \in Stored(stream) : IsEdit(x) /\ ~IsEdit(y) /\ Earlier(y, x) /\ y \notin Of(x).saw
        => {x} \in Recorded(stream)
=============================================================================
