----------------------------- MODULE MediaUpload -----------------------------
(***************************************************************************)
(* A phone's captures and their way to the server: the drain loop          *)
(* (packages/core/src/media/drain.ts, repository.ts), the pruning pass     *)
(* (packages/device/src/media/pruning.ts), and the server's chunked upload *)
(* (apps/server/src/routes/media.ts).  Requests get lost, answered in vain *)
(* or processed long after they were given up; the app is killed; an op's  *)
(* refusal releases its captures; the device is revoked and enrolled again. *)
(*                                                                         *)
(* A file is its chunks, each as captured or corrupted; hashes compare     *)
(* whole files.  A pass over no row is left out, and so is its manual      *)
(* variant: a backoff may end at any moment.                               *)
(***************************************************************************)
EXTENDS Integers, FiniteSets, TLC

CONSTANTS
    Item,         \* captures, numbered in the order they were taken
    Chunk,        \* chunks of a file
    MaxMishaps,   \* bound: lost, late and corrupted requests, kills
    MaxEnrolments \* bound: registrations of the phone

ASSUME MediaConstants ==
    /\ Item \subseteq Nat /\ Chunk # {} /\ IsFiniteSet(Item) /\ IsFiniteSet(Chunk)
    /\ MaxMishaps \in Nat /\ MaxEnrolments \in Nat \ {0}

VARIABLES
    items,     \* media_items: status, attached to an op or released by its refusal,
               \* exempt from retries, backoff over, a day old
    files,     \* the file of each: "kept", "rotten" or "gone"
    uploads,   \* the server's media and media_chunks
    drain,     \* the drain loop
    onTheWay,  \* requests that were given up and are processed later
    doomed,    \* the pruning pass under way: rows whose file it deletes, then whose row
    identity,  \* the device id the phone uploads with, and whether it is revoked
    mishaps
mediaVars == <<items, files, uploads, drain, onTheWay, doomed, identity, mishaps>>
Wire == <<uploads, onTheWay>>

NewItem == [status |-> "none", attached |-> FALSE, released |-> FALSE, exempt |-> FALSE,
            due |-> TRUE, aged |-> FALSE]
NoUpload == [state |-> "none", owner |-> 0, chunks |-> <<>>, blob |-> "none"]
NoFlags == [again |-> FALSE, paused |-> FALSE, halted |-> FALSE]
Off == [at |-> "off", flags |-> NoFlags]

MediaInit ==
    /\ items = [i \in Item |-> NewItem] /\ files = [i \in Item |-> "kept"]
    /\ uploads = [i \in Item |-> NoUpload] /\ drain = Off /\ onTheWay = {} /\ doomed = {}
    /\ identity = [device |-> 1, revoked |-> FALSE] /\ mishaps = 0

Mishap == mishaps < MaxMishaps /\ mishaps' = mishaps + 1
Unsent(i) == items[i].status \in {"pending", "uploading", "failed"}
StillQueued(i) == items[i].attached /\ Unsent(i)

----------------------------------------------------------------------------
(* The server: each request in one transaction.                            *)

AfterInit(i, device) ==
    IF uploads[i].state = "none" THEN [NoUpload EXCEPT !.state = "receiving", !.owner = device] ELSE uploads[i]
Open(i, device) == uploads[i].state = "receiving" /\ uploads[i].owner = device
AfterPut(i, device, k, as) ==
    IF Open(i, device) THEN [uploads[i] EXCEPT !.chunks = (k :> as) @@ @] ELSE uploads[i]

Missing(i) == Chunk \ DOMAIN uploads[i].chunks
AsCaptured(i) == \A k \in Chunk : uploads[i].chunks[k] = "kept"
\* Mutant: the assembled file is not hashed.
HashesAny(i) == TRUE
Hashes(i) == AsCaptured(i)
\* Mutant: chunks that do not hash stay.
AfterCompleteKept(i, device) ==
    IF ~Open(i, device) \/ Missing(i) # {} \/ ~Hashes(i) THEN uploads[i]
    ELSE [uploads[i] EXCEPT !.chunks = <<>>, !.state = "complete", !.blob = "kept"]
\* The chunks are purged, whether they hash and are stored or not.
AfterComplete(i, device) ==
    IF ~Open(i, device) \/ Missing(i) # {} THEN uploads[i]
    ELSE IF Hashes(i)
         THEN [uploads[i] EXCEPT !.chunks = <<>>, !.state = "complete",
                   !.blob = IF AsCaptured(i) THEN "kept" ELSE "other"]
         ELSE [uploads[i] EXCEPT !.chunks = <<>>]

After(r) ==
    CASE r.what = "init" -> AfterInit(r.item, r.device)
      [] r.what = "put" -> AfterPut(r.item, r.device, r.chunk, r.as)
      [] r.what = "complete" -> AfterComplete(r.item, r.device)

\* A request given up long ago is processed.
Arrives(r) ==
    /\ r \in onTheWay /\ onTheWay' = onTheWay \ {r}
    /\ uploads' = [uploads EXCEPT ![r.item] = After(r)]
    /\ UNCHANGED <<items, files, drain, doomed, identity, mishaps>>

----------------------------------------------------------------------------
(* The drain loop.                                                         *)

Drainable == {i \in Item : items[i].attached /\ items[i].status \in {"pending", "failed"} /\ items[i].due}
Pass(flags) == [at |-> "next", flags |-> [flags EXCEPT !.again = FALSE], todo |-> Drainable]
OnlyDrain == UNCHANGED <<items, files, Wire, doomed, identity, mishaps>>

\* requestDrain.
Trigger ==
    /\ ~drain.flags.halted
    /\ IF drain.at = "off" THEN Drainable # {} /\ drain' = Pass(drain.flags)
       ELSE drain' = [drain EXCEPT !.flags.again = TRUE]
    /\ OnlyDrain
PauseDrain ==
    /\ drain.at # "off" /\ Mishap /\ drain' = [drain EXCEPT !.flags.paused = TRUE]
    /\ UNCHANGED <<items, files, Wire, doomed, identity>>

\* The end of a pass: a coalesced rerun, or the cycle is over.
PassEnds ==
    drain' = IF drain.flags.again /\ ~drain.flags.halted /\ ~drain.flags.paused THEN Pass(drain.flags)
             ELSE [Off EXCEPT !.flags.halted = drain.flags.halted]
Oldest(S) == CHOOSE i \in S : \A j \in S : i <= j
NextItem ==
    /\ drain.at = "next"
    /\ IF drain.todo = {} \/ drain.flags.halted \/ drain.flags.paused THEN PassEnds
       ELSE LET i == Oldest(drain.todo) IN
            drain' = [at |-> IF items[i].exempt \/ ~StillQueued(i) THEN "next" ELSE "init",
                      flags |-> drain.flags, todo |-> drain.todo \ {i}, item |-> i]
    /\ OnlyDrain

\* How an attempt ended, which a later step writes to its row.
UploadEnds(how) ==
    /\ drain' = [at |-> "settle", flags |-> drain.flags, todo |-> drain.todo, item |-> drain.item, how |-> how]
    /\ UNCHANGED items
\* An update of a row that was pruned meanwhile changes nothing.
Updated(i, row) == [items EXCEPT ![i] = IF @.status = "deleted" THEN @ ELSE row]
Attempted(row, how) ==
    CASE how = "uploaded" -> [row EXCEPT !.status = "uploaded", !.exempt = FALSE, !.due = TRUE]
      [] how \in {"failed", "corrupt", "revoked"} ->
             [row EXCEPT !.status = "failed", !.exempt = how # "failed", !.due = how # "failed"]
      [] OTHER -> row

\* drainItem; runCycle ends when what was thrown is no MediaTransportError.
SettleItem ==
    /\ drain.at = "settle"
    /\ items' = Updated(drain.item, Attempted(items[drain.item], drain.how))
    /\ drain' = IF drain.how = "thrown" THEN Off
                ELSE [at |-> "next", flags |-> [drain.flags EXCEPT !.halted = @ \/ drain.how = "revoked"],
                      todo |-> drain.todo]
    /\ UNCHANGED <<files, Wire, doomed, identity, mishaps>>

\* A request gets an answer, which "then" handles; or it does not.
Sends(r, then) ==
    \/ /\ identity.revoked /\ UploadEnds("revoked") /\ UNCHANGED <<Wire, mishaps>>
    \/ /\ ~identity.revoked /\ then
       /\ uploads' = [uploads EXCEPT ![r.item] = After(r)] /\ UNCHANGED <<onTheWay, mishaps>>
    \/ /\ Mishap /\ UploadEnds("failed")
       /\ \/ UNCHANGED Wire
          \/ ~identity.revoked /\ uploads' = [uploads EXCEPT ![r.item] = After(r)] /\ UNCHANGED onTheWay
          \/ ~identity.revoked /\ onTheWay' = onTheWay \cup {r} /\ UNCHANGED uploads

Theirs(i) == uploads[i].state # "none" /\ uploads[i].owner # identity.device
\* classifyImmutable: the server has the file already; it can be asked which.
Immutable == UploadEnds("uploaded") \/ UploadEnds("corrupt")
ItemBecomes(at, i) == drain' = [drain EXCEPT !.at = at] /\ items' = Updated(i, [items[i] EXCEPT !.status = "uploading"])

SendInit ==
    /\ drain.at = "init"
    /\ LET i == drain.item IN
       Sends([what |-> "init", item |-> i, device |-> identity.device],
             IF Theirs(i) THEN UploadEnds("failed")
             ELSE IF uploads[i].state = "complete" THEN Immutable
             ELSE ItemBecomes("status", i))
    /\ UNCHANGED <<files, doomed, identity>>

Sending(S) == [at |-> "send", flags |-> drain.flags, todo |-> drain.todo, item |-> drain.item,
               left |-> S, retried |-> FALSE]
\* GET status: what the server has is not sent again.
AskUpload ==
    /\ drain.at = "status"
    /\ \/ UploadEnds("failed") /\ Mishap
       \/ ~identity.revoked /\ UNCHANGED mishaps
          /\ IF uploads[drain.item].state = "complete" THEN UploadEnds("uploaded")
             ELSE drain' = Sending(Missing(drain.item)) /\ UNCHANGED items
       \/ identity.revoked /\ UploadEnds("revoked") /\ UNCHANGED mishaps
    /\ UNCHANGED <<files, Wire, doomed, identity>>

\* One chunk, if the row is still upload work and the file can be read; a chunk
\* that no longer decrypts, or a missing file, throws.
SendChunk ==
    /\ drain.at = "send" /\ drain.left # {}
    /\ LET i == drain.item
           k == CHOOSE c \in drain.left : TRUE
           put(as) == [what |-> "put", item |-> i, device |-> identity.device, chunk |-> k, as |-> as]
           sent == drain' = [drain EXCEPT !.left = @ \ {k}] /\ UNCHANGED items
       IN  IF ~StillQueued(i) THEN UploadEnds("released") /\ UNCHANGED <<Wire, mishaps>>
           ELSE IF files[i] # "kept" THEN UploadEnds("thrown") /\ UNCHANGED <<Wire, mishaps>>
           ELSE \/ Sends(put("kept"), IF uploads[i].state = "complete" THEN Immutable
                                      ELSE IF Open(i, identity.device) THEN sent ELSE UploadEnds("failed"))
                \/ /\ Mishap /\ ~identity.revoked /\ Open(i, identity.device) /\ sent
                   /\ uploads' = [uploads EXCEPT ![i] = After(put("other"))] /\ UNCHANGED onTheWay
    /\ UNCHANGED <<files, doomed, identity>>

\* complete, and what follows from its answer: CHUNKS_MISSING is resent once,
\* a hash mismatch has the local file hashed.
SendComplete ==
    /\ drain.at = "send" /\ drain.left = {}
    /\ LET i == drain.item
           hashed == uploads[i].state = "complete" \/ (Missing(i) = {} /\ Hashes(i))
       IN  IF ~StillQueued(i) THEN UploadEnds("released") /\ UNCHANGED <<Wire, mishaps>>
           ELSE Sends([what |-> "complete", item |-> i, device |-> identity.device],
                      IF Theirs(i) \/ uploads[i].state = "none" THEN UploadEnds("failed")
                      ELSE IF hashed THEN UploadEnds("uploaded")
                      ELSE IF Missing(i) # {}
                           THEN IF drain.retried THEN UploadEnds("failed")
                                ELSE drain' = [drain EXCEPT !.left = Missing(i), !.retried = TRUE] /\ UNCHANGED items
                      ELSE IF files[i] = "kept" THEN UploadEnds("failed") ELSE UploadEnds("thrown"))
    /\ UNCHANGED <<files, doomed, identity>>

\* The backoff is over, or connectivity is back.
BackoffOver(i) ==
    /\ ~items[i].due /\ items' = [items EXCEPT ![i].due = TRUE]
    /\ UNCHANGED <<files, Wire, drain, doomed, identity, mishaps>>

----------------------------------------------------------------------------
(* Captures, and what becomes of them on the phone.                        *)

Row(i, from, to) ==
    /\ from /\ items' = [items EXCEPT ![i] = to]
    /\ UNCHANGED <<files, Wire, drain, doomed, identity, mishaps>>
Capture(i) == Row(i, items[i].status = "none", [NewItem EXCEPT !.status = "pending"])
\* attachMediaToOperation, in the transaction of a command: a draft may be old
\* by then.  No form refers again to what a refusal released.
Attach(i) == Row(i, Unsent(i) /\ ~items[i].attached /\ ~items[i].released, [items[i] EXCEPT !.attached = TRUE])
\* releaseRefusedOpMedia.
ReleaseItem(i) == Row(i, Unsent(i) /\ items[i].attached, [items[i] EXCEPT !.attached = FALSE, !.released = TRUE])
Ages(i) == Row(i, items[i].status \notin {"none", "deleted"} /\ ~items[i].attached /\ ~items[i].aged, [items[i] EXCEPT !.aged = TRUE])

Rots(i) ==
    /\ files[i] = "kept" /\ StillQueued(i) /\ Mishap
    /\ files' = [files EXCEPT ![i] = "rotten"]
    /\ UNCHANGED <<items, Wire, drain, doomed, identity>>

\* selectPrunable and prunePlanFor: orphans of a day, and what was uploaded.
Prunable(i) ==
    \/ ~items[i].attached /\ items[i].aged /\ items[i].status \notin {"none", "deleted"}
    \/ items[i].status = "uploaded" /\ files[i] # "gone"

PlanPruning ==
    /\ doomed = {} /\ \E i \in Item : Prunable(i)
    /\ doomed' = {[item |-> i, next |-> "file"] : i \in {j \in Item : Prunable(j)}}
    /\ UNCHANGED <<items, files, Wire, drain, identity, mishaps>>
PruneFile(p) ==
    /\ p \in doomed /\ p.next = "file"
    /\ files' = [files EXCEPT ![p.item] = "gone"]
    /\ doomed' = (doomed \ {p}) \cup {[p EXCEPT !.next = "row"]}
    /\ UNCHANGED <<items, Wire, drain, identity, mishaps>>
\* clearLocalPath, or deleteMediaRow, whose statement looks at the attachment again.
PruneRow(p) ==
    /\ p \in doomed /\ p.next = "row" /\ doomed' = doomed \ {p}
    /\ items' = IF items[p.item].attached THEN items ELSE [items EXCEPT ![p.item].status = "deleted"]
    /\ UNCHANGED <<files, Wire, drain, identity, mishaps>>

----------------------------------------------------------------------------
(* The app and the phone.                                                  *)

\* Mutant: no crash recovery.
RecoveredNone == items
\* recoverInterruptedUploads.
Recovered == [i \in Item |-> IF items[i].status = "uploading" THEN [items[i] EXCEPT !.status = "pending"] ELSE items[i]]
RestartApp ==
    /\ Mishap /\ drain' = Off /\ doomed' = {} /\ items' = Recovered
    /\ UNCHANGED <<files, Wire, identity>>
RevokePhone ==
    /\ ~identity.revoked /\ identity.device < MaxEnrolments /\ identity' = [identity EXCEPT !.revoked = TRUE]
    /\ UNCHANGED <<items, files, Wire, drain, doomed, mishaps>>
\* Enrolled again, whether it was revoked or not: the services start anew, and
\* the carried rows name the new device.
EnrolAgain ==
    /\ identity.device < MaxEnrolments /\ drain.at = "off"
    /\ identity' = [device |-> identity.device + 1, revoked |-> FALSE]
    /\ drain' = Off /\ doomed' = {} /\ items' = Recovered
    /\ UNCHANGED <<files, Wire, mishaps>>

DrainStep == NextItem \/ SendInit \/ AskUpload \/ SendChunk \/ SendComplete \/ SettleItem
MediaNext ==
    \/ Trigger \/ PauseDrain \/ DrainStep \/ PlanPruning \/ RestartApp \/ RevokePhone \/ EnrolAgain
    \/ \E i \in Item : BackoffOver(i) \/ Capture(i) \/ Attach(i) \/ ReleaseItem(i) \/ Ages(i) \/ Rots(i)
    \/ \E r \in onTheWay : Arrives(r)
    \/ \E p \in doomed : PruneFile(p) \/ PruneRow(p)
MediaSpec == MediaInit /\ [][MediaNext]_mediaVars

\* Timers and triggers come, calls end, and the app does not stay closed.
MediaFairness ==
    /\ WF_mediaVars(drain.at = "off" /\ Trigger) /\ WF_mediaVars(DrainStep)
    /\ \A i \in Item : WF_mediaVars(BackoffOver(i))
FairMedia == MediaSpec /\ MediaFairness

----------------------------------------------------------------------------
MediaTypeOK ==
    /\ \A i \in Item : /\ items[i].status \in {"none", "pending", "uploading", "uploaded", "failed", "deleted"}
                       /\ files[i] \in {"kept", "rotten", "gone"}
                       /\ uploads[i].state \in {"none", "receiving", "complete"}
    /\ drain.at \in {"off", "next", "init", "status", "send", "settle"} /\ mishaps \in 0..MaxMishaps

\* "Marking evidence uploaded when it is not is the worst outcome available"
\* (drain.ts): whatever was lost, corrupted, late or asked twice, a row says
\* uploaded, and its file may go, only when the server has the file, as captured.
UploadedIsStored ==
    \A i \in Item : items[i].status = "uploaded" =>
        uploads[i].state = "complete" /\ uploads[i].blob = "kept"

\* A capture of an op goes up in the end, unless its file is lost, its op
\* refused, or it or the loop is stopped for good (exempt, halted, or begun
\* under an earlier registration).
GoesUp(i) ==
    /\ StillQueued(i) /\ files[i] = "kept"
    /\ ~items[i].exempt /\ ~drain.flags.halted /\ ~Theirs(i)
EveryCaptureUploads == \A i \in Item : GoesUp(i) ~> ~GoesUp(i)

\* "pending / uploading / failed media is NEVER pruned" (pruning.ts): the only
\* copy of what an op refers to is not deleted before the server has it.
UnsentIsKept == \A i \in Item : StillQueued(i) => files[i] # "gone"

\* "an uploading row with no live task is a process that died mid-upload"
\* (client.ts): none while the process lives.
UploadingIsLive ==
    \A i \in Item : StillQueued(i) /\ items[i].status = "uploading" =>
        drain.at \in {"status", "send", "settle"} /\ drain.item = i

=============================================================================
