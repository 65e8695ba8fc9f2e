-------------------------- MODULE EnrolmentRequests --------------------------
(***************************************************************************)
(* Enrolling and revoking devices on the server                            *)
(* (apps/server/src/routes/devices.ts, identity/idempotency.ts,            *)
(* identity/revocation.ts): each request is a transaction at READ          *)
(* COMMITTED, so two of them interleave between their statements, a row    *)
(* another transaction wrote is waited for, and what a SELECT said may be  *)
(* over when the next statement runs.  A request that is retried is        *)
(* another request with the same Idempotency-Key.                          *)
(***************************************************************************)
EXTENDS Integers, FiniteSets

CONSTANTS
    Request,
    EnrolRequest,  \* the rest revoke
    KeyOf, BodyOf, \* per enrolment, its Idempotency-Key and its requestHash
    NewDevice,     \* per enrolment, the deviceId it registers
    Replaced,      \* per request, the device it revokes, or NoDevice
    Enrolled,      \* devices registered before
    NoDevice

Keys == {KeyOf[r] : r \in EnrolRequest}
DeviceIds == Enrolled \cup {NewDevice[r] : r \in EnrolRequest}
Before == "before"    \* who registered a device that was there before
Nobody == "nobody"
Outcomes == {"conflict", "denied", "not found", "taken", "revoked"}

ASSUME EnrolmentConstants ==
    /\ EnrolRequest \subseteq Request /\ NoDevice \notin Enrolled
    /\ Request \cap (Outcomes \cup {Before, Nobody}) = {}
    /\ DOMAIN KeyOf = EnrolRequest /\ DOMAIN BodyOf = EnrolRequest
    /\ DOMAIN NewDevice = EnrolRequest /\ DOMAIN Replaced = Request
    /\ \A r \in Request \ EnrolRequest : Replaced[r] \in Enrolled
    /\ \A r \in EnrolRequest : Replaced[r] \in DeviceIds \cup {NoDevice}
    /\ \A r \in EnrolRequest : \* a retry repeats its body
          \A s \in EnrolRequest : BodyOf[r] = BodyOf[s] =>
              NewDevice[r] = NewDevice[s] /\ Replaced[r] = Replaced[s]

VARIABLES
    registered, \* per device, the request whose token it holds, Before, or Nobody
    revokedBy,  \* per device, the request that revoked it, or Nobody
    audits,     \* per device, its "device.revoked" audit rows
    keyRow,     \* per key: the enrolment whose answer is stored, or Nobody
    writes,     \* per request, what its transaction wrote: "key", "revocation", "device"
    step,       \* per request, the statement it is at
    closed,     \* per device, how often its revocation hooks fired
    answer,     \* per request: what it was told, or Nobody
    aged        \* keys whose stored answer is older than 24 h
enrolVars == <<registered, revokedBy, audits, keyRow, writes, step, closed, answer, aged>>

committed == <<registered, revokedBy, audits, keyRow>>

EnrolInit ==
    /\ registered = [d \in DeviceIds |-> IF d \in Enrolled THEN Before ELSE Nobody]
    /\ revokedBy = [d \in DeviceIds |-> Nobody] /\ audits = [d \in DeviceIds |-> 0]
    /\ keyRow = [k \in Keys |-> Nobody]
    /\ writes = [r \in Request |-> {}] /\ step = [r \in Request |-> "new"]
    /\ closed = [d \in DeviceIds |-> 0] /\ answer = [r \in Request |-> Nobody]
    /\ aged = {}

To(r, s) == step' = [step EXCEPT ![r] = s]
Reads(r, s) == To(r, s) /\ UNCHANGED <<committed, writes, closed, answer, aged>>
Writes(r, what, s) ==
    /\ writes' = [writes EXCEPT ![r] = @ \cup {what}] /\ To(r, s)
    /\ UNCHANGED <<committed, closed, answer, aged>>
\* An error rolls the transaction back and is answered.
Refuse(r, why) ==
    /\ writes' = [writes EXCEPT ![r] = {}] /\ To(r, "over")
    /\ answer' = [answer EXCEPT ![r] = why] /\ UNCHANGED <<committed, closed, aged>>
Replay(r) ==
    /\ To(r, "over") /\ answer' = [answer EXCEPT ![r] = keyRow[KeyOf[r]]]
    /\ UNCHANGED <<committed, writes, closed, aged>>

\* Another transaction wrote the row and has not ended.
Locked(r, what, same) == \E q \in Request \ {r} : what \in writes[q] /\ same[q] = same[r]

----------------------------------------------------------------------------
\* purgeExpiredIdempotency, in its own transaction.
Purge(r) ==
    /\ r \in EnrolRequest /\ step[r] = "new" /\ To(r, "look up")
    /\ keyRow' = [k \in Keys |-> IF k \in aged THEN Nobody ELSE keyRow[k]]
    /\ aged' = {} /\ UNCHANGED <<registered, revokedBy, audits, writes, closed, answer>>

\* lookup, before the claim and after a claim that found the key taken.
LookUp(r) ==
    /\ step[r] \in {"look up", "raced"}
    /\ LET row == keyRow[KeyOf[r]]
       IN  IF row = Nobody THEN Reads(r, IF step[r] = "raced" THEN "look up" ELSE "claim")
           ELSE IF BodyOf[row] # BodyOf[r] THEN Refuse(r, "conflict")
           ELSE Replay(r)

\* Mutant: an uncommitted claim is not waited for.
ClaimAtOnce(r) ==
    /\ step[r] = "claim"
    /\ IF keyRow[KeyOf[r]] # Nobody THEN Reads(r, "raced") ELSE Writes(r, "key", "permitted?")
\* INSERT ... ON CONFLICT DO NOTHING.
Claim(r) ==
    /\ step[r] = "claim" /\ ~Locked(r, "key", KeyOf)
    /\ IF keyRow[KeyOf[r]] # Nobody THEN Reads(r, "raced") ELSE Writes(r, "key", "permitted?")

\* Who acts, the store, the permissions and the rates; a revocation starts here.
Permitted(r) ==
    /\ step[r] = IF r \in EnrolRequest THEN "permitted?" ELSE "new"
    /\ \/ Refuse(r, "denied")
       \/ Reads(r, IF Replaced[r] = NoDevice THEN "unused?" ELSE "revoke")

\* revokeDevice: the SELECT, which takes no lock.
FindActive(r) ==
    /\ step[r] = "revoke"
    /\ IF registered[Replaced[r]] = Nobody THEN Refuse(r, "not found")
       ELSE Reads(r, IF revokedBy[Replaced[r]] = Nobody THEN "flip"
                     ELSE IF r \in EnrolRequest THEN "unused?" ELSE "commit")

\* UPDATE ... WHERE status = 'active', and what follows from having done it.
Flip(r) ==
    /\ step[r] = "flip" /\ ~Locked(r, "revocation", Replaced)
    /\ LET next == IF r \in EnrolRequest THEN "unused?" ELSE "commit"
       IN  IF revokedBy[Replaced[r]] = Nobody THEN Writes(r, "revocation", next) ELSE Reads(r, next)

\* deviceId unused, by a SELECT.
Unused(r) ==
    /\ step[r] = "unused?"
    /\ IF registered[NewDevice[r]] # Nobody THEN Refuse(r, "taken") ELSE Reads(r, "insert")

\* INSERT; the primary key waits for another's uncommitted row.
Insert(r) ==
    /\ step[r] = "insert" /\ ~\E q \in EnrolRequest \ {r} :
           "device" \in writes[q] /\ NewDevice[q] = NewDevice[r]
    /\ IF registered[NewDevice[r]] # Nobody THEN Refuse(r, "taken")
       ELSE Writes(r, "device", "commit")

\* The key's row is finalized and the transaction ends.
Commit(r) ==
    /\ step[r] = "commit" /\ writes' = [writes EXCEPT ![r] = {}]
    /\ registered' = IF "device" \in writes[r] THEN [registered EXCEPT ![NewDevice[r]] = r] ELSE registered
    /\ keyRow' = IF "key" \in writes[r] THEN [keyRow EXCEPT ![KeyOf[r]] = r] ELSE keyRow
    /\ IF "revocation" \in writes[r]
       THEN /\ revokedBy' = [revokedBy EXCEPT ![Replaced[r]] = r]
            /\ audits' = [audits EXCEPT ![Replaced[r]] = @ + 1]
            /\ To(r, "close sockets")
       ELSE To(r, "answer") /\ UNCHANGED <<revokedBy, audits>>
    /\ UNCHANGED <<closed, answer, aged>>

\* revocationHooks.fire, after the commit.
FireHooks(r) ==
    /\ step[r] = "close sockets" /\ To(r, "answer")
    /\ closed' = [closed EXCEPT ![Replaced[r]] = @ + 1]
    /\ UNCHANGED <<committed, writes, answer, aged>>

Answer(r) ==
    /\ step[r] = "answer" /\ To(r, "over")
    /\ answer' = [answer EXCEPT ![r] = IF r \in EnrolRequest THEN r ELSE "revoked"]
    /\ UNCHANGED <<committed, writes, closed, aged>>

\* The connection or the process is lost, before the commit or after it.
Lost(r) ==
    /\ step[r] \notin {"new", "over"} /\ To(r, "over")
    /\ writes' = [writes EXCEPT ![r] = {}]
    /\ UNCHANGED <<committed, closed, answer, aged>>

\* 24 hours on, with nothing in flight.
KeyAges ==
    /\ \A r \in Request : step[r] \in {"new", "over"}
    /\ aged' = {k \in Keys : keyRow[k] # Nobody} /\ aged' # aged
    /\ UNCHANGED <<committed, writes, step, closed, answer>>

EnrolNext ==
    \/ KeyAges
    \/ \E r \in Request :
        \/ Purge(r) \/ LookUp(r) \/ Claim(r) \/ Permitted(r) \/ FindActive(r) \/ Flip(r)
        \/ Unused(r) \/ Insert(r) \/ Commit(r) \/ FireHooks(r) \/ Answer(r) \/ Lost(r)
EnrolSpec == EnrolInit /\ [][EnrolNext]_enrolVars

----------------------------------------------------------------------------
EnrolTypeOK ==
    /\ registered \in [DeviceIds -> EnrolRequest \cup {Before, Nobody}]
    /\ revokedBy \in [DeviceIds -> Request \cup {Nobody}]
    /\ keyRow \in [Keys -> EnrolRequest \cup {Nobody}]
    /\ writes \in [Request -> SUBSET {"key", "revocation", "device"}]
    /\ aged \subseteq Keys

\* Whoever is told 201 got the token the device is registered under, and a
\* retry inside 24 hours is not refused its device id because of its own first
\* attempt.
AnsweredRight ==
    \A r \in EnrolRequest :
        /\ answer[r] \in EnrolRequest => registered[NewDevice[r]] = answer[r]
        /\ answer[r] = "taken" /\ registered[NewDevice[r]] \in EnrolRequest =>
             LET first == registered[NewDevice[r]]
             IN  keyRow[KeyOf[r]] # first \/ BodyOf[r] # BodyOf[first] \/ KeyOf[first] # KeyOf[r]
\* A device that is replaced is revoked with the one that replaces it registered.
ReplacedTogether ==
    \A d \in DeviceIds : revokedBy[d] \in EnrolRequest => registered[NewDevice[revokedBy[d]]] = revokedBy[d]

\* "A concurrent duplicate executes at most once" (idempotency.ts): enrolments
\* and their retries are answered by the one that was done, and however they
\* race with revocations, a device's revocation has one author, one audit row
\* and closes its sockets at most once (revocation.ts).
DoneOnce ==
    /\ AnsweredRight /\ ReplacedTogether
    /\ \A d \in DeviceIds : /\ audits[d] = IF revokedBy[d] = Nobody THEN 0 ELSE 1
                            /\ closed[d] <= audits[d]
=============================================================================
