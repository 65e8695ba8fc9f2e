---------------------------- MODULE ChangeLedger ----------------------------
(* What saving a change on a phone promises, with no batches, chains,      *)
(* answers or registrations: the server judges each saved change at most   *)
(* once, and the phone learns that very verdict.  Only a phone that is not *)
(* trusted any more may set an unanswered change aside without one.        *)
(* ChangeSync implements this.                                             *)
CONSTANTS
    Change,
    Revocable    \* may the phone lose its trust while it is in use

VARIABLES
    phone,      \* per change: not saved, unsent or unanswered, or settled
    server,     \* per change: not judged, refused, or taken into the log
    trusted     \* is the phone's newest registration in force

ledgerVars == <<phone, server, trusted>>

Save(c) ==
    /\ phone[c] = "unsaved"
    /\ phone' = [phone EXCEPT ![c] = "local"]
    /\ UNCHANGED <<server, trusted>>

\* One push judges several changes, each of them saved and never judged before,
\* and not one the phone shows as synced.
Judge ==
    /\ \E verdicts \in [Change -> {"unjudged", "refused", "taken"}] :
          /\ \A c \in Change :
                IF server[c] # "unjudged" THEN verdicts[c] = server[c]
                ELSE verdicts[c] # "unjudged" => phone[c] \in {"local", "rejected"}
          /\ server' = verdicts
    /\ UNCHANGED <<phone, trusted>>

Learn(c) ==
    /\ phone[c] = "local" /\ server[c] # "unjudged"
    /\ phone' = [phone EXCEPT ![c] = IF server[c] = "taken" THEN "synced" ELSE "rejected"]
    /\ UNCHANGED <<server, trusted>>

\* The phone is told that its registration is revoked, whatever became of the
\* change.
SetAside(c) ==
    /\ ~trusted /\ phone[c] = "local"
    /\ phone' = [phone EXCEPT ![c] = "rejected"]
    /\ UNCHANGED <<server, trusted>>

Revoke ==
    /\ Revocable /\ trusted
    /\ trusted' = FALSE
    /\ UNCHANGED <<phone, server>>

Renew ==
    /\ ~trusted
    /\ trusted' = TRUE
    /\ UNCHANGED <<phone, server>>

LedgerInit ==
    /\ phone = [c \in Change |-> "unsaved"]
    /\ server = [c \in Change |-> "unjudged"]
    /\ trusted = TRUE

LedgerNext ==
    \/ Judge \/ Revoke \/ Renew
    \/ \E c \in Change : Save(c) \/ Learn(c) \/ SetAside(c)

LedgerSpec == LedgerInit /\ [][LedgerNext]_ledgerVars
=============================================================================
