------------------------------ MODULE QrisCharge ------------------------------
(***************************************************************************)
(* One QRIS charge on the server (apps/server/src/qris/service.ts): the QR *)
(* is made at Xendit and then stored, and the callback and the devices'    *)
(* "did they pay yet?" each read the payment back and record it, in        *)
(* transactions that interleave with each other and with calls to Xendit   *)
(* that take seconds.  One charge id, asked for with one of two bodies;    *)
(* the account stays connected, so a cleared key finds the current one.    *)
(***************************************************************************)
EXTENDS Integers

CONSTANTS
    Asker,      \* requests of devices that can be open at once
    Hook,       \* the callback request
    Body,       \* what a request for this id may ask: device, account, amount, document
    Ttl,        \* QRIS_TTL_MS
    Settle,     \* SETTLE_MS
    Recheck,    \* RECHECK_MS
    MaxClock    \* bound: the last moment

ASSUME ChargeConstants ==
    /\ Hook \notin Asker
    /\ {Ttl, Settle, Recheck, MaxClock} \subseteq Nat \ {0} /\ MaxClock > 2 * Ttl

ChargeCall == Asker \cup {Hook}
Never == -1
NoCharge == [qr |-> {}]
Idle == [step |-> "idle"]

VARIABLES
    clock,
    charge,  \* the row: its QR, body, expiresAt, checkedAt, whether paid
    xendit,  \* per QR (named by the call that made it): "none", "open" or "paid"
    validTo, \* per QR, until when it can be paid
    screens, \* QRs that were on a screen
    ledger,  \* how many payments were recorded for the charge
    call     \* per request, what it is at

chargeVars == <<clock, charge, xendit, validTo, screens, ledger, call>>
Provider == <<xendit, validTo>>
Shop == <<clock, screens, ledger>>

ChargeInit ==
    /\ clock = 0 /\ charge = NoCharge /\ screens = {} /\ ledger = 0
    /\ xendit = [c \in Asker |-> "none"] /\ validTo = [c \in Asker |-> 0]
    /\ call = [c \in ChargeCall |-> Idle]

Goes(c, s) == call' = [call EXCEPT ![c] = s]

\* expired and chargeView.
Expired(row, now) ==
    /\ row.paidAt = Never /\ now > row.expiresAt
    /\ now > row.expiresAt + Ttl \/ row.checkedAt >= row.expiresAt + Settle
\* Of the answers only "expired" is kept, and only while the QR is not long over.
View(row, now) ==
    IF Expired(row, now) /\ now <= row.expiresAt + Ttl THEN [step |-> "told expired"] ELSE Idle

\* Time, counted from the first QR made.
Passes ==
    /\ clock < MaxClock /\ clock' = clock + 1 /\ \E c \in Asker : xendit[c] # "none"
    /\ UNCHANGED <<charge, Provider, screens, ledger, call>>

----------------------------------------------------------------------------
(* createCharge: look for the row, make a QR, store the row.               *)

\* The answer shows the stored QR to the customer, if the row is this request's.
Shows(row, body) == IF row.body = body THEN screens \cup row.qr ELSE screens

AskForQr(c, body) ==
    /\ call[c] = Idle
    /\ IF charge = NoCharge
       THEN Goes(c, [step |-> "making", body |-> body]) /\ UNCHANGED screens
       ELSE UNCHANGED call /\ screens' = Shows(charge, body)
    /\ UNCHANGED <<clock, charge, Provider, ledger>>

\* createDynamicQr; the server made every QR once per request.
MakeQr(c) ==
    /\ call[c].step = "making" /\ xendit[c] = "none"
    /\ xendit' = [xendit EXCEPT ![c] = "open"]
    /\ validTo' = [validTo EXCEPT ![c] = clock + Ttl]
    /\ Goes(c, [step |-> "storing", body |-> call[c].body])
    /\ UNCHANGED <<Shop, charge>>

RowOf(c) == [qr |-> {c}, body |-> call[c].body, expiresAt |-> validTo[c],
             checkedAt |-> Never, paidAt |-> Never]
\* INSERT ... ON CONFLICT DO NOTHING, and the row that is there.
StoredRow(c) == IF charge = NoCharge THEN RowOf(c) ELSE charge
\* Mutant: the request answers with the QR it made.
StoreOwnQr(c) ==
    /\ call[c].step = "storing" /\ charge' = StoredRow(c)
    /\ screens' = Shows(RowOf(c), call[c].body)
    /\ Goes(c, Idle) /\ UNCHANGED <<clock, Provider, ledger>>
StoreQr(c) ==
    /\ call[c].step = "storing" /\ charge' = StoredRow(c)
    /\ screens' = Shows(charge', call[c].body)
    /\ Goes(c, Idle) /\ UNCHANGED <<clock, Provider, ledger>>

----------------------------------------------------------------------------
(* The customer.                                                           *)

Pay(q) ==
    /\ q \in screens /\ xendit[q] = "open" /\ clock <= validTo[q]
    /\ xendit' = [xendit EXCEPT ![q] = "paid"]
    /\ UNCHANGED <<Shop, validTo, charge, call>>

----------------------------------------------------------------------------
(* chargeStatus and handleCallback, and reconcile, which they share.       *)

\* The update that claims the look at Xendit.
Claimable ==
    \/ charge.checkedAt = Never \/ charge.checkedAt <= clock - Recheck
    \/ clock >= charge.expiresAt + Settle /\ charge.checkedAt < charge.expiresAt + Settle

AskStatus(c) ==
    /\ call[c] = Idle /\ charge # NoCharge
    /\ IF charge.paidAt # Never \/ clock > charge.expiresAt + Ttl \/ ~Claimable
       THEN Goes(c, View(charge, clock)) /\ UNCHANGED charge
       ELSE /\ charge' = [charge EXCEPT !.checkedAt = clock]
            /\ Goes(c, [step |-> "looking", seen |-> charge.checkedAt, at |-> clock])
    /\ UNCHANGED <<Shop, Provider>>

\* Xendit calls, and calls again until it is answered 200.
PaidCallback ==
    /\ call[Hook] = Idle /\ charge # NoCharge /\ charge.paidAt = Never
    /\ \E q \in charge.qr : xendit[q] = "paid"
    /\ Goes(Hook, [step |-> "looking", seen |-> charge.checkedAt, at |-> clock])
    /\ UNCHANGED <<Shop, charge, Provider>>

\* listQrPayments is answered: nothing yet, or a payment to record.
Look(c) ==
    /\ call[c].step = "looking"
    /\ IF \E q \in charge.qr : xendit[q] = "paid"
       THEN Goes(c, [step |-> "recording"])
       ELSE Goes(c, IF c = Hook THEN Idle
                  ELSE View([charge EXCEPT !.paidAt = Never, !.checkedAt = call[c].at], clock))
    /\ UNCHANGED <<Shop, charge, Provider>>

\* Xendit is slow or refuses: the look does not count.
LookFails(c) ==
    /\ call[c].step = "looking"
    /\ IF c # Hook /\ charge.checkedAt = call[c].at
       THEN charge' = [charge EXCEPT !.checkedAt = call[c].seen] ELSE UNCHANGED charge
    /\ Goes(c, IF c = Hook THEN Idle ELSE View([charge EXCEPT !.paidAt = Never, !.checkedAt = call[c].seen], clock))
    /\ UNCHANGED <<Shop, Provider>>

\* Mutant: what the look saw is believed, the row is not read again.
RecordPaymentUnchecked(c) ==
    /\ call[c].step = "recording"
    /\ ledger' = ledger + 1 /\ charge' = [charge EXCEPT !.paidAt = clock]
    /\ Goes(c, IF c = Hook THEN Idle ELSE View(charge', clock))
    /\ UNCHANGED <<clock, screens, Provider>>
\* recordPayment, behind the tenant's lock, the row read again.
RecordPayment(c) ==
    /\ call[c].step = "recording"
    /\ IF charge.paidAt # Never THEN UNCHANGED <<charge, ledger>>
       ELSE ledger' = ledger + 1 /\ charge' = [charge EXCEPT !.paidAt = clock]
    /\ Goes(c, IF c = Hook THEN Idle ELSE View(charge', clock))
    /\ UNCHANGED <<clock, screens, Provider>>

Told(c) == call[c].step = "told expired" /\ Goes(c, Idle) /\ UNCHANGED <<Shop, charge, Provider>>

\* The process dies: its requests are gone, what is committed stays.
Restart == /\ \E c \in ChargeCall : call[c].step \notin {"idle", "told expired"}
           /\ call' = [c \in ChargeCall |-> Idle] /\ UNCHANGED <<Shop, charge, Provider>>

ChargeNext ==
    \/ Passes \/ PaidCallback \/ Restart
    \/ \E c \in Asker : \/ \E body \in Body : AskForQr(c, body)
                        \/ MakeQr(c) \/ StoreQr(c) \/ AskStatus(c) \/ Told(c) \/ Pay(c)
    \/ \E c \in ChargeCall : Look(c) \/ LookFails(c) \/ RecordPayment(c)
ChargeSpec == ChargeInit /\ [][ChargeNext]_chargeVars

\* Xendit calls back until it is answered, and its own answers come at last.
ChargeFairness ==
    WF_chargeVars(PaidCallback) /\ SF_chargeVars(Look(Hook)) /\ SF_chargeVars(RecordPayment(Hook))

----------------------------------------------------------------------------
ChargeTypeOK ==
    /\ clock \in 0..MaxClock /\ ledger \in Nat /\ screens \subseteq Asker
    /\ xendit \in [Asker -> {"none", "open", "paid"}]
    /\ charge # NoCharge => charge.paidAt \in Never..clock /\ charge.checkedAt \in Never..clock

\* "One QR records at most one payment however often Xendit calls back or a
\* device asks" (service.ts), and the row says paid exactly when it is recorded:
\* the callback, the status checks and a restart come in any order.
PaymentRecordedOnce ==
    /\ ledger <= 1
    /\ (ledger > 0) = (charge # NoCharge /\ charge.paidAt # Never)

\* A QR a customer paid is recorded in the end, whichever of two requests with
\* one id made it: only the stored QR is ever on a screen.
PaidIsRecorded == \A q \in Asker : xendit[q] = "paid" ~> charge # NoCharge /\ charge.paidAt # Never

\* "A customer who paid in its last second must not be asked to pay again"
\* (service.ts): no device is told that a QR expired that was paid.
ExpiredIsUnpaid ==
    \A c \in Asker : call[c].step = "told expired" =>
        \A q \in charge.qr : xendit[q] # "paid"
=============================================================================
