-------------------------- MODULE WhatsAppReceipts --------------------------
(***************************************************************************)
(* The WhatsApp webhook (ApplyWhatsAppStatusEvents): delivery receipts     *)
(* that Meta posts for messages it accepted, in any order, more than once  *)
(* and at any time after the acceptance, also before the worker committed  *)
(* the message id.  One event of a request is one step: the transaction of *)
(* a request with several events is that many steps in a row, and a failed *)
(* one changes nothing and is posted again.                                *)
(***************************************************************************)
EXTENDS DeliveryTable

CONSTANTS
  NoReceipt,   \* providerStatus IS NULL
  EventTime    \* provider timestamps of events

VARIABLES
  providerStatus,  \* Delivery -> receipt status
  events,          \* notification_provider_events
  unmatched        \* messages whose FAILED receipt was answered 200 and
                   \* dropped, no delivery having their id (history variable)

receiptVars == <<providerStatus, events, unmatched>>

Receipt == {"SENT", "DELIVERED", "READ", "FAILED"}
ASSUME ReceiptAssumption == NoReceipt \notin Receipt

ReceiptInit ==
  /\ providerStatus = [d \in Delivery |-> NoReceipt]
  /\ events = {}
  /\ unmatched = {}

(* Mutant: a late failure overrides a delivery.                            *)
MergedFailureWins(current, receipt) ==
  CASE receipt = "READ" -> "READ"
    [] receipt = "DELIVERED" /\ current # "READ" -> "DELIVERED"
    [] receipt = "SENT" /\ current = NoReceipt -> "SENT"
    [] receipt = "FAILED" -> "FAILED"
    [] OTHER -> current

(* The CASE of the UPDATE: a receipt never goes back.                      *)
Merged(current, receipt) ==
  CASE receipt = "READ" -> "READ"
    [] receipt = "DELIVERED" /\ current # "READ" -> "DELIVERED"
    [] receipt = "SENT" /\ current = NoReceipt -> "SENT"
    [] receipt = "FAILED" /\ current \notin {"DELIVERED", "READ"} -> "FAILED"
    [] OTHER -> current

(* Mutant: the receipts already on record are not looked at.               *)
ProviderFailureAppliesLate(d, receipt) == receipt = "FAILED" /\ status[d] = "SENT"

ProviderFailureApplies(d, receipt) ==
  /\ receipt = "FAILED"
  /\ status[d] = "SENT"
  /\ providerStatus[d] \notin {"DELIVERED", "READ"}

Matches(d, m) == ProviderOf[d] = "WHATSAPP" /\ providerMessageId[d] = m

ApplyReceipt(d, m, receipt, at) ==
  LET event == [message |-> m, receipt |-> receipt, at |-> at]
  IN  /\ Matches(d, m)
      /\ event \notin events
      /\ events' = events \cup {event}
      /\ providerStatus' = [providerStatus EXCEPT ![d] = Merged(@, receipt)]
      /\ IF ProviderFailureApplies(d, receipt)
         THEN Fail(d, NextUnused(d))
         ELSE UNCHANGED <<status, due, lease>>
      /\ UNCHANGED <<attemptCount, providerMessageId, attempts, unmatched>>

(* No row: the event is skipped and the request still answered with 200.   *)
(* Only a failure is remembered: nothing else could have changed a row.    *)
IgnoreFailure(m) ==
  /\ \A d \in Delivery : ~Matches(d, m)
  /\ unmatched' = unmatched \cup {m}
  /\ UNCHANGED <<tableVars, providerStatus, events>>
=============================================================================
