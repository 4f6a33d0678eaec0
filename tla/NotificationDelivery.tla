------------------------ MODULE NotificationDelivery ------------------------
(***************************************************************************)
(* The delivery of notifications: the outbox inserts chains of routes, the *)
(* workers of all API instances send them, Meta reports what became of the *)
(* WhatsApp messages, and time passes.  All of them share the rows of      *)
(* DeliveryTable.                                                          *)
(***************************************************************************)
EXTENDS DeliveryWorker, WhatsAppReceipts

vars == <<tableVars, workerVars, receiptVars>>

Init == TableInit /\ WorkerInit /\ ReceiptInit

(* Meta has something to report only for messages it accepted.             *)
Reportable ==
  {MessageIdOf[a[1]][a[2]] : a \in {x \in accepted : ProviderOf[x[1]] = "WHATSAPP"}}

WorkerActs(w) == WorkerStep(w) /\ UNCHANGED receiptVars

Webhook ==
  /\ \E m \in Reportable :
       \/ \E d \in Delivery, receipt \in Receipt, at \in EventTime :
            ApplyReceipt(d, m, receipt, at)
       \/ IgnoreFailure(m)
  /\ UNCHANGED workerVars

Outbox == /\ \E c \in Chain : EnqueueAlert(c)
          /\ UNCHANGED <<workerVars, receiptVars>>

TimePasses(d) ==
  /\ BecomesDue(d) \/ LeaseExpires(d)
  /\ UNCHANGED <<workerVars, receiptVars>>

Faults == (\E w \in Worker : WorkerFault(w)) /\ UNCHANGED receiptVars

Next ==
  \/ Outbox
  \/ \E d \in Delivery : TimePasses(d)
  \/ \E w \in Worker : WorkerActs(w)
  \/ Faults
  \/ Webhook

Spec == Init /\ [][Next]_vars

(* A worker keeps polling (Run loops until its process ends, and a process *)
(* that ends is restarted: faults are bounded), every send has a timeout   *)
(* so every goroutine finishes, and clocks advance.  Nothing obliges an    *)
(* alert to come, Meta to report or a fault to happen.                     *)
Fairness ==
  /\ \A w \in Worker : WF_vars(WorkerActs(w))
  /\ \A d \in Delivery : WF_vars(TimePasses(d))

FairSpec == Spec /\ Fairness

-----------------------------------------------------------------------------
(* Invariants *)

Attempt == [delivery : Delivery, number : 1..MaxAttempts,
            outcome : {"SUCCEEDED", "FAILED"}]
Item == [delivery : Delivery, number : 1..MaxAttempts, phase : Phase]

\* Every variable has its type, the bounds of the CHECK constraints included.
TypeOK ==
  /\ status \in [Delivery -> Status]
  /\ attemptCount \in [Delivery -> 0..MaxAttempts]
  /\ due \in [Delivery -> BOOLEAN]
  /\ lease \in [Delivery -> {"none", "running", "expired"}]
  /\ providerMessageId \in [Delivery -> MessageId \cup {NoMessage}]
  /\ attempts \subseteq Attempt
  /\ pc \in [Worker -> {"idle", "recovering", "claiming", "processing"}]
  /\ snapshot \in [Worker -> SUBSET [delivery : Delivery, attempts : 1..MaxAttempts]]
  /\ inflight \in [Worker -> SUBSET Item]
  /\ accepted \subseteq Delivery \X (1..MaxAttempts)
  /\ faults \in 0..MaxFaults
  /\ providerStatus \in [Delivery -> Receipt \cup {NoReceipt}]
  /\ events \subseteq [message : MessageId, receipt : Receipt, at : EventTime]
  /\ unmatched \subseteq MessageId

Live == {"PENDING", "PROCESSING", "RETRY_SCHEDULED"}

Before(x, y) == ChainOf[x] = ChainOf[y] /\ PriorityOf[x] < PriorityOf[y]

\* While a route is being tried, or has succeeded, every earlier route of its
\* chain has failed (or was never inserted) and no later one is tried: nobody
\* is notified on two routes at once, whatever workers and receipts interleave.
OneRouteAtATime ==
  \A x \in Delivery : status[x] \in Live \cup {"SENT"} =>
    \A y \in Delivery :
      /\ Before(y, x) => status[y] \in {"FAILED", "ABSENT"}
      /\ Before(x, y) => status[y] \in {"WAITING_FALLBACK", "CANCELLED", "ABSENT"}

\* A route waits only behind a route that is still being tried, so a waiting
\* route is always going to be activated or cancelled.
WaitsBehindLiveRoute ==
  \A y \in Delivery : status[y] = "WAITING_FALLBACK" =>
    \E x \in Delivery : Before(x, y) /\ status[x] \in Live

\* A chain ends with a route SENT or with every route of it FAILED: no route is
\* left unused when nothing else reached the owner.
NoRouteLeftUnused ==
  \A d \in Delivery : status[d] = "CANCELLED" =>
    \E x \in Delivery : Before(x, d) /\ status[x] \in Live \cup {"SENT"}

\* notification_deliveries_lease_status_check: the database would refuse a
\* row that leaves PROCESSING with its lease, or enters it without one.
LeaseIffProcessing ==
  \A d \in Delivery : status[d] = "PROCESSING" <=> lease[d] # "none"

\* A SENT route has the success of its last claim on record.  And a success on
\* record is that of the last claim, of a message the provider did accept, with
\* that message's id; only a FAILED receipt ends it.  A worker that lost its
\* lease can record nothing, not even a success its attempt row would swallow.
SuccessIsOfLastClaim ==
  /\ \A d \in Delivery : status[d] = "SENT" =>
       \E a \in attempts : /\ a.delivery = d
                           /\ a.number = attemptCount[d]
                           /\ a.outcome = "SUCCEEDED"
  /\ \A a \in attempts : a.outcome = "SUCCEEDED" =>
       LET d == a.delivery
       IN  /\ a.number = attemptCount[d]
           /\ <<d, a.number>> \in accepted
           /\ providerMessageId[d] = MessageIdOf[d][a.number]
           /\ status[d] = "SENT" \/ (status[d] = "FAILED" /\ \E e \in events :
                e.message = providerMessageId[d] /\ e.receipt = "FAILED")

\* Every claim that is over has its row in notification_attempts, also the
\* claims whose worker died (a recovered lease).
EveryClaimIsAudited ==
  \A d \in Delivery : \A n \in 1..attemptCount[d] :
    \/ \E a \in attempts : a.delivery = d /\ a.number = n
    \/ status[d] = "PROCESSING" /\ n = attemptCount[d]

\* A row that waits to be claimed has an attempt left, so it can be claimed.
RetryHasAttemptLeft ==
  \A d \in Delivery :
    status[d] \in {"PENDING", "RETRY_SCHEDULED"} => attemptCount[d] < MaxAttempts

\* The receipt on record and the route agree: a FAILED receipt means a failed
\* route.
FailedReceiptFailsRoute ==
  \A d \in Delivery : providerStatus[d] = "FAILED" => status[d] = "FAILED"

\* No FAILED receipt is lost: when Meta reported the message of a route as
\* failed, and never as delivered or read, the route does not stay SENT.
NoFailureReceiptLost ==
  \A d \in Delivery :
    status[d] = "SENT" /\ providerMessageId[d] \in unmatched
      => providerStatus[d] \in {"DELIVERED", "READ"}

-----------------------------------------------------------------------------
(* Action properties *)

\* A claim ends only by the goroutine that holds it or by the recovery of its
\* expired lease, never by a goroutine of an earlier claim of the same row.
ClaimIsExclusive ==
  [][\A d \in Delivery : status[d] = "PROCESSING" /\ status'[d] # "PROCESSING" =>
       \/ lease[d] = "expired"
       \/ \E w \in Worker : \E item \in inflight[w] \ inflight'[w] :
            item.delivery = d /\ item.number = attemptCount[d]]_vars

\* Once Meta reported the message of a SENT route as delivered or read, the
\* route stays SENT, whatever receipts come late.
DeliveredStaysSent ==
  [][\A d \in Delivery :
       /\ status[d] = "SENT"
       /\ \E e \in events : e.message = providerMessageId[d] /\ e.receipt \in {"DELIVERED", "READ"}
       => status'[d] = "SENT"]_vars

\* A goroutine that comes back with the provider's acceptance while its claim
\* is still the row's, records it as SENT, even if the lease has run out or
\* another instance has scanned it; only a crash or a database error prevents
\* it.  (When another instance has recovered the expired lease before, the
\* answer is lost and the message is sent again: the claim is no longer held.)
AcceptedIsRecorded ==
  [][\A w \in Worker : \A item \in inflight[w] \ inflight'[w] :
       /\ item.phase = "accepted"
       /\ status[item.delivery] = "PROCESSING" /\ attemptCount[item.delivery] = item.number
       => status'[item.delivery] = "SENT" \/ faults' > faults]_vars

-----------------------------------------------------------------------------
(* Liveness *)

\* An alert that was recorded does not leave a route waiting or in progress
\* for ever: its chain ends.
ChainsSettle ==
  \A d \in Delivery :
    <>[](status[d] \in {"ABSENT", "SENT", "FAILED", "CANCELLED"})

-----------------------------------------------------------------------------
(* Refinement *)

RouteOf(d) ==
  CASE status[d] = "ABSENT" -> "absent"
    [] status[d] = "WAITING_FALLBACK" -> "standby"
    [] status[d] \in Live -> "live"
    [] status[d] = "SENT" -> "sent"
    [] status[d] = "FAILED" -> "failed"
    [] status[d] = "CANCELLED" -> "stood_down"

Promise == INSTANCE FallbackChain WITH route <- [d \in Delivery |-> RouteOf(d)]

\* The workers, the webhook and the outbox together keep the promise of
\* FallbackChain: claims, retries, recoveries and stale results are invisible
\* in it, and every other step is one of its steps.
KeepsPromise == Promise!Spec
=============================================================================
