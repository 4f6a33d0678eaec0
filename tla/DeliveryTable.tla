--------------------------- MODULE DeliveryTable ---------------------------
(***************************************************************************)
(* The rows of notification_deliveries and notification_attempts, and the  *)
(* SQL statements that several programs run on them.  A chain is the set   *)
(* of deliveries of one (alertId, ruleId) pair, ordered by priority.  A    *)
(* TEST delivery has no alert and no rule, hence no fallback: it is a      *)
(* chain of one route.                                                     *)
(*                                                                         *)
(* Each operator below is one statement of the source, run in a            *)
(* transaction of its caller; the callers are the actions of               *)
(* DeliveryWorker and WhatsAppReceipts.  A timestamp is kept only as far   *)
(* as a guard compares it with NOW(): due[d] is "availableAt <= NOW()",    *)
(* lease[d] says whether lockedUntil is NULL, ahead of NOW() or passed.    *)
(***************************************************************************)
EXTENDS Integers, FiniteSets

CONSTANTS
  Delivery,       \* rows of notification_deliveries
  Chain,          \* (alertId, ruleId) pairs
  ChainOf,        \* Delivery -> Chain
  PriorityOf,     \* Delivery -> priority, snapshot of the rule channel
  ProviderOf,     \* Delivery -> "TELEGRAM" or "WHATSAPP"
  MessageId,      \* provider message identifiers
  MessageIdOf,    \* the id the provider gives to attempt n of d: MessageIdOf[d][n]
  NoMessage,      \* providerMessageId IS NULL
  MaxAttempts,    \* column maxAttempts (MaxAttemptsDefault = 5 in the code)
  Deduplicated    \* deliveries whose dedupeKey an earlier observation of the
                  \* same incident already took

ASSUME ChainAssumption == ChainOf \in [Delivery -> Chain]
\* notification_rule_channels_rule_priority_key
ASSUME PriorityAssumption ==
  /\ PriorityOf \in [Delivery -> Nat]
  /\ \A c, d \in Delivery :
       ChainOf[c] = ChainOf[d] /\ PriorityOf[c] = PriorityOf[d] => c = d
ASSUME ProviderAssumption == ProviderOf \in [Delivery -> {"TELEGRAM", "WHATSAPP"}]
\* notification_deliveries_max_attempts_check
ASSUME MaxAttemptsAssumption == MaxAttempts \in Nat \ {0}
ASSUME MessageAssumption ==
  /\ NoMessage \notin MessageId
  /\ MessageIdOf \in [Delivery -> [1..MaxAttempts -> MessageId]]
ASSUME DeduplicatedAssumption == Deduplicated \subseteq Delivery

VARIABLES
  status,             \* "ABSENT" until the row is inserted
  attemptCount,
  due,
  lease,
  providerMessageId,
  attempts            \* notification_attempts

tableVars == <<status, attemptCount, due, lease, providerMessageId, attempts>>

Status == {"ABSENT", "WAITING_FALLBACK", "PENDING", "PROCESSING",
           "RETRY_SCHEDULED", "SENT", "FAILED", "CANCELLED"}

TableInit ==
  /\ status = [d \in Delivery |-> "ABSENT"]
  /\ attemptCount = [d \in Delivery |-> 0]
  /\ due = [d \in Delivery |-> FALSE]
  /\ lease = [d \in Delivery |-> "none"]
  /\ providerMessageId = [d \in Delivery |-> NoMessage]
  /\ attempts = {}

-----------------------------------------------------------------------------
(* Selections *)

(* Mutant: ORDER BY "priority" without LIMIT 1.                            *)
NextInNoLimit(d, S) ==
  {x \in Delivery : /\ ChainOf[x] = ChainOf[d]
                    /\ PriorityOf[x] > PriorityOf[d]
                    /\ status[x] \in S}

(* WHERE "status" IN (S) AND the row is a lower priority of d's chain,     *)
(* ORDER BY "priority" LIMIT 1: empty or a single row.                     *)
NextIn(d, S) ==
  LET below == {x \in Delivery : /\ ChainOf[x] = ChainOf[d]
                                 /\ PriorityOf[x] > PriorityOf[d]
                                 /\ status[x] \in S}
  IN  {x \in below : \A y \in below : PriorityOf[x] <= PriorityOf[y]}

NextWaiting(d) == NextIn(d, {"WAITING_FALLBACK"})

(* Mutant: the webhook activates a waiting route, as the worker does.      *)
NextUnusedWaitingOnly(d) == NextIn(d, {"WAITING_FALLBACK"})

NextUnused(d) == NextIn(d, {"WAITING_FALLBACK", "CANCELLED"})

(* Mutant: no "attemptCount" < "maxAttempts".                              *)
ClaimableWithoutLimit ==
  {d \in Delivery : status[d] \in {"PENDING", "RETRY_SCHEDULED"} /\ due[d]}

Claimable ==
  {d \in Delivery : /\ status[d] \in {"PENDING", "RETRY_SCHEDULED"}
                    /\ due[d]
                    /\ attemptCount[d] < MaxAttempts}

LeaseExpired(d) == status[d] = "PROCESSING" /\ lease[d] = "expired"

(* The first route of the chain: routes[0].priority of loadRoutes.         *)
IsPrimary(d) ==
  \A x \in Delivery : ChainOf[x] = ChainOf[d] => PriorityOf[d] <= PriorityOf[x]

-----------------------------------------------------------------------------
(* Statements *)

(* INSERT INTO notification_attempts ... ON CONFLICT DO NOTHING.           *)
WithAttempt(d, n, outcome) ==
  IF \E a \in attempts : a.delivery = d /\ a.number = n
  THEN attempts
  ELSE attempts \cup {[delivery |-> d, number |-> n, outcome |-> outcome]}

(* The rows in S are PENDING with availableAt = NOW() + fallbackDelay.     *)
(* Nothing else of them changes: they never held a lease.                  *)
Fail(d, S) ==
  /\ status' = [x \in Delivery |-> IF x = d THEN "FAILED"
                                   ELSE IF x \in S THEN "PENDING"
                                   ELSE status[x]]
  /\ due' = [x \in Delivery |-> IF x \in S THEN FALSE ELSE due[x]]
  /\ lease' = [lease EXCEPT ![d] = "none"]

(* Mutant: the lease columns are not cleared.                              *)
ScheduleRetryKeepingLease(d) ==
  /\ status' = [status EXCEPT ![d] = "RETRY_SCHEDULED"]
  /\ due' = [due EXCEPT ![d] = FALSE]
  /\ UNCHANGED lease

ScheduleRetry(d) ==
  /\ status' = [status EXCEPT ![d] = "RETRY_SCHEDULED"]
  /\ due' = [due EXCEPT ![d] = FALSE]
  /\ lease' = [lease EXCEPT ![d] = "none"]

-----------------------------------------------------------------------------
(* Time *)

\* availableAt has passed.
BecomesDue(d) ==
  /\ status[d] \in {"PENDING", "RETRY_SCHEDULED"}
  /\ ~due[d]
  /\ due' = [due EXCEPT ![d] = TRUE]
  /\ UNCHANGED <<status, attemptCount, lease, providerMessageId, attempts>>

\* lockedUntil has passed.
LeaseExpires(d) ==
  /\ status[d] = "PROCESSING"
  /\ lease[d] = "running"
  /\ lease' = [lease EXCEPT ![d] = "expired"]
  /\ UNCHANGED <<status, attemptCount, due, providerMessageId, attempts>>

-----------------------------------------------------------------------------
(* The outbox: ingestAIAlert commits the alert and these rows together.    *)

EnqueueAlert(c) ==
  LET routes == {d \in Delivery : ChainOf[d] = c}
      inserted == routes \ Deduplicated
  IN  /\ inserted # {}
      /\ \A d \in routes : status[d] = "ABSENT"
      /\ status' = [d \in Delivery |->
                      IF d \notin inserted THEN status[d]
                      ELSE IF IsPrimary(d) THEN "PENDING"
                      ELSE "WAITING_FALLBACK"]
      /\ due' = [d \in Delivery |-> d \in inserted \/ due[d]]
      /\ UNCHANGED <<attemptCount, lease, providerMessageId, attempts>>
=============================================================================
