--------------------- MODULE NotificationDelivery_proofs ---------------------
(***************************************************************************)
(* Proofs about NotificationDelivery, for every set of deliveries, chains, *)
(* workers and messages and every bound.                                   *)
(***************************************************************************)
EXTENDS NotificationDelivery, WellFoundedInduction, TLAPS

(* A claimed row has been claimed at least once: what makes TypeOK         *)
(* inductive, because a recovery records the attempt number it scanned.    *)
ClaimedOnce == \A d \in Delivery : status[d] = "PROCESSING" => attemptCount[d] >= 1

TypeInv == TypeOK /\ ClaimedOnce

USE ChainAssumption, PriorityAssumption, ProviderAssumption, MaxAttemptsAssumption,
    MessageAssumption, DeduplicatedAssumption, FaultAssumption, ReceiptAssumption

(* A new row of notification_attempts is an attempt.                       *)
LEMMA WithAttemptType ==
  ASSUME attempts \subseteq Attempt, NEW d \in Delivery, NEW n \in 1..MaxAttempts,
         NEW outcome \in {"SUCCEEDED", "FAILED"}
  PROVE  WithAttempt(d, n, outcome) \subseteq Attempt
  BY DEF WithAttempt, Attempt

(* The failure of a row keeps the types of the columns it writes, and      *)
(* makes no row PROCESSING.                                                *)
LEMMA FailType ==
  ASSUME TypeInv, NEW d \in Delivery, NEW S, Fail(d, S)
  PROVE  /\ status' \in [Delivery -> Status]
         /\ due' \in [Delivery -> BOOLEAN]
         /\ lease' \in [Delivery -> {"none", "running", "expired"}]
         /\ \A x \in Delivery : status'[x] = "PROCESSING" => status[x] = "PROCESSING"
  BY DEF TypeInv, TypeOK, Fail, Status

(* The same of a retry.                                                    *)
LEMMA ScheduleRetryType ==
  ASSUME TypeInv, NEW d \in Delivery, ScheduleRetry(d)
  PROVE  /\ status' \in [Delivery -> Status]
         /\ due' \in [Delivery -> BOOLEAN]
         /\ lease' \in [Delivery -> {"none", "running", "expired"}]
         /\ \A x \in Delivery : status'[x] = "PROCESSING" => status[x] = "PROCESSING"
  BY DEF TypeInv, TypeOK, ScheduleRetry, Status

(* Leasing claimable rows stays within maxAttempts.                        *)
LEMMA LeaseRowsType ==
  ASSUME TypeInv, NEW rows \in SUBSET Claimable, LeaseRows(rows)
  PROVE  /\ status' \in [Delivery -> Status]
         /\ attemptCount' \in [Delivery -> 0..MaxAttempts]
         /\ lease' \in [Delivery -> {"none", "running", "expired"}]
         /\ ClaimedOnce'
  BY DEF TypeInv, TypeOK, ClaimedOnce, LeaseRows, Claimable, Status

LEMMA InitTypeInv == Init => TypeInv
  BY DEF Init, TableInit, WorkerInit, ReceiptInit, TypeInv, TypeOK, ClaimedOnce, Status

LEMMA WorkerStepType ==
  ASSUME TypeInv, NEW w \in Worker, WorkerStep(w), UNCHANGED receiptVars
  PROVE  TypeInv'
<1> USE DEF TypeInv, receiptVars
<1>1. CASE ScanExpired(w)
  <2>1. PICK rows \in SUBSET {d \in Delivery : LeaseExpired(d)} :
          snapshot' = [snapshot EXCEPT ![w] =
                         {[delivery |-> d, attempts |-> attemptCount[d]] : d \in rows}]
    BY <1>1 DEF ScanExpired
  <2>2. \A d \in rows : d \in Delivery /\ attemptCount[d] \in 1..MaxAttempts
    BY DEF TypeOK, ClaimedOnce, LeaseExpired
  <2>3. snapshot' \in [Worker -> SUBSET [delivery : Delivery, attempts : 1..MaxAttempts]]
    BY <2>1, <2>2 DEF TypeOK
  <2>4. QED BY <1>1, <2>3 DEF ScanExpired, TypeOK, ClaimedOnce, tableVars
<1>2. ASSUME NEW row \in snapshot[w], SkipRecovery(w, row)
      PROVE  TypeInv'
  BY <1>2 DEF SkipRecovery, DropScanned, TypeOK, ClaimedOnce, tableVars
<1>3. ASSUME NEW row \in snapshot[w], RecoverLease(w, row)
      PROVE  TypeInv'
  <2>1. row.delivery \in Delivery /\ row.attempts \in 1..MaxAttempts
    BY DEF TypeOK
  <2>2. attempts' \subseteq Attempt
    BY <1>3, <2>1, WithAttemptType DEF RecoverLease, TypeOK
  <2>3. /\ status' \in [Delivery -> Status]
        /\ due' \in [Delivery -> BOOLEAN]
        /\ lease' \in [Delivery -> {"none", "running", "expired"}]
        /\ \A x \in Delivery : status'[x] = "PROCESSING" => status[x] = "PROCESSING"
    BY <1>3, <2>1, FailType, ScheduleRetryType DEF RecoverLease
  <2>4. QED BY <1>3, <2>2, <2>3 DEF RecoverLease, DropScanned, TypeOK, ClaimedOnce
<1>4. CASE EndRecovery(w)
  BY <1>4 DEF EndRecovery, TypeOK, ClaimedOnce, tableVars
<1>5. CASE Claim(w)
  <2>1. PICK rows \in SUBSET Claimable :
          /\ LeaseRows(rows)
          /\ inflight' = [inflight EXCEPT ![w] =
               {[delivery |-> d, number |-> attemptCount[d] + 1, phase |-> "claimed"]
                  : d \in rows}]
    BY <1>5 DEF Claim
  <2>2. \A d \in rows : d \in Delivery /\ attemptCount[d] + 1 \in 1..MaxAttempts
    BY DEF TypeOK, Claimable
  <2>3. inflight' \in [Worker -> SUBSET Item]
    BY <2>1, <2>2 DEF TypeOK, Item, Phase
  <2>4. QED BY <1>5, <2>1, <2>3, LeaseRowsType DEF Claim, LeaseRows, TypeOK, ClaimedOnce
<1>6. CASE ClaimNothing(w)
  BY <1>6 DEF ClaimNothing, TypeOK, ClaimedOnce, tableVars
<1>7. ASSUME NEW item \in inflight[w], ItemStep(w, item)
      PROVE  TypeInv'
  <2>1. item \in Item /\ item.delivery \in Delivery /\ item.number \in 1..MaxAttempts
    BY DEF TypeOK, Item
  <2>2. Finished(w, item) => inflight' \in [Worker -> SUBSET Item]
    BY DEF Finished, TypeOK
  <2>3. ASSUME NEW phase \in Phase, NEW taken \in BOOLEAN, Send(w, item, phase, taken)
        PROVE  TypeInv'
    <3>1. [item EXCEPT !.phase = phase] \in Item
      BY <2>1 DEF Item
    <3>2. inflight' \in [Worker -> SUBSET Item]
      BY <2>3, <3>1 DEF Send, Reach, TypeOK
    <3>3. accepted' \subseteq Delivery \X (1..MaxAttempts)
      BY <2>1, <2>3 DEF Send, TypeOK
    <3>4. QED BY <2>3, <3>2, <3>3 DEF Send, TypeOK, ClaimedOnce, tableVars
  <2>4. CASE FinishSuccess(w, item)
    <3>1. attempts' \subseteq Attempt
      BY <2>1, <2>4, WithAttemptType DEF FinishSuccess, TypeOK
    <3>2. MessageIdOf[item.delivery][item.number] \in MessageId
      BY <2>1
    <3>3. providerMessageId' \in [Delivery -> MessageId \cup {NoMessage}]
      BY <2>4, <3>2 DEF FinishSuccess, TypeOK
    <3>4. status' \in [Delivery -> Status] /\ lease' \in [Delivery -> {"none", "running", "expired"}]
      BY <2>4 DEF FinishSuccess, TypeOK, Status
    <3>5. ClaimedOnce'
      BY <2>4 DEF FinishSuccess, TypeOK, ClaimedOnce
    <3>6. QED BY <2>2, <2>4, <3>1, <3>3, <3>4, <3>5 DEF FinishSuccess, Finished, TypeOK
  <2>5. CASE FinishRetry(w, item)
    <3>1. attempts' \subseteq Attempt
      BY <2>1, <2>5, WithAttemptType DEF FinishRetry, TypeOK
    <3>2. QED BY <2>1, <2>2, <2>5, <3>1, ScheduleRetryType
              DEF FinishRetry, Finished, TypeOK, ClaimedOnce
  <2>6. CASE FinishFailure(w, item)
    <3>1. attempts' \subseteq Attempt
      BY <2>1, <2>6, WithAttemptType DEF FinishFailure, TypeOK
    <3>2. QED BY <2>1, <2>2, <2>6, <3>1, FailType
              DEF FinishFailure, Finished, TypeOK, ClaimedOnce
  <2>7. CASE RollBackFinish(w, item)
    BY <2>2, <2>7 DEF RollBackFinish, Finished, TypeOK, ClaimedOnce, tableVars
  <2>8. QED BY <1>7, <2>3, <2>4, <2>5, <2>6, <2>7 DEF ItemStep
<1>8. CASE EndCycle(w)
  BY <1>8 DEF EndCycle, TypeOK, ClaimedOnce, tableVars
<1>9. QED BY <1>1, <1>2, <1>3, <1>4, <1>5, <1>6, <1>7, <1>8 DEF WorkerStep

LEMMA WorkerFaultType ==
  ASSUME TypeInv, NEW w \in Worker, WorkerFault(w), UNCHANGED receiptVars
  PROVE  TypeInv'
<1> USE DEF TypeInv, receiptVars
<1>1. Fault => faults' \in 0..MaxFaults
  BY DEF Fault, TypeOK
<1>2. CASE LoseClaim(w)
  BY <1>1, <1>2, LeaseRowsType DEF LoseClaim, LeaseRows, TypeOK
<1>3. ASSUME NEW item \in inflight[w], LoseFinish(w, item)
      PROVE  TypeInv'
  BY <1>1, <1>3 DEF LoseFinish, Finished, TypeOK, ClaimedOnce, tableVars
<1>4. CASE Abandon(w)
  BY <1>1, <1>4 DEF Abandon, TypeOK, ClaimedOnce, tableVars
<1>5. QED BY <1>2, <1>3, <1>4 DEF WorkerFault

LEMMA WebhookType ==
  ASSUME TypeInv, Webhook
  PROVE  TypeInv'
<1> USE DEF TypeInv, Webhook, workerVars
<1>1. PICK m \in Reportable :
        \/ \E d \in Delivery, receipt \in Receipt, at \in EventTime :
             ApplyReceipt(d, m, receipt, at)
        \/ IgnoreFailure(m)
  OBVIOUS
<1>2. m \in MessageId
  BY DEF Reportable, TypeOK
<1>3. CASE IgnoreFailure(m)
  BY <1>2, <1>3 DEF IgnoreFailure, TypeOK, ClaimedOnce, tableVars
<1>4. ASSUME NEW d \in Delivery, NEW receipt \in Receipt, NEW at \in EventTime,
             ApplyReceipt(d, m, receipt, at)
      PROVE  TypeInv'
  <2>1. Merged(providerStatus[d], receipt) \in Receipt \cup {NoReceipt}
    BY DEF Merged, Receipt, TypeOK
  <2>2. /\ providerStatus' \in [Delivery -> Receipt \cup {NoReceipt}]
        /\ events' \subseteq [message : MessageId, receipt : Receipt, at : EventTime]
    BY <1>2, <1>4, <2>1 DEF ApplyReceipt, TypeOK
  <2>3. CASE ProviderFailureApplies(d, receipt)
    BY <1>4, <2>2, <2>3, FailType DEF ApplyReceipt, TypeOK, ClaimedOnce
  <2>4. CASE ~ProviderFailureApplies(d, receipt)
    BY <1>4, <2>2, <2>4 DEF ApplyReceipt, TypeOK, ClaimedOnce
  <2>5. QED BY <2>3, <2>4
<1>5. QED BY <1>1, <1>3, <1>4

LEMMA NextTypeInv == TypeInv /\ [Next]_vars => TypeInv'
<1> SUFFICES ASSUME TypeInv, [Next]_vars
             PROVE  TypeInv'
  OBVIOUS
<1>1. CASE Outbox
  BY <1>1 DEF Outbox, EnqueueAlert, TypeInv, TypeOK, ClaimedOnce, Status, workerVars,
      receiptVars
<1>2. ASSUME NEW d \in Delivery, TimePasses(d)
      PROVE  TypeInv'
  BY ZenonT(60), <1>2 DEF TimePasses, BecomesDue, LeaseExpires, TypeInv, TypeOK, ClaimedOnce,
              workerVars, receiptVars
<1>3. CASE \E w \in Worker : WorkerActs(w)
  BY <1>3, WorkerStepType DEF WorkerActs
<1>4. CASE Faults
  BY <1>4, WorkerFaultType DEF Faults
<1>5. CASE Webhook
  BY <1>5, WebhookType
<1>6. CASE UNCHANGED vars
  BY <1>6 DEF vars, tableVars, workerVars, receiptVars, TypeInv, TypeOK, ClaimedOnce
<1>7. QED BY <1>1, <1>2, <1>3, <1>4, <1>5, <1>6 DEF Next

LEMMA TypeInvariant == Spec => []TypeInv
  BY InitTypeInv, NextTypeInv, PTL DEF Spec

(* Every variable keeps its type: attemptCount never exceeds maxAttempts   *)
(* (notification_deliveries_attempt_bounds_check is never violated), the   *)
(* attempt numbers on record and in flight are between 1 and maxAttempts.  *)
THEOREM TypeCorrect == Spec => []TypeOK
<1>1. TypeInv => TypeOK
  BY DEF TypeInv
<1>2. QED BY <1>1, TypeInvariant, PTL

-----------------------------------------------------------------------------
(* What a step can do to the status column. *)

Starts(c) ==
  /\ c \in Chain
  /\ \A d \in Delivery : ChainOf[d] = c => status[d] = "ABSENT"
  /\ \E R \in SUBSET Delivery :
       /\ R # {}
       /\ \A d \in R : ChainOf[d] = c
       /\ \A d \in Delivery : ChainOf[d] = c => d \in R \cup Deduplicated
       /\ status' = [d \in Delivery |-> IF d \notin R THEN status[d]
                                        ELSE IF IsPrimary(d) THEN "PENDING"
                                        ELSE "WAITING_FALLBACK"]

StaysPut ==
  \A d \in Delivery : status'[d] = status[d] \/ (status[d] \in Live /\ status'[d] \in Live)

Succeeds(d) ==
  /\ status[d] \in Live
  /\ status' = [x \in Delivery |-> IF x = d THEN "SENT"
                                   ELSE IF StandsDown(x, d) THEN "CANCELLED"
                                   ELSE status[x]]

HandsOver(d, S) ==
  status' = [x \in Delivery |-> IF x = d THEN "FAILED"
                               ELSE IF x \in NextIn(d, S) THEN "PENDING"
                               ELSE status[x]]

GivesUp(d) == status[d] \in Live /\ HandsOver(d, {"WAITING_FALLBACK"})

Bounces(d) ==
  /\ ProviderOf[d] = "WHATSAPP"
  /\ providerStatus[d] \notin {"DELIVERED", "READ"}
  /\ status[d] = "SENT"
  /\ HandsOver(d, {"WAITING_FALLBACK", "CANCELLED"})

StatusStep ==
  \/ \E c \in Chain : Starts(c)
  \/ StaysPut
  \/ \E d \in Delivery : Succeeds(d) \/ GivesUp(d) \/ Bounces(d)

LEMMA EnqueueStatusStep == TypeInv /\ Outbox => StatusStep
<1> SUFFICES ASSUME TypeInv, NEW c \in Chain, EnqueueAlert(c)
             PROVE  Starts(c)
  BY DEF Outbox, StatusStep
<1> DEFINE R == {d \in Delivery : ChainOf[d] = c} \ Deduplicated
<1>1. /\ R \in SUBSET Delivery
      /\ R # {}
      /\ \A d \in R : ChainOf[d] = c
      /\ \A d \in Delivery : ChainOf[d] = c => d \in R \cup Deduplicated
      /\ \A d \in Delivery : ChainOf[d] = c => status[d] = "ABSENT"
      /\ status' = [d \in Delivery |-> IF d \notin R THEN status[d]
                                       ELSE IF IsPrimary(d) THEN "PENDING"
                                       ELSE "WAITING_FALLBACK"]
  BY DEF EnqueueAlert
<1>2. QED BY <1>1 DEF Starts

LEMMA WorkerStatusStep ==
  ASSUME TypeInv, NEW w \in Worker, WorkerStep(w)
  PROVE  StatusStep
<1> USE DEF TypeInv
<1>1. CASE ScanExpired(w) \/ EndRecovery(w) \/ ClaimNothing(w) \/ EndCycle(w)
  BY <1>1 DEF ScanExpired, EndRecovery, ClaimNothing, EndCycle, tableVars, StatusStep, StaysPut
<1>2. ASSUME NEW row \in snapshot[w], SkipRecovery(w, row) \/ RecoverLease(w, row)
      PROVE  StatusStep
  <2>1. row.delivery \in Delivery
    BY DEF TypeOK
  <2>2. CASE SkipRecovery(w, row)
    BY <2>2 DEF SkipRecovery, tableVars, StatusStep, StaysPut
  <2>3. CASE RecoverLease(w, row) /\ row.attempts < MaxAttempts
    BY <2>1, <2>3 DEF RecoverLease, LeaseExpired, ScheduleRetry, TypeOK, StatusStep, StaysPut,
        Live
  <2>4. CASE RecoverLease(w, row) /\ ~(row.attempts < MaxAttempts)
    <3>1. GivesUp(row.delivery)
      BY <2>4 DEF RecoverLease, LeaseExpired, Fail, NextWaiting, GivesUp, HandsOver, Live
    <3>2. QED BY <2>1, <3>1 DEF StatusStep
  <2>5. QED BY <1>2, <2>2, <2>3, <2>4
<1>3. CASE Claim(w)
  BY <1>3 DEF Claim, LeaseRows, Claimable, TypeOK, StatusStep, StaysPut, Live
<1>4. ASSUME NEW item \in inflight[w], ItemStep(w, item)
      PROVE  StatusStep
  <2>1. item.delivery \in Delivery
    BY DEF TypeOK, Item
  <2>2. CASE RollBackFinish(w, item) \/ \E phase \in Phase, taken \in BOOLEAN :
               Send(w, item, phase, taken)
    BY <2>2 DEF RollBackFinish, Send, tableVars, StatusStep, StaysPut
  <2>3. CASE FinishSuccess(w, item)
    <3>1. Succeeds(item.delivery)
      BY <2>3 DEF FinishSuccess, HoldsClaim, Succeeds, Live
    <3>2. QED BY <2>1, <3>1 DEF StatusStep
  <2>4. CASE FinishRetry(w, item)
    BY <2>1, <2>4 DEF FinishRetry, HoldsClaim, ScheduleRetry, TypeOK, StatusStep, StaysPut, Live
  <2>5. CASE FinishFailure(w, item)
    <3>1. GivesUp(item.delivery)
      BY <2>5 DEF FinishFailure, HoldsClaim, Fail, NextWaiting, GivesUp, HandsOver, Live
    <3>2. QED BY <2>1, <3>1 DEF StatusStep
  <2>6. QED BY <1>4, <2>2, <2>3, <2>4, <2>5 DEF ItemStep
<1>5. QED BY <1>1, <1>2, <1>3, <1>4 DEF WorkerStep

LEMMA WebhookStatusStep == TypeInv /\ Webhook => StatusStep
<1> SUFFICES ASSUME TypeInv, Webhook
             PROVE  StatusStep
  OBVIOUS
<1>1. PICK m \in Reportable :
        \/ \E d \in Delivery, receipt \in Receipt, at \in EventTime :
             ApplyReceipt(d, m, receipt, at)
        \/ IgnoreFailure(m)
  BY DEF Webhook
<1>2. CASE IgnoreFailure(m)
  BY <1>2 DEF IgnoreFailure, tableVars, StatusStep, StaysPut
<1>3. ASSUME NEW d \in Delivery, NEW receipt \in Receipt, NEW at \in EventTime,
             ApplyReceipt(d, m, receipt, at)
      PROVE  StatusStep
  <2>1. CASE ProviderFailureApplies(d, receipt)
    <3>1. Bounces(d)
      BY <1>3, <2>1 DEF ApplyReceipt, Matches, ProviderFailureApplies, Fail, NextUnused,
          Bounces, HandsOver
    <3>2. QED BY <3>1 DEF StatusStep
  <2>2. CASE ~ProviderFailureApplies(d, receipt)
    BY <1>3, <2>2 DEF ApplyReceipt, StatusStep, StaysPut
  <2>3. QED BY <2>1, <2>2
<1>4. QED BY <1>1, <1>2, <1>3

LEMMA NextStatusStep == TypeInv /\ [Next]_vars => StatusStep
<1> SUFFICES ASSUME TypeInv, [Next]_vars
             PROVE  StatusStep
  OBVIOUS
<1>1. ASSUME NEW d \in Delivery, TimePasses(d)
      PROVE  StatusStep
  BY <1>1 DEF TimePasses, BecomesDue, LeaseExpires, StatusStep, StaysPut
<1>2. ASSUME NEW w \in Worker, WorkerFault(w)
      PROVE  StatusStep
  BY <1>2 DEF WorkerFault, LoseClaim, LoseFinish, Abandon, LeaseRows, Claimable, TypeInv,
      TypeOK,
              tableVars, StatusStep, StaysPut, Live
<1>3. CASE UNCHANGED vars
  BY <1>3 DEF vars, tableVars, StatusStep, StaysPut
<1>4. QED BY <1>1, <1>2, <1>3, EnqueueStatusStep, WorkerStatusStep, WebhookStatusStep
          DEF Next, WorkerActs, Faults

-----------------------------------------------------------------------------
(* One route at a time *)

(* A success cancels every waiting route of its chain, so a chain never    *)
(* holds a waiting and a cancelled route together.  Without it a hand-over *)
(* could jump over a cancelled route and leave OneRouteAtATime.            *)
WaitingOrCancelled ==
  \A x, y \in Delivery :
    ChainOf[x] = ChainOf[y] => ~(status[x] = "WAITING_FALLBACK" /\ status[y] = "CANCELLED")

ChainInv == OneRouteAtATime /\ WaitingOrCancelled

(* The route that a hand-over makes live is the first of S after d, and    *)
(* it is the only one.                                                     *)
LEMMA NextInProperties ==
  ASSUME NEW d \in Delivery, NEW S, NEW x \in NextIn(d, S)
  PROVE  /\ x \in Delivery
         /\ Before(d, x)
         /\ status[x] \in S
         /\ \A y \in Delivery : Before(d, y) /\ Before(y, x) => status[y] \notin S
         /\ \A y \in NextIn(d, S) : y = x
  BY DEF NextIn, Before

(* Two routes of a chain are ordered.                                      *)
LEMMA ChainOrder ==
  ASSUME NEW x \in Delivery, NEW y \in Delivery, x # y, ChainOf[x] = ChainOf[y]
  PROVE  Before(x, y) \/ Before(y, x)
<1>1. PriorityOf[x] \in Nat /\ PriorityOf[y] \in Nat /\ PriorityOf[x] # PriorityOf[y]
  BY PriorityAssumption
<1>2. QED BY <1>1 DEF Before

LEMMA StartKeepsChain ==
  ASSUME TypeOK, ChainInv, NEW c \in Chain, Starts(c)
  PROVE  ChainInv'
<1>1. PICK R \in SUBSET Delivery :
        /\ \A d \in R : ChainOf[d] = c
        /\ status' = [d \in Delivery |-> IF d \notin R THEN status[d]
                                         ELSE IF IsPrimary(d) THEN "PENDING"
                                         ELSE "WAITING_FALLBACK"]
  BY DEF Starts
<1>2. \A d \in Delivery : ChainOf[d] = c => status[d] = "ABSENT"
  BY DEF Starts
<1>3. \A x, y \in Delivery : IsPrimary(x) => ~Before(y, x)
  BY DEF IsPrimary, Before
<1>4. OneRouteAtATime'
  BY <1>1, <1>2, <1>3 DEF ChainInv, OneRouteAtATime, Before, Live
<1>5. WaitingOrCancelled'
  BY <1>1, <1>2 DEF ChainInv, WaitingOrCancelled
<1>6. QED BY <1>4, <1>5 DEF ChainInv

LEMMA StayKeepsChain ==
  ASSUME ChainInv, StaysPut
  PROVE  ChainInv'
  BY ZenonT(60) DEF ChainInv, OneRouteAtATime, WaitingOrCancelled, StaysPut, Live, Before

LEMMA SuccessKeepsChain ==
  ASSUME TypeOK, ChainInv, NEW d \in Delivery, Succeeds(d)
  PROVE  ChainInv'
<1>1. OneRouteAtATime'
  BY DEF ChainInv, OneRouteAtATime, Succeeds, StandsDown, Live, Before
<1>2. WaitingOrCancelled'
  BY DEF ChainInv, WaitingOrCancelled, Succeeds, StandsDown, Live
<1>3. QED BY <1>1, <1>2 DEF ChainInv

(* Of the routes after d none is live, and the first that S selects takes  *)
(* over; S leaves no route before it that could be taken later, because    *)
(* waiting and cancelled routes do not mix.                                *)
LEMMA HandOverKeepsChain ==
  ASSUME TypeOK, ChainInv, NEW d \in Delivery, NEW S,
         S = {"WAITING_FALLBACK"} \/ S = {"WAITING_FALLBACK", "CANCELLED"},
         status[d] \in Live \cup {"SENT"}, HandsOver(d, S)
  PROVE  ChainInv'
<1>1. \A x \in Delivery :
        status'[x] = IF x = d THEN "FAILED" ELSE IF x \in NextIn(d, S) THEN "PENDING" ELSE status[x]
  BY DEF HandsOver
<1>2. \A y \in Delivery : /\ Before(y, d) => status[y] \in {"FAILED", "ABSENT"}
                          /\ Before(d, y) => status[y] \in {"WAITING_FALLBACK", "CANCELLED", "ABSENT"}
  BY DEF ChainInv, OneRouteAtATime
<1>3. ASSUME NEW x \in Delivery, status'[x] \in Live \cup {"SENT"}, NEW y \in Delivery
      PROVE  /\ Before(y, x) => status'[y] \in {"FAILED", "ABSENT"}
             /\ Before(x, y) => status'[y] \in {"WAITING_FALLBACK", "CANCELLED", "ABSENT"}
  <2>1. CASE x \in NextIn(d, S)
    <3>1. /\ Before(d, x)
          /\ status[x] \in S
          /\ Before(d, y) /\ Before(y, x) => status[y] \notin S
          /\ y \in NextIn(d, S) => y = x
      BY <2>1, NextInProperties
    <3>2. ChainOf[x] = ChainOf[y] => y = d \/ Before(y, d) \/ Before(d, y)
      BY <3>1 DEF Before
    <3>3. ASSUME Before(y, x)
          PROVE  status'[y] \in {"FAILED", "ABSENT"}
      <4>1. y \notin NextIn(d, S)
        BY <3>1, <3>3 DEF Before
      <4>2. CASE y = d \/ Before(y, d)
        BY <1>1, <1>2, <4>1, <4>2
      <4>3. CASE Before(d, y)
        <5>1. status[y] \notin S /\ status[y] \in {"WAITING_FALLBACK", "CANCELLED", "ABSENT"}
          BY <1>2, <3>1, <3>3, <4>3
        <5>2. ~(status[x] = "WAITING_FALLBACK" /\ status[y] = "CANCELLED")
          BY <3>3 DEF ChainInv, WaitingOrCancelled, Before
        <5>3. status[y] = "ABSENT"
          BY <3>1, <5>1, <5>2
        <5>4. QED BY <1>1, <4>1, <4>3, <5>3 DEF Before
      <4>4. QED BY <3>2, <3>3, <4>2, <4>3 DEF Before
    <3>4. ASSUME Before(x, y)
          PROVE  status'[y] \in {"WAITING_FALLBACK", "CANCELLED", "ABSENT"}
      <4>1. Before(d, y) /\ y # d /\ y # x
        BY <3>1, <3>4 DEF Before
      <4>2. QED BY <1>1, <1>2, <3>1, <4>1
    <3>5. QED BY <3>3, <3>4
  <2>2. CASE x \notin NextIn(d, S)
    <3>1. x # d /\ status[x] \in Live \cup {"SENT"}
      BY <1>1, <1>3, <2>2 DEF Live
    <3>2. ChainOf[x] # ChainOf[d]
      BY <1>2, <3>1, ChainOrder DEF Live
    <3>3. ChainOf[y] = ChainOf[x] => y # d /\ y \notin NextIn(d, S)
      BY <3>2, NextInProperties DEF Before
    <3>4. QED BY <1>1, <3>1, <3>3 DEF ChainInv, OneRouteAtATime, Before
  <2>3. QED BY <2>1, <2>2
<1>4. OneRouteAtATime'
  BY <1>3 DEF OneRouteAtATime
<1>5. WaitingOrCancelled'
  BY ZenonT(60), <1>1 DEF ChainInv, WaitingOrCancelled
<1>6. QED BY <1>4, <1>5 DEF ChainInv

LEMMA NextChainInv == TypeInv /\ ChainInv /\ [Next]_vars => ChainInv'
<1> SUFFICES ASSUME TypeInv, ChainInv, [Next]_vars
             PROVE  ChainInv'
  OBVIOUS
<1>1. StatusStep /\ TypeOK
  BY NextStatusStep DEF TypeInv
<1>2. ASSUME NEW d \in Delivery, GivesUp(d) \/ Bounces(d)
      PROVE  ChainInv'
  BY <1>1, <1>2, HandOverKeepsChain DEF GivesUp, Bounces
<1>3. QED BY <1>1, <1>2, StartKeepsChain, StayKeepsChain, SuccessKeepsChain DEF StatusStep

LEMMA ChainInvariant == Spec => []ChainInv
<1>1. Init => ChainInv
  BY DEF Init, TableInit, ChainInv, OneRouteAtATime, WaitingOrCancelled, Live
<1>2. QED BY <1>1, NextChainInv, TypeInvariant, PTL DEF Spec

(* However workers, recoveries, crashes, receipts and new alerts           *)
(* interleave, the routes of an alert are tried one at a time and in the   *)
(* order of their priorities.                                              *)
THEOREM OneRouteAtATimeAlways == Spec => []OneRouteAtATime
<1>1. ChainInv => OneRouteAtATime
  BY DEF ChainInv
<1>2. QED BY <1>1, ChainInvariant, PTL

-----------------------------------------------------------------------------
(* The promise *)

LEMMA RouteValues ==
  ASSUME NEW d \in Delivery, status[d] \in Status
  PROVE  /\ RouteOf(d) = "absent" <=> status[d] = "ABSENT"
         /\ RouteOf(d) = "standby" <=> status[d] = "WAITING_FALLBACK"
         /\ RouteOf(d) = "live" <=> status[d] \in Live
         /\ RouteOf(d) = "sent" <=> status[d] = "SENT"
         /\ RouteOf(d) = "failed" <=> status[d] = "FAILED"
         /\ RouteOf(d) = "stood_down" <=> status[d] = "CANCELLED"
         /\ RouteOf(d) \in {"absent", "standby", "live", "sent", "failed", "stood_down"}
  BY DEF RouteOf, Status, Live

Routes == [d \in Delivery |-> RouteOf(d)]

LEMMA SameSelection ==
  ASSUME TypeOK, NEW d \in Delivery
  PROVE  /\ Promise!IsFirst(d) <=> IsPrimary(d)
         /\ Promise!NextInLine(d, {"standby"}) = NextIn(d, {"WAITING_FALLBACK"})
         /\ Promise!NextInLine(d, {"standby", "stood_down"})
              = NextIn(d, {"WAITING_FALLBACK", "CANCELLED"})
<1>1. \A x \in Delivery : status[x] \in Status
  BY DEF TypeOK
<1>2. \A x \in Delivery : /\ Routes[x] = "standby" <=> status[x] = "WAITING_FALLBACK"
                          /\ Routes[x] = "stood_down" <=> status[x] = "CANCELLED"
  BY <1>1, RouteValues DEF Routes
<1>3. Promise!IsFirst(d) <=> IsPrimary(d)
  BY DEF Promise!IsFirst, IsPrimary
<1>4. Promise!NextInLine(d, {"standby"}) = NextIn(d, {"WAITING_FALLBACK"})
  BY <1>2 DEF Promise!NextInLine, NextIn, Routes
<1>5. Promise!NextInLine(d, {"standby", "stood_down"})
        = NextIn(d, {"WAITING_FALLBACK", "CANCELLED"})
  BY <1>2 DEF Promise!NextInLine, NextIn, Routes
<1>6. QED BY <1>3, <1>4, <1>5

(* How a new status shows in the abstract route.                           *)
LEMMA NewRoute ==
  ASSUME TypeOK', NEW x \in Delivery
  PROVE  /\ Routes'[x] = RouteOf(x)'
         /\ status'[x] = "PENDING" => RouteOf(x)' = "live"
         /\ status'[x] = "WAITING_FALLBACK" => RouteOf(x)' = "standby"
         /\ status'[x] = "SENT" => RouteOf(x)' = "sent"
         /\ status'[x] = "FAILED" => RouteOf(x)' = "failed"
         /\ status'[x] = "CANCELLED" => RouteOf(x)' = "stood_down"
         /\ status'[x] = status[x] => RouteOf(x)' = RouteOf(x)
  BY DEF Routes, RouteOf, TypeOK, Status, Live

LEMMA StartIsPromised ==
  ASSUME TypeOK, TypeOK', NEW c \in Chain, Starts(c)
  PROVE  Promise!Next
<1>1. PICK R \in SUBSET Delivery :
        /\ R # {}
        /\ \A d \in R : ChainOf[d] = c
        /\ status' = [d \in Delivery |-> IF d \notin R THEN status[d]
                                         ELSE IF IsPrimary(d) THEN "PENDING"
                                         ELSE "WAITING_FALLBACK"]
  BY DEF Starts
<1>2. \A d \in Delivery : ChainOf[d] = c => Routes[d] = "absent"
  BY RouteValues DEF Starts, TypeOK, Routes
<1>3. ASSUME NEW d \in Delivery
      PROVE  RouteOf(d)' = IF d \notin R THEN Routes[d]
                           ELSE IF Promise!IsFirst(d) THEN "live" ELSE "standby"
  BY <1>1, NewRoute, SameSelection DEF Routes
<1>4. Routes' = [d \in Delivery |-> IF d \notin R THEN Routes[d]
                                    ELSE IF Promise!IsFirst(d) THEN "live" ELSE "standby"]
  BY <1>3 DEF Routes
<1>5. Promise!Start(c, R)
  BY <1>1, <1>2, <1>4 DEF Promise!Start, Routes
<1>6. QED BY <1>5 DEF Promise!Next

LEMMA SuccessIsPromised ==
  ASSUME TypeOK, TypeOK', NEW d \in Delivery, Succeeds(d)
  PROVE  Promise!Next
<1>1. \A x \in Delivery : Routes[x] = "standby" <=> status[x] = "WAITING_FALLBACK"
  BY RouteValues DEF TypeOK, Routes
<1>2. Routes[d] = "live"
  BY RouteValues DEF TypeOK, Routes, Succeeds
<1>3. ASSUME NEW x \in Delivery
      PROVE  RouteOf(x)' = IF x = d THEN "sent"
                           ELSE IF ChainOf[x] = ChainOf[d] /\ Routes[x] = "standby"
                                THEN "stood_down"
                           ELSE Routes[x]
  BY <1>1, NewRoute DEF Succeeds, StandsDown, Routes
<1>4. Routes' = [x \in Delivery |-> IF x = d THEN "sent"
                                    ELSE IF ChainOf[x] = ChainOf[d] /\ Routes[x] = "standby"
                                         THEN "stood_down"
                                    ELSE Routes[x]]
  BY <1>3 DEF Routes
<1>5. Promise!Succeed(d)
  BY <1>2, <1>4 DEF Promise!Succeed, Routes
<1>6. QED BY <1>5 DEF Promise!Next

(* S and A are the same selection, by status and by route.                 *)
LEMMA HandOverIsPromised ==
  ASSUME TypeOK, TypeOK', NEW d \in Delivery, NEW S, NEW A, HandsOver(d, S),
         NextIn(d, S) = Promise!NextInLine(d, A)
  PROVE  Promise!HandOver(d, A)
<1>1. ASSUME NEW x \in Delivery
      PROVE  RouteOf(x)' = IF x = d THEN "failed"
                           ELSE IF x \in Promise!NextInLine(d, A) THEN "live"
                           ELSE Routes[x]
  BY NewRoute DEF HandsOver, Routes
<1>2. Routes' = [x \in Delivery |-> IF x = d THEN "failed"
                                    ELSE IF x \in Promise!NextInLine(d, A) THEN "live"
                                    ELSE Routes[x]]
  BY <1>1 DEF Routes
<1>3. QED BY <1>2 DEF Promise!HandOver, Routes

(* The system implements FallbackChain: every step is one of its steps or  *)
(* leaves its state unchanged.                                             *)
THEOREM PromiseKept == Spec => KeepsPromise
<1>1. Init => Promise!Init
  <2> SUFFICES ASSUME Init
               PROVE  Promise!Init
    OBVIOUS
  <2>1. \A d \in Delivery : status[d] = "ABSENT"
    BY DEF Init, TableInit
  <2>2. \A d \in Delivery : RouteOf(d) = "absent"
    BY <2>1, RouteValues DEF Status
  <2>3. QED BY <2>2 DEF Promise!Init
<1>2. TypeInv /\ TypeInv' /\ [Next]_vars => [Promise!Next]_Routes
  <2> SUFFICES ASSUME TypeInv, TypeInv', [Next]_vars
               PROVE  Promise!Next \/ UNCHANGED Routes
    OBVIOUS
  <2>1. StatusStep
    BY NextStatusStep
  <2>2. TypeOK /\ TypeOK' /\ \A d \in Delivery : status[d] \in Status /\ status'[d] \in Status
    BY DEF TypeInv, TypeOK
  <2>3. CASE StaysPut
    <3>1. \A d \in Delivery : RouteOf(d)' = RouteOf(d)
      BY <2>2, <2>3 DEF StaysPut, RouteOf, Live, Status
    <3>2. QED BY <3>1 DEF Routes
  <2>4. ASSUME NEW d \in Delivery, GivesUp(d)
        PROVE  Promise!Next
    <3>1. Routes[d] = "live"
      BY <2>2, <2>4, RouteValues DEF GivesUp, Routes
    <3>2. Promise!HandOver(d, {"standby"})
      BY <2>2, <2>4, SameSelection, HandOverIsPromised DEF GivesUp
    <3>3. QED BY <3>1, <3>2 DEF Promise!Next, Promise!GiveUp, Routes
  <2>5. ASSUME NEW d \in Delivery, Bounces(d)
        PROVE  Promise!Next
    <3>1. Routes[d] = "sent"
      BY <2>2, <2>5, RouteValues DEF Bounces, Routes
    <3>2. Promise!HandOver(d, {"standby", "stood_down"})
      BY <2>2, <2>5, SameSelection, HandOverIsPromised DEF Bounces
    <3>3. QED BY <3>1, <3>2 DEF Promise!Next, Promise!Bounce, Routes
  <2>6. QED BY <2>1, <2>2, <2>3, <2>4, <2>5, StartIsPromised, SuccessIsPromised DEF StatusStep
<1>3. QED BY <1>1, <1>2, TypeInvariant, PTL DEF Spec, KeepsPromise, Promise!Spec, Routes
-----------------------------------------------------------------------------
(* Waiting and unused routes *)

(* A nonempty set of routes has a first one.                               *)
LEMMA FirstOfRoutes ==
  ASSUME NEW T \in SUBSET Delivery, T # {}
  PROVE  \E x \in T : \A y \in T : PriorityOf[x] <= PriorityOf[y]
<1> DEFINE P == {PriorityOf[x] : x \in T}
<1>1. P \subseteq Nat /\ P # {}
  BY PriorityAssumption
<1> HIDE DEF P
<1>2. PICK n \in P : \A m \in P : ~(<<m, n>> \in OpToRel(<, Nat))
  BY <1>1, NatLessThanWellFounded, WFMin
<1>3. ASSUME NEW m \in P
      PROVE  n <= m
  <2>1. ~(m < n)
    BY <1>1, <1>2 DEF OpToRel
  <2>2. QED BY <1>1, <2>1
<1>4. QED BY <1>3 DEF P

(* Every chain has a first route.                                          *)
LEMMA ChainHasPrimary ==
  ASSUME NEW y \in Delivery
  PROVE  \E p \in Delivery : ChainOf[p] = ChainOf[y] /\ IsPrimary(p)
<1> DEFINE T == {x \in Delivery : ChainOf[x] = ChainOf[y]}
<1>1. PICK p \in T : \A x \in T : PriorityOf[p] <= PriorityOf[x]
  BY FirstOfRoutes
<1>2. QED BY <1>1 DEF IsPrimary

(* A failing route hands over whenever a route of S stands after it.       *)
LEMMA HandOverFinds ==
  ASSUME NEW d \in Delivery, NEW S, NEW y \in Delivery, Before(d, y), status[y] \in S
  PROVE  \E x \in NextIn(d, S) : x = y \/ Before(x, y)
<1> DEFINE T == {x \in Delivery : Before(d, x) /\ status[x] \in S}
<1>1. PICK x \in T : \A z \in T : PriorityOf[x] <= PriorityOf[z]
  BY FirstOfRoutes
<1>2. \A z \in Delivery : PriorityOf[z] \in Nat
  BY PriorityAssumption
<1>3. x \in NextIn(d, S)
  BY <1>1, <1>2 DEF NextIn, Before
<1>4. ChainOf[x] = ChainOf[y] /\ PriorityOf[x] <= PriorityOf[y]
  BY <1>1 DEF Before
<1>5. x = y \/ Before(x, y)
  BY <1>2, <1>4, PriorityAssumption DEF Before
<1>6. QED BY <1>3, <1>5

(* No earlier observation of the incident took the dedupeKey of a first    *)
(* route.  The code does not see to that: run dedup shows the chain whose  *)
(* first route is missing and whose others wait for ever.                  *)
PrimariesInserted == \A d \in Deduplicated : ~IsPrimary(d)

LEMMA HandOverKeepsWaiting ==
  ASSUME TypeOK, ChainInv, WaitsBehindLiveRoute, NEW d \in Delivery, NEW S,
         "WAITING_FALLBACK" \in S, status[d] \in Live \cup {"SENT"}, HandsOver(d, S)
  PROVE  WaitsBehindLiveRoute'
<1> SUFFICES ASSUME NEW y \in Delivery, status'[y] = "WAITING_FALLBACK"
             PROVE  \E x \in Delivery : Before(x, y) /\ status'[x] \in Live
  BY DEF WaitsBehindLiveRoute, Before
<1>1. \A x \in Delivery :
        status'[x] = IF x = d THEN "FAILED" ELSE IF x \in NextIn(d, S) THEN "PENDING" ELSE status[x]
  BY DEF HandsOver
<1>2. y # d /\ y \notin NextIn(d, S) /\ status[y] = "WAITING_FALLBACK"
  BY <1>1
<1>3. PICK x \in Delivery : Before(x, y) /\ status[x] \in Live
  BY <1>2 DEF WaitsBehindLiveRoute
<1>4. CASE x = d
  <2>1. PICK z \in NextIn(d, S) : z = y \/ Before(z, y)
    BY <1>2, <1>3, <1>4, HandOverFinds
  <2>2. z \in Delivery /\ z # d /\ Before(z, y)
    BY <1>2, <2>1, NextInProperties DEF Before
  <2>3. QED BY <1>1, <2>1, <2>2 DEF Live
<1>5. CASE x # d
  BY <1>1, <1>3, <1>5 DEF Live
<1>6. QED BY <1>4, <1>5

LEMMA NextWaits ==
  ASSUME PrimariesInserted
  PROVE  TypeInv /\ ChainInv /\ WaitsBehindLiveRoute /\ [Next]_vars => WaitsBehindLiveRoute'
<1> SUFFICES ASSUME TypeInv, ChainInv, WaitsBehindLiveRoute, [Next]_vars
             PROVE  WaitsBehindLiveRoute'
  OBVIOUS
<1>1. StatusStep /\ TypeOK
  BY NextStatusStep DEF TypeInv
<1>2. ASSUME NEW c \in Chain, Starts(c)
      PROVE  WaitsBehindLiveRoute'
  <2> SUFFICES ASSUME NEW y \in Delivery, status'[y] = "WAITING_FALLBACK"
               PROVE  \E x \in Delivery : Before(x, y) /\ status'[x] \in Live
    BY DEF WaitsBehindLiveRoute, Before
  <2>1. PICK R \in SUBSET Delivery :
          /\ \A d \in R : ChainOf[d] = c
          /\ \A d \in Delivery : ChainOf[d] = c => d \in R \cup Deduplicated
          /\ status' = [d \in Delivery |-> IF d \notin R THEN status[d]
                                           ELSE IF IsPrimary(d) THEN "PENDING"
                                           ELSE "WAITING_FALLBACK"]
    BY <1>2 DEF Starts
  <2>2. \A d \in Delivery : ChainOf[d] = c => status[d] = "ABSENT"
    BY <1>2 DEF Starts
  <2>3. CASE ChainOf[y] = c
    <3>1. PICK p \in Delivery : ChainOf[p] = c /\ IsPrimary(p)
      BY <2>3, ChainHasPrimary
    <3>2. p \in R /\ status'[p] = "PENDING"
      BY <2>1, <3>1 DEF PrimariesInserted
    <3>3. p # y /\ PriorityOf[p] <= PriorityOf[y]
      BY <2>3, <3>1, <3>2 DEF IsPrimary
    <3>4. Before(p, y)
      BY <2>3, <3>1, <3>3, ChainOrder, PriorityAssumption DEF Before
    <3>5. QED BY <3>2, <3>4 DEF Live
  <2>4. CASE ChainOf[y] # c
    <3>1. \A x \in Delivery : ChainOf[x] = ChainOf[y] => status'[x] = status[x]
      BY <2>1, <2>4
    <3>2. QED BY <3>1 DEF WaitsBehindLiveRoute, Before
  <2>5. QED BY <2>3, <2>4
<1>3. CASE StaysPut
  BY <1>3 DEF StaysPut, WaitsBehindLiveRoute, Live, Before
<1>4. ASSUME NEW d \in Delivery, Succeeds(d)
      PROVE  WaitsBehindLiveRoute'
  <2> SUFFICES ASSUME NEW y \in Delivery, status'[y] = "WAITING_FALLBACK"
               PROVE  \E x \in Delivery : Before(x, y) /\ status'[x] \in Live
    BY DEF WaitsBehindLiveRoute, Before
  <2>1. \A x \in Delivery : status'[x] = IF x = d THEN "SENT"
                                         ELSE IF StandsDown(x, d) THEN "CANCELLED" ELSE status[x]
    BY <1>4 DEF Succeeds
  <2>2. status[y] = "WAITING_FALLBACK" /\ ChainOf[y] # ChainOf[d]
    BY <2>1 DEF StandsDown
  <2>3. QED BY <2>1, <2>2 DEF WaitsBehindLiveRoute, StandsDown, Before
<1>5. ASSUME NEW d \in Delivery, GivesUp(d) \/ Bounces(d)
      PROVE  WaitsBehindLiveRoute'
  BY <1>1, <1>5, HandOverKeepsWaiting DEF GivesUp, Bounces
<1>6. QED BY <1>1, <1>2, <1>3, <1>4, <1>5 DEF StatusStep

(* Provided that the first route of every chain is inserted, a waiting     *)
(* route always has a live route before it: however recoveries, successes, *)
(* failures and receipts interleave, none leaves it waiting for nobody.    *)
THEOREM WaitsBehindLiveRouteAlways ==
  ASSUME PrimariesInserted
  PROVE  Spec => []WaitsBehindLiveRoute
<1>1. Init => WaitsBehindLiveRoute
  BY DEF Init, TableInit, WaitsBehindLiveRoute
<1>2. TypeInv /\ ChainInv /\ WaitsBehindLiveRoute /\ [Next]_vars => WaitsBehindLiveRoute'
  BY NextWaits
<1>3. QED BY <1>1, <1>2, TypeInvariant, ChainInvariant, PTL DEF Spec

(* At most one route stands behind a WhatsApp route: a late failure        *)
(* receipt then leaves no cancelled route behind the one it activates.     *)
(* Run silent_chain shows the third route that stays unused otherwise.     *)
OneRouteAfterWhatsApp ==
  \A d, x, y \in Delivery : ProviderOf[d] = "WHATSAPP" /\ Before(d, x) /\ Before(d, y) => x = y

(* NoRouteLeftUnused allows a live route before the cancelled one, which   *)
(* could fail and leave it unused; under OneRouteAfterWhatsApp it is SENT. *)
CancelledAfterSent ==
  \A z \in Delivery : status[z] = "CANCELLED" =>
    \E x \in Delivery : Before(x, z) /\ status[x] = "SENT"

LEMMA NextCancelled ==
  ASSUME OneRouteAfterWhatsApp
  PROVE  TypeInv /\ ChainInv /\ CancelledAfterSent /\ [Next]_vars => CancelledAfterSent'
<1> SUFFICES ASSUME TypeInv, ChainInv, CancelledAfterSent, [Next]_vars,
                    NEW z \in Delivery, status'[z] = "CANCELLED"
             PROVE  \E x \in Delivery : Before(x, z) /\ status'[x] = "SENT"
  BY DEF CancelledAfterSent, Before
<1>1. StatusStep /\ TypeOK
  BY NextStatusStep DEF TypeInv
<1>2. CASE \E c \in Chain : Starts(c)
  BY <1>2 DEF Starts, CancelledAfterSent, Before
<1>3. CASE StaysPut
  BY <1>3 DEF StaysPut, Live, CancelledAfterSent
<1>4. ASSUME NEW d \in Delivery, Succeeds(d)
      PROVE  \E x \in Delivery : Before(x, z) /\ status'[x] = "SENT"
  <2>1. \A x \in Delivery : status'[x] = IF x = d THEN "SENT"
                                         ELSE IF StandsDown(x, d) THEN "CANCELLED" ELSE status[x]
    BY <1>4 DEF Succeeds
  <2>2. CASE StandsDown(z, d)
    <3>1. z # d /\ ChainOf[z] = ChainOf[d] /\ status[z] = "WAITING_FALLBACK"
      BY <2>2 DEF StandsDown
    <3>2. ~Before(z, d)
      BY <1>4, <3>1 DEF Succeeds, ChainInv, OneRouteAtATime
    <3>3. QED BY <2>1, <3>1, <3>2, ChainOrder
  <2>3. CASE ~StandsDown(z, d)
    BY <2>1, <2>3 DEF CancelledAfterSent, StandsDown
  <2>4. QED BY <2>2, <2>3
<1>5. ASSUME NEW d \in Delivery, NEW S, HandsOver(d, S)
      PROVE  /\ status[z] = "CANCELLED" /\ z # d /\ z \notin NextIn(d, S)
             /\ \A x \in Delivery : x # d /\ status[x] = "SENT" /\ "SENT" \notin S
                  => status'[x] = "SENT"
  BY <1>5 DEF HandsOver, NextIn
<1>6. PICK x \in Delivery : status[z] = "CANCELLED" => Before(x, z) /\ status[x] = "SENT"
  BY DEF CancelledAfterSent
<1>7. ASSUME NEW d \in Delivery, GivesUp(d)
      PROVE  Before(x, z) /\ status'[x] = "SENT"
  BY SMTT(60), <1>5, <1>6, <1>7 DEF GivesUp, Live
<1>8. ASSUME NEW d \in Delivery, Bounces(d)
      PROVE  Before(x, z) /\ status'[x] = "SENT"
  <2> DEFINE S == {"WAITING_FALLBACK", "CANCELLED"}
  <2>1. status[z] = "CANCELLED" /\ z \notin NextIn(d, S) /\ Before(x, z) /\ status[x] = "SENT"
    BY <1>5, <1>6, <1>8 DEF Bounces
  <2>2. ASSUME x = d
        PROVE  FALSE
    <3>1. PICK n \in NextIn(d, S) : n = z \/ Before(n, z)
      BY <2>1, <2>2, HandOverFinds
    <3>2. n \in Delivery /\ Before(d, n)
      BY <3>1, NextInProperties
    <3>3. n = z
      BY <1>8, <2>1, <2>2, <3>2 DEF Bounces, OneRouteAfterWhatsApp
    <3>4. QED BY <2>1, <3>1, <3>3
  <2>3. HandsOver(d, S) /\ "SENT" \notin S
    BY <1>8 DEF Bounces
  <2>4. QED BY <1>5, <2>1, <2>2, <2>3
<1>9. QED BY <1>1, <1>2, <1>3, <1>4, <1>7, <1>8 DEF StatusStep

(* Provided that at most one route stands behind each WhatsApp route, a    *)
(* route stays unused only after one that reached the owner.               *)
THEOREM NoRouteLeftUnusedAlways ==
  ASSUME OneRouteAfterWhatsApp
  PROVE  Spec => []NoRouteLeftUnused
<1>1. Init => CancelledAfterSent
  BY DEF Init, TableInit, CancelledAfterSent
<1>2. TypeInv /\ ChainInv /\ CancelledAfterSent /\ [Next]_vars => CancelledAfterSent'
  BY NextCancelled
<1>3. CancelledAfterSent => NoRouteLeftUnused
  BY DEF CancelledAfterSent, NoRouteLeftUnused
<1>4. QED BY <1>1, <1>2, <1>3, TypeInvariant, ChainInvariant, PTL DEF Spec
=============================================================================
