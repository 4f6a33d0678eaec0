------------------------ MODULE DeliveryRecords_proofs ------------------------
(***************************************************************************)
(* Proofs about the records that NotificationDelivery keeps of each row:   *)
(* its lease, its attempts, the message the provider gave it and the       *)
(* receipts of that message.                                               *)
(***************************************************************************)
EXTENDS NotificationDelivery_proofs

USE ChainAssumption, PriorityAssumption, ProviderAssumption, MaxAttemptsAssumption,
    MessageAssumption, DeduplicatedAssumption, FaultAssumption, ReceiptAssumption

-----------------------------------------------------------------------------
(* The inductive invariant *)

(* No number that a worker holds of a row is ahead of the row's count.     *)
HeldNumbers ==
  \A w \in Worker :
    /\ \A row \in snapshot[w] : row.attempts <= attemptCount[row.delivery]
    /\ \A item \in inflight[w] : item.number <= attemptCount[item.delivery]

(* A claim in progress has no row in notification_attempts yet, so ON      *)
(* CONFLICT DO NOTHING never swallows the row of the claim that succeeds.  *)
AuditedNumbers ==
  \A a \in attempts :
    /\ a.number <= attemptCount[a.delivery]
    /\ status[a.delivery] = "PROCESSING" => a.number < attemptCount[a.delivery]

(* What a goroutine takes for an acceptance is one.                        *)
AnswersAreReal ==
  \A w \in Worker : \A item \in inflight[w] :
    item.phase = "accepted" => <<item.delivery, item.number>> \in accepted

(* Only a row that was SENT has a message, and no other row has it.        *)
MessagesHaveOneRow ==
  /\ \A d \in Delivery : providerMessageId[d] # NoMessage => status[d] \in {"SENT", "FAILED"}
  /\ \A x, y \in Delivery :
       /\ ProviderOf[x] = ProviderOf[y]
       /\ providerMessageId[x] = providerMessageId[y]
       /\ providerMessageId[x] # NoMessage
       => x = y

(* Every event is that of a row, which remembers a delivery.               *)
EventsHaveRows ==
  \A e \in events : \E d \in Delivery :
    /\ Matches(d, e.message)
    /\ e.receipt \in {"DELIVERED", "READ"} => providerStatus[d] \in {"DELIVERED", "READ"}

(* The two halves of SuccessIsOfLastClaim.                                 *)
SentHasSuccess ==
  \A d \in Delivery : status[d] = "SENT" =>
    \E a \in attempts : a.delivery = d /\ a.number = attemptCount[d] /\ a.outcome = "SUCCEEDED"

IsLastSuccess(a) ==
  /\ a.number = attemptCount[a.delivery]
  /\ <<a.delivery, a.number>> \in accepted
  /\ providerMessageId[a.delivery] = MessageIdOf[a.delivery][a.number]
  /\ \/ status[a.delivery] = "SENT"
     \/ /\ status[a.delivery] = "FAILED"
        /\ \E e \in events : e.message = providerMessageId[a.delivery] /\ e.receipt = "FAILED"

SuccessIsLast == \A a \in attempts : a.outcome = "SUCCEEDED" => IsLastSuccess(a)

LEMMA SuccessHalves == SuccessIsOfLastClaim <=> SentHasSuccess /\ SuccessIsLast
  BY DEF SuccessIsOfLastClaim, SentHasSuccess, SuccessIsLast, IsLastSuccess

TableInv ==
  /\ LeaseIffProcessing
  /\ AuditedNumbers
  /\ MessagesHaveOneRow
  /\ EventsHaveRows
  /\ FailedReceiptFailsRoute
  /\ SentHasSuccess
  /\ SuccessIsLast

RecordInv == TableInv /\ HeldNumbers /\ AnswersAreReal

LEMMA InitRecordInv == Init => RecordInv
<1> SUFFICES ASSUME Init
             PROVE  RecordInv
  OBVIOUS
<1> USE DEF Init, TableInit, WorkerInit, ReceiptInit
<1>1. LeaseIffProcessing /\ AuditedNumbers /\ MessagesHaveOneRow
  BY DEF LeaseIffProcessing, AuditedNumbers, MessagesHaveOneRow
<1>2. EventsHaveRows /\ FailedReceiptFailsRoute /\ SentHasSuccess /\ SuccessIsLast
  BY DEF EventsHaveRows, FailedReceiptFailsRoute, SentHasSuccess, SuccessIsLast, Receipt
<1>3. HeldNumbers /\ AnswersAreReal
  BY DEF HeldNumbers, AnswersAreReal
<1>4. QED BY <1>1, <1>2, <1>3 DEF RecordInv, TableInv

-----------------------------------------------------------------------------
(* Steps that leave the tables alone *)

LEMMA FrameKeepsTable ==
  ASSUME TableInv, UNCHANGED tableVars, UNCHANGED <<providerStatus, events>>,
         accepted \subseteq accepted'
  PROVE  TableInv'
<1> USE DEF TableInv, tableVars
<1>1. LeaseIffProcessing' /\ AuditedNumbers'
  BY DEF LeaseIffProcessing, AuditedNumbers
<1>2. MessagesHaveOneRow' /\ EventsHaveRows'
  BY DEF MessagesHaveOneRow, EventsHaveRows, Matches
<1>3. FailedReceiptFailsRoute' /\ SentHasSuccess' /\ SuccessIsLast'
  BY DEF FailedReceiptFailsRoute, SentHasSuccess, SuccessIsLast, IsLastSuccess
<1>4. QED BY <1>1, <1>2, <1>3

(* A worker that lets go of some of what it holds.                         *)
LEMMA LettingGo ==
  ASSUME HeldNumbers, AnswersAreReal, UNCHANGED <<attemptCount, accepted>>,
         \A w \in Worker : snapshot'[w] \subseteq snapshot[w] /\ inflight'[w] \subseteq inflight[w]
  PROVE  HeldNumbers' /\ AnswersAreReal'
  BY DEF HeldNumbers, AnswersAreReal

-----------------------------------------------------------------------------
(* Time and the outbox *)

LEMMA EnqueueKeepsRecords ==
  ASSUME TypeInv, RecordInv, NEW c \in Chain, EnqueueAlert(c),
         UNCHANGED <<workerVars, receiptVars>>
  PROVE  RecordInv'
<1> USE DEF RecordInv, TableInv, workerVars, receiptVars
<1>1. /\ \A d \in Delivery : \/ status'[d] = status[d]
                             \/ status[d] = "ABSENT" /\ status'[d] \in {"PENDING", "WAITING_FALLBACK"}
      /\ UNCHANGED <<attemptCount, lease, providerMessageId, attempts>>
  BY DEF EnqueueAlert
<1>2. LeaseIffProcessing' /\ FailedReceiptFailsRoute'
  BY <1>1 DEF LeaseIffProcessing, FailedReceiptFailsRoute
<1>3. AuditedNumbers'
  BY ZenonT(60), <1>1 DEF AuditedNumbers, TypeInv, TypeOK, Attempt
<1>4. MessagesHaveOneRow' /\ EventsHaveRows'
  BY ZenonT(60), <1>1 DEF MessagesHaveOneRow, EventsHaveRows, Matches
<1>5. SentHasSuccess' /\ SuccessIsLast'
  <2>1. SentHasSuccess'
    BY SMTT(60), <1>1 DEF SentHasSuccess
  <2>2. \A a \in attempts : a.delivery \in Delivery
    BY DEF TypeInv, TypeOK, Attempt
  <2>3. SuccessIsLast'
    BY <1>1, <2>2 DEF SuccessIsLast, IsLastSuccess
  <2>4. QED BY <2>1, <2>3
<1>6. HeldNumbers' /\ AnswersAreReal'
  BY <1>1 DEF HeldNumbers, AnswersAreReal
<1>7. QED BY <1>2, <1>3, <1>4, <1>5, <1>6

LEMMA TimeKeepsRecords ==
  ASSUME TypeInv, RecordInv, NEW d \in Delivery, TimePasses(d)
  PROVE  RecordInv'
<1> USE DEF RecordInv, TableInv, workerVars, receiptVars
<1>1. UNCHANGED <<status, attemptCount, providerMessageId, attempts, workerVars, receiptVars>>
  BY DEF TimePasses, BecomesDue, LeaseExpires
<1>2. LeaseIffProcessing'
  BY DEF TimePasses, BecomesDue, LeaseExpires, LeaseIffProcessing, TypeInv, TypeOK
<1>3. AuditedNumbers' /\ MessagesHaveOneRow' /\ EventsHaveRows'
  BY <1>1 DEF AuditedNumbers, MessagesHaveOneRow, EventsHaveRows, Matches
<1>4. FailedReceiptFailsRoute' /\ SentHasSuccess' /\ SuccessIsLast'
  BY <1>1 DEF FailedReceiptFailsRoute, SentHasSuccess, SuccessIsLast, IsLastSuccess
<1>5. HeldNumbers' /\ AnswersAreReal'
  BY <1>1 DEF HeldNumbers, AnswersAreReal
<1>6. QED BY <1>2, <1>3, <1>4, <1>5

-----------------------------------------------------------------------------
(* Claims begin *)

LEMMA LeaseKeepsTable ==
  ASSUME TypeInv, TableInv, NEW rows \in SUBSET Claimable, LeaseRows(rows),
         UNCHANGED <<accepted, receiptVars>>
  PROVE  TableInv'
<1> USE DEF TableInv, receiptVars
<1>1. \A d \in rows : d \in Delivery /\ status[d] \in {"PENDING", "RETRY_SCHEDULED"}
  BY DEF Claimable
<1>2. /\ \A d \in Delivery : /\ status'[d] = IF d \in rows THEN "PROCESSING" ELSE status[d]
                             /\ lease'[d] = IF d \in rows THEN "running" ELSE lease[d]
                             /\ attemptCount'[d] = IF d \in rows THEN attemptCount[d] + 1
                                                   ELSE attemptCount[d]
      /\ UNCHANGED <<providerMessageId, attempts>>
  BY DEF LeaseRows
<1>3. \A a \in attempts : a.delivery \in Delivery /\ a.number \in Nat
  BY DEF TypeInv, TypeOK, Attempt
<1>4. \A d \in Delivery : attemptCount[d] \in Nat
  BY DEF TypeInv, TypeOK
<1>5. LeaseIffProcessing' /\ FailedReceiptFailsRoute'
  BY <1>1, <1>2 DEF LeaseIffProcessing, FailedReceiptFailsRoute
<1>6. AuditedNumbers'
  BY SMTT(60), <1>1, <1>2, <1>3, <1>4 DEF AuditedNumbers
<1>7. MessagesHaveOneRow' /\ EventsHaveRows'
  BY <1>1, <1>2 DEF MessagesHaveOneRow, EventsHaveRows, Matches
<1>8. SentHasSuccess'
  BY <1>1, <1>2 DEF SentHasSuccess
<1>9. ASSUME NEW a \in attempts, a.outcome = "SUCCEEDED"
      PROVE  IsLastSuccess(a)'
  <2>1. IsLastSuccess(a) /\ a.delivery \notin rows
    BY <1>1, <1>9 DEF SuccessIsLast, IsLastSuccess
  <2>2. QED BY <1>2, <1>3, <2>1 DEF IsLastSuccess
<1>10. SuccessIsLast'
  BY <1>2, <1>9 DEF SuccessIsLast
<1>11. QED BY <1>5, <1>6, <1>7, <1>8, <1>10

(* The counts only grow, so the numbers a worker holds stay behind them.   *)
LEMMA HeldNumbersGrow ==
  ASSUME TypeInv, HeldNumbers, NEW rows \in SUBSET Claimable, LeaseRows(rows), NEW v \in Worker
  PROVE  /\ \A row \in snapshot[v] : row.attempts <= attemptCount'[row.delivery]
         /\ \A item \in inflight[v] : item.number <= attemptCount'[item.delivery]
<1>1. ASSUME NEW d \in Delivery
      PROVE  attemptCount[d] \in Nat /\ attemptCount'[d] \in {attemptCount[d], attemptCount[d] + 1}
  BY DEF TypeInv, TypeOK, LeaseRows
<1>2. ASSUME NEW row \in snapshot[v]
      PROVE  row.attempts <= attemptCount'[row.delivery]
  <2>1. row.delivery \in Delivery /\ row.attempts \in Nat
    BY DEF TypeInv, TypeOK
  <2>2. row.attempts <= attemptCount[row.delivery]
    BY DEF HeldNumbers
  <2>3. QED BY <1>1, <2>1, <2>2
<1>3. ASSUME NEW item \in inflight[v]
      PROVE  item.number <= attemptCount'[item.delivery]
  <2>1. item.delivery \in Delivery /\ item.number \in Nat
    BY DEF TypeInv, TypeOK, Item
  <2>2. item.number <= attemptCount[item.delivery]
    BY DEF HeldNumbers
  <2>3. QED BY <1>1, <2>1, <2>2
<1>4. QED BY <1>2, <1>3

-----------------------------------------------------------------------------
(* Claims end *)

(* How a claim ends without success: FinishRetry, FinishFailure and        *)
(* RecoverLease.                                                           *)
EndsClaim(d, n) ==
  /\ status[d] = "PROCESSING"
  /\ n <= attemptCount[d]
  /\ attempts' = WithAttempt(d, n, "FAILED")
  /\ ScheduleRetry(d) \/ Fail(d, NextWaiting(d))
  /\ UNCHANGED <<attemptCount, providerMessageId>>

LEMMA EndsClaimKeepsTable ==
  ASSUME TypeInv, TableInv, NEW d \in Delivery, NEW n \in 1..MaxAttempts, EndsClaim(d, n),
         UNCHANGED <<accepted, receiptVars>>
  PROVE  TableInv'
<1> USE DEF TableInv, receiptVars
<1>1. \A x \in NextWaiting(d) : x \in Delivery /\ status[x] = "WAITING_FALLBACK" /\ x # d
  BY DEF NextWaiting, NextIn
<1>2. /\ status[d] = "PROCESSING"
      /\ UNCHANGED <<attemptCount, providerMessageId>>
      /\ \A x \in Delivery : lease'[x] = IF x = d THEN "none" ELSE lease[x]
      /\ status'[d] \in {"RETRY_SCHEDULED", "FAILED"}
      /\ \A x \in Delivery : x # d => \/ status'[x] = status[x]
                                      \/ status[x] = "WAITING_FALLBACK" /\ status'[x] = "PENDING"
  <2>1. CASE ScheduleRetry(d)
    BY <2>1 DEF EndsClaim, ScheduleRetry, TypeInv, TypeOK
  <2>2. CASE Fail(d, NextWaiting(d))
    BY <1>1, <2>2 DEF EndsClaim, Fail, TypeInv, TypeOK
  <2>3. QED BY <2>1, <2>2 DEF EndsClaim
<1>3. \A a \in attempts : a.delivery \in Delivery /\ a.number \in Nat
  BY DEF TypeInv, TypeOK, Attempt
<1>4. \A a \in attempts' : \/ a \in attempts
                           \/ a = [delivery |-> d, number |-> n, outcome |-> "FAILED"]
  BY DEF EndsClaim, WithAttempt
<1>5. attempts \subseteq attempts' /\ n <= attemptCount[d]
  BY DEF EndsClaim, WithAttempt
<1>6. ASSUME NEW x \in Delivery
      PROVE  /\ (status[x] = "PROCESSING" <=> lease[x] # "none")'
             /\ (providerStatus[x] = "FAILED" => status[x] = "FAILED")'
  <2>1. CASE x = d
    BY <1>2, <2>1 DEF FailedReceiptFailsRoute
  <2>2. CASE x # d
    <3>1. \/ status'[x] = status[x]
          \/ status[x] = "WAITING_FALLBACK" /\ status'[x] = "PENDING"
      BY <1>2, <2>2
    <3>2. lease'[x] = lease[x] /\ providerStatus'[x] = providerStatus[x]
      BY <1>2, <2>2
    <3>3. QED BY <3>1, <3>2 DEF LeaseIffProcessing, FailedReceiptFailsRoute
  <2>3. QED BY <2>1, <2>2
<1>7. ASSUME NEW a \in attempts'
      PROVE  (/\ a.number <= attemptCount[a.delivery]
              /\ status[a.delivery] = "PROCESSING" => a.number < attemptCount[a.delivery])'
  <2>1. CASE a.delivery = d
    BY <1>2, <1>3, <1>4, <1>5, <2>1 DEF AuditedNumbers
  <2>2. CASE a.delivery # d
    BY <1>2, <1>3, <1>4, <2>2 DEF AuditedNumbers
  <2>3. QED BY <2>1, <2>2
<1>8. MessagesHaveOneRow' /\ EventsHaveRows'
  BY ZenonT(60), <1>2 DEF MessagesHaveOneRow, EventsHaveRows, Matches
<1>9. SentHasSuccess'
  <2>1. ASSUME NEW x \in Delivery, status'[x] = "SENT"
        PROVE  status[x] = "SENT"
    <3>1. x # d
      BY <1>2, <2>1
    <3> QED BY <1>2, <2>1, <3>1
  <2>2. ASSUME NEW x \in Delivery, status[x] = "SENT"
        PROVE  \E a \in attempts' :
                 a.delivery = x /\ a.number = attemptCount'[x] /\ a.outcome = "SUCCEEDED"
    BY <1>2, <1>5, <2>2 DEF SentHasSuccess
  <2> QED BY <2>1, <2>2 DEF SentHasSuccess
<1>10. ASSUME NEW a \in attempts', a.outcome = "SUCCEEDED"
       PROVE  IsLastSuccess(a)'
  <2>1. a \in attempts /\ IsLastSuccess(a)
    BY <1>4, <1>10 DEF SuccessIsLast
  <2>2. a.delivery \in Delivery /\ a.delivery # d
    BY <1>2, <1>3, <2>1 DEF IsLastSuccess
  <2>3. QED BY <1>2, <2>1, <2>2 DEF IsLastSuccess
<1>11. SuccessIsLast'
  BY <1>10 DEF SuccessIsLast
<1>12. QED BY <1>6, <1>7, <1>8, <1>9, <1>11
           DEF LeaseIffProcessing, FailedReceiptFailsRoute, AuditedNumbers

LEMMA SuccessKeepsTable ==
  ASSUME TypeInv, RecordInv, NEW w \in Worker, NEW item \in inflight[w], FinishSuccess(w, item),
         UNCHANGED receiptVars
  PROVE  TableInv'
<1> USE DEF RecordInv, TableInv, receiptVars
<1> DEFINE d == item.delivery
           n == item.number
           m == MessageIdOf[d][n]
<1>1. d \in Delivery /\ n \in 1..MaxAttempts /\ m \in MessageId /\ m # NoMessage
  BY DEF TypeInv, TypeOK, Item
<1>2. /\ status[d] = "PROCESSING"
      /\ attemptCount[d] = n
      /\ <<d, n>> \in accepted
      /\ UNCHANGED <<attemptCount, accepted>>
  BY DEF FinishSuccess, HoldsClaim, AnswersAreReal, Finished
<1>3. /\ \A x \in Delivery : /\ lease'[x] = IF x = d THEN "none" ELSE lease[x]
                             /\ providerMessageId'[x] = IF x = d THEN m ELSE providerMessageId[x]
      /\ status'[d] = "SENT"
      /\ \A x \in Delivery : x # d => \/ status'[x] = status[x]
                                      \/ status[x] = "WAITING_FALLBACK" /\ status'[x] = "CANCELLED"
  BY <1>1 DEF FinishSuccess, StandsDown, TypeInv, TypeOK
<1>4. \A a \in attempts : /\ a.delivery \in Delivery /\ a.number \in Nat
                          /\ a.delivery = d => a.number < n
  BY <1>2 DEF AuditedNumbers, TypeInv, TypeOK, Attempt
<1>5. attempts' = attempts \cup {[delivery |-> d, number |-> n, outcome |-> "SUCCEEDED"]}
  BY <1>1, <1>4 DEF FinishSuccess, WithAttempt
<1>6. ASSUME NEW x \in Delivery
      PROVE  /\ (status[x] = "PROCESSING" <=> lease[x] # "none")'
             /\ (providerStatus[x] = "FAILED" => status[x] = "FAILED")'
             /\ (providerMessageId[x] # NoMessage => status[x] \in {"SENT", "FAILED"})'
             /\ x # d /\ status'[x] = "SENT" => status[x] = "SENT"
  <2>1. CASE x = d
    BY <1>2, <1>3, <2>1 DEF FailedReceiptFailsRoute
  <2>2. CASE x # d
    BY <1>3, <2>2 DEF LeaseIffProcessing, FailedReceiptFailsRoute, MessagesHaveOneRow
  <2>3. QED BY <2>1, <2>2
<1>7. ASSUME NEW a \in attempts'
      PROVE  (/\ a.number <= attemptCount[a.delivery]
              /\ status[a.delivery] = "PROCESSING" => a.number < attemptCount[a.delivery])'
  <2>1. CASE a.delivery = d
    BY <1>1, <1>2, <1>3, <1>4, <1>5, <2>1
  <2>2. CASE a.delivery # d
    BY <1>2, <1>3, <1>4, <1>5, <2>2 DEF AuditedNumbers
  <2>3. QED BY <2>1, <2>2
<1>8. MessagesHaveOneRow'
  <2>1. \A x \in Delivery : x # d /\ ProviderOf[x] = ProviderOf[d] => providerMessageId[x] # m
    BY DEF FinishSuccess, MessageIdTaken
  <2>2. ASSUME NEW x \in Delivery, NEW y \in Delivery, ProviderOf[x] = ProviderOf[y],
               providerMessageId'[x] = providerMessageId'[y], providerMessageId'[x] # NoMessage
        PROVE  x = y
    BY <1>1, <1>3, <2>1, <2>2 DEF MessagesHaveOneRow
  <2>3. QED BY <1>6, <2>2 DEF MessagesHaveOneRow
<1>9. EventsHaveRows'
  <2>1. providerMessageId[d] = NoMessage
    BY <1>1, <1>2 DEF MessagesHaveOneRow
  <2>2. \A e \in events : e.message # NoMessage
    BY DEF TypeInv, TypeOK
  <2>3. QED BY <1>3, <2>1, <2>2 DEF EventsHaveRows, Matches
<1>10. SentHasSuccess'
  <2>1. ASSUME NEW x \in Delivery, status'[x] = "SENT"
        PROVE  \E a \in attempts' : /\ a.delivery = x /\ a.number = attemptCount[x]
                                    /\ a.outcome = "SUCCEEDED"
    <3>1. CASE x = d
      <4>1. [delivery |-> d, number |-> n, outcome |-> "SUCCEEDED"] \in attempts'
        BY <1>5
      <4>2. QED BY <1>2, <3>1, <4>1
    <3>2. CASE x # d
      BY <1>2, <1>5, <1>6, <2>1, <3>2 DEF SentHasSuccess
    <3>3. QED BY <3>1, <3>2
  <2>2. QED BY <1>2, <2>1 DEF SentHasSuccess
<1>11. ASSUME NEW a \in attempts', a.outcome = "SUCCEEDED"
       PROVE  IsLastSuccess(a)'
  <2>1. CASE a \in attempts
    <3>1. IsLastSuccess(a) /\ a.delivery \in Delivery /\ a.delivery # d
      BY <1>2, <1>4, <1>11, <2>1 DEF SuccessIsLast, IsLastSuccess
    <3>2. QED BY <1>2, <1>3, <3>1 DEF IsLastSuccess
  <2>2. CASE a = [delivery |-> d, number |-> n, outcome |-> "SUCCEEDED"]
    BY <1>1, <1>2, <1>3, <2>2 DEF IsLastSuccess
  <2>3. QED BY <1>5, <2>1, <2>2
<1>12. SuccessIsLast'
  BY <1>11 DEF SuccessIsLast
<1>13. QED BY <1>6, <1>7, <1>8, <1>9, <1>10, <1>12
           DEF LeaseIffProcessing, FailedReceiptFailsRoute, AuditedNumbers

-----------------------------------------------------------------------------
(* Receipts *)

(* What a failure does to each row.                                        *)
LEMMA FailEffect ==
  ASSUME NEW d \in Delivery, NEW S, Fail(d, S), lease \in [Delivery -> {"none", "running", "expired"}]
  PROVE  /\ status'[d] = "FAILED" /\ lease'[d] = "none"
         /\ \A x \in Delivery : x # d =>
              /\ lease'[x] = lease[x]
              /\ status'[x] = status[x] \/ (x \in S /\ status'[x] = "PENDING")
  BY DEF Fail

(* A receipt never takes a delivery back.                                  *)
LEMMA MergedKeepsDelivery ==
  ASSUME NEW current, NEW receipt \in Receipt
  PROVE  /\ current \in {"DELIVERED", "READ"} \/ receipt \in {"DELIVERED", "READ"}
              => Merged(current, receipt) \in {"DELIVERED", "READ"}
         /\ Merged(current, receipt) = "FAILED"
              => current = "FAILED" \/ (receipt = "FAILED" /\ current \notin {"DELIVERED", "READ"})
  BY DEF Merged, Receipt

LEMMA ReceiptKeepsTable ==
  ASSUME TypeInv, TableInv, NEW d \in Delivery, NEW m \in MessageId, NEW receipt \in Receipt,
         NEW at \in EventTime, ApplyReceipt(d, m, receipt, at), UNCHANGED accepted
  PROVE  TableInv'
<1> USE DEF TableInv
<1> DEFINE event == [message |-> m, receipt |-> receipt, at |-> at]
<1>1. providerMessageId[d] = m /\ ProviderOf[d] = "WHATSAPP" /\ m # NoMessage
  BY DEF ApplyReceipt, Matches
<1>2. status[d] \in {"SENT", "FAILED"} /\ lease[d] = "none"
  BY <1>1 DEF MessagesHaveOneRow, LeaseIffProcessing, TypeInv, TypeOK
<1>3. \A x \in NextUnused(d) :
        x \in Delivery /\ x # d /\ status[x] \in {"WAITING_FALLBACK", "CANCELLED"}
  BY DEF NextUnused, NextIn
<1>4. /\ UNCHANGED <<attemptCount, providerMessageId, attempts>>
      /\ events' = events \cup {event}
      /\ \A x \in Delivery : providerStatus'[x] = IF x = d THEN Merged(providerStatus[d], receipt)
                                                  ELSE providerStatus[x]
  BY DEF ApplyReceipt, TypeInv, TypeOK
<1>5. /\ status'[d] = IF ProviderFailureApplies(d, receipt) THEN "FAILED" ELSE status[d]
      /\ \A x \in Delivery : /\ lease'[x] = lease[x]
                             /\ x # d => \/ status'[x] = status[x]
                                         \/ /\ status[x] \in {"WAITING_FALLBACK", "CANCELLED"}
                                            /\ status'[x] = "PENDING"
  <2>1. CASE ProviderFailureApplies(d, receipt)
    <3>1. Fail(d, NextUnused(d))
      BY <2>1 DEF ApplyReceipt
    <3>2. /\ status'[d] = "FAILED" /\ lease'[d] = "none"
          /\ \A x \in Delivery : x # d =>
               /\ lease'[x] = lease[x]
               /\ status'[x] = status[x] \/ (x \in NextUnused(d) /\ status'[x] = "PENDING")
      BY <3>1, FailEffect DEF TypeInv, TypeOK
    <3>3. \A x \in Delivery : lease'[x] = lease[x]
      BY <1>2, <3>2
    <3>4. ASSUME NEW x \in Delivery, x # d
          PROVE  \/ status'[x] = status[x]
                 \/ status[x] \in {"WAITING_FALLBACK", "CANCELLED"} /\ status'[x] = "PENDING"
      BY <1>3, <3>2, <3>4
    <3>5. QED BY <2>1, <3>2, <3>3, <3>4
  <2>2. CASE ~ProviderFailureApplies(d, receipt)
    BY <2>2 DEF ApplyReceipt
  <2>3. QED BY <2>1, <2>2
<1>6. status'[d] \in {"SENT", "FAILED"} /\ (status[d] = "FAILED" => status'[d] = "FAILED")
  BY <1>2, <1>5 DEF ProviderFailureApplies
<1>7. ASSUME NEW x \in Delivery
      PROVE  /\ (status[x] = "PROCESSING" <=> lease[x] # "none")'
             /\ (providerMessageId[x] # NoMessage => status[x] \in {"SENT", "FAILED"})'
             /\ status'[x] = "SENT" => status[x] = "SENT"
             /\ status'[x] = "PROCESSING" => status[x] = "PROCESSING"
  <2>1. CASE x = d
    BY <1>2, <1>5, <1>6, <2>1 DEF ProviderFailureApplies
  <2>2. CASE x # d
    <3>1. /\ lease'[x] = lease[x]
          /\ \/ status'[x] = status[x]
             \/ status[x] \in {"WAITING_FALLBACK", "CANCELLED"} /\ status'[x] = "PENDING"
      BY <1>5, <2>2
    <3>2. QED BY <1>4, <3>1 DEF LeaseIffProcessing, MessagesHaveOneRow
  <2>3. QED BY <2>1, <2>2
<1>8. LeaseIffProcessing'
  BY <1>7 DEF LeaseIffProcessing
<1>9. AuditedNumbers'
  <2>1. \A a \in attempts : a.delivery \in Delivery
    BY DEF TypeInv, TypeOK, Attempt
  <2>2. QED BY <1>4, <1>7, <2>1 DEF AuditedNumbers
<1>10. MessagesHaveOneRow'
  BY <1>4, <1>7 DEF MessagesHaveOneRow
<1>11. EventsHaveRows'
  <2>1. ASSUME NEW e \in events
        PROVE  \E x \in Delivery :
                 /\ Matches(x, e.message)'
                 /\ e.receipt \in {"DELIVERED", "READ"} => providerStatus'[x] \in {"DELIVERED", "READ"}
    <3>1. PICK x \in Delivery :
            /\ Matches(x, e.message)
            /\ e.receipt \in {"DELIVERED", "READ"} => providerStatus[x] \in {"DELIVERED", "READ"}
      BY DEF EventsHaveRows
    <3>2. Matches(x, e.message)'
      BY <1>4, <3>1 DEF Matches
    <3>3. CASE x = d
      BY <1>4, <3>1, <3>2, <3>3, MergedKeepsDelivery
    <3>4. CASE x # d
      BY <1>4, <3>1, <3>2, <3>4
    <3>5. QED BY <3>3, <3>4
  <2>2. /\ Matches(d, event.message)'
        /\ event.receipt \in {"DELIVERED", "READ"} => providerStatus'[d] \in {"DELIVERED", "READ"}
    BY <1>1, <1>4, MergedKeepsDelivery DEF Matches
  <2>3. QED BY <1>4, <2>1, <2>2 DEF EventsHaveRows
<1>12. FailedReceiptFailsRoute'
  <2>1. ASSUME NEW x \in Delivery, providerStatus'[x] = "FAILED"
        PROVE  status'[x] = "FAILED"
    <3>1. CASE x # d
      BY <1>4, <1>5, <2>1, <3>1 DEF FailedReceiptFailsRoute
    <3>2. CASE x = d
      <4>1. \/ providerStatus[d] = "FAILED"
            \/ receipt = "FAILED" /\ providerStatus[d] \notin {"DELIVERED", "READ"}
        BY <1>4, <2>1, <3>2, MergedKeepsDelivery
      <4>2. QED BY <1>2, <1>5, <1>6, <3>2, <4>1 DEF FailedReceiptFailsRoute,
          ProviderFailureApplies
    <3>3. QED BY <3>1, <3>2
  <2>2. QED BY <2>1 DEF FailedReceiptFailsRoute
<1>13. SentHasSuccess'
  BY <1>4, <1>7 DEF SentHasSuccess
<1>14. ASSUME NEW a \in attempts, a.outcome = "SUCCEEDED"
       PROVE  IsLastSuccess(a)'
  <2>1. IsLastSuccess(a) /\ a.delivery \in Delivery
    BY <1>14 DEF SuccessIsLast, TypeInv, TypeOK, Attempt
  <2>2. CASE a.delivery # d
    <3>1. status'[a.delivery] = status[a.delivery]
      BY <1>5, <2>1, <2>2 DEF IsLastSuccess
    <3>2. QED BY <1>4, <2>1, <3>1 DEF IsLastSuccess
  <2>3. CASE a.delivery = d /\ status'[d] = status[d]
    BY <1>4, <2>1, <2>3 DEF IsLastSuccess
  <2>4. CASE a.delivery = d /\ status'[d] # status[d]
    <3>1. receipt = "FAILED" /\ status'[d] = "FAILED"
      BY <1>5, <2>4 DEF ProviderFailureApplies
    <3>2. event \in events' /\ event.message = providerMessageId'[d] /\ event.receipt = "FAILED"
      BY <1>1, <1>4, <3>1
    <3>3. QED BY <1>4, <2>1, <2>4, <3>1, <3>2 DEF IsLastSuccess
  <2>5. QED BY <2>2, <2>3, <2>4
<1>15. SuccessIsLast'
  BY <1>4, <1>14 DEF SuccessIsLast
<1>16. QED BY <1>8, <1>9, <1>10, <1>11, <1>12, <1>13, <1>15

-----------------------------------------------------------------------------
(* The records are kept by every step *)

LEMMA WorkerStepKeepsRecords ==
  ASSUME TypeInv, RecordInv, NEW w \in Worker, WorkerStep(w), UNCHANGED receiptVars
  PROVE  RecordInv'
<1> USE DEF RecordInv
<1>1. UNCHANGED <<providerStatus, events>>
  BY DEF receiptVars
<1>2. CASE ScanExpired(w)
  <2>1. UNCHANGED <<tableVars, inflight, accepted>>
    BY <1>2 DEF ScanExpired
  <2>2. ASSUME NEW v \in Worker, NEW row \in snapshot'[v]
        PROVE  row \in snapshot[v] \/ row.attempts = attemptCount[row.delivery]
    BY <1>2, <2>2 DEF ScanExpired, TypeInv, TypeOK
  <2>3. \A d \in Delivery : attemptCount[d] <= attemptCount[d]
    BY DEF TypeInv, TypeOK
  <2>4. \A v \in Worker : \A row \in snapshot'[v] : row.attempts <= attemptCount[row.delivery]
    <3>1. ASSUME NEW v \in Worker, NEW row \in snapshot'[v]
          PROVE  row.delivery \in Delivery
      BY <1>2 DEF ScanExpired, TypeInv, TypeOK
    <3>2. QED BY <2>2, <2>3, <3>1 DEF HeldNumbers
  <2>5. HeldNumbers' /\ AnswersAreReal'
    BY <2>1, <2>4 DEF HeldNumbers, AnswersAreReal, tableVars
  <2>6. QED BY <1>1, <2>1, <2>5, FrameKeepsTable
<1>3. ASSUME NEW row \in snapshot[w], SkipRecovery(w, row)
      PROVE  RecordInv'
  <2>1. UNCHANGED <<tableVars, accepted>>
    BY <1>3 DEF SkipRecovery, DropScanned
  <2>2. HeldNumbers' /\ AnswersAreReal'
    BY <1>3, LettingGo DEF SkipRecovery, DropScanned, tableVars, TypeInv, TypeOK
  <2>3. QED BY <1>1, <2>1, <2>2, FrameKeepsTable
<1>4. ASSUME NEW row \in snapshot[w], RecoverLease(w, row)
      PROVE  RecordInv'
  <2>1. row.delivery \in Delivery /\ row.attempts \in 1..MaxAttempts
    BY DEF TypeInv, TypeOK
  <2>2. EndsClaim(row.delivery, row.attempts) /\ UNCHANGED accepted
    BY <1>4 DEF RecoverLease, LeaseExpired, EndsClaim, HeldNumbers, DropScanned
  <2>3. TableInv'
    BY <2>1, <2>2, EndsClaimKeepsTable
  <2>4. HeldNumbers' /\ AnswersAreReal'
    BY <1>4, LettingGo DEF RecoverLease, DropScanned, TypeInv, TypeOK
  <2>5. QED BY <2>3, <2>4
<1>5. CASE EndRecovery(w) \/ ClaimNothing(w) \/ EndCycle(w)
  <2>1. UNCHANGED <<tableVars, snapshot, inflight, accepted>>
    BY <1>5 DEF EndRecovery, ClaimNothing, EndCycle
  <2>2. HeldNumbers' /\ AnswersAreReal'
    BY <2>1, LettingGo DEF tableVars
  <2>3. QED BY <1>1, <2>1, <2>2, FrameKeepsTable
<1>6. CASE Claim(w)
  <2>1. PICK rows \in SUBSET Claimable :
          /\ LeaseRows(rows)
          /\ inflight' = [inflight EXCEPT ![w] =
               {[delivery |-> d, number |-> attemptCount[d] + 1, phase |-> "claimed"]
                  : d \in rows}]
    BY <1>6 DEF Claim
  <2>2. UNCHANGED <<snapshot, accepted>>
    BY <1>6 DEF Claim
  <2>3. TableInv'
    BY <2>1, <2>2, LeaseKeepsTable
  <2>4. \A d \in rows : d \in Delivery /\ attemptCount'[d] = attemptCount[d] + 1
    BY <2>1 DEF LeaseRows, Claimable
  <2>5. ASSUME NEW v \in Worker, NEW item \in inflight'[v]
        PROVE  \/ item \in inflight[v]
               \/ item.number = attemptCount'[item.delivery] /\ item.phase = "claimed"
    BY <2>1, <2>4 DEF TypeInv, TypeOK
  <2>6. ASSUME NEW v \in Worker, NEW item \in inflight'[v]
        PROVE  item.number <= attemptCount'[item.delivery]
    <3>1. item.number \in Nat
      BY WorkerStepType DEF TypeInv, TypeOK, Item
    <3>2. QED BY SMTT(60), <2>1, <2>5, <3>1, HeldNumbersGrow
  <2>7. HeldNumbers'
    BY <2>1, <2>2, <2>6, HeldNumbersGrow DEF HeldNumbers
  <2>8. AnswersAreReal'
    BY <2>2, <2>5 DEF AnswersAreReal
  <2>9. QED BY <2>3, <2>7, <2>8
<1>7. ASSUME NEW item \in inflight[w], ItemStep(w, item)
      PROVE  RecordInv'
  <2>1. item.delivery \in Delivery /\ item.number \in 1..MaxAttempts /\ item \in Item
    BY DEF TypeInv, TypeOK, Item
  <2>2. ASSUME NEW phase \in Phase, NEW taken \in BOOLEAN, Send(w, item, phase, taken)
        PROVE  RecordInv'
    <3>1. /\ UNCHANGED <<tableVars, snapshot>>
          /\ accepted \subseteq accepted'
          /\ phase = "accepted" => <<item.delivery, item.number>> \in accepted'
      BY <2>2 DEF Send
    <3>2. ASSUME NEW v \in Worker, NEW i \in inflight'[v]
          PROVE  \/ i \in inflight[v]
                 \/ i.delivery = item.delivery /\ i.number = item.number /\ i.phase = phase
      <4>1. inflight' = [inflight EXCEPT ![w] =
                           (inflight[w] \ {item}) \cup {[item EXCEPT !.phase = phase]}]
        BY <2>2 DEF Send, Reach
      <4>2. /\ [item EXCEPT !.phase = phase].delivery = item.delivery
            /\ [item EXCEPT !.phase = phase].number = item.number
            /\ [item EXCEPT !.phase = phase].phase = phase
        BY <2>1 DEF Item
      <4>3. QED BY <4>1, <4>2 DEF TypeInv, TypeOK
    <3>3. HeldNumbers'
      BY <3>1, <3>2 DEF HeldNumbers, tableVars
    <3>4. AnswersAreReal'
      BY <3>1, <3>2 DEF AnswersAreReal
    <3>5. QED BY <1>1, <3>1, <3>3, <3>4, FrameKeepsTable
  <2>3. Finished(w, item) /\ UNCHANGED attemptCount => HeldNumbers' /\ AnswersAreReal'
    BY LettingGo DEF Finished, TypeInv, TypeOK
  <2>4. CASE FinishSuccess(w, item)
    BY <2>3, <2>4, SuccessKeepsTable DEF FinishSuccess
  <2>5. CASE FinishRetry(w, item) \/ FinishFailure(w, item)
    <3>1. EndsClaim(item.delivery, item.number) /\ UNCHANGED accepted
      BY <2>5 DEF FinishRetry, FinishFailure, HoldsClaim, EndsClaim, Finished, HeldNumbers
    <3>2. QED BY <2>1, <2>3, <2>5, <3>1, EndsClaimKeepsTable DEF FinishRetry, FinishFailure
  <2>6. CASE RollBackFinish(w, item)
    BY <1>1, <2>3, <2>6, FrameKeepsTable DEF RollBackFinish, Finished, tableVars
  <2>7. QED BY <1>7, <2>2, <2>4, <2>5, <2>6 DEF ItemStep
<1>8. QED BY <1>2, <1>3, <1>4, <1>5, <1>6, <1>7 DEF WorkerStep

LEMMA WorkerFaultKeepsRecords ==
  ASSUME TypeInv, RecordInv, NEW w \in Worker, WorkerFault(w), UNCHANGED receiptVars
  PROVE  RecordInv'
<1> USE DEF RecordInv
<1>1. UNCHANGED <<providerStatus, events>>
  BY DEF receiptVars
<1>2. CASE LoseClaim(w)
  <2>1. PICK rows \in SUBSET Claimable : LeaseRows(rows)
    BY <1>2 DEF LoseClaim
  <2>2. UNCHANGED <<snapshot, inflight, accepted>>
    BY <1>2 DEF LoseClaim
  <2>3. TableInv'
    BY <2>1, <2>2, LeaseKeepsTable
  <2>4. HeldNumbers' /\ AnswersAreReal'
    BY <2>1, <2>2, HeldNumbersGrow DEF HeldNumbers, AnswersAreReal
  <2>5. QED BY <2>3, <2>4
<1>3. ASSUME NEW item \in inflight[w], LoseFinish(w, item)
      PROVE  RecordInv'
  <2>1. HeldNumbers' /\ AnswersAreReal'
    BY <1>3, LettingGo DEF LoseFinish, Finished, tableVars, TypeInv, TypeOK
  <2>2. QED BY <1>1, <1>3, <2>1, FrameKeepsTable DEF LoseFinish, Finished
<1>4. CASE Abandon(w)
  <2>1. HeldNumbers' /\ AnswersAreReal'
    BY <1>4, LettingGo DEF Abandon, tableVars, TypeInv, TypeOK
  <2>2. QED BY <1>1, <1>4, <2>1, FrameKeepsTable DEF Abandon
<1>5. QED BY <1>2, <1>3, <1>4 DEF WorkerFault

LEMMA NextRecordInv == TypeInv /\ RecordInv /\ [Next]_vars => RecordInv'
<1> SUFFICES ASSUME TypeInv, RecordInv, [Next]_vars
             PROVE  RecordInv'
  OBVIOUS
<1>1. CASE Outbox
  BY <1>1, EnqueueKeepsRecords DEF Outbox
<1>2. ASSUME NEW d \in Delivery, TimePasses(d)
      PROVE  RecordInv'
  BY <1>2, TimeKeepsRecords
<1>3. CASE \E w \in Worker : WorkerActs(w)
  BY <1>3, WorkerStepKeepsRecords DEF WorkerActs
<1>4. CASE Faults
  BY <1>4, WorkerFaultKeepsRecords DEF Faults
<1>5. CASE Webhook
  <2>1. PICK m \in Reportable :
          \/ \E d \in Delivery, receipt \in Receipt, at \in EventTime :
               ApplyReceipt(d, m, receipt, at)
          \/ IgnoreFailure(m)
    BY <1>5 DEF Webhook
  <2>2. m \in MessageId
    BY DEF Reportable, TypeInv, TypeOK
  <2>3. UNCHANGED <<attemptCount, snapshot, inflight, accepted>>
    BY <1>5 DEF Webhook, workerVars, ApplyReceipt, IgnoreFailure, tableVars
  <2>4. HeldNumbers' /\ AnswersAreReal'
    BY <2>3, LettingGo DEF RecordInv
  <2>5. CASE IgnoreFailure(m)
    BY <2>3, <2>4, <2>5, FrameKeepsTable DEF IgnoreFailure, RecordInv
  <2>6. CASE ~IgnoreFailure(m)
    BY <2>1, <2>2, <2>3, <2>4, <2>6, ReceiptKeepsTable DEF RecordInv
  <2>7. QED BY <2>5, <2>6
<1>6. CASE UNCHANGED vars
  <2>1. UNCHANGED <<tableVars, attemptCount, workerVars, snapshot, inflight, accepted, receiptVars,
                    providerStatus, events>>
    BY <1>6 DEF vars, tableVars, workerVars, receiptVars
  <2>2. QED BY <2>1, LettingGo, FrameKeepsTable DEF RecordInv
<1>7. QED BY <1>1, <1>2, <1>3, <1>4, <1>5, <1>6 DEF Next

LEMMA RecordInvariant == Spec => []RecordInv
  BY InitRecordInv, NextRecordInv, TypeInvariant, PTL DEF Spec

-----------------------------------------------------------------------------
(* What holds of the records *)

(* A row has a lease exactly while it is claimed, through every claim,     *)
(* result, recovery, fault and receipt: the CHECK constraint of the table  *)
(* refuses no statement.                                                   *)
THEOREM LeaseIffProcessingAlways == Spec => []LeaseIffProcessing
<1>1. RecordInv => LeaseIffProcessing
  BY DEF RecordInv, TableInv
<1>2. QED BY <1>1, RecordInvariant, PTL

(* However many workers recover, claim and answer the same row, a success  *)
(* on record is that of its last claim, of a message that the provider     *)
(* accepted, and a SENT row has it.                                        *)
THEOREM SuccessIsOfLastClaimAlways == Spec => []SuccessIsOfLastClaim
<1>1. RecordInv => SuccessIsOfLastClaim
  BY SuccessHalves DEF RecordInv, TableInv
<1>2. QED BY <1>1, RecordInvariant, PTL

(* No order of receipts and of database steps leaves a route SENT whose    *)
(* receipt on record says that it failed.                                  *)
THEOREM FailedReceiptFailsRouteAlways == Spec => []FailedReceiptFailsRoute
<1>1. RecordInv => FailedReceiptFailsRoute
  BY DEF RecordInv, TableInv
<1>2. QED BY <1>1, RecordInvariant, PTL

-----------------------------------------------------------------------------
(* What a step may not do *)

KeepsClaims ==
  \A d \in Delivery : status[d] = "PROCESSING" /\ status'[d] # "PROCESSING" =>
    \/ lease[d] = "expired"
    \/ \E w \in Worker : \E item \in inflight[w] \ inflight'[w] :
         item.delivery = d /\ item.number = attemptCount[d]

(* A result of a claim ends that claim and no other.                       *)
LEMMA ResultKeepsClaims ==
  ASSUME TypeInv, NEW w \in Worker, NEW item \in inflight[w],
         FinishSuccess(w, item) \/ FinishRetry(w, item) \/ FinishFailure(w, item)
  PROVE  KeepsClaims
<1>1. item.delivery \in Delivery
  BY DEF TypeInv, TypeOK, Item
<1>2. item.number = attemptCount[item.delivery] /\ item \notin inflight'[w]
  BY DEF FinishSuccess, FinishRetry, FinishFailure, HoldsClaim, Finished, TypeInv, TypeOK
<1>3. ASSUME NEW d \in Delivery, d # item.delivery, status[d] = "PROCESSING"
      PROVE  status'[d] = "PROCESSING"
  <2>1. CASE FinishSuccess(w, item)
    BY <1>3, <2>1 DEF FinishSuccess, StandsDown
  <2>2. CASE FinishRetry(w, item)
    BY <1>1, <1>3, <2>2 DEF FinishRetry, ScheduleRetry, TypeInv, TypeOK
  <2>3. CASE FinishFailure(w, item)
    BY <1>3, <2>3 DEF FinishFailure, Fail, NextWaiting, NextIn
  <2>4. QED BY <2>1, <2>2, <2>3
<1>4. ASSUME NEW d \in Delivery, status[d] = "PROCESSING", status'[d] # "PROCESSING"
      PROVE  \E i \in inflight[w] \ inflight'[w] : i.delivery = d /\ i.number = attemptCount[d]
  <2>1. d = item.delivery
    BY <1>3, <1>4
  <2>2. QED BY <1>2, <2>1
<1>5. QED BY <1>4 DEF KeepsClaims

(* Every other step leaves the claimed rows to their claims.               *)
LEMMA StepKeepsClaims == TypeInv /\ [Next]_vars => KeepsClaims
<1> SUFFICES ASSUME TypeInv, [Next]_vars
             PROVE  KeepsClaims
  OBVIOUS
<1>1. UNCHANGED status => KeepsClaims
  BY DEF KeepsClaims
<1>2. CASE Outbox
  BY <1>2 DEF Outbox, EnqueueAlert, KeepsClaims
<1>3. ASSUME NEW d \in Delivery, TimePasses(d)
      PROVE  KeepsClaims
  BY <1>1, <1>3 DEF TimePasses, BecomesDue, LeaseExpires
<1>4. ASSUME NEW w \in Worker, WorkerActs(w)
      PROVE  KeepsClaims
  <2>1. CASE ScanExpired(w) \/ EndRecovery(w) \/ ClaimNothing(w) \/ EndCycle(w)
    BY <1>1, <2>1 DEF ScanExpired, EndRecovery, ClaimNothing, EndCycle, tableVars
  <2>2. ASSUME NEW row \in snapshot[w], SkipRecovery(w, row)
        PROVE  KeepsClaims
    BY <1>1, <2>2 DEF SkipRecovery, tableVars
  <2>3. ASSUME NEW row \in snapshot[w], RecoverLease(w, row)
        PROVE  KeepsClaims
    <3>1. row.delivery \in Delivery /\ lease[row.delivery] = "expired"
      BY <2>3 DEF RecoverLease, LeaseExpired, TypeInv, TypeOK
    <3>2. ScheduleRetry(row.delivery) \/ Fail(row.delivery, NextWaiting(row.delivery))
      BY <2>3 DEF RecoverLease
    <3>3. ASSUME NEW d \in Delivery, d # row.delivery, status[d] = "PROCESSING"
          PROVE  status'[d] = "PROCESSING"
      <4>1. CASE ScheduleRetry(row.delivery)
        BY <3>1, <3>3, <4>1 DEF ScheduleRetry, TypeInv, TypeOK
      <4>2. CASE Fail(row.delivery, NextWaiting(row.delivery))
        BY <3>3, <4>2 DEF Fail, NextWaiting, NextIn
      <4>3. QED BY <3>2, <4>1, <4>2
    <3>4. QED BY <3>1, <3>3 DEF KeepsClaims
  <2>4. CASE Claim(w)
    BY <2>4 DEF Claim, LeaseRows, KeepsClaims
  <2>5. ASSUME NEW item \in inflight[w], ItemStep(w, item)
        PROVE  KeepsClaims
    <3>1. CASE RollBackFinish(w, item) \/ \E phase \in Phase, taken \in BOOLEAN :
                 Send(w, item, phase, taken)
      BY <1>1, <3>1 DEF RollBackFinish, Send, tableVars
    <3>2. QED BY <2>5, <3>1, ResultKeepsClaims DEF ItemStep
  <2>6. QED BY <1>4, <2>1, <2>2, <2>3, <2>4, <2>5 DEF WorkerActs, WorkerStep
<1>5. ASSUME NEW w \in Worker, WorkerFault(w)
      PROVE  KeepsClaims
  BY <1>1, <1>5 DEF WorkerFault, LoseClaim, LoseFinish, Abandon, LeaseRows, tableVars,
      KeepsClaims
<1>6. CASE Webhook
  <2>1. PICK m \in Reportable :
          \/ \E d \in Delivery, receipt \in Receipt, at \in EventTime :
               ApplyReceipt(d, m, receipt, at)
          \/ IgnoreFailure(m)
    BY <1>6 DEF Webhook
  <2>2. ASSUME NEW d \in Delivery, NEW receipt \in Receipt, NEW at \in EventTime,
               ApplyReceipt(d, m, receipt, at), UNCHANGED status \/ ProviderFailureApplies(d, receipt)
        PROVE  KeepsClaims
    BY ZenonT(60), <1>1, <2>2 DEF ApplyReceipt, ProviderFailureApplies, Fail, NextUnused, NextIn,
        KeepsClaims
  <2>3. QED BY <1>1, <2>1, <2>2 DEF ApplyReceipt, IgnoreFailure, tableVars
<1>7. CASE UNCHANGED vars
  BY <1>1, <1>7 DEF vars, tableVars
<1>8. QED BY <1>2, <1>3, <1>4, <1>5, <1>6, <1>7 DEF Next, Faults

(* A claim is ended by its own goroutine or by the recovery of its expired *)
(* lease; no goroutine of an earlier claim, no receipt and no fault ends   *)
(* it.                                                                     *)
THEOREM ClaimIsExclusiveAlways == Spec => ClaimIsExclusive
<1>1. TypeInv /\ [Next]_vars => [KeepsClaims]_vars
  BY StepKeepsClaims
<1>2. QED BY <1>1, TypeInvariant, PTL DEF Spec, ClaimIsExclusive, KeepsClaims

KeepsDelivered ==
  \A d \in Delivery :
    /\ status[d] = "SENT"
    /\ \E e \in events : e.message = providerMessageId[d] /\ e.receipt \in {"DELIVERED", "READ"}
    => status'[d] = "SENT"

LEMMA StepKeepsDelivered == TypeInv /\ RecordInv /\ [Next]_vars => KeepsDelivered
<1> SUFFICES ASSUME TypeInv, RecordInv, [Next]_vars, NEW d \in Delivery, status[d] = "SENT",
                    NEW e \in events, e.message = providerMessageId[d],
                    e.receipt \in {"DELIVERED", "READ"}
             PROVE  status'[d] = "SENT"
  BY DEF KeepsDelivered
<1>1. providerMessageId[d] # NoMessage
  BY DEF TypeInv, TypeOK
<1>2. ProviderOf[d] = "WHATSAPP" => providerStatus[d] \in {"DELIVERED", "READ"}
  <2>1. PICK x \in Delivery :
          /\ Matches(x, e.message)
          /\ providerStatus[x] \in {"DELIVERED", "READ"}
    BY DEF RecordInv, TableInv, EventsHaveRows
  <2>2. ProviderOf[d] = "WHATSAPP" => x = d
    BY <1>1, <2>1 DEF Matches, RecordInv, TableInv, MessagesHaveOneRow
  <2>3. QED BY <2>1, <2>2
<1>3. StatusStep
  BY NextStatusStep
<1>4. CASE \E c \in Chain : Starts(c)
  BY <1>4 DEF Starts
<1>5. ASSUME NEW x \in Delivery, Succeeds(x) \/ GivesUp(x) \/ Bounces(x)
      PROVE  status'[d] = "SENT"
  <2>1. CASE Succeeds(x)
    BY <2>1 DEF Succeeds, StandsDown
  <2>2. CASE GivesUp(x) \/ Bounces(x)
    <3>1. x # d
      BY <1>2, <2>2 DEF GivesUp, Bounces, Live
    <3>2. QED BY <2>2, <3>1 DEF GivesUp, Bounces, HandsOver, NextIn
  <2>3. QED BY <1>5, <2>1, <2>2
<1>6. QED BY <1>3, <1>4, <1>5 DEF StatusStep, StaysPut, Live

(* Once Meta reported a message as delivered or read, no late or reordered *)
(* receipt, no recovery and no other claim takes its route out of SENT.    *)
THEOREM DeliveredStaysSentAlways == Spec => DeliveredStaysSent
<1>1. TypeInv /\ RecordInv /\ [Next]_vars => [KeepsDelivered]_vars
  BY StepKeepsDelivered
<1>2. QED BY <1>1, TypeInvariant, RecordInvariant, PTL
          DEF Spec, DeliveredStaysSent, KeepsDelivered

-----------------------------------------------------------------------------
(* What the provider accepted *)

(* A provider never gives an id twice: run id_clash shows an accepted      *)
(* message that cannot be recorded because it did.                         *)
IdsDiffer ==
  \A x, y \in Delivery : x # y /\ ProviderOf[x] = ProviderOf[y] =>
    \A m, n \in 1..MaxAttempts : MessageIdOf[x][m] # MessageIdOf[y][n]

(* Goroutines belong to the batch that their worker waits for, and a row   *)
(* has the id that the provider gave to one of its attempts.               *)
HeldWhileProcessing == \A w \in Worker : pc[w] # "processing" => inflight[w] = {}

OwnMessages ==
  \A d \in Delivery : providerMessageId[d] # NoMessage =>
    \E n \in 1..MaxAttempts : providerMessageId[d] = MessageIdOf[d][n]

BatchInv == HeldWhileProcessing /\ OwnMessages

LEMMA InitBatchInv == Init => BatchInv
  BY DEF Init, WorkerInit, TableInit, BatchInv, HeldWhileProcessing, OwnMessages

LEMMA WorkerStepKeepsBatch ==
  ASSUME TypeInv, BatchInv, NEW w \in Worker, WorkerStep(w)
  PROVE  BatchInv'
<1> USE DEF TypeInv, TypeOK, BatchInv, HeldWhileProcessing, OwnMessages
<1>1. CASE ScanExpired(w) \/ EndRecovery(w) \/ ClaimNothing(w) \/ EndCycle(w)
  BY <1>1 DEF ScanExpired, EndRecovery, ClaimNothing, EndCycle, tableVars
<1>2. ASSUME NEW row \in snapshot[w], SkipRecovery(w, row) \/ RecoverLease(w, row)
      PROVE  BatchInv'
  BY <1>2 DEF SkipRecovery, RecoverLease, DropScanned, tableVars
<1>3. CASE Claim(w)
  BY <1>3 DEF Claim, LeaseRows
<1>4. ASSUME NEW item \in inflight[w], ItemStep(w, item)
      PROVE  BatchInv'
  <2>1. item.delivery \in Delivery /\ item.number \in 1..MaxAttempts
    BY DEF Item
  <2>2. CASE FinishSuccess(w, item)
    BY <2>1, <2>2 DEF FinishSuccess, InFlight, Finished
  <2>3. CASE FinishRetry(w, item) \/ FinishFailure(w, item) \/ RollBackFinish(w, item)
    <3>1. /\ pc[w] = "processing"
          /\ inflight' = [inflight EXCEPT ![w] = @ \ {item}]
          /\ UNCHANGED <<pc, providerMessageId>>
      BY <2>3 DEF FinishRetry, FinishFailure, RollBackFinish, InFlight, Finished, tableVars
    <3>2. QED BY <3>1
  <2>4. CASE \E phase \in Phase, taken \in BOOLEAN : Send(w, item, phase, taken)
    BY <2>4 DEF Send, InFlight, Reach, tableVars
  <2>5. QED BY <1>4, <2>2, <2>3, <2>4 DEF ItemStep
<1>5. QED BY <1>1, <1>2, <1>3, <1>4 DEF WorkerStep

LEMMA NextBatchInv == TypeInv /\ BatchInv /\ [Next]_vars => BatchInv'
<1> SUFFICES ASSUME TypeInv, BatchInv, [Next]_vars
             PROVE  BatchInv'
  OBVIOUS
<1>1. UNCHANGED <<pc, inflight, providerMessageId>> => BatchInv'
  BY DEF BatchInv, HeldWhileProcessing, OwnMessages
<1>2. CASE Outbox
  BY <1>1, <1>2 DEF Outbox, EnqueueAlert, workerVars
<1>3. ASSUME NEW d \in Delivery, TimePasses(d)
      PROVE  BatchInv'
  BY <1>1, <1>3 DEF TimePasses, BecomesDue, LeaseExpires, workerVars
<1>4. ASSUME NEW w \in Worker, WorkerActs(w)
      PROVE  BatchInv'
  BY <1>4, WorkerStepKeepsBatch DEF WorkerActs
<1>5. ASSUME NEW w \in Worker, WorkerFault(w)
      PROVE  BatchInv'
  BY <1>5 DEF WorkerFault, LoseClaim, LoseFinish, Abandon, InFlight, Finished, LeaseRows,
      tableVars, TypeInv, TypeOK, BatchInv, HeldWhileProcessing, OwnMessages
<1>6. CASE Webhook
  BY <1>1, <1>6 DEF Webhook, ApplyReceipt, IgnoreFailure, workerVars, tableVars
<1>7. CASE UNCHANGED vars
  BY <1>1, <1>7 DEF vars, tableVars, workerVars
<1>8. QED BY <1>2, <1>3, <1>4, <1>5, <1>6, <1>7 DEF Next, Faults

LEMMA BatchInvariant == Spec => []BatchInv
<1>1. TypeInv /\ BatchInv /\ [Next]_vars => BatchInv'
  BY NextBatchInv
<1>2. QED BY <1>1, InitBatchInv, TypeInvariant, PTL DEF Spec

KeepsAcceptance ==
  \A w \in Worker : \A item \in inflight[w] \ inflight'[w] :
    /\ item.phase = "accepted"
    /\ status[item.delivery] = "PROCESSING" /\ attemptCount[item.delivery] = item.number
    => status'[item.delivery] = "SENT" \/ faults' > faults

(* The id of a claim that is being processed is not on record.             *)
LEMMA IdIsFree ==
  ASSUME IdsDiffer, TypeInv, BatchInv, NEW w \in Worker, NEW item \in inflight[w]
  PROVE  ~MessageIdTaken(item)
<1>1. item.delivery \in Delivery /\ item.number \in 1..MaxAttempts
  BY DEF TypeInv, TypeOK, Item
<1>2. ASSUME NEW x \in Delivery \ {item.delivery}, ProviderOf[x] = ProviderOf[item.delivery],
             providerMessageId[x] = MessageIdOf[item.delivery][item.number]
      PROVE  FALSE
  <2>1. providerMessageId[x] # NoMessage
    BY <1>1, <1>2
  <2>2. PICK n \in 1..MaxAttempts : providerMessageId[x] = MessageIdOf[x][n]
    BY <2>1 DEF BatchInv, OwnMessages
  <2>3. MessageIdOf[x][n] # MessageIdOf[item.delivery][item.number]
    <3>1. x \in Delivery /\ x # item.delivery
      OBVIOUS
    <3>2. \A y \in Delivery : x # y /\ ProviderOf[x] = ProviderOf[y] =>
            \A k \in 1..MaxAttempts : MessageIdOf[x][n] # MessageIdOf[y][k]
      BY <3>1 DEF IdsDiffer
    <3>3. QED BY <1>1, <1>2, <3>1, <3>2
  <2>4. QED BY <1>2, <2>2, <2>3
<1>3. QED BY <1>2 DEF MessageIdTaken

(* An item that is accepted leaves its batch by FinishSuccess alone.       *)
LEMMA StepKeepsAcceptance ==
  ASSUME IdsDiffer
  PROVE  TypeInv /\ BatchInv /\ [Next]_vars => KeepsAcceptance
<1> SUFFICES ASSUME TypeInv, BatchInv, [Next]_vars,
                    NEW v \in Worker, NEW held \in inflight[v], held \notin inflight'[v],
                    held.phase = "accepted", HoldsClaim(held)
             PROVE  status'[held.delivery] = "SENT" \/ faults' > faults
  BY DEF KeepsAcceptance, HoldsClaim
<1>1. faults \in Nat
  BY DEF TypeInv, TypeOK
<1>2. inflight' # inflight
  OBVIOUS
<1>3. CASE Outbox \/ Webhook \/ (\E d \in Delivery : TimePasses(d)) \/ UNCHANGED vars
  BY <1>2, <1>3 DEF Outbox, Webhook, TimePasses, vars, workerVars
<1>4. ASSUME NEW w \in Worker, WorkerFault(w)
      PROVE  faults' > faults
  BY <1>1, <1>4 DEF WorkerFault, LoseClaim, LoseFinish, Abandon, Fault
<1>5. ASSUME NEW w \in Worker, WorkerStep(w)
      PROVE  status'[held.delivery] = "SENT"
  <2>1. CASE ScanExpired(w) \/ EndRecovery(w) \/ ClaimNothing(w) \/ EndCycle(w)
    BY <1>2, <2>1 DEF ScanExpired, EndRecovery, ClaimNothing, EndCycle
  <2>2. ASSUME NEW row \in snapshot[w], SkipRecovery(w, row) \/ RecoverLease(w, row)
        PROVE  FALSE
    BY <1>2, <2>2 DEF SkipRecovery, RecoverLease, DropScanned
  <2>3. CASE Claim(w)
    <3>1. inflight[w] = {}
      BY <2>3 DEF Claim, BatchInv, HeldWhileProcessing
    <3>2. inflight'[v] = inflight[v] \/ v = w
      BY <2>3 DEF Claim, TypeInv, TypeOK
    <3>3. QED BY <3>1, <3>2
  <2>4. ASSUME NEW item \in inflight[w], ItemStep(w, item)
        PROVE  status'[held.delivery] = "SENT"
    <3>1. \E rest : inflight' = [inflight EXCEPT ![w] = (@ \ {item}) \cup rest]
      <4>1. CASE \E phase \in Phase, taken \in BOOLEAN : Send(w, item, phase, taken)
        BY <4>1 DEF Send, Reach
      <4>2. CASE FinishSuccess(w, item) \/ FinishRetry(w, item) \/ FinishFailure(w, item)
                   \/ RollBackFinish(w, item)
        <5>1. inflight' = [inflight EXCEPT ![w] = (@ \ {item}) \cup {}]
          BY <4>2 DEF FinishSuccess, FinishRetry, FinishFailure, RollBackFinish, Finished
        <5>2. QED BY <5>1
      <4>3. QED BY <2>4, <4>1, <4>2 DEF ItemStep
    <3>2. held = item
      BY <3>1 DEF TypeInv, TypeOK
    <3>3. FinishSuccess(w, item)
      BY <2>4, <3>2, IdIsFree DEF ItemStep, Send, FinishRetry, FinishFailure, RollBackFinish,
          ShouldRetry
    <3>4. item.delivery \in Delivery
      BY DEF TypeInv, TypeOK, Item
    <3>5. QED BY <3>2, <3>3, <3>4 DEF FinishSuccess
  <2>5. QED BY <1>5, <2>1, <2>2, <2>3, <2>4 DEF WorkerStep
<1>6. QED BY <1>3, <1>4, <1>5 DEF Next, WorkerActs, Faults

(* A goroutine that comes back with an acceptance while its claim is still *)
(* the row's records it, however late, unless the process or the database  *)
(* fails; that is, if ids are not given twice.                             *)
THEOREM AcceptedIsRecordedAlways ==
  ASSUME IdsDiffer
  PROVE  Spec => AcceptedIsRecorded
<1>1. TypeInv /\ BatchInv /\ [Next]_vars => [KeepsAcceptance]_vars
  BY StepKeepsAcceptance
<1>2. QED BY <1>1, TypeInvariant, BatchInvariant, PTL
          DEF Spec, AcceptedIsRecorded, KeepsAcceptance

-----------------------------------------------------------------------------
(* One instance *)

(* One API instance runs. With two, recovery can write the number of an    *)
(* old scan: run stranded shows a row that nobody can claim any more.      *)
OneInstance == \A v, w \in Worker : v = w

(* What the scan of a recovery found is still so.                          *)
ScansAreCurrent ==
  \A w \in Worker :
    /\ snapshot[w] # {} => pc[w] = "recovering"
    /\ \A row \in snapshot[w] : row.attempts = attemptCount[row.delivery]

(* A route that was not tried has all its attempts before it.              *)
UntriedRows ==
  \A d \in Delivery :
    status[d] \in {"ABSENT", "WAITING_FALLBACK", "CANCELLED"} => attemptCount[d] = 0

IsAudited(d, n) ==
  \/ \E a \in attempts : a.delivery = d /\ a.number = n
  \/ status[d] = "PROCESSING" /\ n = attemptCount[d]

AuditInv == UntriedRows /\ RetryHasAttemptLeft /\ EveryClaimIsAudited

LEMMA Audited ==
  EveryClaimIsAudited <=> \A d \in Delivery : \A n \in 1..attemptCount[d] : IsAudited(d, n)
  BY DEF EveryClaimIsAudited, IsAudited

(* Steps that start, stop and order routes: no claim begins or ends.       *)
LEMMA RoutingKeepsAudit ==
  ASSUME AuditInv, UNCHANGED <<attemptCount, attempts>>,
         \A d \in Delivery :
           \/ status'[d] = status[d]
           \/ status[d] = "WAITING_FALLBACK" /\ status'[d] = "CANCELLED"
           \/ /\ status[d] \in {"ABSENT", "WAITING_FALLBACK", "CANCELLED"}
              /\ status'[d] \in {"PENDING", "WAITING_FALLBACK"}
           \/ status[d] = "SENT" /\ status'[d] = "FAILED"
  PROVE  AuditInv'
<1> USE DEF AuditInv
<1>1. UntriedRows'
  BY DEF UntriedRows
<1>2. RetryHasAttemptLeft'
  BY DEF RetryHasAttemptLeft, UntriedRows
<1>3. ASSUME NEW d \in Delivery, NEW n \in 1..attemptCount[d]
      PROVE  IsAudited(d, n)'
  <2>1. IsAudited(d, n)
    BY Audited
  <2>2. status[d] = "PROCESSING" => status'[d] = "PROCESSING"
    OBVIOUS
  <2>3. QED BY <2>1, <2>2 DEF IsAudited
<1>4. QED BY <1>1, <1>2, <1>3 DEF EveryClaimIsAudited, IsAudited

LEMMA LeaseKeepsAudit ==
  ASSUME TypeInv, AuditInv, NEW rows \in SUBSET Claimable, LeaseRows(rows)
  PROVE  AuditInv'
<1> USE DEF AuditInv
<1>1. \A d \in rows : d \in Delivery /\ status[d] \in {"PENDING", "RETRY_SCHEDULED"}
  BY DEF Claimable
<1>2. /\ \A d \in Delivery : /\ status'[d] = IF d \in rows THEN "PROCESSING" ELSE status[d]
                             /\ attemptCount'[d] = IF d \in rows THEN attemptCount[d] + 1
                                                   ELSE attemptCount[d]
      /\ UNCHANGED attempts
  BY DEF LeaseRows
<1>3. UntriedRows' /\ RetryHasAttemptLeft'
  BY <1>2 DEF UntriedRows, RetryHasAttemptLeft
<1>4. ASSUME NEW d \in Delivery, NEW n \in 1..attemptCount'[d]
      PROVE  IsAudited(d, n)'
  <2>1. attemptCount[d] \in Nat
    BY DEF TypeInv, TypeOK
  <2>2. CASE d \in rows /\ n = attemptCount[d] + 1
    BY <1>2, <2>2 DEF IsAudited
  <2>3. CASE ~(d \in rows /\ n = attemptCount[d] + 1)
    <3>1. n \in 1..attemptCount[d]
      <4>1. CASE d \in rows
        <5>1. n \in 1..(attemptCount[d] + 1)
          BY <1>2, <4>1
        <5>2. QED BY <2>1, <2>3, <4>1, <5>1
      <4>2. CASE d \notin rows
        BY <1>2, <4>2
      <4>3. QED BY <4>1, <4>2
    <3>2. IsAudited(d, n)
      BY <3>1, Audited
    <3>3. QED BY <1>1, <1>2, <3>2 DEF IsAudited
  <2>4. QED BY <2>2, <2>3
<1>5. QED BY <1>3, <1>4 DEF EveryClaimIsAudited, IsAudited

(* The end of a claim, under its own number, leaves its row and, when the  *)
(* attempts are used up, no retry.                                         *)
LEMMA EndKeepsAudit ==
  ASSUME TypeInv, AuditInv, NEW d \in Delivery, NEW outcome \in {"SUCCEEDED", "FAILED"},
         attempts' = WithAttempt(d, attemptCount[d], outcome), UNCHANGED attemptCount,
         status[d] = "PROCESSING",
         \/ status'[d] \in {"SENT", "FAILED"}
         \/ status'[d] = "RETRY_SCHEDULED" /\ attemptCount[d] < MaxAttempts,
         \A x \in Delivery : x # d =>
           \/ status'[x] = status[x]
           \/ status[x] = "WAITING_FALLBACK" /\ status'[x] \in {"PENDING", "CANCELLED"}
  PROVE  AuditInv'
<1> USE DEF AuditInv
<1>1. ASSUME NEW x \in Delivery
      PROVE  /\ status'[x] \in {"ABSENT", "WAITING_FALLBACK", "CANCELLED"} => attemptCount'[x] = 0
             /\ status'[x] \in {"PENDING", "RETRY_SCHEDULED"} => attemptCount'[x] < MaxAttempts
  <2>1. CASE x = d
    BY <2>1
  <2>2. CASE x # d
    BY <2>2 DEF UntriedRows, RetryHasAttemptLeft
  <2>3. QED BY <2>1, <2>2
<1>2. /\ attempts \subseteq attempts'
      /\ \E a \in attempts' : a.delivery = d /\ a.number = attemptCount[d]
  <2>1. CASE \E a \in attempts : a.delivery = d /\ a.number = attemptCount[d]
    BY <2>1 DEF WithAttempt
  <2>2. CASE ~\E a \in attempts : a.delivery = d /\ a.number = attemptCount[d]
    <3>1. attempts' = attempts
                        \cup {[delivery |-> d, number |-> attemptCount[d], outcome |-> outcome]}
      BY <2>2 DEF WithAttempt
    <3>2. [delivery |-> d, number |-> attemptCount[d], outcome |-> outcome] \in attempts'
      BY <3>1
    <3>3. QED BY <3>1, <3>2
  <2>3. QED BY <2>1, <2>2
<1>3. ASSUME NEW x \in Delivery, NEW n \in 1..attemptCount[x]
      PROVE  IsAudited(x, n)'
  <2>1. IsAudited(x, n)
    BY Audited
  <2>2. CASE x = d
    BY <1>2, <2>1, <2>2 DEF IsAudited
  <2>3. CASE x # d
    BY <1>2, <2>1, <2>3 DEF IsAudited
  <2>4. QED BY <2>2, <2>3
<1>4. QED BY <1>1, <1>3 DEF UntriedRows, RetryHasAttemptLeft, EveryClaimIsAudited, IsAudited

(* The steps that end a claim under the number of a scan or of a batch.    *)
LEMMA EndsClaimKeepsAudit ==
  ASSUME TypeInv, AuditInv, NEW d \in Delivery, attempts' = WithAttempt(d, attemptCount[d], "FAILED"),
         status[d] = "PROCESSING", UNCHANGED attemptCount,
         \/ ScheduleRetry(d) /\ attemptCount[d] < MaxAttempts
         \/ Fail(d, NextWaiting(d))
  PROVE  AuditInv'
<1>1. CASE ScheduleRetry(d) /\ attemptCount[d] < MaxAttempts
  <2>1. /\ status'[d] = "RETRY_SCHEDULED"
        /\ \A x \in Delivery : x # d => status'[x] = status[x]
    BY <1>1 DEF ScheduleRetry, TypeInv, TypeOK
  <2>2. QED BY <1>1, <2>1, EndKeepsAudit
<1>2. CASE Fail(d, NextWaiting(d))
  <2>1. /\ status'[d] = "FAILED"
        /\ \A x \in Delivery : x # d =>
             \/ status'[x] = status[x]
             \/ status[x] = "WAITING_FALLBACK" /\ status'[x] \in {"PENDING", "CANCELLED"}
    BY <1>2 DEF Fail, NextWaiting, NextIn
  <2>2. QED BY <2>1, EndKeepsAudit
<1>3. QED BY <1>1, <1>2

(* A worker that claims has nothing left of its scan, and it is the only   *)
(* one: no scan is older than a claim.                                     *)
LEMMA ClaimAfterScan ==
  ASSUME OneInstance, ScansAreCurrent, NEW w \in Worker, pc[w] = "claiming"
  PROVE  \A v \in Worker : snapshot[v] = {}
  BY DEF OneInstance, ScansAreCurrent

LEMMA WorkerStepKeepsAudit ==
  ASSUME OneInstance, TypeInv, ScansAreCurrent, AuditInv, NEW w \in Worker, WorkerStep(w)
  PROVE  ScansAreCurrent' /\ AuditInv'
<1>1. ASSUME UNCHANGED <<status, attemptCount, attempts>>
      PROVE  AuditInv'
  BY <1>1, RoutingKeepsAudit
<1>2. ASSUME UNCHANGED <<attemptCount, pc>>,
             \A v \in Worker : snapshot'[v] \subseteq snapshot[v]
      PROVE  ScansAreCurrent'
  BY <1>2 DEF ScansAreCurrent
<1>3. CASE ScanExpired(w)
  BY <1>1, <1>3 DEF ScanExpired, ScansAreCurrent, tableVars, TypeInv, TypeOK
<1>4. ASSUME NEW row \in snapshot[w], SkipRecovery(w, row)
      PROVE  ScansAreCurrent' /\ AuditInv'
  BY <1>1, <1>2, <1>4 DEF SkipRecovery, DropScanned, tableVars, TypeInv, TypeOK
<1>5. ASSUME NEW row \in snapshot[w], RecoverLease(w, row)
      PROVE  ScansAreCurrent' /\ AuditInv'
  <2>1. row.delivery \in Delivery /\ row.attempts = attemptCount[row.delivery]
    BY DEF ScansAreCurrent, TypeInv, TypeOK
  <2>2. AuditInv'
    BY <1>5, <2>1, EndsClaimKeepsAudit DEF RecoverLease, LeaseExpired
  <2>3. ScansAreCurrent'
    BY <1>2, <1>5 DEF RecoverLease, DropScanned, TypeInv, TypeOK
  <2>4. QED BY <2>2, <2>3
<1>6. CASE EndRecovery(w)
  BY <1>1, <1>6 DEF EndRecovery, ScansAreCurrent, tableVars, TypeInv, TypeOK
<1>7. CASE Claim(w)
  <2>1. PICK rows \in SUBSET Claimable : LeaseRows(rows)
    BY <1>7 DEF Claim
  <2>2. \A v \in Worker : snapshot'[v] = {}
    BY <1>7, ClaimAfterScan DEF Claim
  <2>3. QED BY <2>1, <2>2, LeaseKeepsAudit DEF ScansAreCurrent
<1>8. CASE ClaimNothing(w) \/ EndCycle(w)
  <2>1. snapshot[w] = {}
    BY <1>8 DEF ClaimNothing, EndCycle, ScansAreCurrent
  <2>2. QED BY ZenonT(60), <1>1, <1>8, <2>1 DEF ClaimNothing, EndCycle, ScansAreCurrent, tableVars,
      TypeInv, TypeOK
<1>9. ASSUME NEW item \in inflight[w], ItemStep(w, item)
      PROVE  ScansAreCurrent' /\ AuditInv'
  <2>1. item.delivery \in Delivery
    BY DEF TypeInv, TypeOK, Item
  <2>2. ScansAreCurrent'
    BY <1>2, <1>9 DEF ItemStep, Send, FinishSuccess, FinishRetry, FinishFailure, RollBackFinish,
                      Finished, tableVars
  <2>3. CASE RollBackFinish(w, item) \/ \E phase \in Phase, taken \in BOOLEAN :
               Send(w, item, phase, taken)
    BY <1>1, <2>2, <2>3 DEF RollBackFinish, Send, tableVars
  <2>4. CASE FinishSuccess(w, item)
    <3>1. /\ status'[item.delivery] = "SENT"
          /\ \A x \in Delivery : x # item.delivery =>
               \/ status'[x] = status[x]
               \/ status[x] = "WAITING_FALLBACK" /\ status'[x] \in {"PENDING", "CANCELLED"}
      BY <2>1, <2>4 DEF FinishSuccess, StandsDown
    <3>2. /\ attempts' = WithAttempt(item.delivery, attemptCount[item.delivery], "SUCCEEDED")
          /\ status[item.delivery] = "PROCESSING"
          /\ UNCHANGED attemptCount
      BY <2>4 DEF FinishSuccess, HoldsClaim
    <3>3. AuditInv'
      BY <2>1, <3>1, <3>2, EndKeepsAudit
    <3>4. QED BY <2>2, <3>3
  <2>5. CASE FinishRetry(w, item)
    BY <2>1, <2>2, <2>5, EndsClaimKeepsAudit DEF FinishRetry, ShouldRetry, HoldsClaim
  <2>6. CASE FinishFailure(w, item)
    BY <2>1, <2>2, <2>6, EndsClaimKeepsAudit DEF FinishFailure, HoldsClaim
  <2>7. QED BY <1>9, <2>3, <2>4, <2>5, <2>6 DEF ItemStep
<1>10. QED BY <1>3, <1>4, <1>5, <1>6, <1>7, <1>8, <1>9 DEF WorkerStep

LEMMA NextAudit ==
  ASSUME OneInstance
  PROVE  TypeInv /\ ScansAreCurrent /\ AuditInv /\ [Next]_vars
           => ScansAreCurrent' /\ AuditInv'
<1> SUFFICES ASSUME TypeInv, ScansAreCurrent, AuditInv, [Next]_vars
             PROVE  ScansAreCurrent' /\ AuditInv'
  OBVIOUS
<1>1. UNCHANGED <<status, attemptCount, attempts>> => AuditInv'
  BY RoutingKeepsAudit
<1>2. UNCHANGED <<attemptCount, pc, snapshot>> => ScansAreCurrent'
  BY DEF ScansAreCurrent
<1>3. CASE Outbox
  <2>1. UNCHANGED <<attemptCount, attempts, pc, snapshot>>
    BY <1>3 DEF Outbox, EnqueueAlert, workerVars
  <2>2. \A d \in Delivery : \/ status'[d] = status[d]
                            \/ /\ status[d] = "ABSENT"
                               /\ status'[d] \in {"PENDING", "WAITING_FALLBACK"}
    BY <1>3 DEF Outbox, EnqueueAlert
  <2>3. QED BY <1>2, <2>1, <2>2, RoutingKeepsAudit
<1>4. ASSUME NEW d \in Delivery, TimePasses(d)
      PROVE  ScansAreCurrent' /\ AuditInv'
  BY <1>1, <1>2, <1>4 DEF TimePasses, BecomesDue, LeaseExpires, workerVars
<1>5. ASSUME NEW w \in Worker, WorkerActs(w)
      PROVE  ScansAreCurrent' /\ AuditInv'
  BY <1>5, WorkerStepKeepsAudit DEF WorkerActs
<1>6. ASSUME NEW w \in Worker, WorkerFault(w)
      PROVE  ScansAreCurrent' /\ AuditInv'
  <2>1. CASE LoseClaim(w)
    <3>1. PICK rows \in SUBSET Claimable : LeaseRows(rows)
      BY <2>1 DEF LoseClaim
    <3>2. \A v \in Worker : snapshot'[v] = {}
      BY <2>1, ClaimAfterScan DEF LoseClaim
    <3>3. QED BY <3>1, <3>2, LeaseKeepsAudit DEF ScansAreCurrent
  <2>2. ASSUME NEW item \in inflight[w], LoseFinish(w, item)
        PROVE  ScansAreCurrent' /\ AuditInv'
    BY <1>1, <1>2, <2>2 DEF LoseFinish, Finished, tableVars
  <2>3. CASE Abandon(w)
    BY <1>1, <2>3 DEF Abandon, ScansAreCurrent, tableVars, TypeInv, TypeOK
  <2>4. QED BY <1>6, <2>1, <2>2, <2>3 DEF WorkerFault
<1>7. CASE Webhook
  <2>1. PICK m \in Reportable :
          \/ \E d \in Delivery, receipt \in Receipt, at \in EventTime :
               ApplyReceipt(d, m, receipt, at)
          \/ IgnoreFailure(m)
    BY <1>7 DEF Webhook
  <2>2. UNCHANGED <<attemptCount, attempts, pc, snapshot>>
    BY <1>7, <2>1 DEF Webhook, workerVars, ApplyReceipt, IgnoreFailure, tableVars
  <2>3. CASE UNCHANGED status
    BY <1>1, <1>2, <2>2, <2>3
  <2>4. ASSUME NEW d \in Delivery, Fail(d, NextUnused(d)), status[d] = "SENT"
        PROVE  AuditInv'
    <3>1. \A x \in Delivery :
            \/ status'[x] = status[x]
            \/ /\ status[x] \in {"WAITING_FALLBACK", "CANCELLED"}
               /\ status'[x] = "PENDING"
            \/ status[x] = "SENT" /\ status'[x] = "FAILED"
      BY <2>4 DEF Fail, NextUnused, NextIn
    <3>2. QED BY <2>2, <3>1, RoutingKeepsAudit
  <2>5. CASE ~UNCHANGED status
    <3>1. \E d \in Delivery : Fail(d, NextUnused(d)) /\ status[d] = "SENT"
      BY <2>1, <2>5 DEF ApplyReceipt, IgnoreFailure, ProviderFailureApplies, tableVars
    <3>2. QED BY <1>2, <2>2, <2>4, <3>1
  <2>6. QED BY <2>3, <2>5
<1>8. CASE UNCHANGED vars
  BY <1>1, <1>2, <1>8 DEF vars, tableVars, workerVars
<1>9. QED BY <1>3, <1>4, <1>5, <1>6, <1>7, <1>8 DEF Next, Faults

LEMMA AuditInvariant ==
  ASSUME OneInstance
  PROVE  Spec => []AuditInv
<1>1. Init => ScansAreCurrent /\ AuditInv
  BY DEF Init, TableInit, WorkerInit, ScansAreCurrent, AuditInv, UntriedRows,
      RetryHasAttemptLeft,
         EveryClaimIsAudited
<1>2. TypeInv /\ ScansAreCurrent /\ AuditInv /\ [Next]_vars
        => ScansAreCurrent' /\ AuditInv'
  BY NextAudit
<1>3. QED BY <1>1, <1>2, TypeInvariant, PTL DEF Spec

(* With one API instance, every claim that is over has its row in          *)
(* notification_attempts, also the claims whose worker died.               *)
THEOREM EveryClaimIsAuditedByOne ==
  ASSUME OneInstance
  PROVE  Spec => []EveryClaimIsAudited
<1>1. AuditInv => EveryClaimIsAudited
  BY DEF AuditInv
<1>2. QED BY <1>1, AuditInvariant, PTL

(* With one API instance, no row waits for a claim that its attemptCount   *)
(* rules out, whatever crashes and expired leases it went through.         *)
THEOREM RetryHasAttemptLeftWithOne ==
  ASSUME OneInstance
  PROVE  Spec => []RetryHasAttemptLeft
<1>1. AuditInv => RetryHasAttemptLeft
  BY DEF AuditInv
<1>2. QED BY <1>1, AuditInvariant, PTL
=============================================================================
