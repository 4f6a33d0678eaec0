--------------------------- MODULE DeliveryWorker ---------------------------
(***************************************************************************)
(* The notification worker: every API instance runs one Worker, whose      *)
(* cycle (RunOnce) recovers expired leases, claims a batch, processes each *)
(* claimed delivery in a goroutine of its own and waits for all of them.   *)
(* A transaction of the source is one action.  What a worker read in one   *)
(* transaction and uses in a later one is kept in its local variables:     *)
(* the expired rows it scanned and the deliveries it claimed.              *)
(***************************************************************************)
EXTENDS DeliveryTable

CONSTANTS
  Worker,      \* API instances
  BatchSize,   \* options.BatchSize
  MaxFaults    \* bound on crashes and database errors in one behaviour

ASSUME BatchAssumption == BatchSize \in Nat \ {0}
ASSUME FaultAssumption == MaxFaults \in Nat

VARIABLES
  pc,          \* where each worker is in RunOnce
  snapshot,    \* rows left of recoverExpiredLeases' scan, with their attempts
  inflight,    \* claimed deliveries still in process()
  accepted,    \* <<d, n>>: the provider accepted the message of attempt n of d
  faults       \* crashes and database errors so far

workerVars == <<pc, snapshot, inflight, accepted, faults>>

Phase == {"claimed", "accepted", "transient", "permanent"}

WorkerInit ==
  /\ pc = [w \in Worker |-> "idle"]
  /\ snapshot = [w \in Worker |-> {}]
  /\ inflight = [w \in Worker |-> {}]
  /\ accepted = {}
  /\ faults = 0

Fault == faults < MaxFaults /\ faults' = faults + 1

-----------------------------------------------------------------------------
(* recoverExpiredLeases *)

(* The scan runs outside any transaction and reads attemptCount with it.   *)
ScanExpired(w) ==
  /\ pc[w] = "idle"
  /\ \E rows \in SUBSET {d \in Delivery : LeaseExpired(d)} :
       /\ \/ rows = {d \in Delivery : LeaseExpired(d)}
          \/ Cardinality(rows) = BatchSize
       /\ Cardinality(rows) <= BatchSize
       /\ snapshot' = [snapshot EXCEPT ![w] =
                         {[delivery |-> d, attempts |-> attemptCount[d]] : d \in rows}]
  /\ pc' = [pc EXCEPT ![w] = "recovering"]
  /\ UNCHANGED <<tableVars, inflight, accepted, faults>>

Scanned(w, row) == pc[w] = "recovering" /\ row \in snapshot[w]

DropScanned(w, row) ==
  /\ snapshot' = [snapshot EXCEPT ![w] = @ \ {row}]
  /\ UNCHANGED <<pc, inflight, accepted, faults>>

(* SELECT ... FOR UPDATE finds the row gone from PROCESSING or re-leased.  *)
SkipRecovery(w, row) ==
  /\ Scanned(w, row)
  /\ ~LeaseExpired(row.delivery)
  /\ DropScanned(w, row)
  /\ UNCHANGED tableVars

(* Mutant: a recovered lease leaves no attempt row.                        *)
RecoverLeaseUnaudited(w, row) ==
  /\ Scanned(w, row)
  /\ LeaseExpired(row.delivery)
  /\ IF row.attempts < MaxAttempts
     THEN ScheduleRetry(row.delivery)
     ELSE Fail(row.delivery, NextWaiting(row.delivery))
  /\ DropScanned(w, row)
  /\ UNCHANGED <<attemptCount, providerMessageId, attempts>>

(* Mutant: an exhausted delivery fails without activating its fallback.    *)
RecoverLeaseWithoutFallback(w, row) ==
  /\ Scanned(w, row)
  /\ LeaseExpired(row.delivery)
  /\ attempts' = WithAttempt(row.delivery, row.attempts, "FAILED")
  /\ IF row.attempts < MaxAttempts
     THEN ScheduleRetry(row.delivery)
     ELSE Fail(row.delivery, {})
  /\ DropScanned(w, row)
  /\ UNCHANGED <<attemptCount, providerMessageId>>

(* The attempt number and the retry decision come from the scan, the       *)
(* UPDATE tests only the status.                                           *)
RecoverLease(w, row) ==
  /\ Scanned(w, row)
  /\ LeaseExpired(row.delivery)
  /\ attempts' = WithAttempt(row.delivery, row.attempts, "FAILED")
  /\ IF row.attempts < MaxAttempts
     THEN ScheduleRetry(row.delivery)
     ELSE Fail(row.delivery, NextWaiting(row.delivery))
  /\ DropScanned(w, row)
  /\ UNCHANGED <<attemptCount, providerMessageId>>

EndRecovery(w) ==
  /\ pc[w] = "recovering"
  /\ snapshot[w] = {}
  /\ pc' = [pc EXCEPT ![w] = "claiming"]
  /\ UNCHANGED <<tableVars, snapshot, inflight, accepted, faults>>

-----------------------------------------------------------------------------
(* claim *)

LeaseRows(rows) ==
  /\ status' = [d \in Delivery |-> IF d \in rows THEN "PROCESSING" ELSE status[d]]
  /\ attemptCount' = [d \in Delivery |->
                        IF d \in rows THEN attemptCount[d] + 1 ELSE attemptCount[d]]
  /\ lease' = [d \in Delivery |-> IF d \in rows THEN "running" ELSE lease[d]]
  /\ UNCHANGED <<due, providerMessageId, attempts>>

(* SKIP LOCKED leaves out rows that another transaction holds, so any      *)
(* batch of claimable rows may come back.                                  *)
Batch(rows) == rows # {} /\ Cardinality(rows) <= BatchSize

Claim(w) ==
  /\ pc[w] = "claiming"
  /\ \E rows \in SUBSET Claimable :
       /\ Batch(rows)
       /\ LeaseRows(rows)
       /\ inflight' = [inflight EXCEPT ![w] =
            {[delivery |-> d, number |-> attemptCount[d] + 1, phase |-> "claimed"]
               : d \in rows}]
  /\ pc' = [pc EXCEPT ![w] = "processing"]
  /\ UNCHANGED <<snapshot, accepted, faults>>

ClaimNothing(w) ==
  /\ pc[w] = "claiming"
  /\ Claimable = {}
  /\ pc' = [pc EXCEPT ![w] = "idle"]
  /\ UNCHANGED <<tableVars, snapshot, inflight, accepted, faults>>

(* The statement committed and reading its result failed: the rows stay    *)
(* leased with nobody to process them.                                     *)
LoseClaim(w) ==
  /\ pc[w] = "claiming"
  /\ \E rows \in SUBSET Claimable : Batch(rows) /\ LeaseRows(rows)
  /\ Fault
  /\ pc' = [pc EXCEPT ![w] = "idle"]
  /\ UNCHANGED <<snapshot, inflight, accepted>>

-----------------------------------------------------------------------------
(* process *)

InFlight(w, item) == pc[w] = "processing" /\ item \in inflight[w]

Reach(w, item, phase) ==
  inflight' = [inflight EXCEPT ![w] = (@ \ {item}) \cup {[item EXCEPT !.phase = phase]}]

(* process() up to the answer of the sender.  A permanent failure is also  *)
(* what a delivery gets without any call: its endpoint was disabled when   *)
(* it was claimed, no sender is configured, or the sender refuses the      *)
(* request (credential, destination, missing review link).  A transient    *)
(* one may hide an accepted message: a timeout, an unreadable answer.      *)
Send(w, item, phase, taken) ==
  /\ InFlight(w, item)
  /\ item.phase = "claimed"
  /\ phase = "accepted" => taken
  /\ phase = "permanent" => ~taken
  /\ Reach(w, item, phase)
  /\ accepted' = IF taken THEN accepted \cup {<<item.delivery, item.number>>} ELSE accepted
  /\ UNCHANGED <<tableVars, pc, snapshot, faults>>

(* Mutant: the update tests the status only.                               *)
HoldsClaimByStatus(item) == status[item.delivery] = "PROCESSING"

(* Mutant: a goroutine whose lease has expired stands back.                *)
HoldsClaimUnexpired(item) ==
  /\ status[item.delivery] = "PROCESSING"
  /\ attemptCount[item.delivery] = item.number
  /\ lease[item.delivery] = "running"

(* WHERE "id" = $ AND "status" = 'PROCESSING' AND "attemptCount" = $       *)
HoldsClaim(item) ==
  /\ status[item.delivery] = "PROCESSING"
  /\ attemptCount[item.delivery] = item.number

(* notification_deliveries_provider_message_key                            *)
MessageIdTaken(item) ==
  \E x \in Delivery \ {item.delivery} :
    /\ ProviderOf[x] = ProviderOf[item.delivery]
    /\ providerMessageId[x] = MessageIdOf[item.delivery][item.number]

Finished(w, item) ==
  /\ inflight' = [inflight EXCEPT ![w] = @ \ {item}]
  /\ UNCHANGED <<pc, snapshot, accepted>>

(* Mutant: a success leaves the waiting routes alone.                      *)
StandsDownNever(x, d) == FALSE

StandsDown(x, d) ==
  x # d /\ ChainOf[x] = ChainOf[d] /\ status[x] = "WAITING_FALLBACK"

FinishSuccess(w, item) ==
  LET d == item.delivery
  IN  /\ InFlight(w, item)
      /\ item.phase = "accepted"
      /\ HoldsClaim(item)
      /\ ~MessageIdTaken(item)
      /\ attempts' = WithAttempt(d, item.number, "SUCCEEDED")
      /\ status' = [x \in Delivery |-> IF x = d THEN "SENT"
                                       ELSE IF StandsDown(x, d) THEN "CANCELLED"
                                       ELSE status[x]]
      /\ lease' = [lease EXCEPT ![d] = "none"]
      /\ providerMessageId' = [providerMessageId EXCEPT ![d] = MessageIdOf[d][item.number]]
      /\ Finished(w, item)
      /\ UNCHANGED <<attemptCount, due, faults>>

(* Mutant: off by one.                                                     *)
ShouldRetryAtLimit(item) == item.phase = "transient" /\ item.number <= MaxAttempts

ShouldRetry(item) == item.phase = "transient" /\ item.number < MaxAttempts

FinishRetry(w, item) ==
  /\ InFlight(w, item)
  /\ ShouldRetry(item)
  /\ HoldsClaim(item)
  /\ attempts' = WithAttempt(item.delivery, item.number, "FAILED")
  /\ ScheduleRetry(item.delivery)
  /\ Finished(w, item)
  /\ UNCHANGED <<attemptCount, providerMessageId, faults>>

FinishFailure(w, item) ==
  /\ InFlight(w, item)
  /\ item.phase \in {"transient", "permanent"}
  /\ ~ShouldRetry(item)
  /\ HoldsClaim(item)
  /\ attempts' = WithAttempt(item.delivery, item.number, "FAILED")
  /\ Fail(item.delivery, NextWaiting(item.delivery))
  /\ Finished(w, item)
  /\ UNCHANGED <<attemptCount, providerMessageId, faults>>

(* Mutant: the waiting routes are cancelled before the update that finds   *)
(* the lease lost, and that is committed.                                  *)
RollBackFinishHalfway(w, item) ==
  /\ InFlight(w, item)
  /\ item.phase # "claimed"
  /\ ~HoldsClaim(item) \/ (item.phase = "accepted" /\ MessageIdTaken(item))
  /\ status' = [x \in Delivery |->
                  IF item.phase = "accepted" /\ StandsDown(x, item.delivery)
                  THEN "CANCELLED" ELSE status[x]]
  /\ Finished(w, item)
  /\ UNCHANGED <<attemptCount, due, lease, providerMessageId, attempts, faults>>

(* The transaction rolls back, attempt row included: the lease was lost    *)
(* (no row updated) or the message id belongs to another delivery.         *)
RollBackFinish(w, item) ==
  /\ InFlight(w, item)
  /\ item.phase # "claimed"
  /\ ~HoldsClaim(item) \/ (item.phase = "accepted" /\ MessageIdTaken(item))
  /\ Finished(w, item)
  /\ UNCHANGED <<tableVars, faults>>

(* The database refuses the transaction.                                   *)
LoseFinish(w, item) ==
  /\ InFlight(w, item)
  /\ item.phase # "claimed"
  /\ Fault
  /\ Finished(w, item)
  /\ UNCHANGED tableVars

(* workers.Wait() returns and Run waits for the next tick.                 *)
EndCycle(w) ==
  /\ pc[w] = "processing"
  /\ inflight[w] = {}
  /\ pc' = [pc EXCEPT ![w] = "idle"]
  /\ UNCHANGED <<tableVars, snapshot, inflight, accepted, faults>>

-----------------------------------------------------------------------------
(* The process dies and restarts, its context is cancelled, or RunOnce     *)
(* returns the error of a recovery transaction: the worker starts its next *)
(* cycle with nothing of this one.                                         *)
Abandon(w) ==
  /\ pc[w] # "idle"
  /\ Fault
  /\ pc' = [pc EXCEPT ![w] = "idle"]
  /\ snapshot' = [snapshot EXCEPT ![w] = {}]
  /\ inflight' = [inflight EXCEPT ![w] = {}]
  /\ UNCHANGED <<tableVars, accepted>>

ItemStep(w, item) ==
  \/ \E phase \in Phase \ {"claimed"}, taken \in BOOLEAN : Send(w, item, phase, taken)
  \/ FinishSuccess(w, item)
  \/ FinishRetry(w, item)
  \/ FinishFailure(w, item)
  \/ RollBackFinish(w, item)

(* Every step of a worker that goes well.                                  *)
WorkerStep(w) ==
  \/ ScanExpired(w)
  \/ \E row \in snapshot[w] : SkipRecovery(w, row) \/ RecoverLease(w, row)
  \/ EndRecovery(w)
  \/ Claim(w)
  \/ ClaimNothing(w)
  \/ \E item \in inflight[w] : ItemStep(w, item)
  \/ EndCycle(w)

WorkerFault(w) ==
  \/ LoseClaim(w)
  \/ \E item \in inflight[w] : LoseFinish(w, item)
  \/ Abandon(w)
=============================================================================
