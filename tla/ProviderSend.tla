---------------------------- MODULE ProviderSend ----------------------------
(***************************************************************************)
(* The attempts at one delivery against the clock: the lease of a claim,   *)
(* the timeout of a request, what the senders make of the provider's       *)
(* answer, and the delay before the next attempt.  Points in time are      *)
(* what is left until them, so that the clock has no bound; the unit is    *)
(* five seconds, and the delays are smaller than in the code but in the    *)
(* same order.  DeliveryWorker has the same worker without durations, with *)
(* all routes of an alert.                                                 *)
(***************************************************************************)
EXTENDS Integers

CONSTANTS
  Worker,            \* API instances
  MaxAttempts,
  Provider,          \* subset of {"TELEGRAM", "WHATSAPP"}
  RequestTimeout,    \* Provider -> timeout of a request
  LeaseDuration,     \* more than ten seconds
  BaseBackoff, MaxBackoff,
  MaxProviderRetryDelay,
  MaxRetryAfter,     \* a longer Retry-After is not read
  Waits,             \* values of Retry-After, 0 for none
  MaxFaults          \* bound on crashes, lost transactions and missing links

(* A lease need not outlast a request (config.go 137 refuses only ten      *)
(* seconds or less), nor what goes before it, which has no bound.          *)
TimingAssumption ==
  /\ RequestTimeout \in [Provider -> Nat]
  /\ {LeaseDuration, BaseBackoff, MaxBackoff, MaxProviderRetryDelay, MaxRetryAfter, MaxFaults} \subseteq Nat
  /\ 0 < BaseBackoff /\ BaseBackoff <= MaxBackoff
  /\ MaxBackoff <= MaxProviderRetryDelay /\ MaxRetryAfter <= MaxProviderRetryDelay
  /\ MaxAttempts \in Nat \ {0} /\ Waits \subseteq Nat

VARIABLES
  route,         \* provider and configuration of the delivery's endpoint
  status, attemptCount,
  lockedUntil, availableAt,
  job,           \* Worker -> the claim it processes
  scan,          \* Worker -> attempt of an expired lease it has read, or 0
  asked,         \* what is left of a recorded request to wait
  verdict,       \* what the provider did in the last recorded attempt
  faults

vars == <<route, status, attemptCount, lockedUntil, availableAt, job, scan, asked, verdict, faults>>

rowVars == <<status, attemptCount, lockedUntil, availableAt>>

NoJob == [phase |-> "idle"]
Finished(attempt, result, did, told) ==
  [phase |-> "finished", attempt |-> attempt, result |-> result, did |-> did, told |-> told]

(* An endpoint can be sent to, has no usable credential, or names          *)
(* something else the sender refuses; the link to the video is optional.   *)
Init ==
  /\ route \in [provider : Provider, sendable : BOOLEAN]
  /\ status = "PENDING" /\ attemptCount = 0
  /\ lockedUntil = 0 /\ availableAt = 0
  /\ job = [w \in Worker |-> NoJob] /\ scan = [w \in Worker |-> 0]
  /\ asked = 0 /\ verdict = "none" /\ faults = 0

Fault == faults < MaxFaults /\ faults' = faults + 1

Least(a, b) == IF a <= b THEN a ELSE b
Most(a, b) == IF a <= b THEN b ELSE a

-----------------------------------------------------------------------------
(* Classification of answers: status, what the body is (the id of a        *)
(* message, valid JSON without one, an error, or not to be read), its      *)
(* error code and Retry-After.                                             *)

PermanentStatus(code) == code \in 400..499 \ {408, 429}

Transient(wait) == [class |-> "transient", wait |-> IF wait <= MaxRetryAfter THEN wait ELSE 0]
Permanent == [class |-> "permanent", wait |-> 0]
Accepted == [class |-> "accepted", wait |-> 0]

\* classifyTelegramHTTPStatus, classifyTelegramAPIError
TelegramCode(code, wait) ==
  IF PermanentStatus(code) THEN Permanent ELSE Transient(IF code = 429 THEN wait ELSE 0)

TelegramSend(a, wait) ==
  IF a.status \notin 200..299 THEN TelegramCode(a.status, wait)
  ELSE IF a.body = "error" THEN TelegramCode(a.error, wait)
  ELSE IF a.body = "id" THEN Accepted ELSE Transient(0)

GraphTransient ==
  {1, 2, 4, 17, 341, 368, 80007, 131000} \cup {130429, 131048, 131056}

\* classifyWhatsAppHTTPStatus, classifyWhatsAppGraphError
WhatsAppSend(a, wait) ==
  IF a.status \in 200..299 THEN IF a.body = "id" THEN Accepted ELSE Transient(0)
  ELSE IF a.status = 400 /\ a.body = "error" /\ a.error \in GraphTransient THEN Transient(wait)
  ELSE IF PermanentStatus(a.status) THEN Permanent
  ELSE IF a.status \in 300..399 THEN Transient(0) ELSE Transient(wait)

Classified(a, wait) ==
  IF route.provider = "TELEGRAM" THEN TelegramSend(a, wait) ELSE WhatsAppSend(a, wait)

(* What a provider that does v may answer.                                 *)
Answers(v) ==
  LET answer(code, body, error) == [status |-> code, body |-> body, error |-> error]
      telegram(code) == IF route.provider = "TELEGRAM" THEN {answer(200, "error", code)} ELSE {}
      graph(code) == IF route.provider = "WHATSAPP" THEN {answer(400, "error", code)} ELSE {}
  IN  CASE v = "took" -> {answer(200, b, 0) : b \in {"id", "json", "unread"}}
                         \cup {answer(408, "unread", 0), answer(500, "unread", 0)}
        [] v = "busy" -> {answer(429, "unread", 0)} \cup telegram(429) \cup graph(130429)
        [] v = "down" -> {answer(c, "unread", 0) : c \in {302, 408, 500}}
                         \cup telegram(500) \cup graph(131000)
        [] v = "refused" -> {answer(c, "unread", 0) : c \in {400, 401, 403, 404}}
                            \cup telegram(400) \cup graph(131026)

-----------------------------------------------------------------------------
(* Retry delay *)

(* Mutant: the configured cap is applied after the provider's delay.       *)
RetryDelayCapped(attempt, wait) == Least(Most(BaseBackoff * 2^(attempt - 1), wait), MaxBackoff)

RetryDelay(attempt, wait) ==
  Least(Most(Least(BaseBackoff * 2^(attempt - 1), MaxBackoff), wait), MaxProviderRetryDelay)

Retries(attempt) == attempt < MaxAttempts

-----------------------------------------------------------------------------
(* Worker *)

Claim(w) ==
  /\ job[w].phase = "idle" /\ scan[w] = 0
  /\ status \in {"PENDING", "RETRY_SCHEDULED"} /\ availableAt = 0 /\ attemptCount < MaxAttempts
  /\ status' = "PROCESSING" /\ attemptCount' = attemptCount + 1
  /\ lockedUntil' = LeaseDuration
  /\ job' = [job EXCEPT ![w] = [phase |-> "preparing", attempt |-> attemptCount + 1]]
  /\ UNCHANGED <<route, availableAt, scan, asked, verdict, faults>>

Leased(w) == status = "PROCESSING" /\ attemptCount = job[w].attempt

(* Mutant: http.Client without a timeout of its own, and no context.       *)
TimeLimitNone(p) == LeaseDuration + MaxProviderRetryDelay

TimeLimit(p) == RequestTimeout[p]

(* The request leaves, or the sender refuses to make it.  inTime remembers *)
(* whether what is left of its lease covers the timeout.                   *)
Request(w) ==
  /\ job[w].phase = "preparing"
  /\ job' = [job EXCEPT ![w] =
               IF route.sendable
               THEN [phase |-> "sending", attempt |-> @.attempt, left |-> TimeLimit(route.provider),
                     inTime |-> Leased(w) /\ lockedUntil >= RequestTimeout[route.provider]]
               ELSE Finished(@.attempt, Permanent, "none", 0)]
  /\ UNCHANGED <<route, rowVars, scan, asked, verdict, faults>>

(* CreateReviewLink fails: Telegram gets the message without a link (as in *)
(* Request), to WhatsApp it is not sent at all.                            *)
RequestWithoutLink(w) ==
  /\ job[w].phase = "preparing" /\ route.provider = "WHATSAPP" /\ Fault
  /\ job' = [job EXCEPT ![w] = Finished(@.attempt, Permanent, "unlinked", 0)]
  /\ UNCHANGED <<route, rowVars, scan, asked, verdict>>

\* What the property WaitsAsAsked remembers of the answer.
Told(v, wait) == IF v = "busy" /\ wait <= MaxRetryAfter THEN wait ELSE 0

Answer(w) ==
  /\ job[w].phase = "sending"
  /\ \E v \in {"took", "busy", "down", "refused"}, wait \in Waits :
       /\ v = "took" => wait = 0
       /\ \E a \in Answers(v) :
            job' = [job EXCEPT ![w] = Finished(@.attempt, Classified(a, wait), v, Told(v, wait))]
  /\ UNCHANGED <<route, rowVars, scan, asked, verdict, faults>>

\* No answer: refused connection, or the deadline of the request.
NoAnswer(w) ==
  /\ job[w].phase = "sending"
  /\ \E v \in {"took", "down"} :
       job' = [job EXCEPT ![w] = Finished(@.attempt, Transient(0), v, 0)]
  /\ UNCHANGED <<route, rowVars, scan, asked, verdict, faults>>

Holds(w) == job[w].phase = "finished" /\ Leased(w)

FinishSuccess(w) ==
  /\ Holds(w) /\ job[w].result.class = "accepted"
  /\ status' = "SENT" /\ lockedUntil' = 0 /\ verdict' = job[w].did
  /\ job' = [job EXCEPT ![w] = NoJob]
  /\ UNCHANGED <<route, attemptCount, availableAt, scan, asked, faults>>

FinishFailure(w) ==
  /\ Holds(w) /\ job[w].result.class # "accepted"
  /\ lockedUntil' = 0 /\ verdict' = job[w].did /\ asked' = job[w].told
  /\ IF job[w].result.class = "transient" /\ Retries(attemptCount)
     THEN /\ status' = "RETRY_SCHEDULED"
          /\ availableAt' = RetryDelay(attemptCount, job[w].result.wait)
     ELSE /\ status' = "FAILED" /\ UNCHANGED availableAt
  /\ job' = [job EXCEPT ![w] = NoJob]
  /\ UNCHANGED <<route, attemptCount, scan, faults>>

\* The lease was lost, or the transaction, or the process dies.
GiveUp(w) ==
  /\ \/ job[w].phase = "finished" /\ ~Holds(w) /\ UNCHANGED faults
     \/ (job[w].phase # "idle" \/ scan[w] # 0) /\ Fault
  /\ job' = [job EXCEPT ![w] = NoJob] /\ scan' = [scan EXCEPT ![w] = 0]
  /\ UNCHANGED <<route, rowVars, asked, verdict>>

(* An instance whose jobs have ended looks for expired leases, outside any *)
(* transaction ...                                                         *)
ScanLease(w) ==
  /\ job[w].phase = "idle" /\ scan[w] = 0
  /\ status = "PROCESSING" /\ lockedUntil = 0
  /\ scan' = [scan EXCEPT ![w] = attemptCount]
  /\ UNCHANGED <<route, rowVars, job, asked, verdict, faults>>

(* ... and recovers what is expired under the row lock, with the number of *)
(* attempts it has read before: the lease may be of a later claim.         *)
RecoverLease(w) ==
  /\ scan[w] # 0 /\ scan' = [scan EXCEPT ![w] = 0]
  /\ IF status = "PROCESSING" /\ lockedUntil = 0
     THEN IF Retries(scan[w])
          THEN status' = "RETRY_SCHEDULED" /\ availableAt' = RetryDelay(scan[w], 0)
          ELSE status' = "FAILED" /\ UNCHANGED availableAt
     ELSE UNCHANGED <<status, availableAt>>
  /\ UNCHANGED <<route, attemptCount, lockedUntil, job, asked, verdict, faults>>

-----------------------------------------------------------------------------
Sending(w) == job[w].phase = "sending"

\* A request ends at its deadline; what goes before it has none.
Tick ==
  /\ \A w \in Worker : Sending(w) => job[w].left > 0
  /\ {lockedUntil, availableAt, asked} # {0} \/ \E w \in Worker : Sending(w)
  /\ lockedUntil' = Most(lockedUntil - 1, 0)
  /\ availableAt' = Most(availableAt - 1, 0)
  /\ asked' = Most(asked - 1, 0)
  /\ job' = [w \in Worker |-> IF Sending(w) THEN [job[w] EXCEPT !.left = @ - 1] ELSE job[w]]
  /\ UNCHANGED <<route, status, attemptCount, scan, verdict, faults>>

Next ==
  \/ \E w \in Worker :
       \/ Claim(w) \/ Request(w) \/ RequestWithoutLink(w) \/ Answer(w) \/ NoAnswer(w)
       \/ FinishSuccess(w) \/ FinishFailure(w) \/ GiveUp(w)
       \/ ScanLease(w) \/ RecoverLease(w)
  \/ Tick

Spec == Init /\ [][Next]_vars /\ WF_vars(Next)

-----------------------------------------------------------------------------
(* The variables have their types; the row is leased only in PROCESSING.   *)
TypeOK ==
  /\ status \in {"PENDING", "PROCESSING", "RETRY_SCHEDULED", "SENT", "FAILED"}
  /\ attemptCount \in 0..MaxAttempts /\ faults \in 0..MaxFaults
  /\ lockedUntil > 0 => status = "PROCESSING"
  /\ availableAt \in 0..MaxProviderRetryDelay

(* A second request for a delivery is on its way at the same time only if  *)
(* the first one left with less of its lease than its timeout, or none:    *)
(* a recovered lease, a stale scan or a lost claim alone never repeat one  *)
(* that may still be answered (worker.go 165, 309-370; telegram_sender.go  *)
(* 146, whatsapp_sender.go 214).                                           *)
OneRequestAtATime ==
  \A v, w \in Worker :
    v # w /\ Sending(v) /\ Sending(w) =>
      /\ job[v].attempt # job[w].attempt
      /\ job[v].attempt < job[w].attempt => ~job[v].inTime

(* A delivery is SENT when the provider took the message, and fails with   *)
(* attempts left only when the provider refused it or it could not be made *)
(* (telegram_sender.go 152-231, whatsapp_sender.go 222-422).               *)
EndIsDeserved ==
  /\ status = "SENT" => verdict = "took"
  /\ status = "FAILED" /\ attemptCount < MaxAttempts =>
       verdict \in {"refused", "unlinked"} \/ ~route.sendable

(* After a recorded 429 with a readable Retry-After the next claim's       *)
(* request waits for it (worker.go 373-386).  One of an older claim that   *)
(* has lost its lease may still leave.                                     *)
WaitsAsAsked ==
  [][\A w \in Worker :
       ~Sending(w) /\ Sending(w)' /\ job[w].attempt = attemptCount => asked = 0]_vars

(* What the provider answers is heeded: what it took, refused or put off   *)
(* (telegram_sender.go 152-231, worker.go 373-397).                        *)
AnswersAreHeeded == []EndIsDeserved /\ WaitsAsAsked

Stranded == status = "RETRY_SCHEDULED" /\ attemptCount = MaxAttempts

(* The attempts at a delivery come to an end (worker.go 165, 259-370).  It *)
(* is the end of the delivery unless it stays scheduled for a retry that   *)
(* no claim takes, as in the run stranded, and that is always the work of  *)
(* a scan older than the claim whose lease it recovers.                    *)
DeliveryEnds == <>[](status \in {"SENT", "FAILED"} \/ Stranded)

StrandedByStaleScan ==
  [][~Stranded /\ Stranded' => \E w \in Worker : scan[w] # 0 /\ scan[w] < attemptCount]_vars
=============================================================================
