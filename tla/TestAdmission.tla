--------------------------- MODULE TestAdmission ---------------------------
(***************************************************************************)
(* Admission of TEST deliveries: testNotificationEndpoint with             *)
(* EnqueueTestTx, for several requests at once, possibly at several API    *)
(* instances.  One advisory lock of the database serializes admission from *)
(* its first statement to the end of the transaction; the worker, the      *)
(* owner's switch of an endpoint and the clock do not take it.             *)
(***************************************************************************)
EXTENDS Integers, FiniteSets

CONSTANTS
  Endpoint,
  StoreOf,        \* Endpoint -> store
  Call,           \* requests POST .../test
  Plans,          \* sets of calls: those of one behaviour
  EndpointOf,     \* Call -> endpoint of the path
  RequestOf,      \* Call -> requestId of the body
  RequesterOf,    \* Call -> the signed-in owner
  Minute, Hour,   \* lengths of the windows, in ticks
  EndpointPerMinute, EndpointPerHour, StorePerHour, RequesterPerHour, GlobalPerHour,
  EndpointPending, StorePending, GlobalPending,
  Switched,       \* endpoints that the owner may disable
  MaxTime,        \* bound on the clock
  MaxFaults       \* bound on failed transactions

WindowAssumption == Minute \in Nat /\ Hour \in Nat /\ Minute <= Hour
BoundAssumption == MaxTime \in Nat /\ MaxFaults \in Nat
LimitAssumption ==
  /\ EndpointOf \in [Call -> Endpoint]
  /\ {EndpointPerMinute, EndpointPerHour, StorePerHour, RequesterPerHour, GlobalPerHour,
      EndpointPending, StorePending, GlobalPending} \subseteq Nat

VARIABLES
  tests,      \* committed TEST rows of notification_deliveries
  plan,       \* the calls that may come
  call,       \* Call -> its handler
  enabled,    \* endpoints with "isEnabled"
  answers,    \* answers given (history)
  now,
  failures

vars == <<plan, tests, call, enabled, answers, now, failures>>

Quiet == [phase |-> "quiet"]

Init ==
  /\ plan \in Plans
  /\ tests = {}
  /\ call = [c \in Call |-> Quiet]
  /\ enabled = Endpoint
  /\ answers = {}
  /\ now = 0
  /\ failures = 0

-----------------------------------------------------------------------------
(* The statements *)

TestDedupeKey(e, request) == <<e, request>>

DedupeKey(c) == TestDedupeKey(EndpointOf[c], RequestOf[c])

Known(c) == {d \in tests : d.key = DedupeKey(c) /\ StoreOf[d.endpoint] = StoreOf[EndpointOf[c]]}

Since(rows, window) == {d \in rows : d.createdAt > now - window}
OfEndpoint(rows, c) == {d \in rows : d.endpoint = EndpointOf[c]}
OfStore(rows, c) == {d \in rows : StoreOf[d.endpoint] = StoreOf[EndpointOf[c]]}
OfRequester(rows, c) == {d \in rows : d.requester = RequesterOf[c]}
Pending(rows) == {d \in rows : d.pending}

Limited(c) ==
  \/ Cardinality(OfEndpoint(Since(tests, Minute), c)) >= EndpointPerMinute
  \/ Cardinality(OfEndpoint(Since(tests, Hour), c)) >= EndpointPerHour
  \/ Cardinality(OfStore(Since(tests, Hour), c)) >= StorePerHour
  \/ Cardinality(OfRequester(Since(tests, Hour), c)) >= RequesterPerHour
  \/ Cardinality(Since(tests, Hour)) >= GlobalPerHour
  \/ Cardinality(OfEndpoint(Pending(tests), c)) >= EndpointPending
  \/ Cardinality(OfStore(Pending(tests), c)) >= StorePending
  \/ Cardinality(Pending(tests)) >= GlobalPending

(* The transaction that holds the lock.                                    *)
Admitting == {c \in Call : call[c].phase \in {"locked", "new", "counted", "inserted"}}

Go(c, next) == call' = [call EXCEPT ![c] = next]
To(c, phase) == Go(c, [call[c] EXCEPT !.phase = phase])

Answer(c, code, id) ==
  answers' = answers \cup {[call |-> c, code |-> code, id |-> id]}

(* The answer is given and the transaction ends without a row.             *)
Refuse(c, code) == Answer(c, code, {}) /\ To(c, "done")

-----------------------------------------------------------------------------
(* The handler *)

(* BeginTx: from here NOW() would stand still.                             *)
Begin(c) ==
  /\ c \in plan /\ call[c] = Quiet
  /\ Go(c, [phase |-> "begun", row |-> {}])
  /\ UNCHANGED <<plan, tests, enabled, answers, now, failures>>

(* Mutant: no lock.                                                        *)
LockNothing(c) ==
  /\ call[c].phase = "begun"
  /\ To(c, "locked")
  /\ UNCHANGED <<plan, tests, enabled, answers, now, failures>>

(* pg_advisory_xact_lock                                                   *)
Lock(c) ==
  /\ call[c].phase = "begun"
  /\ Admitting = {}
  /\ To(c, "locked")
  /\ UNCHANGED <<plan, tests, enabled, answers, now, failures>>

RefuseDisabled(c) ==
  /\ call[c].phase = "locked"
  /\ EndpointOf[c] \notin enabled
  /\ Refuse(c, 409)
  /\ UNCHANGED <<plan, tests, enabled, now, failures>>

(* Mutant: the limits are counted before the dedupe key is looked up.      *)
LookUpAfterLimits(c) ==
  /\ call[c].phase = "locked"
  /\ EndpointOf[c] \in enabled
  /\ IF Limited(c) THEN Refuse(c, 429)
     ELSE IF Known(c) = {} THEN To(c, "new") /\ UNCHANGED answers
     ELSE Answer(c, 202, {d.id : d \in Known(c)}) /\ To(c, "done")
  /\ UNCHANGED <<plan, tests, enabled, now, failures>>

(* The endpoint, then the delivery of an earlier, equal request.           *)
LookUp(c) ==
  /\ call[c].phase = "locked"
  /\ EndpointOf[c] \in enabled
  /\ IF Known(c) = {} THEN To(c, "new") /\ UNCHANGED answers
     ELSE Answer(c, 202, {d.id : d \in Known(c)}) /\ To(c, "done")
  /\ UNCHANGED <<plan, tests, enabled, now, failures>>

Count(c) ==
  /\ call[c].phase = "new"
  /\ IF Limited(c) THEN Refuse(c, 429) ELSE To(c, "counted") /\ UNCHANGED answers
  /\ UNCHANGED <<plan, tests, enabled, now, failures>>

Insert(c) ==
  /\ call[c].phase = "counted"
  /\ Go(c, [call[c] EXCEPT !.phase = "inserted",
       !.row = {[id |-> c, key |-> DedupeKey(c), endpoint |-> EndpointOf[c], requester |-> RequesterOf[c],
                 createdAt |-> now, pending |-> TRUE]}])
  /\ UNCHANGED <<plan, tests, enabled, answers, now, failures>>

Commit(c) ==
  /\ call[c].phase = "inserted"
  /\ tests' = tests \cup call[c].row
  /\ Answer(c, 202, {c})
  /\ To(c, "done")
  /\ UNCHANGED <<plan, enabled, now, failures>>

(* A database error or the end of the process: rolled back and unlocked.   *)
Fail(c) ==
  /\ call[c].phase \notin {"quiet", "done"}
  /\ failures < MaxFaults
  /\ failures' = failures + 1
  /\ Refuse(c, 500)
  /\ UNCHANGED <<plan, tests, enabled, now>>

-----------------------------------------------------------------------------
(* What goes on outside the lock *)

(* The worker ends a delivery: SENT or FAILED.                             *)
Settle ==
  /\ \E d \in Pending(tests) : tests' = (tests \ {d}) \cup {[d EXCEPT !.pending = FALSE]}
  /\ UNCHANGED <<plan, call, enabled, answers, now, failures>>

Disable ==
  /\ \E e \in enabled \cap Switched : enabled' = enabled \ {e}
  /\ UNCHANGED <<plan, tests, call, answers, now, failures>>

Tick ==
  /\ now < MaxTime
  /\ now' = now + 1
  /\ UNCHANGED <<plan, tests, call, enabled, answers, failures>>

CallStep(c) ==
  \/ Lock(c) \/ RefuseDisabled(c) \/ LookUp(c) \/ Count(c) \/ Insert(c) \/ Commit(c)

Progress == \E c \in Call : CallStep(c)

Next ==
  \/ \E c \in Call : Begin(c) \/ CallStep(c) \/ Fail(c)
  \/ Settle \/ Disable \/ Tick

Spec == Init /\ [][Next]_vars

\* Statements end; nobody has to call, to switch or to fail.
FairSpec == Spec /\ WF_vars(Progress)

-----------------------------------------------------------------------------
(* Properties *)

\* The variables have their types; answers are 202, 409, 429 or 500
\* (notifications.go 428-482).
TypeOK ==
  /\ \A d \in tests : d.id \in Call /\ d.endpoint \in Endpoint
                      /\ d.createdAt \in 0..MaxTime /\ d.pending \in BOOLEAN
  /\ \A c \in Call : call[c].phase \in {"quiet", "begun", "locked", "new", "counted", "inserted", "done"}
  /\ enabled \subseteq Endpoint /\ now \in 0..MaxTime /\ failures \in 0..MaxFaults
  /\ \A x \in answers : x.call \in Call /\ x.code \in {202, 409, 429, 500} /\ x.id \subseteq Call

Within(rows, d, window) ==
  {x \in rows : d.createdAt - window < x.createdAt /\ x.createdAt <= d.createdAt}

\* Whatever requests, instances, waits for the lock and ticks cross, no
\* window of a minute or an hour ever holds more admitted tests than its
\* limits, by endpoint, store, requester and in all, and no more tests are
\* pending than allowed.
QuotasHold ==
  /\ \A d \in tests :
       LET hour == Within(tests, d, Hour)
       IN  /\ Cardinality({x \in Within(tests, d, Minute) : x.endpoint = d.endpoint}) <= EndpointPerMinute
           /\ Cardinality({x \in hour : x.endpoint = d.endpoint}) <= EndpointPerHour
           /\ Cardinality({x \in hour : StoreOf[x.endpoint] = StoreOf[d.endpoint]}) <= StorePerHour
           /\ Cardinality({x \in hour : x.requester = d.requester}) <= RequesterPerHour
           /\ Cardinality(hour) <= GlobalPerHour
  /\ \A c \in Call : /\ Cardinality(OfEndpoint(Pending(tests), c)) <= EndpointPending
                     /\ Cardinality(OfStore(Pending(tests), c)) <= StorePending
  /\ Cardinality(Pending(tests)) <= GlobalPending

SameRequest(b, c) == EndpointOf[b] = EndpointOf[c] /\ RequestOf[b] = RequestOf[c]

\* However often and concurrently an owner sends one requestId for an
\* endpoint, the accepted answers name one and the same stored test, of that
\* endpoint.
RequestIsIdempotent ==
  \A x \in answers : x.code = 202 =>
    /\ \E d \in tests : x.id = {d.id} /\ d.endpoint = EndpointOf[x.call]
    /\ \A y \in answers : y.code = 202 /\ SameRequest(x.call, y.call) => y.id = x.id

\* A repeated request uses no unit of a quota: it is never refused for a
\* limit, not even for the one its first sending has used up.
RepeatIsNotLimited ==
  [][\A x \in answers' \ answers : x.code = 429 =>
       \A d \in tests : ~SameRequest(d.id, x.call)]_vars

\* One request is one test, however often it is sent (outbox.go 195-219).
OneRequestIsOneTest == []RequestIsIdempotent /\ RepeatIsNotLimited

\* Nobody waits for the lock for ever, whoever fails while holding it: time
\* and again every request that came has its answer.
CallIsAnswered == []<>(\A c \in Call : call[c].phase \in {"quiet", "done"})
=============================================================================
