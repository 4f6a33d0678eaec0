------------------------------ MODULE Services ------------------------------
(***************************************************************************)
(* The components that share no state with the delivery of notifications   *)
(* or with each other.  One of them is in focus in a behaviour and takes   *)
(* its steps; the others stay in their initial state, so that the states   *)
(* of this module are those of all of them, added, not multiplied.         *)
(***************************************************************************)
EXTENDS Integers

\* What they mean is said in the module of each component.
CONSTANTS
  MaxFaults,        \* of every component but Registration
  \* StoreAccess
  User, Alert, Home, InitRole, StoreCall, StorePlans, StoreDoes, Suspendable,
  \* TestAdmission
  Endpoint, StoreOf, TestCall, TestPlans, EndpointOf, RequestOf, RequesterOf, Minute, Hour,
  EndpointPerMinute, EndpointPerHour, StorePerHour, RequesterPerHour, GlobalPerHour,
  EndpointPending, StorePending, GlobalPending, Switched, MaxTestTime,
  \* ListPaging
  Id, Time, Status, Limit, MaxChanges,
  \* ReviewLinks, twice: links that are used, and a backlog of old ones
  Instance, MaxLinks, TTL, Retention, Skew, MaxLinkTime,
  Cleaner, MaxBacklog, BacklogTTL, BacklogRetention, BacklogSkew, MaxBacklogTime,
  Interval, Retry, Batch,
  \* Migrations
  Runner, N,
  \* Registration
  Registrations, MaxRegisterFaults,
  \* RateLimiter
  Key, Maximum, Window, MaxEntries, LimitedRequest, Delay, MaxLimiterTime,
  \* ClientAddress
  Client, Proxy, Trusted, TrustProxy, Bad, MaxParts, MaxSent,
  \* ProviderSend
  Worker, MaxAttempts, Provider, RequestTimeout, LeaseDuration,
  BaseBackoff, MaxBackoff, MaxProviderRetryDelay, MaxRetryAfter, Waits

VARIABLES
  focus,
  storePlan, role, active, codes, alerts, history, storeCall, storeFailures,
  testPlan, tests, testCall, enabled, answers, now, testFailures,
  list, rows, walk, page, listed, steady, changes,
  clock, skew, links, given, due, notFound, linkFaults,
  schema, recorded, legacy, runner, runnerFaults,
  users, stores, members, sessions, request, registerFaults,
  limiterClock, entries, waiting, admitted,
  client, peer, header, hops, known,
  route, status, attemptCount, lockedUntil, availableAt, job, scan, asked, verdict, sendFaults

Stores == INSTANCE StoreAccess WITH
  plan <- storePlan, call <- storeCall, failures <- storeFailures,
  Call <- StoreCall, Plans <- StorePlans, Does <- StoreDoes

Tests == INSTANCE TestAdmission WITH
  plan <- testPlan, call <- testCall, failures <- testFailures,
  Call <- TestCall, Plans <- TestPlans, MaxTime <- MaxTestTime

Pages == INSTANCE ListPaging

Links == INSTANCE ReviewLinks WITH faults <- linkFaults, MaxTime <- MaxLinkTime

Backlog == INSTANCE ReviewLinks WITH
  faults <- linkFaults, Instance <- Cleaner, MaxLinks <- MaxBacklog, TTL <- BacklogTTL,
  Retention <- BacklogRetention, Skew <- BacklogSkew, MaxTime <- MaxBacklogTime

Schema == INSTANCE Migrations WITH faults <- runnerFaults

Accounts == INSTANCE Registration WITH
  Request <- Registrations, MaxFaults <- MaxRegisterFaults, faults <- registerFaults

Limits == INSTANCE RateLimiter WITH
  clock <- limiterClock, request <- waiting, Request <- LimitedRequest, MaxTime <- MaxLimiterTime

Address == INSTANCE ClientAddress

Sends == INSTANCE ProviderSend WITH faults <- sendFaults

ASSUME StoresAssumption == Stores!FaultAssumption /\ Stores!RequestAssumption
ASSUME TestsAssumption ==
  Tests!WindowAssumption /\ Tests!BoundAssumption /\ Tests!LimitAssumption
ASSUME PagesAssumption == Pages!PagingAssumption
ASSUME LinksAssumption == Links!LinkAssumption /\ Backlog!LinkAssumption
ASSUME SchemaAssumption == Schema!VersionAssumption /\ Runner # {}
ASSUME AccountsAssumption == MaxRegisterFaults \in Nat
ASSUME LimitsAssumption == Limits!LimiterAssumption
ASSUME AddressesAssumption ==
  Address!AddressAssumption /\ MaxParts \in Nat /\ MaxSent \in Nat
ASSUME SendsAssumption == Sends!TimingAssumption

-----------------------------------------------------------------------------
storeVars == <<storePlan, role, active, codes, alerts, history, storeCall, storeFailures>>
testVars == <<testPlan, tests, testCall, enabled, answers, now, testFailures>>
pageVars == <<list, rows, walk, page, listed, steady, changes>>
linkVars == <<clock, skew, links, given, due, notFound, linkFaults>>
schemaVars == <<schema, recorded, legacy, runner, runnerFaults>>
accountVars == <<users, stores, members, sessions, request, registerFaults>>
limitVars == <<limiterClock, entries, waiting, admitted>>
addressVars == <<client, peer, header, hops, known>>
sendVars ==
  <<route, status, attemptCount, lockedUntil, availableAt, job, scan, asked, verdict, sendFaults>>
vars ==
  <<focus, storeVars, testVars, pageVars, linkVars, schemaVars, accountVars, limitVars,
    addressVars, sendVars>>

-----------------------------------------------------------------------------
Init ==
  /\ focus \in {"stores", "tests", "pages", "links", "backlog", "schema", "accounts", "limits",
                "address", "send"}
  /\ Stores!Init /\ (focus # "stores" => storePlan = CHOOSE p \in StorePlans : TRUE)
  /\ Tests!Init /\ (focus # "tests" => testPlan = CHOOSE p \in TestPlans : TRUE)
  /\ Pages!Init /\ (focus # "pages" => list = "alerts")
  /\ IF focus = "links" THEN Links!Init
     ELSE Backlog!Init /\ (focus # "backlog" => skew = [i \in Cleaner |-> 0])
  /\ Schema!Init /\ (focus # "schema" => legacy)
  /\ Accounts!Init
  /\ Limits!Init
  /\ Address!Init /\ (focus # "address" => client = (CHOOSE c \in Client : TRUE) /\ header = << >>)
  /\ Sends!Init /\ (focus # "send" => route = [provider |-> CHOOSE p \in Provider : TRUE, sendable |-> TRUE])

StoreStep ==
  /\ focus = "stores" /\ Stores!Next
  /\ UNCHANGED <<focus, testVars, pageVars, linkVars, schemaVars, accountVars,
                 limitVars, addressVars, sendVars>>

TestStep ==
  /\ focus = "tests" /\ Tests!Next
  /\ UNCHANGED <<focus, storeVars, pageVars, linkVars, schemaVars, accountVars,
                 limitVars, addressVars, sendVars>>

PageStep ==
  /\ focus = "pages" /\ Pages!Next
  /\ UNCHANGED <<focus, storeVars, testVars, linkVars, schemaVars, accountVars,
                 limitVars, addressVars, sendVars>>

LinkStep ==
  /\ \/ focus = "links" /\ Links!Next
     \/ focus = "backlog" /\ Backlog!Next
  /\ UNCHANGED <<focus, storeVars, testVars, pageVars, schemaVars, accountVars,
                 limitVars, addressVars, sendVars>>

SchemaStep ==
  /\ focus = "schema" /\ Schema!Next
  /\ UNCHANGED <<focus, storeVars, testVars, pageVars, linkVars, accountVars,
                 limitVars, addressVars, sendVars>>

AccountStep ==
  /\ focus = "accounts" /\ Accounts!Next
  /\ UNCHANGED <<focus, storeVars, testVars, pageVars, linkVars, schemaVars,
                 limitVars, addressVars, sendVars>>

LimitStep ==
  /\ focus = "limits" /\ Limits!Next
  /\ UNCHANGED <<focus, storeVars, testVars, pageVars, linkVars, schemaVars,
                 accountVars, addressVars, sendVars>>

AddressStep ==
  /\ focus = "address" /\ Address!Next
  /\ UNCHANGED <<focus, storeVars, testVars, pageVars, linkVars, schemaVars,
                 accountVars, limitVars, sendVars>>

SendStep ==
  /\ focus = "send" /\ Sends!Next
  /\ UNCHANGED <<focus, storeVars, testVars, pageVars, linkVars, schemaVars,
                 accountVars, limitVars, addressVars>>

Next ==
  \/ StoreStep \/ TestStep \/ PageStep \/ LinkStep
  \/ SchemaStep \/ AccountStep \/ LimitStep \/ AddressStep \/ SendStep

(* The fairness of each component, while it is in focus.                   *)
Fairness ==
  /\ WF_storeVars(focus = "stores" /\ Stores!Progress)
  /\ WF_testVars(focus = "tests" /\ Tests!Progress)
  /\ WF_pageVars(focus = "pages" /\ Pages!Page)
  /\ WF_schemaVars(focus = "schema" /\ Schema!Progress)
  /\ WF_accountVars(focus = "accounts" /\ Accounts!Progress)
  /\ WF_sendVars(focus = "send" /\ Sends!Next)

Spec == Init /\ [][Next]_vars /\ Fairness

-----------------------------------------------------------------------------
(* Properties: those of the components, which hold trivially out of focus. *)

(* Every component's variables have their types; where the database has a  *)
(* constraint, it is never met: unique emails and codes, one transaction   *)
(* that commits a version, links that expire after they are made.          *)
TypeOK ==
  /\ Stores!TypeOK /\ Tests!TypeOK /\ Pages!TypeOK /\ Schema!TypeOK /\ Accounts!TypeOK
  /\ Limits!TypeOK /\ Sends!TypeOK
  /\ IF focus = "links" THEN Links!TypeOK ELSE Backlog!TypeOK

(* The decisions on an alert are one chain (alerts.go 238-297).            *)
HistoryIsChain == Stores!HistoryIsChain

(* A store has an owner whatever requests cross, and at the commit of a    *)
(* decision or a store its author still has the role that was found        *)
(* (stores.go 72-90, 269-308; alerts.go 245-254).                          *)
RolesHold == Stores!RolesHold

(* No window holds more tests than its limits (outbox.go 204-329).         *)
QuotasHold == Tests!QuotasHold

(* One requestId is one test, and its repetition is not refused for a      *)
(* limit (outbox.go 195-219).                                              *)
OneRequestIsOneTest == Tests!OneRequestIsOneTest

(* No row is on two pages, and the pages lose at most alerts of one time   *)
(* (notification_runtime.go 132-182, alerts.go 101-118).                   *)
PagesAreSound == Pages!PagesAreSound

(* A link is good for its TTL, less what the clocks differ by; expired     *)
(* ones go in batches, and an error delays them by a retry only            *)
(* (secure_link.go 90, 124; worker.go 135-158).                            *)
LinksLastAndGo ==
  /\ [][focus = "links" => Links!NotBefore]_vars
  /\ [](focus = "backlog" => Backlog!BacklogIsWorkedOff)

(* What the schema is and what is recorded agree, without gaps, and        *)
(* runners do not stop each other all (migrate.go 35-80).                  *)
SchemaIsSound == Schema!SchemaIsSound

(* A user, his store and his membership are there together; 409 is         *)
(* answered for what belongs to an account (auth.go 70-93).                *)
AllOrNothing == Accounts!AllOrNothing

(* At most twice the limit in the time of a window (rate_limit.go 28-54).  *)
AtMostTwiceTheLimit == Limits!AtMostTwiceTheLimit

(* A client is known by the nearest address that is not trusted            *)
(* (rate_limit.go 88-128).                                                 *)
KnownByTheNearestUntrusted == Address!KnownByTheNearestUntrusted

(* One request at a time for a delivery, if it left with enough of its     *)
(* lease (worker.go 165, 309; telegram_sender.go 146; whatsapp_sender.go   *)
(* 214).                                                                   *)
OneRequestAtATime == Sends!OneRequestAtATime

(* SENT says that the provider took the message, an early failure that it  *)
(* refused it, and the Retry-After of a 429 is respected                   *)
(* (telegram_sender.go 152-231, whatsapp_sender.go 222-422, worker.go 373).*)
AnswersAreHeeded == Sends!AnswersAreHeeded

(* What was begun ends: requests about stores and tests are answered,      *)
(* reading page by page ends, runners end, registrations are answered,     *)
(* and the attempts at a delivery come to an end, which is SENT or FAILED  *)
(* but for the work of a stale scan (alerts.go 238-297, outbox.go 218,     *)
(* notification_runtime.go 174-182, migrate.go 66-71, auth.go 70-86,       *)
(* worker.go 259-386).                                                     *)
EverythingEnds ==
  /\ Stores!CallIsAnswered /\ Tests!CallIsAnswered
  /\ Pages!WalkEnds
  /\ focus = "schema" => Schema!RunnersEnd
  /\ Accounts!RegisterEnds
  /\ focus = "send" => Sends!DeliveryEnds
  /\ Sends!StrandedByStaleScan
=============================================================================
