# Formal model of the Liquor-store security API

TLA+ specifications of the program under `src/`, model-checked with TLC and,
for the results listed below, proved with TLAPS. Several API instances,
browsers, gateways, provider callbacks, crashes and clocks share the rows of
one database; the models are about what can go wrong between them.

All paths below are relative to the repository (`src/` is its root);
`notifications/`, `server/`, `migrations/` and `config/` stand for
`src/apps/api-go/internal/...`. `PROJECT.json` lists every component, the
source lines each definition translates, and every hazard at its line.

## The system

A Go API (`apps/api-go`) with PostgreSQL, and a React client (`apps/web`). AI
cameras post alerts; the API stores them, enqueues notifications to the store's
owner and lets store members decide about the alerts.

| Part | State | Operations | Meets | Module |
|---|---|---|---|---|
| Alert ingestion `server/ai_alerts.go` | `alerts`, `alert_evidence` | ingest, replay of a repeated `sourceEventId` | outbox (same transaction) | AlertIngest |
| Outbox `notifications/outbox.go` | `notification_deliveries` | `EnqueueAlertTx` (rules, cooldown, dedupe, routes), `EnqueueTestTx` (quotas) | ingestion, configuration, worker | AlertIngest, TestAdmission, DeliveryTable |
| Configuration API `server/notifications.go` | endpoints, rules, rule channels | CRUD by the owner, TEST sends | outbox | NotificationConfig |
| Worker `notifications/worker.go` | deliveries, `notification_attempts`; per process: claimed items | recover, clean up links, claim, process, finish | senders, links, other instances | DeliveryWorker, ProviderSend, ReviewLinks |
| Senders `notifications/*_sender.go` | none | one HTTP call with a timeout, classified | worker | ProviderSend |
| WhatsApp webhook `notifications/whatsapp_webhook.go` | `providerStatus`, `notification_provider_events` | apply receipts | worker, through the rows | WhatsAppReceipts |
| Decisions `server/alerts.go` | `alerts.status`, `alert_status_history` | acknowledge, dismiss, resolve | membership | StoreAccess |
| Membership `server/stores.go` | `stores`, `store_memberships` | create stores; add, change, remove members | every handler (`requireRole`) | StoreAccess |
| Sessions `server/auth.go` | `users`, `refresh_sessions` | register, login, refresh, logout | browser, limiter | Registration, AuthSessions |
| Browser client `apps/web/src/lib/api.ts`, `auth/AuthProvider.tsx` | cookie jar; per tab: access token, refresh under way | queries, retry after 401, start of a page | sessions | BrowserSession |
| Limiter and client address `server/rate_limit.go` | in-memory table of windows | `allow`, `clientAddress` | sessions, ingestion | RateLimiter, ClientAddress |
| Review links `notifications/secure_link.go` | `notification_video_links` | create, serve, clean up | worker, public link | ReviewLinks |
| Lists `server/alerts.go`, `server/notification_runtime.go` | none (cursor with the reader) | pages of alerts and of deliveries | ingestion, worker, decisions | ListPaging |
| Migrations `migrations/migrate.go` | the schema, `go_schema_migrations` | apply | start-up | Migrations |
| Cameras `server/cameras.go` | `cameras`, `camera_zones` | CRUD | ingestion | (`DisableCamera` of AlertIngest) |

## Modules

```
FallbackChain   <--refines--   NotificationDelivery  =  DeliveryWorker + WhatsAppReceipts
                                                         on DeliveryTable
AlertIngest     =  NotificationConfig + ingestion and outbox transactions

TokenRotation   <--refines--   BrowserSession  =  AuthSessions + tabs of a browser

Services        =  StoreAccess + TestAdmission + ListPaging + ReviewLinks (twice) + Migrations
                   + Registration + RateLimiter + ClientAddress + ProviderSend

MCNotificationDelivery  MCAlertIngest  MCAccounts  MCServices  MCListPaging   instances for TLC

NotificationDelivery_proofs  <--  DeliveryRecords_proofs                      theorems
AlertIngest_proofs  BrowserSession_proofs
StoreAccess_proofs  TestAdmission_proofs  ReviewLinks_proofs  <--  Services_proofs
```

In every module a statement of PostgreSQL, or a run of statements between which
nothing waits, is one action; a transaction that waits for another's row lock,
unique key or advisory lock is an action that is not enabled. What a handler
read in one statement and uses in a later one is kept in its record until then.
What refuses a request without changing anything (validation of bodies, 404s)
is left out unless an answer is part of a property. Names with "Mutant:" in
their comment are plausible mistakes next to the definition they would change;
the model never uses them, and `PROJECT.json` says which property each breaks.

### Delivery

**DeliveryTable** keeps one function per column that a statement tests or sets:
`status`, `attemptCount`, `providerMessageId`, and the set `attempts` of rows of
`notification_attempts`. Timestamps are kept as far as a guard can tell them
apart: `due[d]` is `availableAt <= NOW()`, `lease[d]` is `none`, `running` or
`expired` for `lockedUntil`. Time is two actions, `BecomesDue` and
`LeaseExpires`, free to happen at any moment. `status = "ABSENT"` is a row not
inserted yet. A chain is one (`alertId`, `ruleId`) pair; a TEST delivery is a
chain of one route. `EnqueueAlert` is `EnqueueAlertTx` for one rule with the
routes it loaded; `Deduplicated` is the set of routes whose dedupe key is taken.

**DeliveryWorker** has one action per transaction of `worker.go`:

| Action | Code |
|---|---|
| `ScanExpired`, `SkipRecovery`, `RecoverLease`, `EndRecovery` | `recoverExpiredLeases`: the scan outside a transaction (`snapshot`, with the attempt number it read), then one transaction a row |
| `Claim`, `ClaimNothing`, `LoseClaim` | `claim`; `SKIP LOCKED` makes every batch of claimable rows possible |
| `Send` | `process` up to the sender's answer |
| `FinishSuccess`, `FinishRetry`, `FinishFailure`, `RollBackFinish`, `LoseFinish` | `finishSuccess`, `finishFailure`, with `activateFallback` |
| `EndCycle`, `Abandon` | `workers.Wait()`; crash, cancelled context or an error that ends `RunOnce` |

A goroutine is a record in `inflight[w]` with the delivery, the attempt number
it claimed and how far it got. `accepted` remembers what the provider took: a
transient error may hide an acceptance. A restarted process is the same worker
with an empty memory.

**WhatsAppReceipts** is `ApplyWhatsAppStatusEvents`, one event a step. The
history variable `unmatched` records failures that were answered 200 without a
row to apply to.

**NotificationDelivery** composes them. Meta reports only about messages it
accepted (`Reportable`), but may do so before the worker committed the id.

**FallbackChain** forgets claims, leases, retries and attempts. A route is
absent, standby, live, sent, failed or stood down; the refinement mapping is
`RouteOf`.

**ProviderSend** is the same worker with durations and without the other routes:
one delivery, two instances, and the lease, the deadline of a request, the
retry delay and the provider's Retry-After as time that is left. A recovery is
again two steps, `ScanLease` outside a transaction and `RecoverLease` with the
attempt number of the scan, so a row can be stranded here too. The lease may be
any, longer or shorter than the timeouts, and nothing bounds what a claim does
before its request leaves (`CreateReviewLink` has no deadline); `inTime`
remembers of a request whether its timeout fitted into its lease. `Answers` are
the HTTP answers a provider may give when it took the message, is busy, is down
or refuses; `TelegramSend` and `WhatsAppSend` are the senders' classification of
them.

### Alerts and configuration

**NotificationConfig**: endpoints, rules and channels are functions and sets of
rows; a PATCH of an endpoint or rule is two actions (`ReadEndpoint`,
`WriteEndpoint`) because the code reads, merges, validates and writes all
columns back. A row has the fields that somebody tells apart: `config` is
`complete` when the enable gate accepts it, `credentialRef` is `assigned` when
the deployment binds it to the store.

**AlertIngest**: `tx[r]` is the transaction of a gateway request. Its phases
follow `ingestAIAlert`: `Begin` (camera), `StoreAlert` or `Replay`,
`StoreEvidence` for each clip in the order of the request (one INSERT, one
step), then for each matching rule `OpenRule` (cooldown lock and test,
`loadRoutes`) and `InsertRoute` for each route, `Commit`. `inserted` holds rows
of open transactions. `WaitsFor(r)` are the transactions that `r`'s next
statement waits for: the same `sourceEventId`, storage key, dedupe key or
cooldown fingerprint. `AbortVictim` is PostgreSQL's deadlock detection.

**TestAdmission**: `EnqueueTestTx` with its global advisory lock; the worker
(`Settle`), the owner's switch (`Disable`) and the clock do not take it. Rows
are dated by `statement_timestamp()`, so the clock may pass a request that waits
for the lock and the windows are counted from the time it got it.

**ListPaging**: a reader follows `nextCursor` while rows are added and change.

### Accounts and stores

**AuthSessions** / **BrowserSession**: the server's handlers and the tabs of a
browser that share a cookie jar. A request reads the jar when it is sent; its
answer changes the jar when it arrives. `PromiseOf` is the single-flight refresh
of a tab. **TokenRotation** is what refresh tokens promise.

**Registration**: one transaction for user, store and membership, with the
waits for unique keys, then the session.

**StoreAccess**: the requests of `stores.go` and the decision of `alerts.go`.
`Authorize` is `requireRole`; a decision and a creation re-read membership and
account `FOR SHARE` and keep both until they commit, whereas `ChangeMember`
writes one statement after `CheckMember` (`memberCanChange`) looked.

**RateLimiter**, **ClientAddress**: the fixed-window table under its mutex (the
clock is read before the mutex), and the walk through `X-Forwarded-For`.

### Operation

**Services** puts the components side by side that share no state with the
delivery or with each other: one is in `focus` and takes its steps, the others
stay. ReviewLinks is there twice, for links that are used and for a backlog.

**ReviewLinks**: the expiry is written by an instance's clock, tested by the
database's, and the row deleted by another instance's. **Migrations**: runners
go through the versions without a lock between them.

## Runs

| Run | Instance | Shows |
|---|---|---|
| `telegram` | 2 workers, 3 routes, 1 fault | types; leases match states; a claim ends only by its holder or recovery; an accepted answer is recorded while its claim is the row's; no unused route |
| `receipts` | 2 workers, 3 routes, first WhatsApp, 1 fault | one route at a time; waiting routes wait for a live one; success records; receipts agree with routes and never undo a delivered one; refinement of `FallbackChain` |
| `settle` | 1 worker, batches of 2, two chains, 1 fault, fair | every claim audited, every waiting row claimable, every chain ends |
| `alerts` | 7 scenarios (below), fair | one notification per incident and route; repeated events get one answer; whole chains; the cooldown suppresses what it should and silences no incident; deliveries keep their route; an enabled endpoint can be sent to; with one configuration no deadlock but over clips that requests name in different orders, and requests end |
| `accounts` | 3 plans, fair | refinement of `TokenRotation`; a browser keeps its session and no query fails while nobody logs out; calls end |
| `services` | Services: 10 instances of 9 components, one in focus at a time, fair | StoreAccess: `HistoryIsChain`, `RolesHold`. TestAdmission: `QuotasHold`, `OneRequestIsOneTest`. ListPaging: `PagesAreSound`. ReviewLinks: `LinksLastAndGo`. Migrations: `SchemaIsSound`. Registration: `AllOrNothing`. RateLimiter: `AtMostTwiceTheLimit`. ClientAddress: `KnownByTheNearestUntrusted`. ProviderSend: `OneRequestAtATime`, `AnswersAreHeeded`. All: `TypeOK`, `EverythingEnds` |

Some of these are conjunctions of properties that are stated one by one in their
modules: `CooldownIsExact` (`CooldownHolds`, `EveryRuleNotifies`), `NobodyIsStuck`
(`NoDeadlock`, `RequestEnds`), `StaysLoggedIn` (`KeepsSession`, `NoQueryFails`),
`RolesHold` (`StoresKeepAnOwner`, `AuthorKeepsRole`), `OneRequestIsOneTest`
(`RequestIsIdempotent`, `RepeatIsNotLimited`), `PagesAreSound` (`NoRowTwice`,
`WalkIsComplete`, `OnlyTiesAreLost`), `LinksLastAndGo` (`LinkLasts`,
`BacklogIsWorkedOff`), `SchemaIsSound` (`SchemaIsRecorded`, `AppliedInOrder`,
`DatabaseIsCurrent`), `AllOrNothing` (`AccountIsWhole`, `ConflictIsReal`),
`AnswersAreHeeded` (`EndIsDeserved`, `WaitsAsAsked`), and `EverythingEnds` (the
liveness properties of the components in `services`, and
`StrandedByStaleScan` of ProviderSend: `DeliveryEnds` there excepts a row that
is stranded as in the run `stranded`, and nothing but a stale scan strands one).

A run that asks several questions of one module chooses the question in `Init`:
`scenario` (AlertIngest: two observations of one incident with a fault; one
event repeated, from two stores, with a shared storage key and a camera that is
disabled; two events within a cooldown while a route is switched; two
incidents within a cooldown, one of them seen twice; three events that share
clips and name them in different orders; routes re-ordered, added and deleted
while alerts come; edits that cross), `plan`
(BrowserSession, StoreAccess, TestAdmission: which requests may come), `focus`
(Services: which component moves). The reachable states are the sum, not the
product, of those of the alternatives, and every behaviour is one of the
component under its own `Spec`.

Bounds, and why they suffice:

- Deliveries have two attempts (the code: five): one that is retried and one
  that is the last; three in ProviderSend, so that the delay grows and meets
  its cap. Three routes are the fewest in which a hand-over can skip one; two
  workers the fewest in which a claim can be lost to another.
- `MaxFaults` bounds crashes, lost transactions and errors together, to one,
  two in Registration. Each race below needs one.
- Three gateway requests: two of one event and one of another observation;
  two rules of two routes, so that keys and locks can be taken in two orders.
  Three events with two or three of four clips each, so that two of them, or
  all three, wait in a circle.
- Quotas, windows, page sizes, the limiter's table, the batch of the clean-up
  and delays are scaled down to one, two or three with their order kept, so
  that limits are met. The exceptions are the hourly quotas of an endpoint, of
  a requester and of all TEST deliveries, which this instance would not exceed
  unchecked; the theorem `QuotasHoldAlways` covers them. Time is bounded by two
  windows, in ReviewLinks by the intervals that a backlog of two needs.
  ProviderSend has no bound on time.
- A tick of ProviderSend is five seconds: timeouts of 2 and 3 (10 s, 15 s) and a
  lease of 3, so that requests leave with their timeout inside the lease and
  without.
- Migrations has three versions and three runners; a rate-limited route has a
  limit of 1 or 2 and windows of 4 and 5 with a wait for the mutex of 1.
- Workers are symmetric where safety alone is checked.

Deadlock is not checked: nobody has to send an alert, a request or a receipt,
so the system may stop when what was begun has ended. That what was begun does
end is a liveness property of each module instead (`ChainsSettle`,
`NobodyIsStuck`, `CallsEnd`, `EverythingEnds`).

**Fairness.** In NotificationDelivery (`FairSpec`) a worker that can step does:
`Run` loops on a ticker until its process ends, a process that ends is
restarted, every send has a timeout, and faults are bounded; clocks advance.
Fairness is on all steps of a worker together, so it may choose other rows
first; it comes to each because every claim uses up an attempt. Of the provider
nothing is assumed: a run in which every answer is a failure is fair. In the
other modules a statement of the database ends, a handler goes on to its next
one, and PostgreSQL breaks deadlocks: one `WF` over these steps (`Progress`).
That is no more than fairness for each handler there, since each of these steps
uses up a part of a bounded number of statements and none can be repeated for
ever in another's place. Nobody has to send, configure, tick or fail. In
ProviderSend the clock and the worker are fair as well; each step uses up an
attempt, an action of it or a part of the time that is left. Liveness of the
form `[]<>(all answered)` says the same as a leads-to per request, because
requests come a bounded number of times.

### Disagreements with the documentation

These runs end in a counterexample (quotes in `PROJECT.json`, `findings`):

| Run | What happens |
|---|---|
| `silent_chain` | WhatsApp is sent, routes 2 and 3 are cancelled; the FAILED receipt reactivates route 2; it fails, and `activateFallback` looks for `WAITING_FALLBACK` only: route 3 is never tried |
| `stranded` | worker A scans an expired lease; B recovers and re-claims it, and that lease expires; A recovers it with the old attempt count and schedules a retry that no claim can take |
| `early_receipt` | a FAILED receipt finds no row, is answered 200 and never repeated; the route is committed as SENT |
| `dedup` | the first route is skipped by its dedupe key, the rest wait for it for ever |
| `id_clash` | two Telegram chats give the same `message_id`; the unique index refuses to record the second success |
| `lost_alerts` | more alerts with one `detectedAt` than fit on a page: the next page begins after all of them |

The passing runs state the same properties where they do hold, so that they
fail if the code gets worse: `NoRouteLeftUnused` without receipts,
`EveryClaimIsAudited` and `RetryHasAttemptLeft` with a single instance,
`AcceptedIsRecorded` with ids that never repeat, `WaitsBehindLiveRoute` without
deduplicated routes, `OnlyTiesAreLost` for the pages of alerts.

`AcceptedIsRecorded` is about answers that come back while their claim is still
the row's. An acceptance can also be lost without any fault or repeated id:
when the lease runs out before `finishSuccess` and another instance has
recovered it, no row matches (`worker.go:243`), the transaction rolls back and
the message is sent again. `receipts` and `telegram` reach that;
`SuccessIsOfLastClaim` says what is then on record.

### Observations

Behaviours the models reach that no run isolates. All but the first and the
last are hazards in `PROJECT.json`, without a property where the code promises
none:

- *Stale recovery* (`worker.go:347`): the race of `stranded` one attempt
  earlier leaves the newer claim without an attempt row.
- *Short lease* (`config.go:137`): the configuration accepts every lease above
  10 s, `notification-design.md:122` wants it longer than the worst-case
  provider timeout, which is 15 s for WhatsApp; and even a longer one can be
  used up before the request leaves. Then two instances send one delivery at
  once, which ProviderSend reaches. `OneRequestAtATime` says that there is no
  other way to it.
- *Crossed clips* (`ai_alerts.go:164`): two events that name two common clips in
  opposite orders deadlock. PostgreSQL aborts one, which is answered 500; when
  the gateway repeats it, it is answered 409, as every event is that names the
  clip of another. `NoDeadlock` says that there is no other deadlock while the
  configuration stands.
- *Lost PATCH* (`notifications.go:676`): two PATCHes of one rule that name
  different fields; the later one writes back the columns it did not name.
- *Refused repetition* (`ai_alerts.go:111`): after its camera was disabled, an
  event that was stored is answered 404 when it is repeated.
- *Logout and refresh* (`auth.go:187`): a logout revokes the token it was sent
  with; a refresh under way has replaced that one.
- *Missing link* (`worker.go:206`): when `CreateReviewLink` fails, also for a
  passing reason, Telegram is sent without the link but the WhatsApp route
  fails for good (documented in `notification-design.md:230`); `EndIsDeserved`
  counts it among the reasons for an early end.

## Proofs

Every safety property that a passing run checks, invariants, action properties
and the two refinements, is also a theorem: it holds for every value of the
constants that meets their assumptions, for any number of workers, requests,
tabs, rows and faults. What is left to TLC is liveness, and
`StrandedByStaleScan` (below).

### The delivery: NotificationDelivery_proofs, DeliveryRecords_proofs

- `TypeCorrect`. `TypeOK` is not inductive: that the claim of an expired lease
  has a number in `1..MaxAttempts` needs that a `PROCESSING` row was claimed at
  least once (`ClaimedOnce`). `TypeInv` adds it.
- `OneRouteAtATimeAlways`. Every step is first reduced to what it does to
  `status` (`StatusStep`: a start, a move inside live, a success, a hand-over by
  a worker, a hand-over by a receipt), then each of those is shown to keep
  `ChainInv`. The strengthening is `WaitingOrCancelled`: a chain never holds a
  waiting and a cancelled route together. Without it a receipt that takes over a
  cancelled route could leave a waiting one before it, which a later failure
  would activate a second time.
- `PromiseKept`: the refinement of `FallbackChain`. The same `StatusStep` is
  mapped, case by case, to a step of the abstract chain or to a stutter.
- `WaitsBehindLiveRouteAlways`, if no first route is skipped for its dedupe key
  (`PrimariesInserted`; `dedup` shows the contrary), and
  `NoRouteLeftUnusedAlways`, if at most one route stands behind a WhatsApp one
  (`OneRouteAfterWhatsApp`; `silent_chain` shows the contrary).
- `LeaseIffProcessingAlways`, `SuccessIsOfLastClaimAlways`,
  `FailedReceiptFailsRouteAlways` from `RecordInv`, which relates the columns of
  a row to the attempts, the acceptances and the receipts on record;
  `ClaimIsExclusiveAlways` and `DeliveredStaysSentAlways` are action properties
  from the same invariant.
- `AcceptedIsRecordedAlways`, if no id is given twice (`IdsDiffer`; `id_clash`
  shows the contrary). It needs that goroutines belong to the batch their worker
  waits for and that a row on record has the id of one of its own attempts
  (`BatchInv`), so the id of a claim that is being processed is free.
- `EveryClaimIsAuditedByOne`, `RetryHasAttemptLeftWithOne`, for a single
  instance (`OneInstance`; `stranded` shows what two can do). `AuditInv` needs
  that the scan of a recovery is still current when it is used.

### Alerts and configuration: AlertIngest_proofs

- `TypesHold`, `EnabledIsSendableAlways`, `DeliveriesKeepTheirRouteAlways`,
  `AnswersAgreeAlways`, `IncidentNotifiedOnceAlways` from one invariant `IInv`:
  what a PATCH holds passed the gate, whatever was written since
  (`HeldIsSendable`); rows refer to stored rows (`ForeignKeys`); events and
  dedupe keys are held once over committed and open transactions (`EventsOnce`,
  `KeysOnce`); a route that was loaded is still to be inserted or has its key
  (`LoadedHaveKeys`).
- `CooldownIsExactAlways`. `CooldownHolds` is about rules that nobody PATCHes.
  Then two open transactions never hold the lock of one fingerprint
  (`LocksExclude`), and what is committed was old enough when the lock was taken
  (`CooldownInv`). `EveryRuleNotifies` is about a standing configuration: a rule
  that an observation had suppressed, or whose routes it found taken, has
  notified for the same incident before (`StandingInv`, `IncidentNotifiedOnce`),
  if no incident has the id of an alert.
- `ChainIsWholeAlways`, while the configuration stands (`StandingInv`). Routes
  are inserted from the first to the last, so whoever has the key of one route
  of a rule has, or waits for, the keys of all: a transaction owns all that it
  has passed, or another alert of the incident has them all.
- `NoDeadlockAlways`, the safety half of `NobodyIsStuck`. What a transaction has
  locked or inserted comes before all it has still to open and to insert, in the
  order of rules and priorities (`OrderInv`); of evidence that is so only if
  all requests name their clips in one order (`KeysInOrder`, `KeysAreAhead`). So
  who waits is behind the one that he waits for (`Behind`, `WaitsForOneAhead`),
  and of the transactions that are open, finitely many at any time, one is
  behind nobody. Hence the victim of a deadlock waits for a clip, and the
  requests name them in different orders.

### Accounts: BrowserSession_proofs

- `TypesHold`, `RotatesAlways`: the refinement of `TokenRotation`. A login has at
  most one live token (`OneLive`), and a handler that has revoked one is alone
  with it until it inserts the next (`HoldersAlone`: the row lock).
- `StaysLoggedInAlways`. While nobody logs out and nothing fails, a token that is
  under way to the browser works and nobody else has it; when none is under way,
  the one in the jar works (`Kept`). That at most one refresh is under way in a
  tab makes the queries of a single tab succeed (`Solo`).

### The other components: Services_proofs and the modules it instantiates

A step of Services is, for each component, a step of it or none (`StepOfOne`).
Three components have a module of proofs about them alone, which Services_proofs
instantiates (`StoreProofs`, `TestProofs`, `LinkProofs`, `BacklogProofs`) and
whose theorems it carries over.

- *StoreAccess*, `HistoryIsChainAlways`, `RolesHoldAlways`: a decision is written
  over what stands, because its row is locked (`WritesOverLatest`); what was read
  `FOR SHARE` still holds (`SharedHolds`); the member that `memberCanChange`
  looked at has not become an owner before it is changed (`CheckedIsNoOwner`).
- *TestAdmission*, `QuotasHoldAlways`, `OneRequestIsOneTestAlways`: one request at
  a time is past the advisory lock (`OneHasLock`), rows only leave a window, so
  the count that was read is an upper bound.
- *ListPaging*, `PagesAreSoundAlways`: the cursor divides the rows
  (`CursorDivides`): what was listed is not below it, what matched all the time
  and was not listed is below it, but for alerts of one time.
- *ReviewLinks*, `LinkLastsAlways`, `BacklogIsWorkedOffAlways`, together
  `LinksLastAndGoAlways`: when an instance is due again later than the deadline
  of its nth batch, at most `MaxLinks - n * Batch` old links are left
  (`BacklogInv`).
- *Migrations*, `SchemaIsSoundAlways`: a runner has passed only what is recorded
  (`GoesInOrder`), has its version to itself at the commit (`CommitsAlone`), and
  while nothing failed some runner is ahead of all that is recorded
  (`SomebodyLeads`).
- *Registration*, `AllOrNothingAlways`: emails and codes are held once
  (`KeysTakenOnce`).
- *RateLimiter*, `AtMostTwiceTheLimitAlways`: the admissions of a key divide into
  those of its last window and those of the one before (`Windows`). Windows of a
  key begin at least its length less one wait for the mutex apart, also when the
  counter was swept in between; those of the window before the last two are out
  of `Span`.
- *ClientAddress*, `KnownByTheNearestUntrustedAlways`: the header ends with the
  path of the request (`EndsWithPath`), whatever the client put before.
- *ProviderSend*, `OneRequestAtATimeAlways`, `AnswersAreHeededAlways`, for any
  lease. While a request that left in time is on its way, its claim is the last
  one and its lease lasts as long as the request can; or both end in this very
  instant, the row has been recovered and its retry is a delay away
  (`LeaseLasts`, `Covered`). What the provider asked for is part of the delay
  that is still to be waited for, and the claim that heard it has ended
  (`AskedIsScheduled`).
- `TypesHold`, for all of them.

### Assumptions

The assumptions are named and TLC evaluates each for its instance: as an
`ASSUME` of the module, or, for what Services instantiates, of Services
(`StoresAssumption` to `SendsAssumption`). They say

- the sorts of the constants, that limits are natural numbers, and those of
  batches, pages and attempts positive;
- what the schema enforces: priorities of a rule's channels differ
  (`PriorityAssumption`), a rule has one id that is not used again
  (`RowAssumption`);
- what handlers refuse: other kinds of requests, other roles
  (`RequestAssumption`); a store starts with an owner;
- what the configuration gives: backoffs are positive and their caps in order
  (`TimingAssumption`, which says nothing of the lease), links
  outlast twice the clock skew and their retention the skew (`LinkAssumption`),
  three waits for the limiter's mutex are no longer than a window
  (`LimiterAssumption`); trusted proxies are proxies and no clients
  (`AddressAssumption`);
- that a behaviour's bounds leave room: tokens for all that the plan may ask for,
  finitely many tabs and queries (`HandlerAssumption`).

Hypotheses of single theorems are `PrimariesInserted`, `OneRouteAfterWhatsApp`,
`OneInstance` and `IdsDiffer`, of which the runs named above show that they are
needed, and `IncidentIsNoAlert` of `IncidentNotifiedOnceAlways` and
`CooldownIsExactAlways`: no gateway gives the id of an alert for an incident.
Both kinds of ids become the first part of a dedupe key (`outbox.go`), so a
gateway that did would keep an alert from being notified. Alerts get random
UUIDs only when they are stored.

What attempts at these proofs changed in the models: that hypothesis was not
stated; a deleted rule's id could not be told from one that was never used;
alternatives of a `CASE` in ProviderSend overlapped; and the limiter's history
counted admissions by a fold, where a set of them can be counted.

### Only model-checked

`ChainsSettle`, `CallsEnd`, `EverythingEnds` and `RequestEnds` of `NobodyIsStuck`
are liveness under fairness, which is out of the prover's reach.
`StrandedByStaleScan`, a conjunct of `EverythingEnds` that says which rows its
liveness leaves out, is checked with it.

## Not modelled

- Cameras and zones, apart from the enabled camera that an ingest needs: every
  operation is one statement on one row.
- Texts: payloads, templates, error messages, masking and redaction; password
  hashing, JWTs and signatures; validation of bodies.
- The order in which a claim picks rows for a batch (alerts before tests).
- Proxying of evidence and playback, static files, Swagger: I/O without state.
- Start-up and shutdown, apart from the death of a process; operational tools
  (`cmd/configure-notifications`, `cmd/seed`, scripts): one-shot, nothing runs
  beside them.
- Web pages: they show what the API answered.
- The number of bytes of `X-Forwarded-For` (4096): it has the same answer as too
  many parts, which ClientAddress counts.
- The order in which statements of one migration lock tables. Two runners may
  each wait for the other there (`20260827000000`, `alert_evidence`); PostgreSQL
  aborts one, which is what becomes of the second runner in Migrations anyway.
- Rows are never deleted where the program does not delete them; user accounts
  are only suspended, by hands outside the program (`Suspend`).

## Plan

1. Variants: a natural number that every step of a request, worker or runner
   lowers and that nothing but a new request raises. It is the half of the
   liveness properties that an invariant can state; fairness is the other.
2. Several instances: what is left of `EveryClaimIsAudited` and
   `RetryHasAttemptLeft` when recoveries are stale, beside the counterexample of
   `stranded`.
