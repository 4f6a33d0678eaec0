---------------------------- MODULE AlertIngest ----------------------------
(***************************************************************************)
(* Ingestion of AI alerts (ingestAIAlert) together with the outbox         *)
(* (EnqueueAlertTx) in one transaction, for several gateway requests at    *)
(* once, while the owner changes the configuration.                        *)
(*                                                                         *)
(* PostgreSQL runs the transactions at READ COMMITTED: every statement     *)
(* sees what is committed when it starts, and waits for an open            *)
(* transaction that holds the same unique key or advisory lock.  A         *)
(* statement, or a run of statements between which nothing waits, is one   *)
(* action; waiting is an action that is not enabled; a transaction in a    *)
(* circle of waiting ones is chosen and aborted.                           *)
(***************************************************************************)
EXTENDS NotificationConfig, Sequences

CONSTANTS
  Request,       \* gateway requests; two of them may carry one event
  RuleStore,     \* the store of the rules
  NoIncident

(* normalizeAndValidateAIAlert: one to five clips, no storageKey twice.    *)
EvidenceLists ==
  {keys \in Seq(Nat) : /\ Len(keys) \in 1..5
                       /\ \A i, j \in 1..Len(keys) : keys[i] = keys[j] => i = j}

(* A scenario also says what the gateway sends, sends: Request -> record   *)
(* of event, store, incident, camera, type, severity and evidence (a       *)
(* sequence of storageKeys, which are numbers), how often, and bounds the  *)
(* faults and the clock.                                                   *)
ASSUME GatewayAssumption ==
  \A n \in DOMAIN Scenarios :
    /\ DOMAIN Scenarios[n].sends \subseteq Request
    /\ {Scenarios[n].tries, Scenarios[n].faults, Scenarios[n].time} \subseteq Nat
    /\ \A r \in DOMAIN Scenarios[n].sends : Scenarios[n].sends[r].evidence \in EvidenceLists

(* The gateway does not give the id of an alert (a UUID that the server    *)
(* makes) for an incident: both become the first part of a dedupe key.     *)
IncidentIsNoAlert ==
  \A n \in DOMAIN Scenarios : \A r \in DOMAIN Scenarios[n].sends :
    Scenarios[n].sends[r].incident \notin Request \X Nat

VARIABLES
  alerts,      \* committed rows of alerts
  evidence,    \* storageKeys of committed rows of alert_evidence
  tx,          \* Request -> its transaction
  tries,       \* Request -> requests sent so far
  answers,     \* answers given (history)
  cameras,     \* enabled cameras
  now,
  failures     \* faults so far

ingestVars == <<alerts, evidence, deliveries, inserted, tx, tries, answers,
                cameras, now, failures>>
vars == <<configVars, ingestVars>>

Sends(r) == Plan.sends[r]
EventOf(r) == Sends(r).event
StoreOf(r) == Sends(r).store
IncidentOf(r) == Sends(r).incident
CameraOf(r) == Sends(r).camera
EvidenceOf(r) == Sends(r).evidence

Idle == [phase |-> "idle"]

Init ==
  /\ ConfigInit
  /\ alerts = {} /\ evidence = {} /\ deliveries = {} /\ inserted = {}
  /\ tx = [r \in Request |-> Idle]
  /\ tries = [r \in Request |-> 0]
  /\ answers = {}
  /\ cameras = {CameraOf(r) : r \in DOMAIN Plan.sends}
  /\ now = 0
  /\ failures = 0

-----------------------------------------------------------------------------
(* Matching of rules *)

SeverityRank == [LOW |-> 1, MEDIUM |-> 2, HIGH |-> 3, CRITICAL |-> 4]

SeverityMeets(actual, minimum) == SeverityRank[actual] >= SeverityRank[minimum]

RuleMatches(row, severity, type) ==
  /\ row.isEnabled
  /\ SeverityMeets(severity, row.minimumSeverity)
  /\ row.alertTypes = {} \/ type \in row.alertTypes

MatchingRules(r) ==
  {[rule |-> u, cooldown |-> rules[u].cooldownSeconds] :
     u \in {v \in StoredRules : StoreOf(r) = RuleStore
                                /\ RuleMatches(rules[v], Sends(r).severity, Sends(r).type)}}

First(S) == CHOOSE x \in S : \A y \in S : x.rule <= y.rule

-----------------------------------------------------------------------------
(* Keys and locks *)

AlertReference(r) == IF IncidentOf(r) = NoIncident THEN tx[r].id ELSE IncidentOf(r)

(* Mutant: the key leaves out the rule.                                    *)
AlertDedupeKeyWithoutRule(reference, u, e) == <<reference, e>>

AlertDedupeKey(reference, u, e) == <<reference, u, e>>

Fingerprint(r, u) == <<StoreOf(r), u, CameraOf(r), Sends(r).type, IncidentOf(r)>>

TakesCooldownLock(r, spec) == spec.cooldown > 0 /\ IncidentOf(r) # NoIncident

CooldownSuppresses(r, spec) ==
  /\ TakesCooldownLock(r, spec)
  /\ \E d \in deliveries, a \in alerts :
       /\ d.alert = a.id
       /\ d.rule = spec.rule
       /\ Fingerprint(a.request, spec.rule) = Fingerprint(r, spec.rule)
       /\ d.createdAt > tx[r].at - spec.cooldown

(* Mutant: no ORDER BY: two transactions may insert in opposite orders.    *)
NextRouteUnordered(r, routes) ==
  {c \in routes : \A b \in routes :
     IF r = CHOOSE s \in Request : TRUE THEN c.priority <= b.priority ELSE c.priority >= b.priority}

(* ORDER BY rc."priority": in the order of the routes.                     *)
NextRoute(r, routes) == {c \in routes : \A b \in routes : c.priority <= b.priority}

\* The storageKey of the next row of alert_evidence, and those it has stored.
NextKey(r) == EvidenceOf(r)[tx[r].stored + 1]
StoredKeys(r) == {EvidenceOf(r)[i] : i \in 1..tx[r].stored}

-----------------------------------------------------------------------------
(* Waiting *)

Holds(s, phases) == tx[s].phase \in phases

(* Mutant: the cooldown is evaluated without the advisory lock.            *)
CooldownHolderNone(r, s) == FALSE

CooldownHolder(r, s) ==
  LET spec == First(tx[r].rules)
  IN  TakesCooldownLock(r, spec) /\ Fingerprint(r, spec.rule) \in tx[s].locks

(* Mutant: a look-up and an INSERT in place of the unique key: nothing     *)
(* waits for the routes of an open transaction.                            *)
WaitsForWithoutRouteKeys(r) ==
  {s \in Request \ {r} :
     /\ Holds(r, {"alert"}) /\ Holds(s, {"evidence", "rules", "routes"})
     /\ EventOf(s) = EventOf(r)}

(* The open transactions that r's next statement has to wait for.          *)
WaitsFor(r) ==
  {s \in Request \ {r} :
     \/ /\ Holds(r, {"alert"}) /\ Holds(s, {"evidence", "rules", "routes"})
        /\ EventOf(s) = EventOf(r)
     \/ /\ Holds(r, {"evidence"}) /\ Holds(s, {"evidence", "rules", "routes"})
        /\ NextKey(r) \in StoredKeys(s)
     \/ /\ Holds(r, {"rules"}) /\ Holds(s, {"rules", "routes"})
        /\ tx[r].rules # {}
        /\ CooldownHolder(r, s)
     \/ /\ Holds(r, {"routes"}) /\ Holds(s, {"rules", "routes"})
        /\ \E c \in NextRoute(r, tx[r].routes), d \in inserted :
             d.alert = tx[s].id /\ d.key = AlertDedupeKey(AlertReference(r), c.rule, c.endpoint)}

Runs(r, phase) == tx[r].phase = phase /\ WaitsFor(r) = {}

\* Every member waits for a member.
Knot(S) == S # {} /\ \A r \in S : WaitsFor(r) \cap S # {}

Deadlocked(r) ==
  \E S \in SUBSET {s \in Request : tx[s] # Idle} :
    r \in S /\ Knot(S) /\ \A T \in (SUBSET S) \ {S} : ~Knot(T)

-----------------------------------------------------------------------------
(* The transaction *)

Go(r, next) == tx' = [tx EXCEPT ![r] = next]

Answer(r, code, id) ==
  answers' = answers \cup
    {[request |-> r, code |-> code, alert |-> id,
      routes |-> {<<d.rule, d.endpoint>> : d \in {x \in deliveries : x.alert = id}}]}

Close(r) ==
  /\ Go(r, Idle)
  /\ inserted' = {d \in inserted : tx[r].phase = "idle" \/ d.alert # tx[r].id}

\* Nothing of the transaction stays.
RollBack(r) == Close(r)

Kept == <<configVars, alerts, evidence, deliveries, cameras, now>>

(* BeginTx and the check of the camera; the id of the alert is new.        *)
Begin(r) ==
  /\ tx[r] = Idle
  /\ r \in DOMAIN Plan.sends /\ tries[r] < Plan.tries
  /\ tries' = [tries EXCEPT ![r] = @ + 1]
  /\ IF CameraOf(r) \in cameras
     THEN /\ Go(r, [phase |-> "alert", id |-> <<r, tries[r]>>, at |-> now, stored |-> 0,
                    rules |-> {}, routes |-> {}, top |-> 0, locks |-> {}, loaded |-> {}])
          /\ UNCHANGED answers
     ELSE Answer(r, 404, <<>>) /\ UNCHANGED tx
  /\ UNCHANGED <<Kept, inserted, failures>>

(* INSERT INTO "alerts" ... ON CONFLICT ("sourceEventId") DO NOTHING.      *)
StoreAlert(r) ==
  /\ Runs(r, "alert")
  /\ \A a \in alerts : EventOf(a.request) # EventOf(r)
  /\ Go(r, [tx[r] EXCEPT !.phase = "evidence"])
  /\ UNCHANGED <<Kept, inserted, tries, answers, failures>>

(* Mutant: the event of another store is answered as a replay.             *)
ReplayAnyStore(r) ==
  /\ Runs(r, "alert")
  /\ \E a \in alerts : EventOf(a.request) = EventOf(r) /\ Answer(r, 200, a.id)
  /\ RollBack(r)
  /\ UNCHANGED <<Kept, tries, failures>>

(* The conflicting row is read: another store's, or the original alert.    *)
Replay(r) ==
  /\ Runs(r, "alert")
  /\ \E a \in alerts :
       /\ EventOf(a.request) = EventOf(r)
       /\ IF StoreOf(a.request) # StoreOf(r) THEN Answer(r, 409, <<>>) ELSE Answer(r, 200, a.id)
  /\ RollBack(r)
  /\ UNCHANGED <<Kept, tries, failures>>

(* The next row of alert_evidence; after the last one the SELECT of the    *)
(* rules.                                                                  *)
StoreEvidence(r) ==
  LET stored == tx[r].stored + 1
      last == stored = Len(EvidenceOf(r))
  IN  /\ Runs(r, "evidence")
      /\ NextKey(r) \notin evidence
      /\ Go(r, [tx[r] EXCEPT !.stored = stored,
                             !.phase = IF last THEN "rules" ELSE "evidence",
                             !.rules = IF last THEN MatchingRules(r) ELSE {}])
      /\ UNCHANGED <<Kept, inserted, tries, answers, failures>>

EvidenceConflict(r) ==
  /\ Runs(r, "evidence")
  /\ NextKey(r) \in evidence
  /\ Answer(r, 409, <<>>)
  /\ RollBack(r)
  /\ UNCHANGED <<Kept, tries, failures>>

Usable(u) ==
  {c \in channels : c.rule = u /\ c.isEnabled /\ endpoints[c.endpoint].isEnabled}

\* routes[0].priority
MinPriority(r, routes) == (CHOOSE c \in NextRoute(r, routes) : TRUE).priority

(* The next matching rule: its cooldown, under its lock, then loadRoutes.  *)
OpenRule(r) ==
  LET spec == First(tx[r].rules)
      routes == IF CooldownSuppresses(r, spec) THEN {} ELSE Usable(spec.rule)
      loaded == {[rule |-> c.rule, endpoint |-> c.endpoint] : c \in routes}
  IN  /\ Runs(r, "rules")
      /\ tx[r].rules # {}
      /\ Go(r, [tx[r] EXCEPT
           !.phase = IF routes = {} THEN "rules" ELSE "routes",
           !.rules = @ \ {spec},
           !.routes = routes,
           !.top = IF routes = {} THEN @ ELSE MinPriority(r, routes),
           !.locks = IF TakesCooldownLock(r, spec) THEN @ \cup {Fingerprint(r, spec.rule)} ELSE @,
           !.loaded = @ \cup loaded])
      /\ UNCHANGED <<Kept, inserted, tries, answers, failures>>

Advance(r, c) ==
  LET left == tx[r].routes \ {c}
  IN  Go(r, [tx[r] EXCEPT !.routes = left, !.phase = IF left = {} THEN "rules" ELSE "routes"])

Own(r) == {d \in inserted : d.alert = tx[r].id}

KeyStored(r, key) == \E d \in deliveries \cup Own(r) : d.key = key

(* INSERT INTO "notification_deliveries" ... ON CONFLICT DO NOTHING.       *)
InsertRoute(r) ==
  /\ Runs(r, "routes")
  /\ \E c \in NextRoute(r, tx[r].routes) :
       LET key == AlertDedupeKey(AlertReference(r), c.rule, c.endpoint)
       IN  /\ KeyStored(r, key) \/ c.id \in {x.id : x \in channels}
           /\ inserted' = IF KeyStored(r, key) THEN inserted
                ELSE inserted \cup
                  {[alert |-> tx[r].id, rule |-> c.rule, endpoint |-> c.endpoint, channel |-> c.id,
                    key |-> key, createdAt |-> tx[r].at,
                    status |-> IF c.priority = tx[r].top THEN "PENDING" ELSE "WAITING_FALLBACK"]}
           /\ Advance(r, c)
  /\ UNCHANGED <<Kept, tries, answers, failures>>

(* The channel is gone since loadRoutes: the foreign key fails.            *)
RouteGone(r) ==
  /\ Runs(r, "routes")
  /\ \E c \in NextRoute(r, tx[r].routes) :
       /\ ~KeyStored(r, AlertDedupeKey(AlertReference(r), c.rule, c.endpoint))
       /\ c.id \notin {x.id : x \in channels}
  /\ Answer(r, 500, <<>>)
  /\ RollBack(r)
  /\ UNCHANGED <<Kept, tries, failures>>

Commit(r) ==
  /\ tx[r].phase = "rules" /\ tx[r].rules = {}
  /\ alerts' = alerts \cup {[id |-> tx[r].id, request |-> r, loaded |-> tx[r].loaded]}
  /\ evidence' = evidence \cup StoredKeys(r)
  /\ deliveries' = deliveries \cup Own(r)
  /\ answers' = answers \cup {[request |-> r, code |-> 201, alert |-> tx[r].id,
                               routes |-> {<<d.rule, d.endpoint>> : d \in Own(r)}]}
  /\ Close(r)
  /\ UNCHANGED <<configVars, cameras, now, tries, failures>>

(* A database error, a lost connection, the death of the process: the      *)
(* gateway gets 500 or no answer.                                          *)
FailIngest(r) ==
  /\ tx[r] # Idle
  /\ failures < Plan.faults
  /\ failures' = failures + 1
  /\ RollBack(r)
  /\ UNCHANGED <<Kept, tries, answers>>

(* deadlock_detected *)
AbortVictim(r) ==
  /\ Deadlocked(r)
  /\ Answer(r, 500, <<>>)
  /\ RollBack(r)
  /\ UNCHANGED <<Kept, tries, failures>>

-----------------------------------------------------------------------------
IngestStep(r) ==
  \/ StoreAlert(r) \/ Replay(r) \/ StoreEvidence(r) \/ EvidenceConflict(r)
  \/ OpenRule(r) \/ InsertRoute(r) \/ RouteGone(r) \/ Commit(r)

DisableCamera ==
  /\ \E c \in cameras : edits < Plan.edits /\ cameras' = cameras \ {c}
  /\ edits' = edits + 1
  /\ UNCHANGED <<scenario, endpoints, rules, channels, edit, alerts, evidence, deliveries,
                 inserted, tx, tries, answers, now, failures>>

Tick ==
  /\ now < Plan.time
  /\ now' = now + 1
  /\ UNCHANGED <<configVars, alerts, evidence, deliveries, inserted, tx, tries, answers,
                 cameras, failures>>

Next ==
  \/ \E r \in Request : Begin(r) \/ IngestStep(r) \/ FailIngest(r) \/ AbortVictim(r)
  \/ ConfigStep /\ UNCHANGED ingestVars
  \/ DisableCamera
  \/ Tick

Spec == Init /\ [][Next]_vars

\* Statements end and PostgreSQL breaks deadlocks: while a transaction can go
\* on, one does.  Nobody has to send, configure or fail.
FairSpec == Spec /\ WF_vars(\E r \in Request : IngestStep(r) \/ AbortVictim(r))

-----------------------------------------------------------------------------
(* Properties *)

\* The variables have their types; the foreign keys hold, and a row that is
\* not committed is of an open transaction (ai_alerts.go 84-221, outbox.go
\* 80-139, notifications.go 259-934).
TypeOK ==
  /\ ConfigTypeOK
  /\ \A d \in deliveries \cup inserted :
       /\ d.rule \in Rule /\ d.endpoint \in Endpoint
       /\ d.status \in {"PENDING", "WAITING_FALLBACK"} /\ d.createdAt \in 0..Plan.time
  /\ \A d \in inserted : \E r \in Request : tx[r] # Idle /\ d.alert = tx[r].id
  /\ \A r \in Request : tx[r].phase \in {"idle", "alert", "evidence", "rules", "routes"}
  /\ tries \in [Request -> 0..Plan.tries] /\ failures \in 0..Plan.faults /\ now \in 0..Plan.time

Repeats(r, a) == EventOf(a.request) = EventOf(r) /\ StoreOf(a.request) = StoreOf(r)

\* However often and however concurrently the gateway sends an event, every
\* successful answer names one and the same alert of the caller's store with
\* all its routes, and that alert is stored with them: no answer is given
\* out of a transaction that did not commit or only partly so.
AnswersAgree ==
  \A x \in answers : x.code \in {200, 201} =>
    /\ \E a \in alerts : a.id = x.alert /\ Repeats(x.request, a)
    /\ x.routes = {<<d.rule, d.endpoint>> : d \in {y \in deliveries : y.alert = x.alert}}
    /\ \A y \in answers : y.code \in {200, 201} /\ EventOf(y.request) = EventOf(x.request) =>
         y.alert = x.alert

OfIncident(a, b) ==
  \/ a = b
  \/ IncidentOf(a.request) # NoIncident /\ IncidentOf(a.request) = IncidentOf(b.request)

Notified(a) == {d \in deliveries : \E b \in alerts : OfIncident(a, b) /\ d.alert = b.id}

\* Of several observations of one incident, also concurrent ones of which
\* some fail, each route of a matching rule gets exactly one delivery: none
\* is skipped in favour of a transaction that was rolled back, none is
\* inserted twice.
IncidentNotifiedOnce ==
  \A a \in alerts :
    /\ \A x \in a.loaded : \E d \in Notified(a) : d.rule = x.rule /\ d.endpoint = x.endpoint
    /\ \A c, d \in Notified(a) : c.rule = d.rule /\ c.endpoint = d.endpoint => c = d

Standing == Plan.edits = 0

\* While the configuration stays as it is, an alert takes over the routes of
\* a rule completely or leaves them all to an earlier observation: it never
\* has fallbacks without their first route.
ChainIsWhole ==
  Standing => \A a \in alerts, u \in Rule :
    LET chain == {d \in deliveries : d.alert = a.id /\ d.rule = u}
    IN  chain # {} =>
          /\ \E d \in chain : d.status = "PENDING"
          /\ {x.endpoint : x \in {y \in a.loaded : y.rule = u}} = {d.endpoint : d \in chain}

\* Two alerts of one fingerprint do not both notify within the cooldown,
\* although each looks for the other before either has committed and the
\* routes may change in between.  (A rule may be changed to have another.)
CooldownHolds ==
  Plan.rulePatches = {} => \A c, d \in deliveries : \A a, b \in alerts :
    /\ c.alert = a.id /\ d.alert = b.id /\ a # b
    /\ c.rule = d.rule
    /\ IncidentOf(a.request) # NoIncident
    /\ Fingerprint(a.request, c.rule) = Fingerprint(b.request, d.rule)
    => \/ c.createdAt >= d.createdAt + rules[c.rule].cooldownSeconds
       \/ d.createdAt >= c.createdAt + rules[c.rule].cooldownSeconds

\* With one configuration a cooldown silences nothing: of every alert every
\* usable route of every matching rule has a delivery for the incident, from
\* this observation or from an earlier one that the rule did not suppress.
\* Two emergencies at one camera are never collapsed merely because they are
\* close in time.
EveryRuleNotifies ==
  Standing => \A a \in alerts, u \in StoredRules :
    /\ StoreOf(a.request) = RuleStore
    /\ RuleMatches(rules[u], Sends(a.request).severity, Sends(a.request).type)
    => \A c \in Usable(u) : \E d \in Notified(a) : d.rule = u /\ d.endpoint = c.endpoint

\* The cooldown suppresses what it should, and nothing else (outbox.go 75-91, 124-143).
CooldownIsExact == CooldownHolds /\ EveryRuleNotifies

\* Every request names its storageKeys in one order, that of the numbers.
KeysInOrder ==
  \A r \in DOMAIN Plan.sends : \A i, j \in DOMAIN EvidenceOf(r) :
    i < j => EvidenceOf(r)[i] < EvidenceOf(r)[j]

\* With one configuration all transactions take the keys of events, rules and
\* routes and the locks of cooldowns in one order.  Only evidence can close a
\* circle: a transaction is aborted as a deadlock's victim only while it waits
\* for a storageKey, and only if requests name their keys in different orders.
NoDeadlock ==
  [][Standing => \A r \in Request :
       AbortVictim(r) => tx[r].phase = "evidence" /\ ~KeysInOrder]_vars

\* A request that was begun is answered or given up: nobody waits for a key
\* or a lock for ever, whoever fails while holding it.
RequestEnds == \A r \in Request : (tx[r] # Idle) ~> (tx[r] = Idle)

\* Transactions that wait for each other's keys all come to an end, and with
\* one configuration and one order of the evidence none of them as the victim
\* of a deadlock (ai_alerts.go 164-180, outbox.go 75-160).
NobodyIsStuck == NoDeadlock /\ RequestEnds
=============================================================================
