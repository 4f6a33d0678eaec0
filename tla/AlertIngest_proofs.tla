------------------------- MODULE AlertIngest_proofs -------------------------
(***************************************************************************)
(* Proofs about AlertIngest and NotificationConfig, for every set of       *)
(* gateway requests, endpoints, rules and owners and for every scenario.   *)
(***************************************************************************)
EXTENDS AlertIngest, TLAPS, WellFoundedInduction, FiniteSetTheorems

-----------------------------------------------------------------------------
(* Patches *)

(* A merge has the old row's fields, each with its old value or a given one.*)
LEMMA MergedFields ==
  ASSUME NEW row, NEW patch
  PROVE  /\ DOMAIN Merged(row, patch) = DOMAIN row
         /\ Merged(row, patch) = [f \in DOMAIN Merged(row, patch) |-> Merged(row, patch)[f]]
         /\ \A f \in DOMAIN row : f \in DOMAIN patch => Merged(row, patch)[f] = patch[f]
         /\ \A f \in DOMAIN row : f \notin DOMAIN patch => Merged(row, patch)[f] = row[f]
<1>1. /\ DOMAIN Merged(row, patch) = DOMAIN row
      /\ Merged(row, patch) = [f \in DOMAIN Merged(row, patch) |-> Merged(row, patch)[f]]
  BY Zenon DEF Merged
<1>2. \A f \in DOMAIN row : f \in DOMAIN patch => Merged(row, patch)[f] = patch[f]
  BY Zenon DEF Merged
<1>3. \A f \in DOMAIN row : f \notin DOMAIN patch => Merged(row, patch)[f] = row[f]
  BY Zenon DEF Merged
<1> QED
  BY <1>1, <1>2, <1>3, Zenon

(* A patched row is a row. *)
LEMMA PatchedEndpoint ==
  ASSUME NEW row \in EndpointRow, NEW patch, PartOf(patch, EndpointRow)
  PROVE  Merged(row, patch) \in EndpointRow
<1>1. PICK given \in EndpointRow :
        \A f \in DOMAIN patch : f \in DOMAIN given /\ patch[f] = given[f]
  BY Zenon DEF PartOf
<1>2. DOMAIN row = {"destinationRef", "credentialRef", "config", "isEnabled"}
  BY DEF EndpointRow
<1> DEFINE m == Merged(row, patch)
<1>3. /\ DOMAIN m = DOMAIN row
      /\ m = [f \in DOMAIN m |-> m[f]]
      /\ \A f \in DOMAIN row : m[f] = row[f] \/ m[f] = given[f]
  BY <1>1, MergedFields
<1> HIDE DEF m
<1>4. m \in EndpointRow
  BY <1>2, <1>3 DEF EndpointRow
<1> QED
  BY <1>4 DEF m

(* A patched row is a row. *)
LEMMA PatchedRule ==
  ASSUME NEW row \in RuleRow, NEW patch, PartOf(patch, RuleRow)
  PROVE  Merged(row, patch) \in RuleRow
<1>1. PICK given \in RuleRow :
        \A f \in DOMAIN patch : f \in DOMAIN given /\ patch[f] = given[f]
  BY Zenon DEF PartOf
<1>2. DOMAIN row = {"minimumSeverity", "alertTypes", "cooldownSeconds", "isEnabled"}
  BY DEF RuleRow
<1> DEFINE m == Merged(row, patch)
<1>3. /\ DOMAIN m = DOMAIN row
      /\ m = [f \in DOMAIN m |-> m[f]]
      /\ \A f \in DOMAIN row : m[f] = row[f] \/ m[f] = given[f]
  BY <1>1, MergedFields
<1> HIDE DEF m
<1>4. m \in RuleRow
  BY <1>2, <1>3 DEF RuleRow
<1> QED
  BY <1>4 DEF m

(* A patched channel is a channel of the same rule and endpoint. *)
LEMMA PatchedChannel ==
  ASSUME NEW c \in ChannelRow, NEW patch,
         PartOf(patch, [priority : Priorities, isEnabled : BOOLEAN])
  PROVE  LET m == Merged(c, patch)
         IN  /\ m \in ChannelRow
             /\ m.id = c.id /\ m.rule = c.rule /\ m.endpoint = c.endpoint
<1>1. PICK given :
        /\ DOMAIN given = {"priority", "isEnabled"}
        /\ given["priority"] \in Priorities /\ given["isEnabled"] \in BOOLEAN
        /\ \A f \in DOMAIN patch : f \in DOMAIN given /\ patch[f] = given[f]
  <2>1. ASSUME NEW given \in [priority : Priorities, isEnabled : BOOLEAN]
        PROVE  /\ DOMAIN given = {"priority", "isEnabled"}
               /\ given["priority"] \in Priorities /\ given["isEnabled"] \in BOOLEAN
    OBVIOUS
  <2> QED
    BY <2>1, Zenon DEF PartOf
<1>2. DOMAIN c = {"id", "rule", "endpoint", "priority", "isEnabled"}
  BY DEF ChannelRow
<1> DEFINE m == Merged(c, patch)
<1>3. DOMAIN m = DOMAIN c /\ m = [f \in DOMAIN m |-> m[f]]
  BY MergedFields, Zenon
<1>4. ASSUME NEW f \in DOMAIN c
      PROVE  m[f] = IF f \in DOMAIN patch THEN patch[f] ELSE c[f]
  BY Zenon DEF Merged
<1> HIDE DEF m
<1>5. m.id = c.id /\ m.rule = c.rule /\ m.endpoint = c.endpoint
  BY <1>1, <1>2, <1>3, <1>4
<1>6. m.priority \in Priorities /\ m.isEnabled \in BOOLEAN
  BY <1>1, <1>2, <1>3, <1>4 DEF ChannelRow
<1>7. m \in ChannelRow
  BY <1>2, <1>3, <1>5, <1>6 DEF ChannelRow
<1> QED
  BY <1>5, <1>7 DEF m

-----------------------------------------------------------------------------
(* The configuration *)

Fields == {"destinationRef", "credentialRef", "config", "isEnabled",
           "minimumSeverity", "alertTypes", "cooldownSeconds"}

EndpointEdit == [endpoint : Endpoint, row : EndpointRow, named : SUBSET Fields]
RuleEdit == [rule : Rule, row : RuleRow, named : SUBSET Fields]

ConfigInv ==
  /\ scenario \in DOMAIN Scenarios
  /\ endpoints \in [Endpoint -> EndpointRow \cup {Unborn, Deleted}]
  /\ rules \in [Rule -> RuleRow \cup {Unborn, Deleted}]
  /\ channels \subseteq ChannelRow
  /\ edit \in [Editor -> {NoEdit} \cup EndpointEdit \cup RuleEdit]
  /\ edits \in 0..Plan.edits
  /\ \A c \in channels : c.rule \in StoredRules /\ c.endpoint \in StoredEndpoints

(* What a request read and merged passed the gate, so what it will write   *)
(* does too, whatever has been written in between.                         *)
HeldIsSendable ==
  \A h \in Editor : Editing(h, "endpoint") => Sendable(edit[h].endpoint, edit[h].row)

(* One channel has an id and one an endpoint or a priority of a rule; the  *)
(* ids of later channels are not in use.                                   *)
ChannelIdsOnce ==
  /\ \A b, c \in channels : b.id = c.id => b = c
  /\ \A b, c \in channels :
       b.rule = c.rule /\ (b.endpoint = c.endpoint \/ b.priority = c.priority) => b = c
  /\ \A c \in channels : c.id \notin edits..(Plan.edits - 1)

(* A delivery, committed or not, refers to rows that are stored.           *)
ForeignKeys ==
  \A d \in deliveries \cup inserted :
    /\ d.endpoint \in StoredEndpoints
    /\ d.rule \in StoredRules
    /\ \E c \in channels : c.id = d.channel /\ c.endpoint = d.endpoint /\ c.rule = d.rule

-----------------------------------------------------------------------------
(* The transactions *)

Phases == {"alert", "evidence", "rules", "routes"}

Opened(r) == tx[r].phase \in Phases
HasAlert(r) == tx[r].phase \in {"evidence", "rules", "routes"}
Notifies(r) == tx[r].phase \in {"rules", "routes"}

OpenTx(r, t) ==
  /\ DOMAIN t = {"phase", "id", "at", "stored", "rules", "routes", "top", "locks", "loaded"}
  /\ t.phase \in Phases
  /\ r \in DOMAIN Plan.sends
  /\ \E n \in 0..(tries[r] - 1) : t.id = <<r, n>>
  /\ t.at \in 0..now
  /\ t.stored \in Nat
  /\ t.phase \in {"alert", "evidence"} => t.stored < Len(EvidenceOf(r))
  /\ t.routes \subseteq ChannelRow
  /\ \A x \in t.loaded : x \in [rule : Rule, endpoint : Endpoint]
  /\ \A x \in t.rules : x \in [rule : Rule, cooldown : 0..MaxCooldownSeconds]
  /\ t.phase \in {"alert", "evidence"} => t.rules = {} /\ t.loaded = {}
  /\ t.phase = "routes" <=> t.routes # {}

StoredAlert(a) ==
  /\ a.request \in Request \cap DOMAIN Plan.sends
  /\ \E n \in 0..(tries[a.request] - 1) : a.id = <<a.request, n>>

IngestTypes ==
  /\ DOMAIN tx = Request
  /\ \A r \in Request : tx[r] = Idle \/ OpenTx(r, tx[r])
  /\ \A a \in alerts : StoredAlert(a)
  /\ \A d \in deliveries \cup inserted :
       /\ d.status \in {"PENDING", "WAITING_FALLBACK"}
       /\ d.createdAt \in 0..now
  /\ tries \in [Request -> 0..Plan.tries]
  /\ failures \in 0..Plan.faults
  /\ now \in 0..Plan.time

(* What was loaded of a channel that is still there is still true of it,   *)
(* and no later channel gets the id of one that is gone.                   *)
LoadedChannels ==
  \A r \in Request : Opened(r) =>
    \A c \in tx[r].routes :
      /\ c.id \notin edits..(Plan.edits - 1)
      /\ \A x \in channels : x.id = c.id => x.rule = c.rule /\ x.endpoint = c.endpoint

(* The unique key of the event.                                            *)
EventsOnce ==
  /\ \A a, b \in alerts : EventOf(a.request) = EventOf(b.request) => a = b
  /\ \A r \in Request, a \in alerts : HasAlert(r) => EventOf(a.request) # EventOf(r)
  /\ \A r, s \in Request : HasAlert(r) /\ HasAlert(s) /\ EventOf(r) = EventOf(s) => r = s
  /\ \A r \in Request, a \in alerts : Opened(r) => tx[r].id # a.id

Reference(a) == IF IncidentOf(a.request) = NoIncident THEN a.id ELSE IncidentOf(a.request)

(* A row that is committed is of an alert that is, one that is not is of   *)
(* an open transaction, and its key is made of what it refers to.          *)
RowsHaveAlerts ==
  /\ \A d \in deliveries : \E a \in alerts :
       d.alert = a.id /\ d.key = AlertDedupeKey(Reference(a), d.rule, d.endpoint)
  /\ \A d \in inserted : \E r \in Request :
       /\ Notifies(r)
       /\ d.alert = tx[r].id
       /\ d.key = AlertDedupeKey(AlertReference(r), d.rule, d.endpoint)

(* The unique key of the deliveries, over committed and open ones.         *)
KeysOnce == \A c, d \in deliveries \cup inserted : c.key = d.key => c = d

(* A route that was loaded is still to be inserted or has its key.         *)
LoadedHaveKeys ==
  /\ \A r \in Request : Opened(r) => \A x \in tx[r].loaded :
       \/ \E c \in tx[r].routes : c.rule = x.rule /\ c.endpoint = x.endpoint
       \/ KeyStored(r, AlertDedupeKey(AlertReference(r), x.rule, x.endpoint))
  /\ \A a \in alerts : \A x \in a.loaded : \E d \in deliveries :
       d.key = AlertDedupeKey(Reference(a), x.rule, x.endpoint)

ConfigCore == ConfigInv /\ HeldIsSendable /\ EnabledIsSendable /\ ChannelIdsOnce
IngestCore ==
  ForeignKeys /\ LoadedChannels /\ EventsOnce /\ RowsHaveAlerts /\ KeysOnce /\ LoadedHaveKeys

IInv == ConfigCore /\ IngestTypes /\ IngestCore /\ AnswersAgree

-----------------------------------------------------------------------------
(* Steps of the owners *)

(* What a scenario holds, of the one that was chosen.                      *)
LEMMA PlanHolds ==
  ASSUME scenario \in DOMAIN Scenarios
  PROVE  /\ Plan.endpoints \in [Endpoint -> EndpointRow \cup {Unborn, Deleted}]
         /\ Plan.rules \in [Rule -> RuleRow \cup {Unborn, Deleted}]
         /\ Plan.channels \subseteq ChannelRow
         /\ Plan.newEndpoints \subseteq EndpointRow
         /\ Plan.newRules \subseteq RuleRow
         /\ \A patch \in Plan.endpointPatches : PartOf(patch, EndpointRow)
         /\ \A patch \in Plan.rulePatches : PartOf(patch, RuleRow)
         /\ \A patch \in Plan.channelPatches :
              PartOf(patch, [priority : Priorities, isEnabled : BOOLEAN])
         /\ Plan.edits \in Nat /\ Plan.priorities \subseteq Priorities
         /\ DOMAIN Plan.sends \subseteq Request
         /\ Plan.tries \in Nat /\ Plan.faults \in Nat /\ Plan.time \in Nat
<1>1. \A none \in {Unborn, Deleted} : none \notin EndpointRow /\ none \notin RuleRow
  BY Zenon, RowAssumption
<1> QED
  BY Zenon, RowAssumption, ScenarioAssumption, GatewayAssumption DEF Plan

LEMMA PatchNames ==
  ASSUME NEW patch
  PROVE  /\ PartOf(patch, EndpointRow) => DOMAIN patch \in SUBSET Fields
         /\ PartOf(patch, RuleRow) => DOMAIN patch \in SUBSET Fields
<1>1. ASSUME NEW row \in EndpointRow PROVE DOMAIN row \subseteq Fields
  BY DEF EndpointRow, Fields
<1>2. ASSUME NEW row \in RuleRow PROVE DOMAIN row \subseteq Fields
  BY DEF RuleRow, Fields
<1> QED
  BY <1>1, <1>2, Zenon DEF PartOf

(* Neither a row that is stored nor one that is held is "no row".          *)
LEMMA RowsExist ==
  ASSUME NEW row
  PROVE  row \in EndpointRow \/ row \in RuleRow => Exists(row)
  BY Zenon, RowAssumption DEF Exists

(* What a step of an owner may do to the tables.                           *)
TablesStay == UNCHANGED <<endpoints, rules, channels>>

EndpointStored(e, row) ==
  /\ row \in EndpointRow /\ Sendable(e, row)
  /\ endpoints' = [endpoints EXCEPT ![e] = row]
  /\ UNCHANGED <<rules, channels>>

EndpointRemoved(e) ==
  /\ Unreferenced("endpoint", e)
  /\ endpoints' = [endpoints EXCEPT ![e] = Deleted]
  /\ channels' = {c \in channels : c.endpoint # e}
  /\ rules' = rules

RuleStored(u, row) ==
  /\ row \in RuleRow
  /\ rules' = [rules EXCEPT ![u] = row]
  /\ UNCHANGED <<endpoints, channels>>

RuleRemoved(u) ==
  /\ Unreferenced("rule", u)
  /\ rules' = [rules EXCEPT ![u] = Deleted]
  /\ channels' = {c \in channels : c.rule # u}
  /\ endpoints' = endpoints

ChannelAdded(c) ==
  /\ c \in ChannelRow /\ c.id = edits /\ edits' = edits + 1 /\ edits < Plan.edits
  /\ c.rule \in StoredRules /\ c.endpoint \in StoredEndpoints
  /\ Fits(c)
  /\ channels' = channels \cup {c}
  /\ UNCHANGED <<endpoints, rules>>

ChannelChanged(c, m) ==
  /\ m \in ChannelRow /\ m.id = c.id /\ m.rule = c.rule /\ m.endpoint = c.endpoint
  /\ Fits(m)
  /\ channels' = (channels \ {c}) \cup {m}
  /\ UNCHANGED <<endpoints, rules>>

ChannelRemoved(c) ==
  /\ Unreferenced("channel", c.id)
  /\ channels' = channels \ {c}
  /\ UNCHANGED <<endpoints, rules>>

TablesMove ==
  \/ TablesStay
  \/ \E e \in Endpoint : EndpointRemoved(e) \/ \E row \in EndpointRow : EndpointStored(e, row)
  \/ \E u \in Rule : RuleRemoved(u) \/ \E row \in RuleRow : RuleStored(u, row)
  \/ \E c \in ChannelRow : ChannelAdded(c)
  \/ \E c \in channels : ChannelRemoved(c) \/ \E m \in ChannelRow : ChannelChanged(c, m)

(* What it may do to the rows that requests hold.                          *)
HeldMoves ==
  \/ edit' = edit
  \/ \E h \in Editor : edit' = [edit EXCEPT ![h] = NoEdit]
  \/ \E h \in Editor, held \in EndpointEdit :
       Sendable(held.endpoint, held.row) /\ edit' = [edit EXCEPT ![h] = held]
  \/ \E h \in Editor, held \in RuleEdit : edit' = [edit EXCEPT ![h] = held]

EditsMove == edits' = edits \/ (edits < Plan.edits /\ edits' = edits + 1)

OwnerMoves == TablesMove /\ HeldMoves /\ EditsMove

LEMMA HeldRows ==
  ASSUME ConfigInv, NEW h \in Editor
  PROVE  /\ Editing(h, "endpoint") => edit[h] \in EndpointEdit
         /\ Editing(h, "rule") => edit[h] \in RuleEdit
<1>1. edit[h] \in {NoEdit} \cup EndpointEdit \cup RuleEdit
  BY DEF ConfigInv
<1>2. ASSUME NEW held \in EndpointEdit PROVE "rule" \notin DOMAIN held
  BY DEF EndpointEdit
<1>3. ASSUME NEW held \in RuleEdit PROVE "endpoint" \notin DOMAIN held
  BY DEF RuleEdit
<1> QED
  BY <1>1, <1>2, <1>3 DEF Editing

LEMMA OwnerStep ==
  ASSUME ConfigInv, HeldIsSendable, ConfigStep
  PROVE  OwnerMoves
<1>0. scenario \in DOMAIN Scenarios /\ edits \in Nat
  BY PlanHolds DEF ConfigInv
<1> USE DEF EditsMove
<1>1. ASSUME NEW h \in Editor, NEW e \in Endpoint, NEW row \in Plan.newEndpoints,
             CreateEndpoint(h, e, row)
      PROVE  OwnerMoves
  <2>1. row \in EndpointRow /\ Sendable(e, row)
    BY <1>0, <1>1, PlanHolds DEF CreateEndpoint, Sendable
  <2>2. EndpointStored(e, row)
    BY <1>1, <2>1 DEF CreateEndpoint, EndpointStored
  <2> QED
    BY <1>1, <2>1, <2>2 DEF OwnerMoves, TablesMove, HeldMoves, CreateEndpoint, NewRequest
<1>2. ASSUME NEW h \in Editor, NEW e \in Endpoint, NEW patch \in Plan.endpointPatches,
             ReadEndpoint(h, e, patch)
      PROVE  OwnerMoves
  <2> DEFINE row == Merged(endpoints[e], patch)
             held == [endpoint |-> e, row |-> row, named |-> DOMAIN patch]
  <2>1. e \in StoredEndpoints /\ edit' = [edit EXCEPT ![h] = held]
        /\ EnableGate(e, row) /\ (row.isEnabled => Authorized(row))
    BY <1>2 DEF ReadEndpoint
  <2>2. endpoints[e] \in EndpointRow
    BY <2>1 DEF ConfigInv, StoredEndpoints, Exists
  <2>3. row \in EndpointRow /\ DOMAIN patch \in SUBSET Fields
    BY <1>0, <2>2, PlanHolds, PatchedEndpoint, PatchNames
  <2>4. Sendable(e, row)
    BY <2>1 DEF Sendable
  <2> HIDE DEF row
  <2>5. held \in EndpointEdit /\ held.endpoint = e /\ held.row = row
    BY <2>3 DEF EndpointEdit
  <2>6. Sendable(held.endpoint, held.row)
    BY <2>4, <2>5
  <2> HIDE DEF held
  <2> QED
    BY <1>2, <2>1, <2>5, <2>6
    DEF OwnerMoves, TablesMove, TablesStay, HeldMoves, ReadEndpoint, NewRequest
<1>3. ASSUME NEW h \in Editor, NEW e \in Endpoint, RemoveEndpoint(h, e)
      PROVE  OwnerMoves
  <2>1. EndpointRemoved(e)
    BY <1>3 DEF RemoveEndpoint, EndpointRemoved
  <2> QED
    BY <1>3, <2>1 DEF OwnerMoves, TablesMove, HeldMoves, RemoveEndpoint, NewRequest
<1>4. ASSUME NEW h \in Editor, NEW u \in Rule, NEW row \in Plan.newRules,
             CreateRule(h, u, row)
      PROVE  OwnerMoves
  <2>1. row \in RuleRow
    BY <1>0, PlanHolds
  <2>2. RuleStored(u, row)
    BY <1>4, <2>1 DEF CreateRule, RuleStored
  <2> QED
    BY <1>4, <2>1, <2>2 DEF OwnerMoves, TablesMove, HeldMoves, CreateRule, NewRequest
<1>5. ASSUME NEW h \in Editor, NEW u \in Rule, NEW patch \in Plan.rulePatches,
             ReadRule(h, u, patch)
      PROVE  OwnerMoves
  <2> DEFINE row == Merged(rules[u], patch)
             held == [rule |-> u, row |-> row, named |-> DOMAIN patch]
  <2>1. u \in StoredRules /\ edit' = [edit EXCEPT ![h] = held]
    BY <1>5 DEF ReadRule
  <2>2. rules[u] \in RuleRow
    BY <2>1 DEF ConfigInv, StoredRules, Exists
  <2>3. row \in RuleRow /\ DOMAIN patch \in SUBSET Fields
    BY <1>0, <2>2, PlanHolds, PatchedRule, PatchNames
  <2> HIDE DEF row
  <2>4. held \in RuleEdit
    BY <2>3 DEF RuleEdit
  <2> HIDE DEF held
  <2> QED
    BY <1>5, <2>1, <2>4
    DEF OwnerMoves, TablesMove, TablesStay, HeldMoves, ReadRule, NewRequest
<1>6. ASSUME NEW h \in Editor, NEW u \in Rule, RemoveRule(h, u)
      PROVE  OwnerMoves
  <2>1. RuleRemoved(u)
    BY <1>6 DEF RemoveRule, RuleRemoved
  <2> QED
    BY <1>6, <2>1 DEF OwnerMoves, TablesMove, HeldMoves, RemoveRule, NewRequest
<1>7. ASSUME NEW h \in Editor, NEW u \in Rule, NEW e \in Endpoint, NEW p \in Plan.priorities,
             CreateChannel(h, u, e, p)
      PROVE  OwnerMoves
  <2> DEFINE c == [id |-> edits, rule |-> u, endpoint |-> e, priority |-> p, isEnabled |-> TRUE]
  <2>1. c \in ChannelRow
    BY <1>0, PlanHolds DEF ChannelRow
  <2>2. ChannelAdded(c)
    BY <1>7, <2>1 DEF CreateChannel, ChannelAdded, NewRequest
  <2> HIDE DEF c
  <2> QED
    BY <1>7, <2>1, <2>2 DEF OwnerMoves, TablesMove, HeldMoves, CreateChannel, NewRequest
<1>8. ASSUME NEW h \in Editor, WriteEndpoint(h)
      PROVE  OwnerMoves
  <2>1. edit[h] \in EndpointEdit
    BY <1>8, HeldRows DEF WriteEndpoint
  <2>2. PICK e, row : edit[h].endpoint = e /\ edit[h].row = row
    OBVIOUS
  <2>3. e \in Endpoint /\ row \in EndpointRow
    BY <2>1, <2>2 DEF EndpointEdit
  <2>4. Sendable(e, row)
    BY <1>8, <2>2 DEF WriteEndpoint, HeldIsSendable
  <2>5. TablesStay \/ EndpointStored(e, row)
    BY <1>8, <2>2, <2>3, <2>4 DEF WriteEndpoint, TablesStay, EndpointStored
  <2> QED
    BY <1>8, <2>3, <2>5 DEF OwnerMoves, TablesMove, HeldMoves, WriteEndpoint
<1>9. ASSUME NEW h \in Editor, WriteRule(h)
      PROVE  OwnerMoves
  <2>1. edit[h] \in RuleEdit
    BY <1>9, HeldRows DEF WriteRule
  <2>2. PICK u, row : edit[h].rule = u /\ edit[h].row = row
    OBVIOUS
  <2>3. u \in Rule /\ row \in RuleRow
    BY <2>1, <2>2 DEF RuleEdit
  <2>4. TablesStay \/ RuleStored(u, row)
    BY <1>9, <2>2, <2>3 DEF WriteRule, TablesStay, RuleStored
  <2> QED
    BY <1>9, <2>3, <2>4 DEF OwnerMoves, TablesMove, HeldMoves, WriteRule
<1>10. ASSUME NEW h \in Editor, NEW c \in channels, NEW patch \in Plan.channelPatches,
              UpdateChannel(h, c, patch)
       PROVE  OwnerMoves
  <2>1. PICK m : m = Merged(c, patch)
    OBVIOUS
  <2>2. c \in ChannelRow
    BY DEF ConfigInv
  <2>3. m \in ChannelRow /\ m.id = c.id /\ m.rule = c.rule /\ m.endpoint = c.endpoint
    BY <1>0, <2>1, <2>2, PlanHolds, PatchedChannel
  <2>4. ChannelChanged(c, m)
    BY <1>10, <2>1, <2>3 DEF UpdateChannel, ChannelChanged
  <2> QED
    BY <1>10, <2>3, <2>4 DEF OwnerMoves, TablesMove, HeldMoves, UpdateChannel, NewRequest
<1>11. ASSUME NEW h \in Editor, NEW c \in channels, RemoveChannel(h, c)
       PROVE  OwnerMoves
  <2>1. ChannelRemoved(c)
    BY <1>11 DEF RemoveChannel, ChannelRemoved
  <2> QED
    BY <1>11, <2>1 DEF OwnerMoves, TablesMove, HeldMoves, RemoveChannel, NewRequest
<1> QED
  BY <1>1, <1>2, <1>3, <1>4, <1>5, <1>6, <1>7, <1>8, <1>9, <1>10, <1>11, Zenon DEF ConfigStep

LEMMA OwnersKeepTypes ==
  ASSUME ConfigInv, OwnerMoves, scenario' = scenario
  PROVE  ConfigInv'
<1>1. Plan' = Plan /\ scenario \in DOMAIN Scenarios
  BY DEF Plan, ConfigInv
<1>2. edits' \in 0..Plan.edits
  BY <1>1, PlanHolds DEF ConfigInv, OwnerMoves, EditsMove
<1>3. edit' \in [Editor -> {NoEdit} \cup EndpointEdit \cup RuleEdit]
  BY DEF ConfigInv, OwnerMoves, HeldMoves
<1> DEFINE Tables ==
      /\ endpoints \in [Endpoint -> EndpointRow \cup {Unborn, Deleted}]
      /\ rules \in [Rule -> RuleRow \cup {Unborn, Deleted}]
      /\ channels \subseteq ChannelRow
      /\ \A c \in channels : c.rule \in StoredRules /\ c.endpoint \in StoredEndpoints
<1>4. Tables
  BY DEF ConfigInv
<1>5. ASSUME TablesStay
      PROVE  Tables'
  BY <1>4, <1>5 DEF TablesStay, StoredRules, StoredEndpoints
<1>6. ASSUME NEW e \in Endpoint, EndpointRemoved(e)
      PROVE  Tables'
  BY <1>4, <1>6 DEF EndpointRemoved, StoredRules, StoredEndpoints
<1>7. ASSUME NEW e \in Endpoint, NEW row \in EndpointRow, EndpointStored(e, row)
      PROVE  Tables'
  BY <1>4, <1>7, RowsExist DEF EndpointStored, StoredRules, StoredEndpoints
<1>8. ASSUME NEW u \in Rule, RuleRemoved(u)
      PROVE  Tables'
  BY <1>4, <1>8 DEF RuleRemoved, StoredRules, StoredEndpoints
<1>9. ASSUME NEW u \in Rule, NEW row \in RuleRow, RuleStored(u, row)
      PROVE  Tables'
  BY <1>4, <1>9, RowsExist DEF RuleStored, StoredRules, StoredEndpoints
<1>10. ASSUME NEW c \in ChannelRow, ChannelAdded(c)
       PROVE  Tables'
  BY <1>4, <1>10 DEF ChannelAdded, StoredRules, StoredEndpoints
<1>11. ASSUME NEW c \in channels, ChannelRemoved(c)
       PROVE  Tables'
  BY <1>4, <1>11 DEF ChannelRemoved, StoredRules, StoredEndpoints
<1>12. ASSUME NEW c \in channels, NEW m \in ChannelRow, ChannelChanged(c, m)
       PROVE  Tables'
  BY <1>4, <1>12 DEF ChannelChanged, StoredRules, StoredEndpoints
<1>13. Tables'
  BY <1>5, <1>6, <1>7, <1>8, <1>9, <1>10, <1>11, <1>12, Zenon DEF OwnerMoves, TablesMove
<1> QED
  BY <1>1, <1>2, <1>3, <1>13 DEF ConfigInv

(* What is stored and what is held can be sent with.                       *)
LEMMA OwnersKeepSendable ==
  ASSUME ConfigInv, HeldIsSendable, EnabledIsSendable, OwnerMoves
  PROVE  HeldIsSendable' /\ EnabledIsSendable'
<1>1. HeldIsSendable'
  <2>1. ASSUME NEW h \in Editor, edit' = [edit EXCEPT ![h] = NoEdit]
        PROVE  HeldIsSendable'
    BY <2>1 DEF ConfigInv, HeldIsSendable, Editing, Sendable, EnableGate, Authorized
  <2>2. ASSUME NEW h \in Editor, NEW held \in EndpointEdit,
               Sendable(held.endpoint, held.row), edit' = [edit EXCEPT ![h] = held]
        PROVE  HeldIsSendable'
    BY <2>2 DEF ConfigInv, HeldIsSendable, Editing
  <2>3. ASSUME NEW h \in Editor, NEW held \in RuleEdit, edit' = [edit EXCEPT ![h] = held]
        PROVE  HeldIsSendable'
    <3>1. "endpoint" \notin DOMAIN held
      BY DEF RuleEdit
    <3> QED
      BY <2>3, <3>1 DEF ConfigInv, HeldIsSendable, Editing
  <2>4. CASE edit' = edit
    BY <2>4 DEF HeldIsSendable, Editing
  <2> QED
    BY <2>1, <2>2, <2>3, <2>4, Zenon DEF OwnerMoves, HeldMoves
<1>2. EnabledIsSendable'
  <2>1. CASE endpoints' = endpoints
    BY <2>1 DEF EnabledIsSendable, StoredEndpoints
  <2>2. ASSUME NEW e \in Endpoint, EndpointRemoved(e)
        PROVE  EnabledIsSendable'
    <3>1. ASSUME NEW f \in StoredEndpoints'
          PROVE  f \in StoredEndpoints /\ endpoints'[f] = endpoints[f]
      BY <2>2, <3>1 DEF ConfigInv, EndpointRemoved, StoredEndpoints, Exists
    <3> QED
      BY <3>1 DEF EnabledIsSendable
  <2>3. ASSUME NEW e \in Endpoint, NEW row \in EndpointRow, EndpointStored(e, row)
        PROVE  EnabledIsSendable'
    <3>1. ASSUME NEW f \in StoredEndpoints'
          PROVE  Sendable(f, endpoints'[f])
      <4>1. CASE f = e
        BY <2>3, <4>1 DEF ConfigInv, EndpointStored
      <4>2. CASE f # e
        BY <2>3, <3>1, <4>2 DEF ConfigInv, EndpointStored, EnabledIsSendable, StoredEndpoints
      <4> QED
        BY <4>1, <4>2
    <3> QED
      BY <3>1 DEF EnabledIsSendable
  <2> QED
    BY <2>1, <2>2, <2>3, Zenon
    DEF OwnerMoves, TablesMove, TablesStay, RuleRemoved, RuleStored, ChannelAdded,
        ChannelRemoved, ChannelChanged
<1> QED
  BY <1>1, <1>2

(* What an owner leaves of the channels keeps its rule and its endpoint,   *)
(* and a channel that is made has an id of its own.                        *)
LEMMA OwnersKeepChannels ==
  ASSUME ConfigInv, OwnerMoves, NEW x \in channels'
  PROVE  \/ /\ x.id = edits /\ edits' = edits + 1 /\ edits < Plan.edits
         \/ \E c \in channels : c.id = x.id /\ c.rule = x.rule /\ c.endpoint = x.endpoint
<1>1. CASE channels' \subseteq channels
  BY <1>1
<1>2. ASSUME NEW c \in ChannelRow, ChannelAdded(c)
      PROVE  \/ /\ x.id = edits /\ edits' = edits + 1 /\ edits < Plan.edits
             \/ x \in channels
  BY <1>2 DEF ChannelAdded
<1>3. ASSUME NEW c \in channels, NEW m \in ChannelRow, ChannelChanged(c, m)
      PROVE  \E b \in channels : b.id = x.id /\ b.rule = x.rule /\ b.endpoint = x.endpoint
  BY <1>3 DEF ChannelChanged
<1>4. \/ channels' \subseteq channels
      \/ \E c \in ChannelRow : ChannelAdded(c)
      \/ \E c \in channels, m \in ChannelRow : ChannelChanged(c, m)
  BY DEF OwnerMoves, TablesMove, TablesStay, RuleRemoved, RuleStored, EndpointRemoved,
         EndpointStored, ChannelRemoved
<1> QED
  BY <1>1, <1>2, <1>3, <1>4, Zenon

LEMMA OwnersKeepIds ==
  ASSUME ConfigInv, ChannelIdsOnce, OwnerMoves, scenario' = scenario
  PROVE  ChannelIdsOnce'
<1>1. Plan' = Plan /\ edits \in Nat /\ Plan.edits \in Nat
  BY PlanHolds DEF Plan, ConfigInv
<1>2. \A c \in channels' : c.id \notin edits'..(Plan'.edits - 1)
  <2>1. edits' = edits \/ edits' = edits + 1
    BY DEF OwnerMoves, EditsMove
  <2>2. \A x \in channels : x.id \notin edits..(Plan.edits - 1)
    BY DEF ChannelIdsOnce
  <2>3. ASSUME NEW c \in channels'
        PROVE  c.id \notin edits'..(Plan.edits - 1)
    <3>1. CASE c.id = edits /\ edits' = edits + 1
      BY <1>1, <3>1
    <3>2. CASE \E b \in channels : b.id = c.id
      BY <1>1, <2>1, <2>2, <3>2
    <3> QED
      BY <3>1, <3>2, OwnersKeepChannels
  <2> QED
    BY <1>1, <2>3
<1> DEFINE Once(S) ==
      /\ \A b, c \in S : b.id = c.id => b = c
      /\ \A b, c \in S :
           b.rule = c.rule /\ (b.endpoint = c.endpoint \/ b.priority = c.priority) => b = c
<1>3. Once(channels)
  BY DEF ChannelIdsOnce
<1>4. ASSUME channels' \subseteq channels
      PROVE  Once(channels')
  BY <1>3, <1>4
<1>5. ASSUME NEW c \in ChannelRow, ChannelAdded(c)
      PROVE  Once(channels')
  <2>1. \A b \in channels : b.id # c.id
    BY <1>1, <1>5 DEF ChannelIdsOnce, ChannelAdded
  <2> QED
    BY <1>3, <1>5, <2>1 DEF ChannelAdded, Fits
<1>6. ASSUME NEW c \in channels, NEW m \in ChannelRow, ChannelChanged(c, m)
      PROVE  Once(channels')
  <2>1. \A b \in channels : b # c => b.id # m.id
    BY <1>3, <1>6 DEF ChannelChanged
  <2> QED
    BY <1>3, <1>6, <2>1 DEF ChannelChanged, Fits
<1>7. \/ channels' \subseteq channels
      \/ \E c \in ChannelRow : ChannelAdded(c)
      \/ \E c \in channels, m \in ChannelRow : ChannelChanged(c, m)
  BY DEF OwnerMoves, TablesMove, TablesStay, RuleRemoved, RuleStored, EndpointRemoved,
         EndpointStored, ChannelRemoved
<1>8. Once(channels')
  BY <1>4, <1>5, <1>6, <1>7
<1> QED
  BY <1>2, <1>8 DEF ChannelIdsOnce

(* No DELETE takes away what a delivery refers to.                         *)
LEMMA OwnersKeepForeignKeys ==
  ASSUME ConfigInv, ForeignKeys, OwnerMoves, UNCHANGED <<deliveries, inserted>>
  PROVE  ForeignKeys'
<1> SUFFICES ASSUME NEW d \in deliveries \cup inserted
             PROVE  /\ d.endpoint \in StoredEndpoints' /\ d.rule \in StoredRules'
                    /\ \E c \in channels' :
                         c.id = d.channel /\ c.endpoint = d.endpoint /\ c.rule = d.rule
  BY DEF ForeignKeys
<1> DEFINE Stands(c) == c.id = d.channel /\ c.endpoint = d.endpoint /\ c.rule = d.rule
           Refers == /\ d.endpoint \in StoredEndpoints /\ d.rule \in StoredRules
                     /\ \E c \in channels : Stands(c)
<1>1. Refers
  BY DEF ForeignKeys
<1>2. CASE TablesStay
  BY <1>1, <1>2 DEF TablesStay, StoredRules, StoredEndpoints
<1>3. ASSUME NEW e \in Endpoint, EndpointRemoved(e)
      PROVE  Refers'
  <2>1. d.endpoint # e
    BY <1>3 DEF EndpointRemoved, Unreferenced
  <2> QED
    BY <1>1, <1>3, <2>1 DEF ConfigInv, EndpointRemoved, StoredRules, StoredEndpoints
<1>4. ASSUME NEW e \in Endpoint, NEW row \in EndpointRow, EndpointStored(e, row)
      PROVE  Refers'
  BY <1>1, <1>4, RowsExist DEF ConfigInv, EndpointStored, StoredRules, StoredEndpoints
<1>5. ASSUME NEW u \in Rule, RuleRemoved(u)
      PROVE  Refers'
  <2>1. d.rule # u
    BY <1>5 DEF RuleRemoved, Unreferenced
  <2> QED
    BY <1>1, <1>5, <2>1 DEF ConfigInv, RuleRemoved, StoredRules, StoredEndpoints
<1>6. ASSUME NEW u \in Rule, NEW row \in RuleRow, RuleStored(u, row)
      PROVE  Refers'
  BY <1>1, <1>6, RowsExist DEF ConfigInv, RuleStored, StoredRules, StoredEndpoints
<1>7. ASSUME NEW c \in ChannelRow, ChannelAdded(c)
      PROVE  Refers'
  BY <1>1, <1>7 DEF ChannelAdded, StoredRules, StoredEndpoints
<1>8. ASSUME NEW c \in channels, ChannelRemoved(c)
      PROVE  Refers'
  <2>1. d.channel # c.id
    BY <1>8 DEF ChannelRemoved, Unreferenced
  <2> QED
    BY <1>1, <1>8, <2>1 DEF ChannelRemoved, StoredRules, StoredEndpoints
<1>9. ASSUME NEW c \in channels, NEW m \in ChannelRow, ChannelChanged(c, m)
      PROVE  Refers'
  BY <1>1, <1>9 DEF ChannelChanged, StoredRules, StoredEndpoints
<1> QED
  BY <1>2, <1>3, <1>4, <1>5, <1>6, <1>7, <1>8, <1>9, Zenon DEF OwnerMoves, TablesMove

LEMMA OwnersKeepLoaded ==
  ASSUME ConfigInv, IngestTypes, LoadedChannels, OwnerMoves, scenario' = scenario, tx' = tx
  PROVE  LoadedChannels'
<1>1. Plan' = Plan /\ edits \in Nat /\ Plan.edits \in Nat
  BY PlanHolds DEF Plan, ConfigInv
<1>2. edits' = edits \/ edits' = edits + 1
  BY DEF OwnerMoves, EditsMove
<1>3. ASSUME NEW r \in Request, Opened(r), NEW c \in tx[r].routes
      PROVE  /\ c.id \notin edits'..(Plan.edits - 1)
             /\ \A x \in channels' : x.id = c.id => x.rule = c.rule /\ x.endpoint = c.endpoint
  <2>1. /\ c.id \notin edits..(Plan.edits - 1)
        /\ \A x \in channels : x.id = c.id => x.rule = c.rule /\ x.endpoint = c.endpoint
    BY <1>3 DEF LoadedChannels
  <2>2. c.id \notin edits'..(Plan.edits - 1)
    BY <1>1, <1>2, <2>1
  <2>3. ASSUME NEW x \in channels', x.id = c.id
        PROVE  x.rule = c.rule /\ x.endpoint = c.endpoint
    <3>1. ~(x.id = edits /\ edits < Plan.edits)
      BY <1>1, <2>1, <2>3
    <3>2. PICK b \in channels : b.id = x.id /\ b.rule = x.rule /\ b.endpoint = x.endpoint
      BY <3>1, OwnersKeepChannels
    <3> QED
      BY <2>1, <2>3, <3>2
  <2> QED
    BY <2>2, <2>3
<1> QED
  BY <1>1, <1>3 DEF LoadedChannels, Opened

-----------------------------------------------------------------------------
(* Steps that touch no transaction *)

LEMMA IdleOrOpen ==
  ASSUME IngestTypes, NEW r \in Request
  PROVE  /\ Opened(r) => OpenTx(r, tx[r])
         /\ ~Opened(r) => tx[r] = Idle
         /\ HasAlert(r) => Opened(r)
         /\ Notifies(r) => HasAlert(r)
<1>1. tx[r] = Idle \/ OpenTx(r, tx[r])
  BY DEF IngestTypes
<1>2. OpenTx(r, tx[r]) => Opened(r)
  BY DEF OpenTx, Opened
<1>3. tx[r] = Idle => ~Opened(r)
  BY DEF Idle, Opened, Phases
<1>4. (HasAlert(r) => Opened(r)) /\ (Notifies(r) => HasAlert(r))
  BY DEF HasAlert, Opened, Notifies, Phases
<1> QED
  BY <1>1, <1>2, <1>3, <1>4

(* The ids of two open transactions differ.                                *)
LEMMA IdsDiffer ==
  ASSUME IngestTypes, NEW r \in Request, NEW s \in Request, Opened(r), Opened(s),
         tx[r].id = tx[s].id
  PROVE  r = s
<1>1. OpenTx(r, tx[r]) /\ OpenTx(s, tx[s])
  BY IdleOrOpen
<1>2. PICK n : tx[r].id = <<r, n>>
  BY <1>1, Zenon DEF OpenTx
<1>3. PICK m : tx[s].id = <<s, m>>
  BY <1>1, Zenon DEF OpenTx
<1>4. <<r, n>> = <<s, m>>
  BY <1>2, <1>3
<1> QED
  BY <1>4

LEMMA NothingSent ==
  ASSUME IngestCore, AnswersAgree, scenario' = scenario,
         UNCHANGED <<alerts, deliveries, inserted, tx, answers>>
  PROVE  EventsOnce' /\ RowsHaveAlerts' /\ KeysOnce' /\ LoadedHaveKeys' /\ AnswersAgree'
<1> USE DEF IngestCore
<1>1. EventsOnce'
  BY DEF EventsOnce, EventOf, Sends, Plan, HasAlert, Opened
<1>2. RowsHaveAlerts'
  BY DEF RowsHaveAlerts, Notifies, Reference, AlertReference, AlertDedupeKey, IncidentOf,
         Sends, Plan
<1>3. KeysOnce'
  BY DEF KeysOnce
<1>4. LoadedHaveKeys'
  BY ZenonT(60) DEF LoadedHaveKeys, Opened, Reference, AlertReference, AlertDedupeKey, IncidentOf,
         Sends, Plan, KeyStored, Own
<1>5. AnswersAgree'
  BY DEF AnswersAgree, Repeats, EventOf, StoreOf, Sends, Plan
<1> QED
  BY <1>1, <1>2, <1>3, <1>4, <1>5

LEMMA OwnersKeepInv ==
  ASSUME IInv, OwnerMoves, scenario' = scenario,
         UNCHANGED <<alerts, deliveries, inserted, tx, tries, answers, now, failures>>
  PROVE  IInv'
<1> USE DEF IInv, ConfigCore, IngestCore
<1>1. ConfigCore'
  BY OwnersKeepTypes, OwnersKeepSendable, OwnersKeepIds
<1>2. IngestTypes'
  BY DEF IngestTypes, OpenTx, EvidenceOf, Sends, StoredAlert, Plan
<1>3. IngestCore'
  BY NothingSent, OwnersKeepForeignKeys, OwnersKeepLoaded
<1> QED
  BY <1>1, <1>2, <1>3, NothingSent

LEMMA CameraKeepsInv ==
  ASSUME IInv, DisableCamera
  PROVE  IInv'
<1>1. OwnerMoves
  BY DEF DisableCamera, OwnerMoves, TablesMove, TablesStay, HeldMoves, EditsMove
<1> QED
  BY <1>1, OwnersKeepInv DEF DisableCamera

(* The configuration is as it was.                                         *)
LEMMA ConfigKept ==
  ASSUME ConfigCore, UNCHANGED configVars
  PROVE  ConfigCore'
<1> USE DEF ConfigCore, configVars
<1>1. ConfigInv'
  BY DEF ConfigInv, Plan, StoredEndpoints, StoredRules
<1>2. HeldIsSendable'
  BY DEF HeldIsSendable, Editing
<1>3. EnabledIsSendable'
  BY DEF EnabledIsSendable, StoredEndpoints
<1>4. ChannelIdsOnce'
  BY DEF ChannelIdsOnce, Plan
<1> QED
  BY <1>1, <1>2, <1>3, <1>4

LEMMA TickKeepsInv ==
  ASSUME IInv, Tick
  PROVE  IInv'
<1> USE DEF IInv
<1>1. scenario' = scenario /\ UNCHANGED <<alerts, deliveries, inserted, tx, answers>>
  BY DEF Tick, configVars
<1>2. ConfigCore'
  BY ConfigKept DEF Tick
<1>3. IngestTypes'
  <2>1. now \in Nat /\ now' = now + 1 /\ now' \in 0..Plan.time
    BY PlanHolds DEF ConfigCore, ConfigInv, IngestTypes, Tick
  <2>2. 0..now \subseteq 0..now'
    BY <2>1
  <2>3. Plan' = Plan /\ UNCHANGED <<tries, failures>>
    BY <1>1 DEF Plan, Tick
  <2> QED
    BY <1>1, <2>1, <2>2, <2>3 DEF IngestTypes, OpenTx, EvidenceOf, Sends, StoredAlert
<1>4. ForeignKeys' /\ LoadedChannels'
  BY <1>1 DEF IngestCore, ForeignKeys, LoadedChannels, Opened, Tick, configVars,
              StoredEndpoints, StoredRules, Plan
<1> QED
  BY <1>1, <1>2, <1>3, <1>4, NothingSent DEF IngestCore

-----------------------------------------------------------------------------
(* Steps of a transaction *)

\* The transaction goes on to t and may have inserted rows.
GoesOn(r, t) ==
  /\ Opened(r)
  /\ OpenTx(r, t)
  /\ Go(r, t)
  /\ t.id = tx[r].id
  /\ HasAlert(r) => t.phase # "alert"
  /\ Notifies(r) => t.phase \in {"rules", "routes"}
  /\ inserted \subseteq inserted'
  /\ UNCHANGED <<configVars, alerts, deliveries, tries, answers, now, failures>>

\* A row that r may insert while it goes on to t.
Fresh(r, t, d) ==
  /\ t.phase \in {"rules", "routes"}
  /\ d.alert = tx[r].id
  /\ d.key = AlertDedupeKey(AlertReference(r), d.rule, d.endpoint)
  /\ d.status \in {"PENDING", "WAITING_FALLBACK"} /\ d.createdAt \in 0..now
  /\ d.endpoint \in StoredEndpoints /\ d.rule \in StoredRules
  /\ \E c \in channels : c.id = d.channel /\ c.endpoint = d.endpoint /\ c.rule = d.rule

LEMMA GoingOnKeepsInv ==
  ASSUME IInv, NEW r \in Request, NEW t, GoesOn(r, t),
         \A d \in inserted' \ inserted : Fresh(r, t, d),
         \A c \in deliveries \cup inserted, d \in inserted' \ inserted : c.key # d.key,
         \A c, d \in inserted' \ inserted : c = d,
         t.phase # "alert" => HasAlert(r) \/
           /\ \A a \in alerts : EventOf(a.request) # EventOf(r)
           /\ \A s \in Request \ {r} : HasAlert(s) => EventOf(s) # EventOf(r),
         \A c \in t.routes : c \in tx[r].routes \/ c \in channels,
         \A x \in t.loaded :
           \/ \E c \in t.routes : c.rule = x.rule /\ c.endpoint = x.endpoint
           \/ KeyStored(r, AlertDedupeKey(AlertReference(r), x.rule, x.endpoint))
           \/ \E d \in inserted' \ inserted : d.rule = x.rule /\ d.endpoint = x.endpoint
  PROVE  IInv'
<1> USE DEF IInv
<1>0. DOMAIN tx = Request /\ Plan' = Plan
  BY DEF IngestTypes, GoesOn, configVars, Plan
<1>1. /\ tx' = [tx EXCEPT ![r] = t] /\ tx'[r] = t
      /\ \A s \in Request \ {r} : tx'[s] = tx[s]
      /\ \A s \in Request : tx'[s].id = tx[s].id
  BY <1>0 DEF GoesOn, Go
<1>2. ASSUME NEW s \in Request
      PROVE  /\ Opened(s)' <=> Opened(s)
             /\ HasAlert(s) => HasAlert(s)'
             /\ Notifies(s) => Notifies(s)'
             /\ s # r => (HasAlert(s)' <=> HasAlert(s))
  BY <1>1 DEF GoesOn, OpenTx, Opened, HasAlert, Notifies, Phases
<1>3. ConfigCore'
  BY ConfigKept DEF GoesOn
<1>4. IngestTypes'
  <2>1. ASSUME NEW s \in Request
        PROVE  (tx[s] = Idle \/ OpenTx(s, tx[s]))'
    <3>1. PICK u : u = tx'[s]
      OBVIOUS
    <3>2. u = Idle \/ OpenTx(s, u)
      BY <1>1, <3>1 DEF GoesOn, IngestTypes
    <3>3. Idle' = Idle
      BY DEF Idle
    <3> QED
      BY <1>0, <3>1, <3>2, <3>3 DEF GoesOn, OpenTx, EvidenceOf, Sends
  <2>2. \A d \in deliveries' \cup inserted' :
          d.status \in {"PENDING", "WAITING_FALLBACK"} /\ d.createdAt \in 0..now'
    BY DEF GoesOn, IngestTypes, Fresh
  <2>3. DOMAIN tx' = Request
    BY <1>0, <1>1
  <2> QED
    BY <1>0, <2>1, <2>2, <2>3 DEF GoesOn, IngestTypes, StoredAlert
<1>5. ForeignKeys'
  BY DEF IngestCore, ForeignKeys, GoesOn, Fresh, configVars, StoredEndpoints, StoredRules
<1>6. LoadedChannels'
  <2>1. ASSUME NEW c \in t.routes
        PROVE  /\ c.id \notin edits..(Plan.edits - 1)
               /\ \A x \in channels : x.id = c.id => x.rule = c.rule /\ x.endpoint = c.endpoint
    BY DEF IngestCore, LoadedChannels, ConfigCore, ChannelIdsOnce, GoesOn
  <2> QED
    BY <1>0, <1>1, <1>2, <2>1 DEF IngestCore, LoadedChannels, GoesOn, configVars
<1>7. EventsOnce'
  <2>1. \A q : EventOf(q)' = EventOf(q)
    BY <1>0 DEF EventOf, Sends
  <2>2. \A a, b \in alerts : EventOf(a.request) = EventOf(b.request) => a = b
    BY DEF IngestCore, EventsOnce
  <2>3. ASSUME NEW s \in Request, HasAlert(s)', NEW a \in alerts
        PROVE  EventOf(a.request) # EventOf(s)
    BY <1>1, <1>2, <2>3 DEF IngestCore, EventsOnce, HasAlert
  <2>4. ASSUME NEW q \in Request, NEW s \in Request, HasAlert(q)', HasAlert(s)',
               EventOf(q) = EventOf(s)
        PROVE  q = s
    BY <1>1, <1>2, <2>4 DEF IngestCore, EventsOnce, HasAlert
  <2>5. ASSUME NEW s \in Request, NEW a \in alerts, Opened(s)'
        PROVE  tx'[s].id # a.id
    BY <1>1, <1>2, <2>5 DEF IngestCore, EventsOnce
  <2> QED
    BY <1>0, <2>2, <2>3, <2>4, <2>5 DEF GoesOn, EventsOnce, EventOf, Sends
<1>8. ASSUME NEW s \in Request PROVE AlertReference(s)' = AlertReference(s)
  BY <1>0, <1>1 DEF AlertReference, IncidentOf, Sends
<1>9. RowsHaveAlerts'
  <2>1. \A d \in deliveries' : \E a \in alerts' :
          d.alert = a.id /\ d.key = AlertDedupeKey(Reference(a)', d.rule, d.endpoint)
    BY <1>0 DEF IngestCore, RowsHaveAlerts, GoesOn, Reference, IncidentOf, Sends
  <2>2. ASSUME NEW d \in inserted
        PROVE  \E s \in Request :
                 /\ Notifies(s)' /\ d.alert = tx'[s].id
                 /\ d.key = AlertDedupeKey(AlertReference(s)', d.rule, d.endpoint)
    BY <1>1, <1>2, <1>8 DEF IngestCore, RowsHaveAlerts
  <2>3. ASSUME NEW d \in inserted' \ inserted
        PROVE  /\ Notifies(r)' /\ d.alert = tx'[r].id
               /\ d.key = AlertDedupeKey(AlertReference(r)', d.rule, d.endpoint)
    BY <1>1, <1>8 DEF Fresh, Notifies
  <2>4. \A d \in inserted' : \E s \in Request :
                 /\ Notifies(s)' /\ d.alert = tx'[s].id
                 /\ d.key = AlertDedupeKey(AlertReference(s)', d.rule, d.endpoint)
    BY <2>2, <2>3
  <2> QED
    BY <2>1, <2>4 DEF RowsHaveAlerts, AlertDedupeKey
<1>10. KeysOnce'
  BY DEF IngestCore, KeysOnce, GoesOn
<1>11. LoadedHaveKeys'
  <2>1. ASSUME NEW s \in Request, NEW key, KeyStored(s, key)
        PROVE  KeyStored(s, key)'
    BY <1>1, <2>1 DEF GoesOn, KeyStored, Own
  <2>2. ASSUME NEW s \in Request, Opened(s)', NEW x \in tx'[s].loaded
        PROVE  \/ \E c \in tx'[s].routes : c.rule = x.rule /\ c.endpoint = x.endpoint
               \/ KeyStored(s, AlertDedupeKey(AlertReference(s), x.rule, x.endpoint))'
    <3>1. CASE s # r
      BY <1>1, <1>2, <1>8, <2>1, <2>2, <3>1 DEF IngestCore, LoadedHaveKeys, AlertDedupeKey
    <3>2. ASSUME NEW d \in inserted' \ inserted, d.rule = x.rule, d.endpoint = x.endpoint, s = r
          PROVE  KeyStored(s, AlertDedupeKey(AlertReference(s), x.rule, x.endpoint))'
      BY <1>1, <1>8, <3>2 DEF Fresh, KeyStored, Own, AlertDedupeKey
    <3>3. CASE s = r
      BY <1>1, <1>8, <2>1, <3>2, <3>3 DEF AlertDedupeKey
    <3> QED
      BY <3>1, <3>3
  <2>3. \A a \in alerts : Reference(a)' = Reference(a)
    BY <1>0 DEF Reference, IncidentOf, Sends
  <2> QED
    BY SMTT(60), <2>2, <2>3 DEF IngestCore, LoadedHaveKeys, GoesOn, AlertDedupeKey
<1>12. AnswersAgree'
  BY <1>0 DEF GoesOn, AnswersAgree, Repeats, EventOf, StoreOf, Sends
<1> QED
  BY <1>3, <1>4, <1>5, <1>6, <1>7, <1>9, <1>10, <1>11, <1>12 DEF IngestCore

(* An answer out of what is committed agrees with those that were given.   *)
LEMMA AnswersKept ==
  ASSUME IInv, scenario' = scenario, UNCHANGED <<alerts, deliveries>>,
         \A x \in answers' \ answers : x.code \in {200, 201} =>
           /\ \E a \in alerts : a.id = x.alert /\ Repeats(x.request, a)
           /\ x.routes = {<<d.rule, d.endpoint>> : d \in {y \in deliveries : y.alert = x.alert}}
  PROVE  AnswersAgree'
<1>1. ASSUME NEW x \in answers', x.code \in {200, 201}
      PROVE  /\ \E a \in alerts : a.id = x.alert /\ Repeats(x.request, a)
             /\ x.routes = {<<d.rule, d.endpoint>> : d \in {y \in deliveries : y.alert = x.alert}}
  BY <1>1 DEF IInv, AnswersAgree
<1>2. ASSUME NEW x \in answers', x.code \in {200, 201},
             NEW y \in answers', y.code \in {200, 201}, EventOf(y.request) = EventOf(x.request)
      PROVE  y.alert = x.alert
  <2>1. PICK a \in alerts : a.id = x.alert /\ Repeats(x.request, a)
    BY <1>1, <1>2
  <2>2. PICK b \in alerts : b.id = y.alert /\ Repeats(y.request, b)
    BY <1>1, <1>2
  <2>3. a = b
    BY <1>2, <2>1, <2>2 DEF IInv, IngestCore, EventsOnce, Repeats
  <2> QED
    BY <2>1, <2>2, <2>3
<1> QED
  BY <1>1, <1>2 DEF AnswersAgree, Repeats, EventOf, StoreOf, Sends, Plan

\* The transaction ends and leaves nothing.
EndsWithNothing(r) ==
  /\ Opened(r)
  /\ Go(r, Idle)
  /\ inserted' = {d \in inserted : d.alert # tx[r].id}
  /\ UNCHANGED <<configVars, alerts, deliveries, tries, now>>

LEMMA RollBackEnds ==
  ASSUME NEW r \in Request, Opened(r), RollBack(r), UNCHANGED <<Kept, tries>>
  PROVE  EndsWithNothing(r)
<1>1. tx[r].phase # "idle"
  BY DEF Opened, Phases
<1> QED
  BY <1>1 DEF RollBack, Close, EndsWithNothing, Kept

LEMMA EndKeepsInv ==
  ASSUME IInv, NEW r \in Request, EndsWithNothing(r), failures' \in 0..Plan.faults
  PROVE  ConfigCore' /\ IngestTypes' /\ IngestCore'
<1> USE DEF IInv
<1>0. DOMAIN tx = Request /\ Plan' = Plan
  BY DEF IngestTypes, EndsWithNothing, configVars, Plan
<1>1. /\ tx' = [tx EXCEPT ![r] = Idle] /\ tx'[r] = Idle
      /\ \A s \in Request \ {r} : tx'[s] = tx[s]
      /\ inserted' \subseteq inserted
  BY <1>0 DEF EndsWithNothing, Go
<1>2. ASSUME NEW s \in Request
      PROVE  /\ Opened(s)' => Opened(s) /\ s # r
             /\ HasAlert(s)' => HasAlert(s) /\ s # r
             /\ Notifies(s) /\ s # r => Notifies(s)'
  BY <1>1 DEF Opened, HasAlert, Notifies, Phases, Idle
<1>3. ConfigCore'
  BY ConfigKept DEF EndsWithNothing
<1>4. IngestTypes'
  <2>1. ASSUME NEW s \in Request
        PROVE  (tx[s] = Idle \/ OpenTx(s, tx[s]))'
    <3>1. PICK u : u = tx'[s]
      OBVIOUS
    <3>2. u = Idle \/ OpenTx(s, u)
      BY <1>1, <3>1 DEF IngestTypes
    <3>3. Idle' = Idle
      BY DEF Idle
    <3> QED
      BY <1>0, <3>1, <3>2, <3>3 DEF EndsWithNothing, OpenTx, EvidenceOf, Sends
  <2>2. DOMAIN tx' = Request
    BY <1>0, <1>1
  <2> QED
    BY <1>0, <1>1, <2>1, <2>2 DEF EndsWithNothing, IngestTypes, StoredAlert
<1>5. ForeignKeys'
  BY <1>1 DEF IngestCore, ForeignKeys, EndsWithNothing, configVars, StoredEndpoints, StoredRules
<1>6. LoadedChannels'
  BY <1>0, <1>1, <1>2 DEF IngestCore, LoadedChannels, EndsWithNothing, configVars
<1>7. EventsOnce'
  BY <1>0, <1>1, <1>2 DEF IngestCore, EventsOnce, EndsWithNothing, EventOf, Sends
<1>8. ASSUME NEW s \in Request \ {r} PROVE AlertReference(s)' = AlertReference(s)
  BY <1>0, <1>1 DEF AlertReference, IncidentOf, Sends
<1>9. \A a \in alerts : Reference(a)' = Reference(a)
  BY <1>0 DEF Reference, IncidentOf, Sends
<1>10. RowsHaveAlerts'
  <2>1. ASSUME NEW d \in inserted'
        PROVE  \E s \in Request :
                 /\ Notifies(s)' /\ d.alert = tx'[s].id
                 /\ d.key = AlertDedupeKey(AlertReference(s)', d.rule, d.endpoint)
    <3>1. d \in inserted /\ d.alert # tx[r].id
      BY DEF EndsWithNothing
    <3>2. PICK s \in Request :
            /\ Notifies(s) /\ d.alert = tx[s].id
            /\ d.key = AlertDedupeKey(AlertReference(s), d.rule, d.endpoint)
      BY <3>1 DEF IngestCore, RowsHaveAlerts
    <3>3. s # r
      BY <3>1, <3>2
    <3> QED
      BY <1>1, <1>2, <1>8, <3>2, <3>3
  <2> QED
    BY <1>9, <2>1 DEF IngestCore, RowsHaveAlerts, EndsWithNothing, AlertDedupeKey
<1>11. KeysOnce'
  BY <1>1 DEF IngestCore, KeysOnce, EndsWithNothing
<1>12. LoadedHaveKeys'
  <2>1. ASSUME NEW s \in Request, Opened(s)', NEW key, KeyStored(s, key)
        PROVE  KeyStored(s, key)'
    <3>1. s # r /\ Opened(s) /\ Opened(r) /\ tx'[s] = tx[s]
      BY <1>1, <1>2, <2>1 DEF EndsWithNothing
    <3>2. tx[s].id # tx[r].id
      BY <3>1, IdsDiffer
    <3> QED
      BY <2>1, <3>1, <3>2 DEF EndsWithNothing, KeyStored, Own
  <2>2. ASSUME NEW s \in Request, Opened(s)', NEW x \in tx'[s].loaded
        PROVE  \/ \E c \in tx'[s].routes : c.rule = x.rule /\ c.endpoint = x.endpoint
               \/ KeyStored(s, AlertDedupeKey(AlertReference(s), x.rule, x.endpoint))'
    <3>1. s # r /\ Opened(s) /\ tx'[s] = tx[s] /\ AlertReference(s)' = AlertReference(s)
      BY <1>1, <1>2, <1>8, <2>2
    <3>2. \/ \E c \in tx[s].routes : c.rule = x.rule /\ c.endpoint = x.endpoint
          \/ KeyStored(s, AlertDedupeKey(AlertReference(s), x.rule, x.endpoint))
      BY <2>2, <3>1 DEF IngestCore, LoadedHaveKeys
    <3> QED
      BY <2>1, <2>2, <3>1, <3>2 DEF AlertDedupeKey
  <2> QED
    BY SMTT(60), <1>9, <2>2 DEF IngestCore, LoadedHaveKeys, EndsWithNothing, AlertDedupeKey
<1> QED
  BY <1>3, <1>4, <1>5, <1>6, <1>7, <1>10, <1>11, <1>12 DEF IngestCore

-----------------------------------------------------------------------------
(* The statements of a transaction *)

\* What a request names is one to five storageKeys.
LEMMA EvidenceIsShort ==
  ASSUME ConfigInv, NEW r \in DOMAIN Plan.sends
  PROVE  EvidenceOf(r) \in Seq(Nat) /\ Len(EvidenceOf(r)) \in 1..5
<1>1. EvidenceOf(r) \in EvidenceLists
  BY Zenon, GatewayAssumption DEF ConfigInv, EvidenceOf, Sends, Plan
<1> QED
  BY <1>1 DEF EvidenceLists

\* The statements up to the SELECT of the rules change only the transaction.
Storing(r, t) ==
  /\ tx'[r] = t /\ GoesOn(r, t) /\ ~Notifies(r)
  /\ UNCHANGED <<alerts, deliveries, inserted>>
  /\ t.at = tx[r].at /\ t.locks = tx[r].locks
  /\ t.routes = {} /\ t.loaded = {} /\ tx[r].rules = {}
  /\ \/ t.phase = "evidence" /\ t.rules = {}
     \/ t.phase = "rules" /\ t.rules = MatchingRules(r)

LEMMA MatchingTypes ==
  ASSUME IInv, NEW r
  PROVE  /\ \A x \in MatchingRules(r) :
              /\ x \in [rule : Rule, cooldown : 0..MaxCooldownSeconds]
              /\ rules[x.rule] # Unborn /\ rules[x.rule].cooldownSeconds = x.cooldown
         /\ \A x, y \in MatchingRules(r) : x.rule = y.rule => x = y
<1>1. ASSUME NEW u \in StoredRules
      PROVE  /\ u \in Rule /\ rules[u] # Unborn
             /\ rules[u].cooldownSeconds \in 0..MaxCooldownSeconds
  <2>1. u \in Rule /\ rules[u] \in RuleRow /\ rules[u] # Unborn
    BY DEF IInv, ConfigCore, ConfigInv, StoredRules, Exists
  <2> QED
    BY <2>1 DEF RuleRow
<1> QED
  BY <1>1 DEF MatchingRules

LEMMA StoringGoesOn ==
  ASSUME IInv, NEW r \in Request, StoreAlert(r) \/ StoreEvidence(r)
  PROVE  \E t : Storing(r, t)
<1>1. tx[r].phase \in {"alert", "evidence"}
  BY DEF StoreAlert, StoreEvidence, Runs
<1>2. /\ OpenTx(r, tx[r]) /\ Opened(r) /\ ~Notifies(r) /\ DOMAIN tx = Request
      /\ tx[r].rules = {} /\ tx[r].loaded = {} /\ tx[r].routes = {}
  BY <1>1, IdleOrOpen DEF IInv, IngestTypes, Opened, Phases, Notifies, OpenTx
<1>3. Len(EvidenceOf(r)) \in Nat /\ tx[r].stored \in Nat /\ tx[r].stored < Len(EvidenceOf(r))
  BY <1>1, <1>2, EvidenceIsShort DEF IInv, ConfigCore, OpenTx
<1>4. CASE StoreAlert(r)
  <2> DEFINE t == [tx[r] EXCEPT !.phase = "evidence"]
  <2>1. Go(r, t) /\ UNCHANGED <<Kept, inserted, tries, answers, failures>>
    BY <1>4 DEF StoreAlert
  <2>2. /\ DOMAIN t = DOMAIN tx[r] /\ t.id = tx[r].id /\ t.at = tx[r].at /\ t.phase = "evidence"
        /\ t.rules = tx[r].rules /\ t.routes = tx[r].routes /\ t.locks = tx[r].locks
        /\ t.loaded = tx[r].loaded /\ t.stored = tx[r].stored
    BY <1>2 DEF OpenTx
  <2> HIDE DEF t
  <2>3. OpenTx(r, t)
    BY <1>2, <1>3, <2>2 DEF OpenTx, Phases
  <2>4. GoesOn(r, t) /\ tx'[r] = t
    BY <1>2, <2>1, <2>2, <2>3 DEF GoesOn, Go, Kept
  <2> QED
    BY <1>2, <2>1, <2>2, <2>4 DEF Storing, Kept
<1>5. CASE StoreEvidence(r)
  <2>1. PICK stored : stored = tx[r].stored + 1
    OBVIOUS
  <2>2. PICK phase : phase = IF stored = Len(EvidenceOf(r)) THEN "rules" ELSE "evidence"
    OBVIOUS
  <2>3. PICK matching : matching = IF stored = Len(EvidenceOf(r)) THEN MatchingRules(r) ELSE {}
    OBVIOUS
  <2> DEFINE t == [tx[r] EXCEPT !.stored = stored, !.phase = phase, !.rules = matching]
  <2>4. Go(r, t) /\ UNCHANGED <<Kept, inserted, tries, answers, failures>>
    BY <1>5, <2>1, <2>2, <2>3, Zenon DEF StoreEvidence
  <2>5. /\ DOMAIN t = DOMAIN tx[r] /\ t.id = tx[r].id /\ t.at = tx[r].at /\ t.phase = phase
        /\ t.rules = matching /\ t.routes = tx[r].routes /\ t.locks = tx[r].locks
        /\ t.loaded = tx[r].loaded /\ t.stored = stored
    BY <1>2 DEF OpenTx
  <2> HIDE DEF t
  <2>6. /\ stored \in Nat /\ phase \in {"evidence", "rules"}
        /\ phase = "evidence" => stored < Len(EvidenceOf(r)) /\ matching = {}
        /\ phase = "rules" => matching = MatchingRules(r)
    BY <1>3, <2>1, <2>2, <2>3
  <2>7. \A x \in matching : x \in [rule : Rule, cooldown : 0..MaxCooldownSeconds]
    BY <2>6, MatchingTypes
  <2>8. OpenTx(r, t)
    BY <1>2, <2>5, <2>6, <2>7 DEF OpenTx, Phases
  <2>9. GoesOn(r, t) /\ tx'[r] = t
    BY <1>2, <2>4, <2>5, <2>6, <2>8 DEF GoesOn, Go, Kept
  <2> QED
    BY <1>2, <2>4, <2>5, <2>6, <2>9 DEF Storing, Kept
<1> QED
  BY <1>4, <1>5

LEMMA StoringKeepsInv ==
  ASSUME IInv, NEW r \in Request, StoreAlert(r) \/ StoreEvidence(r)
  PROVE  IInv'
<1>1. PICK t : Storing(r, t)
  BY StoringGoesOn
<1>2. \/ HasAlert(r)
      \/ /\ \A a \in alerts : EventOf(a.request) # EventOf(r)
         /\ \A s \in Request \ {r} : HasAlert(s) => EventOf(s) # EventOf(r)
  <2>1. CASE StoreAlert(r)
    BY <2>1 DEF StoreAlert, Runs, WaitsFor, Holds, HasAlert
  <2>2. CASE StoreEvidence(r)
    BY <2>2 DEF StoreEvidence, Runs, HasAlert
  <2> QED
    BY <2>1, <2>2
<1> QED
  BY <1>1, <1>2, GoingOnKeepsInv DEF Storing

LEMMA OpenRuleKeepsInv ==
  ASSUME IInv, NEW r \in Request, OpenRule(r)
  PROVE  IInv'
<1>1. PICK spec : spec = First(tx[r].rules)
  OBVIOUS
<1>2. PICK routes : routes = IF CooldownSuppresses(r, spec) THEN {} ELSE Usable(spec.rule)
  OBVIOUS
<1>3a. PICK top : top = IF routes = {} THEN tx[r].top ELSE MinPriority(r, routes)
  OBVIOUS
<1>3b. PICK locks : locks = IF TakesCooldownLock(r, spec)
                            THEN tx[r].locks \cup {Fingerprint(r, spec.rule)} ELSE tx[r].locks
  OBVIOUS
<1>4. PICK phase : phase = IF routes = {} THEN "rules" ELSE "routes"
  OBVIOUS
<1> DEFINE loaded == {[rule |-> c.rule, endpoint |-> c.endpoint] : c \in routes}
           t == [tx[r] EXCEPT !.phase = phase, !.rules = @ \ {spec}, !.routes = routes,
                              !.top = top, !.locks = locks, !.loaded = @ \cup loaded]
<1>5. /\ tx[r].phase = "rules" /\ Go(r, t)
      /\ UNCHANGED <<Kept, inserted, tries, answers, failures>>
  BY <1>1, <1>2, <1>3a, <1>3b, <1>4 DEF OpenRule, Runs
<1>6. OpenTx(r, tx[r]) /\ Opened(r) /\ HasAlert(r) /\ Notifies(r)
  BY <1>5, IdleOrOpen DEF IInv, Opened, Phases, HasAlert, Notifies
<1>7. routes \subseteq channels /\ routes \subseteq ChannelRow
  BY <1>2 DEF Usable, IInv, ConfigCore, ConfigInv
<1>8. \A x \in loaded : x \in [rule : Rule, endpoint : Endpoint]
  BY <1>7 DEF ChannelRow
<1>9. \A x \in loaded : \E c \in routes : c.rule = x.rule /\ c.endpoint = x.endpoint
  OBVIOUS
<1> HIDE DEF loaded
<1>10. /\ DOMAIN t = DOMAIN tx[r] /\ t.id = tx[r].id /\ t.at = tx[r].at
       /\ t.stored = tx[r].stored
       /\ t.phase = phase /\ t.rules = tx[r].rules \ {spec} /\ t.routes = routes
       /\ t.loaded = tx[r].loaded \cup loaded
  BY <1>6 DEF OpenTx
<1> HIDE DEF t
<1>11. OpenTx(r, t)
  BY <1>4, <1>6, <1>7, <1>8, <1>10 DEF OpenTx, Phases
<1>12. GoesOn(r, t)
  BY <1>4, <1>5, <1>6, <1>10, <1>11 DEF GoesOn, Kept
<1>13. tx[r].routes = {}
  BY <1>5, <1>6 DEF OpenTx
<1>14. ASSUME NEW x \in t.loaded
       PROVE  \/ \E c \in t.routes : c.rule = x.rule /\ c.endpoint = x.endpoint
              \/ KeyStored(r, AlertDedupeKey(AlertReference(r), x.rule, x.endpoint))
  <2>1. CASE x \in loaded
    BY <1>9, <1>10, <2>1
  <2>2. CASE x \in tx[r].loaded
    BY <1>6, <1>13, <2>2 DEF IInv, IngestCore, LoadedHaveKeys
  <2> QED
    BY <1>10, <1>14, <2>1, <2>2
<1> QED
  BY <1>5, <1>6, <1>7, <1>10, <1>12, <1>14, GoingOnKeepsInv

LEMMA InsertRouteKeepsInv ==
  ASSUME IInv, NEW r \in Request, InsertRoute(r)
  PROVE  IInv'
<1>1. PICK c \in NextRoute(r, tx[r].routes) :
        LET key == AlertDedupeKey(AlertReference(r), c.rule, c.endpoint)
        IN  /\ KeyStored(r, key) \/ c.id \in {x.id : x \in channels}
            /\ inserted' = IF KeyStored(r, key) THEN inserted
                 ELSE inserted \cup
                   {[alert |-> tx[r].id, rule |-> c.rule, endpoint |-> c.endpoint,
                     channel |-> c.id, key |-> key, createdAt |-> tx[r].at,
                     status |-> IF c.priority = tx[r].top THEN "PENDING" ELSE "WAITING_FALLBACK"]}
            /\ Advance(r, c)
  BY Zenon DEF InsertRoute
<1>2. PICK key : key = AlertDedupeKey(AlertReference(r), c.rule, c.endpoint)
  OBVIOUS
<1>3. PICK status \in {"PENDING", "WAITING_FALLBACK"} :
        status = IF c.priority = tx[r].top THEN "PENDING" ELSE "WAITING_FALLBACK"
  OBVIOUS
<1> DEFINE left == tx[r].routes \ {c}
<1>4. PICK phase : phase = IF left = {} THEN "rules" ELSE "routes"
  OBVIOUS
<1> DEFINE t == [tx[r] EXCEPT !.routes = left, !.phase = phase]
           row == [alert |-> tx[r].id, rule |-> c.rule, endpoint |-> c.endpoint,
                   channel |-> c.id, key |-> key, createdAt |-> tx[r].at, status |-> status]
<1>5. /\ KeyStored(r, key) \/ c.id \in {x.id : x \in channels}
      /\ inserted' = IF KeyStored(r, key) THEN inserted ELSE inserted \cup {row}
      /\ Go(r, t)
  BY <1>1, <1>2, <1>3, <1>4 DEF Advance
<1>6. /\ tx[r].phase = "routes" /\ WaitsFor(r) = {}
      /\ UNCHANGED <<Kept, tries, answers, failures>>
  BY DEF InsertRoute, Runs
<1>7. OpenTx(r, tx[r]) /\ Opened(r) /\ HasAlert(r) /\ Notifies(r)
  BY <1>6, IdleOrOpen DEF IInv, Opened, Phases, HasAlert, Notifies
<1>8. c \in tx[r].routes /\ c \in ChannelRow
  BY <1>7 DEF NextRoute, OpenTx
<1>9. /\ DOMAIN t = DOMAIN tx[r] /\ t.id = tx[r].id /\ t.at = tx[r].at /\ t.rules = tx[r].rules
      /\ t.stored = tx[r].stored
      /\ t.phase = phase /\ t.routes = left /\ t.loaded = tx[r].loaded
  BY <1>7 DEF OpenTx
<1>10. /\ row.alert = tx[r].id /\ row.rule = c.rule /\ row.endpoint = c.endpoint
       /\ row.channel = c.id /\ row.key = key /\ row.createdAt = tx[r].at /\ row.status = status
  OBVIOUS
<1> HIDE DEF t, row
<1>11. OpenTx(r, t)
  BY <1>4, <1>7, <1>9 DEF OpenTx, Phases
<1>12. GoesOn(r, t)
  BY <1>4, <1>5, <1>6, <1>7, <1>9, <1>11 DEF GoesOn, Kept
<1>13. ASSUME NEW d \in inserted' \ inserted
       PROVE  d = row /\ ~KeyStored(r, key)
  BY <1>5
<1>14. ~KeyStored(r, key) => Fresh(r, t, row)
  <2>1. SUFFICES ASSUME ~KeyStored(r, key) PROVE Fresh(r, t, row)
    OBVIOUS
  <2>2. PICK x \in channels : x.id = c.id
    BY <1>5, <2>1
  <2>3. x.rule = c.rule /\ x.endpoint = c.endpoint
    BY <1>7, <1>8, <2>2 DEF IInv, IngestCore, LoadedChannels
  <2>4. x.rule \in StoredRules /\ x.endpoint \in StoredEndpoints
    BY DEF IInv, ConfigCore, ConfigInv
  <2>5. tx[r].at \in 0..now
    BY <1>7 DEF OpenTx
  <2> QED
    BY <1>2, <1>4, <1>9, <1>10, <2>2, <2>3, <2>4, <2>5 DEF Fresh
<1>15. ASSUME NEW d \in deliveries \cup inserted, ~KeyStored(r, key)
       PROVE  d.key # key
  <2>1. SUFFICES ASSUME d.key = key PROVE FALSE
    OBVIOUS
  <2>2. d \in inserted /\ d.alert # tx[r].id
    BY <1>15, <2>1 DEF KeyStored, Own
  <2>3. PICK s \in Request : Notifies(s) /\ d.alert = tx[s].id
    BY <2>2 DEF IInv, IngestCore, RowsHaveAlerts
  <2>4. s \in WaitsFor(r)
    BY <1>2, <1>6, <2>1, <2>2, <2>3 DEF WaitsFor, Holds, Notifies
  <2> QED
    BY <1>6, <2>4
<1>16. ASSUME NEW x \in t.loaded
       PROVE  \/ \E b \in t.routes : b.rule = x.rule /\ b.endpoint = x.endpoint
              \/ KeyStored(r, AlertDedupeKey(AlertReference(r), x.rule, x.endpoint))
              \/ \E d \in inserted' \ inserted : d.rule = x.rule /\ d.endpoint = x.endpoint
  <2>1. CASE KeyStored(r, AlertDedupeKey(AlertReference(r), x.rule, x.endpoint))
    BY <2>1
  <2>2. CASE \E b \in tx[r].routes : b.rule = x.rule /\ b.endpoint = x.endpoint
    <3>1. PICK b \in tx[r].routes : b.rule = x.rule /\ b.endpoint = x.endpoint
      BY <2>2
    <3>2. CASE b # c
      BY <1>9, <3>1, <3>2
    <3>3. CASE b = c /\ KeyStored(r, key)
      BY <1>2, <3>1, <3>3
    <3>4. CASE b = c /\ ~KeyStored(r, key)
      <4>1. row \in inserted' \ inserted
        BY <1>5, <1>10, <1>15, <3>4
      <4> QED
        BY <1>10, <3>1, <3>4, <4>1
    <3> QED
      BY <3>2, <3>3, <3>4
  <2> QED
    BY <1>7, <1>9, <2>1, <2>2 DEF IInv, IngestCore, LoadedHaveKeys
<1>17. \A d \in inserted' \ inserted : Fresh(r, t, d)
  BY <1>13, <1>14
<1>18. \A b \in deliveries \cup inserted, d \in inserted' \ inserted : b.key # d.key
  BY <1>10, <1>13, <1>15
<1>19. \A b, d \in inserted' \ inserted : b = d
  BY <1>13
<1>20. \A b \in t.routes : b \in tx[r].routes
  BY <1>9
<1> QED
  BY <1>7, <1>12, <1>16, <1>17, <1>18, <1>19, <1>20, GoingOnKeepsInv

LEMMA AnsweredEndKeepsInv ==
  ASSUME IInv, NEW r \in Request, Opened(r), RollBack(r), UNCHANGED <<Kept, tries>>,
         failures' \in 0..Plan.faults,
         \A x \in answers' \ answers : x.code \in {200, 201} =>
           /\ \E a \in alerts : a.id = x.alert /\ Repeats(x.request, a)
           /\ x.routes = {<<d.rule, d.endpoint>> : d \in {y \in deliveries : y.alert = x.alert}}
  PROVE  IInv'
<1>1. EndsWithNothing(r)
  BY RollBackEnds
<1>2. ConfigCore' /\ IngestTypes' /\ IngestCore'
  BY <1>1, EndKeepsInv
<1>3. AnswersAgree'
  BY AnswersKept DEF Kept, configVars
<1> QED
  BY <1>2, <1>3 DEF IInv

\* What is answered out of a transaction that ends with nothing.
LEMMA AnswerRow ==
  ASSUME NEW r, NEW code, NEW id, Answer(r, code, id), NEW x \in answers' \ answers
  PROVE  /\ x.request = r /\ x.code = code /\ x.alert = id
         /\ x.routes = {<<d.rule, d.endpoint>> : d \in {y \in deliveries : y.alert = id}}
<1>1. PICK routes : routes = {<<d.rule, d.endpoint>> : d \in {y \in deliveries : y.alert = id}}
  OBVIOUS
<1>2. x = [request |-> r, code |-> code, alert |-> id, routes |-> routes]
  BY <1>1 DEF Answer
<1> QED
  BY <1>1, <1>2

LEMMA ReplayKeepsInv ==
  ASSUME IInv, NEW r \in Request, Replay(r)
  PROVE  IInv'
<1>1. PICK a \in alerts :
        /\ EventOf(a.request) = EventOf(r)
        /\ IF StoreOf(a.request) # StoreOf(r) THEN Answer(r, 409, <<>>) ELSE Answer(r, 200, a.id)
  BY DEF Replay
<1>2. Opened(r) /\ RollBack(r) /\ UNCHANGED <<Kept, tries, failures>>
  BY DEF Replay, Runs, Opened, Phases
<1>3. ASSUME NEW x \in answers' \ answers, x.code \in {200, 201}
      PROVE  /\ \E b \in alerts : b.id = x.alert /\ Repeats(x.request, b)
             /\ x.routes = {<<d.rule, d.endpoint>> : d \in {y \in deliveries : y.alert = x.alert}}
  <2>1. StoreOf(a.request) = StoreOf(r) /\ Answer(r, 200, a.id)
    BY <1>1, <1>3, AnswerRow
  <2>2. x.request = r /\ x.alert = a.id
        /\ x.routes = {<<d.rule, d.endpoint>> : d \in {y \in deliveries : y.alert = a.id}}
    BY <2>1, AnswerRow
  <2> QED
    BY <1>1, <2>1, <2>2 DEF Repeats
<1>4. failures' \in 0..Plan.faults
  BY <1>2 DEF IInv, IngestTypes
<1> QED
  BY <1>2, <1>3, <1>4, AnsweredEndKeepsInv

LEMMA RefusalKeepsInv ==
  ASSUME IInv, NEW r \in Request, EvidenceConflict(r) \/ RouteGone(r) \/ AbortVictim(r)
  PROVE  IInv'
<1>1. Opened(r)
  <2>1. CASE EvidenceConflict(r) \/ RouteGone(r)
    BY <2>1 DEF EvidenceConflict, RouteGone, Runs, Opened, Phases
  <2>2. CASE AbortVictim(r)
    BY <2>2, IdleOrOpen DEF AbortVictim, Deadlocked, IInv
  <2> QED
    BY <2>1, <2>2
<1>2. /\ RollBack(r) /\ UNCHANGED <<Kept, tries, failures>>
      /\ Answer(r, 409, <<>>) \/ Answer(r, 500, <<>>)
  BY DEF EvidenceConflict, RouteGone, AbortVictim
<1>3. \A x \in answers' \ answers : x.code \notin {200, 201}
  BY <1>2, AnswerRow
<1>4. failures' \in 0..Plan.faults
  BY <1>2 DEF IInv, IngestTypes
<1> QED
  BY <1>1, <1>2, <1>3, <1>4, AnsweredEndKeepsInv

LEMMA FaultKeepsInv ==
  ASSUME IInv, NEW r \in Request, FailIngest(r)
  PROVE  IInv'
<1>1. Opened(r) /\ RollBack(r) /\ UNCHANGED <<Kept, tries, answers>>
  BY IdleOrOpen DEF FailIngest, IInv
<1>2. failures' \in 0..Plan.faults
  BY PlanHolds DEF FailIngest, IInv, IngestTypes, ConfigCore, ConfigInv
<1> QED
  BY <1>1, <1>2, AnsweredEndKeepsInv

LEMMA BeginKeepsInv ==
  ASSUME IInv, NEW r \in Request, Begin(r)
  PROVE  IInv'
<1> USE DEF IInv
<1>0. DOMAIN tx = Request /\ Plan' = Plan /\ Plan.tries \in Nat /\ tries \in [Request -> 0..Plan.tries]
      /\ now \in Nat
  BY PlanHolds DEF IngestTypes, Begin, Kept, configVars, Plan, ConfigCore, ConfigInv
<1>a. PICK t : t = [phase |-> "alert", id |-> <<r, tries[r]>>, at |-> now, stored |-> 0,
                    rules |-> {}, routes |-> {}, top |-> 0, locks |-> {}, loaded |-> {}]
  OBVIOUS
<1>b. /\ DOMAIN t = {"phase", "id", "at", "stored", "rules", "routes", "top", "locks", "loaded"}
      /\ t.phase = "alert" /\ t.id = <<r, tries[r]>> /\ t.at = now /\ t.rules = {}
      /\ t.stored = 0 /\ t.routes = {} /\ t.loaded = {}
  BY <1>a
<1>1. /\ tx[r] = Idle /\ r \in DOMAIN Plan.sends /\ tries[r] < Plan.tries
      /\ tries' = [tries EXCEPT ![r] = @ + 1]
      /\ UNCHANGED <<Kept, inserted, failures>>
      /\ \/ Go(r, t) /\ answers' = answers
         \/ Answer(r, 404, <<>>) /\ tx' = tx
  BY <1>a DEF Begin
<1>2. /\ tries' \in [Request -> 0..Plan.tries]
      /\ \A s \in Request : tries[s] \in Nat
      /\ \A s \in Request : 0..(tries[s] - 1) \subseteq 0..(tries'[s] - 1)
      /\ tries[r] \in 0..(tries'[r] - 1)
  BY <1>0, <1>1
<1>c. Len(EvidenceOf(r)) \in Nat /\ 0 < Len(EvidenceOf(r))
  <2>1. ConfigInv /\ r \in DOMAIN Plan.sends
    BY <1>1 DEF ConfigCore
  <2>2. Len(EvidenceOf(r)) \in 1..5
    BY <2>1, EvidenceIsShort
  <2> QED
    BY <2>2
<1>3. ASSUME NEW s \in Request
      PROVE  \/ tx'[s] = tx[s]
             \/ s = r /\ tx'[s] = t /\ tx'[s].phase = "alert" /\ tx'[s].routes = {}
                /\ tx'[s].loaded = {} /\ tx'[s].id = <<r, tries[r]>> /\ ~Opened(r)
  BY <1>0, <1>1, <1>b DEF Go, Opened, Idle, Phases
<1>4. ASSUME NEW s \in Request
      PROVE  /\ HasAlert(s)' <=> HasAlert(s)
             /\ Notifies(s)' <=> Notifies(s)
             /\ Opened(s)' => tx'[s] = tx[s] \/ (s = r /\ tx'[s] = t)
             /\ Opened(s) => tx'[s] = tx[s]
             /\ HasAlert(s) \/ Notifies(s) => Opened(s)
  <2>1. CASE tx'[s] = tx[s]
    BY <2>1 DEF HasAlert, Notifies, Opened, Phases
  <2>2. CASE s = r /\ tx'[s].phase = "alert" /\ tx'[s] = t
    BY <1>1, <2>2 DEF HasAlert, Notifies, Opened, Phases, Idle
  <2> QED
    BY <1>3, <2>1, <2>2
<1>5. ConfigCore'
  BY <1>1, ConfigKept DEF Kept
<1>6. IngestTypes'
  <2>1. ASSUME NEW s \in Request
        PROVE  (tx[s] = Idle \/ OpenTx(s, tx[s]))'
    <3>1. OpenTx(r, t)'
      BY <1>0, <1>1, <1>2, <1>b, <1>c DEF OpenTx, EvidenceOf, Sends, Phases, Kept
    <3>2. CASE tx'[s] = tx[s]
      <4>1. PICK u : u = tx'[s]
        OBVIOUS
      <4>2. u = Idle \/ OpenTx(s, u)
        BY <3>2, <4>1 DEF IngestTypes
      <4>3. Idle' = Idle
        BY DEF Idle
      <4>4. CASE OpenTx(s, u)
        <5>1. \E n \in 0..(tries'[s] - 1) : u.id = <<s, n>>
          BY <1>2, <4>4 DEF OpenTx
        <5> QED
          BY <1>0, <1>1, <4>1, <4>4, <5>1 DEF OpenTx, EvidenceOf, Sends, Kept
      <4> QED
        BY <4>1, <4>2, <4>3, <4>4
    <3>3. CASE s = r /\ tx'[s] = t
      BY <3>1, <3>3 DEF OpenTx
    <3> QED
      BY <1>3, <3>2, <3>3
  <2>2. \A a \in alerts : StoredAlert(a)'
    <3>1. ASSUME NEW a \in alerts PROVE StoredAlert(a)'
      <4>1. a.request \in Request \cap DOMAIN Plan.sends
        BY DEF IngestTypes, StoredAlert
      <4>2. \E n \in 0..(tries'[a.request] - 1) : a.id = <<a.request, n>>
        BY <1>2, <4>1 DEF IngestTypes, StoredAlert
      <4> QED
        BY <1>0, <4>1, <4>2 DEF StoredAlert
    <3> QED
      BY <3>1
  <2>3. DOMAIN tx' = Request
    BY <1>0, <1>1 DEF Go
  <2> QED
    BY <1>0, <1>1, <1>2, <2>1, <2>2, <2>3 DEF IngestTypes, Kept
<1>7. ForeignKeys' /\ KeysOnce'
  BY <1>1 DEF IngestCore, ForeignKeys, KeysOnce, Kept, configVars, StoredEndpoints, StoredRules
<1>8. LoadedChannels'
  <2>1. ASSUME NEW s \in Request, Opened(s)', NEW c \in tx'[s].routes
        PROVE  Opened(s) /\ c \in tx[s].routes
    BY <1>3, <2>1 DEF Opened
  <2> QED
    BY <1>0, <1>1, <2>1 DEF IngestCore, LoadedChannels, Kept, configVars
<1>9. EventsOnce'
  <2>1. ASSUME NEW s \in Request, NEW a \in alerts, Opened(s)'
        PROVE  tx'[s].id # a.id
    <3>1. CASE tx'[s] = tx[s]
      BY <2>1, <3>1 DEF IngestCore, EventsOnce, Opened
    <3>2. CASE s = r /\ tx'[s].id = <<r, tries[r]>>
      <4>1. a.request \in Request
        BY DEF IngestTypes, StoredAlert
      <4>2. PICK n \in 0..(tries[a.request] - 1) : a.id = <<a.request, n>>
        BY DEF IngestTypes, StoredAlert
      <4>3. tries[r] \in Nat
        BY <1>2
      <4>4. CASE a.request = r
        <5>1. n # tries[r]
          BY <4>2, <4>3, <4>4
        <5> QED
          BY <3>2, <4>2, <4>4, <5>1
      <4>5. CASE a.request # r
        BY <3>2, <4>2, <4>5
      <4> QED
        BY <4>4, <4>5
    <3> QED
      BY <1>3, <3>1, <3>2
  <2> QED
    BY <1>0, <1>1, <1>4, <2>1 DEF IngestCore, EventsOnce, EventOf, Sends, Kept
<1>10. ASSUME NEW s \in Request, Opened(s) PROVE AlertReference(s)' = AlertReference(s)
  BY <1>0, <1>4, <1>10 DEF AlertReference, IncidentOf, Sends
<1>11. \A a \in alerts : Reference(a)' = Reference(a)
  BY <1>0 DEF Reference, IncidentOf, Sends
<1>12. RowsHaveAlerts'
  <2>1. ASSUME NEW d \in inserted
        PROVE  \E s \in Request :
                 /\ Notifies(s)' /\ d.alert = tx'[s].id
                 /\ d.key = AlertDedupeKey(AlertReference(s)', d.rule, d.endpoint)
    <3>1. PICK s \in Request :
            /\ Notifies(s) /\ d.alert = tx[s].id
            /\ d.key = AlertDedupeKey(AlertReference(s), d.rule, d.endpoint)
      BY DEF IngestCore, RowsHaveAlerts
    <3>2. tx'[s] = tx[s] /\ Opened(s)
      BY <1>4, <3>1
    <3> QED
      BY <1>4, <1>10, <3>1, <3>2
  <2> QED
    BY <1>1, <1>11, <2>1 DEF IngestCore, RowsHaveAlerts, Kept, AlertDedupeKey
<1>13. LoadedHaveKeys'
  <2>1. ASSUME NEW s \in Request, Opened(s)', NEW x \in tx'[s].loaded
        PROVE  \/ \E c \in tx'[s].routes : c.rule = x.rule /\ c.endpoint = x.endpoint
               \/ KeyStored(s, AlertDedupeKey(AlertReference(s), x.rule, x.endpoint))'
    <3>1. Opened(s) /\ tx'[s] = tx[s]
      BY <1>3, <2>1 DEF Opened
    <3>2. \/ \E c \in tx[s].routes : c.rule = x.rule /\ c.endpoint = x.endpoint
          \/ KeyStored(s, AlertDedupeKey(AlertReference(s), x.rule, x.endpoint))
      BY <2>1, <3>1 DEF IngestCore, LoadedHaveKeys
    <3> QED
      BY <1>1, <1>10, <3>1, <3>2 DEF KeyStored, Own, AlertDedupeKey, Kept
  <2> QED
    BY <1>1, <1>11, <2>1 DEF IngestCore, LoadedHaveKeys, Kept, AlertDedupeKey
<1>14. AnswersAgree'
  <2>1. \A x \in answers' \ answers : x.code \notin {200, 201}
    BY <1>1, AnswerRow
  <2> QED
    BY <1>1, <2>1, AnswersKept DEF Kept, configVars
<1> QED
  BY <1>5, <1>6, <1>7, <1>8, <1>9, <1>12, <1>13, <1>14 DEF IngestCore

LEMMA CommitKeepsInv ==
  ASSUME IInv, NEW r \in Request, Commit(r)
  PROVE  IInv'
<1> USE DEF IInv
<1>0. DOMAIN tx = Request /\ Plan' = Plan
  BY DEF IngestTypes, Commit, configVars, Plan
<1>1. PICK a0 : a0 = [id |-> tx[r].id, request |-> r, loaded |-> tx[r].loaded]
  OBVIOUS
<1>2. a0.id = tx[r].id /\ a0.request = r /\ a0.loaded = tx[r].loaded
  BY <1>1
<1>3. /\ tx[r].phase = "rules" /\ Go(r, Idle)
      /\ alerts' = alerts \cup {a0} /\ deliveries' = deliveries \cup Own(r)
      /\ inserted' = {d \in inserted : d.alert # tx[r].id}
      /\ answers' = answers \cup {[request |-> r, code |-> 201, alert |-> tx[r].id,
                                   routes |-> {<<d.rule, d.endpoint>> : d \in Own(r)}]}
      /\ UNCHANGED <<configVars, cameras, now, tries, failures>>
  BY <1>1 DEF Commit, Close
<1>4. OpenTx(r, tx[r]) /\ Opened(r) /\ HasAlert(r) /\ Notifies(r)
  BY <1>3, IdleOrOpen DEF Opened, Phases, HasAlert, Notifies
<1>5. /\ tx'[r] = Idle
      /\ \A s \in Request \ {r} : tx'[s] = tx[s]
  BY <1>0, <1>3 DEF Go
<1>6. ASSUME NEW s \in Request
      PROVE  /\ Opened(s)' => Opened(s) /\ s # r
             /\ HasAlert(s)' => HasAlert(s) /\ s # r
             /\ Notifies(s) /\ s # r => Notifies(s)'
  BY <1>5 DEF Opened, HasAlert, Notifies, Phases, Idle
<1>7. deliveries' \cup inserted' = deliveries \cup inserted
      /\ deliveries \subseteq deliveries' /\ inserted' \subseteq inserted
  BY <1>3 DEF Own
<1>8. \A a \in alerts : a.id # tx[r].id
  BY <1>4 DEF IngestCore, EventsOnce
<1>9. ConfigCore'
  BY <1>3, ConfigKept
<1>10. IngestTypes'
  <2>1. ASSUME NEW s \in Request
        PROVE  (tx[s] = Idle \/ OpenTx(s, tx[s]))'
    <3>1. PICK u : u = tx'[s]
      OBVIOUS
    <3>2. u = Idle \/ OpenTx(s, u)
      BY <1>5, <3>1 DEF IngestTypes
    <3>3. Idle' = Idle
      BY DEF Idle
    <3> QED
      BY <1>0, <1>3, <3>1, <3>2, <3>3 DEF OpenTx, EvidenceOf, Sends
  <2>2. \A a \in alerts' : StoredAlert(a)'
    <3>1. StoredAlert(a0)
      BY <1>2, <1>4 DEF OpenTx, StoredAlert
    <3> QED
      BY <1>0, <1>3, <3>1 DEF IngestTypes, StoredAlert
  <2>3. DOMAIN tx' = Request
    BY <1>0, <1>3 DEF Go
  <2>4. \A d \in deliveries' \cup inserted' :
          d.status \in {"PENDING", "WAITING_FALLBACK"} /\ d.createdAt \in 0..now'
    BY <1>3, <1>7 DEF IngestTypes
  <2> QED
    BY <1>0, <1>3, <2>1, <2>2, <2>3, <2>4 DEF IngestTypes
<1>11. ForeignKeys' /\ KeysOnce'
  <2>1. UNCHANGED <<endpoints, rules, channels>>
    BY <1>3 DEF configVars
  <2> QED
    BY <1>7, <2>1 DEF IngestCore, ForeignKeys, KeysOnce, StoredEndpoints, StoredRules
<1>12. LoadedChannels'
  BY <1>0, <1>3, <1>5, <1>6 DEF IngestCore, LoadedChannels, configVars
<1>13. EventsOnce'
  <2>1. ASSUME NEW s \in Request, Opened(s)'
        PROVE  /\ s # r /\ Opened(s) /\ tx'[s] = tx[s]
               /\ \A a \in alerts : tx'[s].id # a.id
               /\ tx'[s].id # a0.id
    <3>1. s # r /\ Opened(s) /\ tx'[s] = tx[s]
      BY <1>5, <1>6, <2>1
    <3>2. tx[s].id # tx[r].id
      BY <1>4, <3>1, IdsDiffer
    <3> QED
      BY <1>2, <3>1, <3>2 DEF IngestCore, EventsOnce
  <2>2. \A a \in alerts : EventOf(a.request) # EventOf(a0.request)
    BY <1>2, <1>4 DEF IngestCore, EventsOnce
  <2>3. ASSUME NEW s \in Request, HasAlert(s)'
        PROVE  /\ \A a \in alerts : EventOf(a.request) # EventOf(s)
               /\ EventOf(a0.request) # EventOf(s)
    BY <1>2, <1>4, <1>6, <2>3 DEF IngestCore, EventsOnce
  <2>4. ASSUME NEW q \in Request, NEW s \in Request, HasAlert(q)', HasAlert(s)',
               EventOf(q) = EventOf(s)
        PROVE  q = s
    BY <1>6, <2>4 DEF IngestCore, EventsOnce
  <2>5. \A a, b \in alerts : EventOf(a.request) = EventOf(b.request) => a = b
    BY DEF IngestCore, EventsOnce
  <2>6. \A a, b \in alerts' : EventOf(a.request) = EventOf(b.request) => a = b
    BY <1>3, <2>2, <2>5
  <2>7. \A s \in Request, a \in alerts' : HasAlert(s)' => EventOf(a.request) # EventOf(s)
    BY <1>3, <2>3
  <2>8. \A s \in Request, a \in alerts' : Opened(s)' => tx'[s].id # a.id
    BY <1>3, <2>1
  <2> QED
    BY <1>0, <2>4, <2>6, <2>7, <2>8 DEF EventsOnce, EventOf, Sends
<1>14. ASSUME NEW s \in Request \ {r} PROVE AlertReference(s)' = AlertReference(s)
  BY <1>0, <1>5 DEF AlertReference, IncidentOf, Sends
<1>15. /\ \A a : Reference(a)' = Reference(a)
       /\ Reference(a0) = AlertReference(r)
  BY <1>0, <1>2 DEF Reference, AlertReference, IncidentOf, Sends
<1>16. ASSUME NEW d \in Own(r)
       PROVE  d.alert = a0.id /\ d.key = AlertDedupeKey(AlertReference(r), d.rule, d.endpoint)
  <2>1. d \in inserted /\ d.alert = tx[r].id
    BY DEF Own
  <2>2. PICK s \in Request :
          /\ Notifies(s) /\ d.alert = tx[s].id
          /\ d.key = AlertDedupeKey(AlertReference(s), d.rule, d.endpoint)
    BY <2>1 DEF IngestCore, RowsHaveAlerts
  <2>3. s = r
    BY <1>4, <2>1, <2>2, IdsDiffer, IdleOrOpen
  <2> QED
    BY <1>2, <2>1, <2>2, <2>3
<1>17. RowsHaveAlerts'
  <2>1. ASSUME NEW d \in deliveries'
        PROVE  \E a \in alerts' :
                 d.alert = a.id /\ d.key = AlertDedupeKey(Reference(a)', d.rule, d.endpoint)
    <3>1. CASE d \in deliveries
      BY <1>3, <1>15, <3>1 DEF IngestCore, RowsHaveAlerts
    <3>2. CASE d \in Own(r)
      BY <1>3, <1>15, <1>16, <3>2
    <3> QED
      BY <1>3, <3>1, <3>2
  <2>2. ASSUME NEW d \in inserted'
        PROVE  \E s \in Request :
                 /\ Notifies(s)' /\ d.alert = tx'[s].id
                 /\ d.key = AlertDedupeKey(AlertReference(s)', d.rule, d.endpoint)
    <3>1. d \in inserted /\ d.alert # tx[r].id
      BY <1>3
    <3>2. PICK s \in Request :
            /\ Notifies(s) /\ d.alert = tx[s].id
            /\ d.key = AlertDedupeKey(AlertReference(s), d.rule, d.endpoint)
      BY <3>1 DEF IngestCore, RowsHaveAlerts
    <3>3. s # r
      BY <3>1, <3>2
    <3> QED
      BY <1>5, <1>6, <1>14, <3>2, <3>3
  <2> QED
    BY <2>1, <2>2 DEF RowsHaveAlerts, AlertDedupeKey
<1>18. LoadedHaveKeys'
  <2>1. ASSUME NEW s \in Request, Opened(s)', NEW key, KeyStored(s, key)
        PROVE  KeyStored(s, key)'
    <3>1. s # r /\ Opened(s) /\ tx'[s] = tx[s]
      BY <1>5, <1>6, <2>1
    <3>2. tx[s].id # tx[r].id
      BY <1>4, <3>1, IdsDiffer
    <3> QED
      BY <1>3, <1>7, <2>1, <3>1, <3>2 DEF KeyStored, Own
  <2>2. ASSUME NEW s \in Request, Opened(s)', NEW x \in tx'[s].loaded
        PROVE  \/ \E c \in tx'[s].routes : c.rule = x.rule /\ c.endpoint = x.endpoint
               \/ KeyStored(s, AlertDedupeKey(AlertReference(s), x.rule, x.endpoint))'
    <3>1. s # r /\ Opened(s) /\ tx'[s] = tx[s] /\ AlertReference(s)' = AlertReference(s)
      BY <1>5, <1>6, <1>14, <2>2
    <3>2. \/ \E c \in tx[s].routes : c.rule = x.rule /\ c.endpoint = x.endpoint
          \/ KeyStored(s, AlertDedupeKey(AlertReference(s), x.rule, x.endpoint))
      BY <2>2, <3>1 DEF IngestCore, LoadedHaveKeys
    <3> QED
      BY <2>1, <2>2, <3>1, <3>2 DEF AlertDedupeKey
  <2>3. ASSUME NEW a \in alerts', NEW x \in a.loaded
        PROVE  \E d \in deliveries' : d.key = AlertDedupeKey(Reference(a), x.rule, x.endpoint)
    <3>1. CASE a \in alerts
      BY <1>7, <3>1 DEF IngestCore, LoadedHaveKeys
    <3>2. CASE a = a0
      <4>1. tx[r].routes = {} /\ x \in tx[r].loaded
        BY <1>2, <1>3, <1>4, <3>2 DEF OpenTx
      <4>2. KeyStored(r, AlertDedupeKey(AlertReference(r), x.rule, x.endpoint))
        BY <1>4, <4>1 DEF IngestCore, LoadedHaveKeys
      <4> QED
        BY <1>3, <1>15, <3>2, <4>2 DEF KeyStored
    <3> QED
      BY <1>3, <3>1, <3>2
  <2> QED
    BY <1>15, <2>2, <2>3 DEF LoadedHaveKeys, AlertDedupeKey
<1>19. AnswersAgree'
  <2> DEFINE Sound(x) ==
        /\ \E a \in alerts' : a.id = x.alert /\ Repeats(x.request, a)
        /\ x.routes = {<<d.rule, d.endpoint>> : d \in {y \in deliveries' : y.alert = x.alert}}
  <2>1. ASSUME NEW x \in answers, x.code \in {200, 201}
        PROVE  Sound(x)
    <3>1. PICK a \in alerts : a.id = x.alert /\ Repeats(x.request, a)
      BY <2>1 DEF AnswersAgree
    <3>2. x.alert # tx[r].id
      BY <1>8, <3>1
    <3>3. {y \in deliveries' : y.alert = x.alert} = {y \in deliveries : y.alert = x.alert}
      BY <1>3, <3>2 DEF Own
    <3> QED
      BY <1>3, <2>1, <3>1, <3>3 DEF AnswersAgree
  <2>2. PICK routes : routes = {<<d.rule, d.endpoint>> : d \in Own(r)}
    OBVIOUS
  <2>3. PICK x0 : x0 = [request |-> r, code |-> 201, alert |-> tx[r].id, routes |-> routes]
    OBVIOUS
  <2>4. x0.request = r /\ x0.alert = tx[r].id /\ x0.routes = routes
        /\ answers' = answers \cup {x0}
    BY <1>3, <2>2, <2>3
  <2>5. Sound(x0)
    <3>1. {y \in deliveries' : y.alert = tx[r].id} = Own(r)
      <4>1. \A d \in deliveries : d.alert # tx[r].id
        BY <1>8 DEF IngestCore, RowsHaveAlerts
      <4> QED
        BY <1>3, <4>1 DEF Own
    <3>2. Repeats(r, a0)
      BY <1>2 DEF Repeats
    <3> QED
      BY <1>2, <1>3, <2>2, <2>4, <3>1, <3>2
  <2>6. ASSUME NEW x \in answers', x.code \in {200, 201}
        PROVE  Sound(x)
    BY <2>1, <2>4, <2>5, <2>6
  <2>7. ASSUME NEW x \in answers', x.code \in {200, 201},
               NEW y \in answers', y.code \in {200, 201}, EventOf(y.request) = EventOf(x.request)
        PROVE  y.alert = x.alert
    <3>1. PICK a \in alerts' : a.id = x.alert /\ Repeats(x.request, a)
      BY <2>6, <2>7
    <3>2. PICK b \in alerts' : b.id = y.alert /\ Repeats(y.request, b)
      BY <2>6, <2>7
    <3>3. EventOf(a.request) = EventOf(b.request)
      BY <2>7, <3>1, <3>2 DEF Repeats
    <3>4. a = b
      BY <1>0, <1>13, <3>3 DEF EventsOnce, EventOf, Sends
    <3> QED
      BY <3>1, <3>2, <3>4
  <2> QED
    BY <1>0, <2>6, <2>7 DEF AnswersAgree, Repeats, EventOf, StoreOf, Sends
<1> QED
  BY <1>9, <1>10, <1>11, <1>12, <1>13, <1>17, <1>18, <1>19 DEF IngestCore

-----------------------------------------------------------------------------
(* Every step, and what follows *)

LEMMA InitInv == Init => IInv
<1> SUFFICES ASSUME Init PROVE IInv
  OBVIOUS
<1>0. scenario \in DOMAIN Scenarios /\ Plan = Scenarios[scenario]
  BY DEF Init, ConfigInit, Plan
<1>1. /\ endpoints = Plan.endpoints /\ rules = Plan.rules /\ channels = Plan.channels
      /\ edit = [h \in Editor |-> NoEdit] /\ edits = 0
      /\ alerts = {} /\ deliveries = {} /\ inserted = {} /\ answers = {}
      /\ tx = [r \in Request |-> Idle] /\ tries = [r \in Request |-> 0]
      /\ now = 0 /\ failures = 0
  BY DEF Init, ConfigInit
<1>2. /\ endpoints \in [Endpoint -> EndpointRow \cup {Unborn, Deleted}]
      /\ rules \in [Rule -> RuleRow \cup {Unborn, Deleted}]
      /\ channels \subseteq ChannelRow
      /\ Plan.edits \in Nat /\ Plan.tries \in Nat /\ Plan.faults \in Nat /\ Plan.time \in Nat
  BY <1>0, <1>1, PlanHolds
<1>3. /\ \A e \in Endpoint : Exists(endpoints[e]) => Sendable(e, endpoints[e])
      /\ \A c \in channels :
            /\ Exists(rules[c.rule]) /\ Exists(endpoints[c.endpoint])
            /\ c.id >= Plan.edits
            /\ \A b \in channels \ {c} :
                 /\ b.id # c.id
                 /\ b.rule = c.rule => b.endpoint # c.endpoint /\ b.priority # c.priority
  BY <1>0, <1>1, RowAssumption, Zenon
<1>4. ConfigInv
  <2>1. ASSUME NEW c \in channels PROVE c.rule \in StoredRules /\ c.endpoint \in StoredEndpoints
    <3>1. c.rule \in Rule /\ c.endpoint \in Endpoint
      BY <1>2 DEF ChannelRow
    <3> QED
      BY <1>3, <3>1 DEF StoredRules, StoredEndpoints
  <2> QED
    BY <1>0, <1>1, <1>2, <2>1 DEF ConfigInv
<1>5. HeldIsSendable
  BY <1>1 DEF HeldIsSendable, Editing
<1>6. EnabledIsSendable
  BY <1>3 DEF EnabledIsSendable, StoredEndpoints
<1>7. ChannelIdsOnce
  <2>1. ASSUME NEW c \in channels PROVE c.id \notin edits..(Plan.edits - 1)
    BY <1>1, <1>2, <1>3
  <2> QED
    BY <1>3, <2>1 DEF ChannelIdsOnce
<1>8. \A r \in Request : ~Opened(r) /\ ~HasAlert(r) /\ tx[r] = Idle
  BY <1>1 DEF Opened, HasAlert, Phases, Idle
<1>9. IngestTypes
  BY <1>1, <1>2, <1>8 DEF IngestTypes
<1>10. IngestCore
  BY <1>1, <1>8
  DEF IngestCore, ForeignKeys, LoadedChannels, EventsOnce, RowsHaveAlerts, KeysOnce,
      LoadedHaveKeys
<1>11. AnswersAgree
  BY <1>1 DEF AnswersAgree
<1> QED
  BY <1>4, <1>5, <1>6, <1>7, <1>9, <1>10, <1>11 DEF IInv, ConfigCore

LEMMA NextInv == IInv /\ [Next]_vars => IInv'
<1> SUFFICES ASSUME IInv, [Next]_vars PROVE IInv'
  OBVIOUS
<1>1. ASSUME NEW r \in Request, Begin(r) \/ IngestStep(r) \/ FailIngest(r) \/ AbortVictim(r)
      PROVE  IInv'
  BY <1>1, Zenon, BeginKeepsInv, StoringKeepsInv, ReplayKeepsInv,
     RefusalKeepsInv, OpenRuleKeepsInv, InsertRouteKeepsInv, CommitKeepsInv, FaultKeepsInv
  DEF IngestStep
<1>2. CASE ConfigStep /\ UNCHANGED ingestVars
  <2>1. OwnerMoves /\ scenario' = scenario
    BY <1>2, OwnerStep DEF IInv, ConfigCore, ConfigStep
  <2> QED
    BY <1>2, <2>1, OwnersKeepInv DEF ingestVars
<1>3. CASE UNCHANGED vars
  <2>1. OwnerMoves
    BY <1>3 DEF vars, configVars, OwnerMoves, TablesMove, TablesStay, HeldMoves, EditsMove
  <2> QED
    BY <1>3, <2>1, OwnersKeepInv DEF vars, configVars, ingestVars
<1> QED
  BY <1>1, <1>2, <1>3, CameraKeepsInv, TickKeepsInv DEF Next

LEMMA Invariance == Spec => []IInv
  BY InitInv, NextInv, PTL DEF Spec

(* The variables keep their types, for every scenario: the tables of the   *)
(* configuration stay rows, channels refer to rules and endpoints that are *)
(* stored, and a delivery that is not committed belongs to a transaction   *)
(* that is open (ai_alerts.go 84-221, notifications.go 259-934).           *)
THEOREM TypesHold == Spec => []TypeOK
<1>1. ASSUME IInv PROVE TypeOK
  <2> USE <1>1 DEF IInv
  <2>1. ConfigTypeOK
    <3>1. \A u \in Rule : Exists(rules[u]) => rules[u] \in RuleRow
      BY DEF ConfigCore, ConfigInv, Exists
    <3>2. ASSUME NEW h \in Editor, edit[h] # NoEdit
          PROVE  edit[h].row \in EndpointRow \/ edit[h].row \in RuleRow
      BY <3>2 DEF ConfigCore, ConfigInv, EndpointEdit, RuleEdit
    <3> QED
      BY <3>1, <3>2 DEF ConfigTypeOK, ConfigCore, ConfigInv
  <2>2. ASSUME NEW d \in deliveries \cup inserted
        PROVE  /\ d.rule \in Rule /\ d.endpoint \in Endpoint
               /\ d.status \in {"PENDING", "WAITING_FALLBACK"} /\ d.createdAt \in 0..Plan.time
    <3>1. d.rule \in Rule /\ d.endpoint \in Endpoint
      BY DEF IngestCore, ForeignKeys, StoredRules, StoredEndpoints
    <3>2. now \in 0..Plan.time /\ Plan.time \in Nat /\ d.createdAt \in 0..now
          /\ d.status \in {"PENDING", "WAITING_FALLBACK"}
      BY PlanHolds DEF IngestTypes, ConfigCore, ConfigInv
    <3> QED
      BY <3>1, <3>2
  <2>3. ASSUME NEW d \in inserted
        PROVE  \E r \in Request : tx[r] # Idle /\ d.alert = tx[r].id
    <3>1. PICK r \in Request : Notifies(r) /\ d.alert = tx[r].id
      BY DEF IngestCore, RowsHaveAlerts
    <3>2. tx[r] # Idle
      BY <3>1 DEF Notifies, Idle
    <3> QED
      BY <3>1, <3>2
  <2>4. ASSUME NEW r \in Request
        PROVE  tx[r].phase \in {"idle", "alert", "evidence", "rules", "routes"}
    BY DEF IngestTypes, Idle, OpenTx, Phases
  <2> QED
    BY <2>1, <2>2, <2>3, <2>4 DEF TypeOK, IngestTypes
<1> QED
  BY <1>1, Invariance, PTL

(* However the PATCH requests of several owners cross between their read   *)
(* and their write, what is enabled passed the gate and has a credential   *)
(* of the store (notifications.go 259-500).                                *)
THEOREM EnabledIsSendableAlways == Spec => []EnabledIsSendable
<1>1. IInv => EnabledIsSendable
  BY DEF IInv, ConfigCore
<1> QED
  BY <1>1, Invariance, PTL

(* A committed delivery's endpoint, rule and channel are stored, and the   *)
(* channel still leads to that endpoint: the routes that were loaded are   *)
(* used without being read again (outbox.go 92-140).                       *)
THEOREM DeliveriesKeepTheirRouteAlways == Spec => []DeliveriesKeepTheirRoute
<1>1. IInv => DeliveriesKeepTheirRoute
  BY DEF IInv, IngestCore, ForeignKeys, DeliveriesKeepTheirRoute
<1> QED
  BY <1>1, Invariance, PTL

(* All successful answers to one event name one stored alert with all its  *)
(* routes, whatever fails, waits or is repeated (ai_alerts.go 84-221).     *)
THEOREM AnswersAgreeAlways == Spec => []AnswersAgree
<1>1. IInv => AnswersAgree
  BY DEF IInv
<1> QED
  BY <1>1, Invariance, PTL

LEMMA NotifiedOnce ==
  ASSUME IncidentIsNoAlert, IInv
  PROVE  IncidentNotifiedOnce
<1> USE DEF IInv
<1>1. ASSUME NEW a \in alerts, NEW b \in alerts, Reference(a) = Reference(b)
      PROVE  OfIncident(a, b)
  <2>1. /\ a.request \in DOMAIN Plan.sends /\ b.request \in DOMAIN Plan.sends
        /\ a.id \in Request \X Nat /\ b.id \in Request \X Nat
    <3>1. ASSUME NEW c \in alerts
          PROVE  c.request \in DOMAIN Plan.sends /\ c.id \in Request \X Nat
      <4>1. c.request \in Request \cap DOMAIN Plan.sends
            /\ \E n \in 0..(tries[c.request] - 1) : c.id = <<c.request, n>>
        BY DEF IngestTypes, StoredAlert
      <4>2. Plan.tries \in Nat /\ tries[c.request] \in 0..Plan.tries
        BY <4>1, PlanHolds DEF IngestTypes, ConfigCore, ConfigInv
      <4>3. \A n \in 0..(tries[c.request] - 1) : n \in Nat
        BY <4>2
      <4> QED
        BY <4>1, <4>3
    <3> QED
      BY <3>1
  <2>2. IncidentOf(a.request) \notin Request \X Nat /\ IncidentOf(b.request) \notin Request \X Nat
    BY <2>1 DEF IncidentIsNoAlert, IncidentOf, Sends, Plan, ConfigCore, ConfigInv
  <2>3. CASE IncidentOf(a.request) # NoIncident
    BY <2>1, <2>2, <2>3, <1>1 DEF Reference, OfIncident
  <2>4. CASE IncidentOf(a.request) = NoIncident
    <3>1. a.id = b.id
      BY <2>1, <2>2, <2>4, <1>1 DEF Reference
    <3>2. a.request = b.request
      BY <3>1 DEF IngestTypes, StoredAlert
    <3> QED
      BY <3>2 DEF IngestCore, EventsOnce, OfIncident
  <2> QED
    BY <2>3, <2>4
<1>2. ASSUME NEW a \in alerts, NEW x \in a.loaded
      PROVE  \E d \in Notified(a) : d.rule = x.rule /\ d.endpoint = x.endpoint
  <2>1. PICK d \in deliveries : d.key = AlertDedupeKey(Reference(a), x.rule, x.endpoint)
    BY DEF IngestCore, LoadedHaveKeys
  <2>2. PICK b \in alerts :
          d.alert = b.id /\ d.key = AlertDedupeKey(Reference(b), d.rule, d.endpoint)
    BY DEF IngestCore, RowsHaveAlerts
  <2>3. Reference(a) = Reference(b) /\ d.rule = x.rule /\ d.endpoint = x.endpoint
    BY <2>1, <2>2 DEF AlertDedupeKey
  <2> QED
    BY <1>1, <2>2, <2>3 DEF Notified
<1>3. ASSUME NEW a \in alerts, NEW c \in Notified(a), NEW d \in Notified(a),
             c.rule = d.rule, c.endpoint = d.endpoint
      PROVE  c = d
  <2>1. ASSUME NEW e \in Notified(a)
        PROVE  e \in deliveries /\ e.key = AlertDedupeKey(Reference(a), e.rule, e.endpoint)
    <3>1. PICK b \in alerts : OfIncident(a, b) /\ e.alert = b.id
      BY DEF Notified
    <3>2. PICK f \in alerts :
            e.alert = f.id /\ e.key = AlertDedupeKey(Reference(f), e.rule, e.endpoint)
      BY DEF Notified, IngestCore, RowsHaveAlerts
    <3>3. b.request = f.request
      <4>1. PICK m : b.id = <<b.request, m>>
        BY Zenon DEF IngestTypes, StoredAlert
      <4>2. PICK n : f.id = <<f.request, n>>
        BY Zenon DEF IngestTypes, StoredAlert
      <4>3. <<b.request, m>> = <<f.request, n>>
        BY <3>1, <3>2, <4>1, <4>2
      <4> QED
        BY <4>3
    <3>4. b = f
      BY <3>3 DEF IngestCore, EventsOnce
    <3>5. Reference(b) = Reference(a)
      BY <3>1 DEF OfIncident, Reference
    <3> QED
      BY <3>2, <3>4, <3>5 DEF Notified
  <2>2. c.key = d.key
    BY <1>3, <2>1
  <2> QED
    BY <2>1, <2>2 DEF IngestCore, KeysOnce
<1> QED
  BY <1>2, <1>3 DEF IncidentNotifiedOnce

(* Each route of a matching rule gets one delivery for an incident, or for *)
(* an alert without one, provided that the gateway never gives the id of   *)
(* an alert for an incident: both become the first part of a dedupe key    *)
(* (outbox.go 29-42 and 92-140).                                           *)
THEOREM IncidentNotifiedOnceAlways ==
  ASSUME IncidentIsNoAlert
  PROVE  Spec => []IncidentNotifiedOnce
BY NotifiedOnce, Invariance, PTL

-----------------------------------------------------------------------------
(* The cooldown *)

\* Nobody may change a rule (but make or delete one).
RulesStand == Plan.rulePatches = {}

\* What was committed with r's fingerprint for rule u is old enough.
Clear(r, u) ==
  \A d \in deliveries, a \in alerts :
    d.alert = a.id /\ d.rule = u /\ Fingerprint(a.request, u) = Fingerprint(r, u)
      => d.createdAt + rules[u].cooldownSeconds <= tx[r].at

HasCooldown(r, u) ==
  IncidentOf(r) # NoIncident /\ Exists(rules[u]) /\ rules[u].cooldownSeconds > 0

\* r has the lock of a rule and what is committed leaves it free to notify.
MayNotify(r, u) ==
  HasCooldown(r, u) => Fingerprint(r, u) \in tx[r].locks /\ Clear(r, u)

(* A transaction that has routes or rows of a rule with a cooldown holds   *)
(* the rule's lock, and all that is committed is old enough for it.        *)
TxClear(r) ==
  /\ \A x \in tx[r].rules :
       /\ rules[x.rule] # Unborn
       /\ Exists(rules[x.rule]) => rules[x.rule].cooldownSeconds = x.cooldown
  /\ \A c \in tx[r].routes : rules[c.rule] # Unborn /\ MayNotify(r, c.rule)
  /\ \A d \in Own(r) : d.createdAt = tx[r].at /\ MayNotify(r, d.rule)
  /\ ~Notifies(r) => tx[r].locks = {}

LocksExclude ==
  \A r, s \in Request : Opened(r) /\ Opened(s) /\ r # s => tx[r].locks \cap tx[s].locks = {}

CooldownInv ==
  RulesStand =>
    /\ \A h \in Editor : ~Editing(h, "rule")
    /\ \A r \in Request : Opened(r) => TxClear(r)
    /\ LocksExclude
    /\ CooldownHolds

\* A rule is only made or deleted.
RulesKept ==
  \A u \in Rule : rules[u] # Unborn =>
    rules'[u] # Unborn /\ (Exists(rules'[u]) => rules'[u] = rules[u])

LEMMA FingerprintsStay ==
  ASSUME scenario' = scenario, NEW r, NEW u
  PROVE  Fingerprint(r, u)' = Fingerprint(r, u) /\ IncidentOf(r)' = IncidentOf(r)
BY DEF Fingerprint, StoreOf, CameraOf, IncidentOf, Sends, Plan

LEMMA ClearSame ==
  ASSUME NEW r, NEW u, Clear(r, u), rules'[u] = rules[u], tx'[r].at = tx[r].at,
         UNCHANGED <<scenario, alerts, deliveries>>
  PROVE  Clear(r, u)'
BY FingerprintsStay DEF Clear

(* A transaction that does not move stays clear while it stays clear of    *)
(* the rules it has locked.                                                *)
LEMMA StaysClear ==
  ASSUME IInv, NEW r \in Request, Opened(r), TxClear(r), RulesKept, scenario' = scenario,
         tx'[r] = tx[r], Own(r)' = Own(r),
         \A u \in Rule :
           HasCooldown(r, u) /\ MayNotify(r, u) /\ rules'[u] = rules[u] => Clear(r, u)'
  PROVE  TxClear(r)'
<1>1. OpenTx(r, tx[r])
  BY IdleOrOpen DEF IInv
<1>2. ASSUME NEW u \in Rule, rules[u] # Unborn, MayNotify(r, u)
      PROVE  MayNotify(r, u)'
  <2>1. SUFFICES ASSUME HasCooldown(r, u)' PROVE (Fingerprint(r, u) \in tx[r].locks /\ Clear(r, u))'
    BY DEF MayNotify
  <2>2. rules'[u] = rules[u]
    BY <1>2, <2>1 DEF HasCooldown, RulesKept, Exists
  <2>3. HasCooldown(r, u)
    BY <2>1, <2>2, FingerprintsStay DEF HasCooldown, Exists
  <2> QED
    BY <1>2, <2>2, <2>3, FingerprintsStay DEF MayNotify
<1>3. \A x \in tx[r].rules : x.rule \in Rule
  BY <1>1 DEF OpenTx
<1>4. \A c \in tx[r].routes : c.rule \in Rule
  BY <1>1 DEF OpenTx, ChannelRow
<1>5. \A d \in Own(r) : d.rule \in Rule /\ rules[d.rule] # Unborn
  BY DEF IInv, IngestCore, ForeignKeys, Own, StoredRules, Exists
<1>6. \A x \in tx[r].rules :
        /\ rules'[x.rule] # Unborn
        /\ Exists(rules'[x.rule]) => rules'[x.rule].cooldownSeconds = x.cooldown
  BY <1>3 DEF TxClear, RulesKept, Exists
<1>7. \A c \in tx[r].routes : rules'[c.rule] # Unborn /\ MayNotify(r, c.rule)'
  BY <1>2, <1>4 DEF TxClear, RulesKept
<1>8. \A d \in Own(r) : d.createdAt = tx[r].at /\ MayNotify(r, d.rule)'
  BY <1>2, <1>5 DEF TxClear
<1> QED
  BY <1>6, <1>7, <1>8 DEF TxClear, Notifies, Exists

(* The other rows of open transactions are those of others.                *)
LEMMA OthersOwn ==
  ASSUME IInv, NEW r \in Request, NEW s \in Request, r # s, Opened(r), Opened(s),
         tx'[s] = tx[s],
         \/ inserted \subseteq inserted' /\ \A d \in inserted' \ inserted : d.alert = tx[r].id
         \/ inserted' = {d \in inserted : d.alert # tx[r].id}
  PROVE  Own(s)' = Own(s)
<1>1. tx[s].id # tx[r].id
  BY IdsDiffer DEF IInv
<1> QED
  BY <1>1 DEF Own

-----------------------------------------------------------------------------
(* Steps that touch no transaction *)

LEMMA OwnersKeepRules ==
  ASSUME ConfigInv, ConfigStep, RulesStand, \A h \in Editor : ~Editing(h, "rule")
  PROVE  /\ RulesKept
         /\ \A h \in Editor : ~Editing(h, "rule")'
         /\ \A u \in Rule : rules'[u] = rules[u] \/ rules[u] = Unborn \/ Unreferenced("rule", u)
<1>1. Unborn # Deleted /\ \A u \in Rule : rules[u] = Deleted => ~Exists(rules[u])
  BY RowAssumption DEF Exists
<1>2. rules \in [Rule -> RuleRow \cup {Unborn, Deleted}]
  BY DEF ConfigInv
<1> DEFINE Same == rules' = rules
           Born == \E u \in Rule : \E row : rules[u] = Unborn /\ rules' = [rules EXCEPT ![u] = row]
           Gone == \E u \in Rule : Unreferenced("rule", u) /\ rules' = [rules EXCEPT ![u] = Deleted]
           Held == \/ edit' = edit
                   \/ \E h \in Editor : edit' = [edit EXCEPT ![h] = NoEdit]
                   \/ \E h \in Editor : \E e, row, named :
                        edit' = [edit EXCEPT ![h] = [endpoint |-> e, row |-> row, named |-> named]]
<1>3. (Same \/ Born \/ Gone) /\ Held
  <2>1. ASSUME NEW h \in Editor, NEW e \in Endpoint, NEW row, CreateEndpoint(h, e, row)
        PROVE  Same /\ edit' = edit
    BY <2>1 DEF CreateEndpoint
  <2>2. ASSUME NEW h \in Editor, NEW e \in Endpoint, NEW patch, ReadEndpoint(h, e, patch)
        PROVE  /\ Same
               /\ \E f, row, named :
                    edit' = [edit EXCEPT ![h] = [endpoint |-> f, row |-> row, named |-> named]]
    BY <2>2, Zenon DEF ReadEndpoint
  <2>3. ASSUME NEW h \in Editor, NEW e \in Endpoint, RemoveEndpoint(h, e)
        PROVE  Same /\ edit' = edit
    BY <2>3 DEF RemoveEndpoint
  <2>4. ASSUME NEW h \in Editor, NEW u \in Rule, NEW row, CreateRule(h, u, row)
        PROVE  Born /\ edit' = edit
    BY <2>4, Zenon DEF CreateRule
  <2>5. ASSUME NEW h \in Editor, NEW u \in Rule, RemoveRule(h, u)
        PROVE  Gone /\ edit' = edit
    BY <2>5, Zenon DEF RemoveRule
  <2>6. ASSUME NEW h \in Editor, NEW u \in Rule, NEW e, NEW p, CreateChannel(h, u, e, p)
        PROVE  Same /\ edit' = edit
    BY <2>6 DEF CreateChannel
  <2>7. ASSUME NEW h \in Editor, WriteEndpoint(h)
        PROVE  Same /\ edit' = [edit EXCEPT ![h] = NoEdit]
    BY <2>7 DEF WriteEndpoint
  <2>8. ASSUME NEW h \in Editor, NEW c \in channels, NEW patch,
               UpdateChannel(h, c, patch) \/ RemoveChannel(h, c)
        PROVE  Same /\ edit' = edit
    BY <2>8 DEF UpdateChannel, RemoveChannel
  <2>9. \A h \in Editor : ~WriteRule(h)
    BY DEF WriteRule
  <2>10. PICK h \in Editor :
      \/ \E e \in Endpoint :
           \/ \E row \in Plan.newEndpoints : CreateEndpoint(h, e, row)
           \/ \E patch \in Plan.endpointPatches : ReadEndpoint(h, e, patch)
           \/ RemoveEndpoint(h, e)
      \/ \E u \in Rule :
           \/ \E row \in Plan.newRules : CreateRule(h, u, row)
           \/ RemoveRule(h, u)
           \/ \E e \in Endpoint, p \in Plan.priorities : CreateChannel(h, u, e, p)
      \/ WriteEndpoint(h)
      \/ \E c \in channels :
           \/ \E patch \in Plan.channelPatches : UpdateChannel(h, c, patch)
           \/ RemoveChannel(h, c)
    BY <2>9, Zenon DEF ConfigStep, RulesStand
  <2> HIDE DEF Same, Born, Gone
  <2> QED
    BY <2>1, <2>2, <2>3, <2>4, <2>5, <2>6, <2>7, <2>8, <2>10, Zenon
<1>4. RulesKept /\ \A u \in Rule : rules'[u] = rules[u] \/ rules[u] = Unborn \/ Unreferenced("rule", u)
  <2>1. CASE Same
    BY <2>1 DEF RulesKept
  <2>2. CASE Born
    BY <1>2, <2>2 DEF RulesKept
  <2>3. CASE Gone
    <3>1. PICK u \in Rule : Unreferenced("rule", u) /\ rules' = [rules EXCEPT ![u] = Deleted]
      BY <2>3
    <3>2. rules'[u] = Deleted /\ \A v \in Rule \ {u} : rules'[v] = rules[v]
      BY <1>2, <3>1
    <3> QED
      BY <1>1, <3>1, <3>2 DEF RulesKept, Exists
  <2> QED
    BY <1>3, <2>1, <2>2, <2>3
<1>5. ASSUME NEW g \in Editor PROVE ~Editing(g, "rule")'
  <2>1. ASSUME NEW h \in Editor, NEW e, NEW row, NEW named,
               edit' = [edit EXCEPT ![h] = [endpoint |-> e, row |-> row, named |-> named]]
        PROVE  ~Editing(g, "rule")'
    BY <2>1 DEF Editing, ConfigInv
  <2>2. ASSUME NEW h \in Editor, edit' = [edit EXCEPT ![h] = NoEdit]
        PROVE  ~Editing(g, "rule")'
    BY <2>2 DEF Editing, ConfigInv
  <2>3. CASE edit' = edit
    BY <2>3 DEF Editing
  <2> QED
    BY <1>3, <2>1, <2>2, <2>3
<1> QED
  BY <1>4, <1>5

\* No alert is stored and no transaction goes on.
LEMMA RestKeepsCooldown ==
  ASSUME IInv, CooldownInv, scenario' = scenario,
         UNCHANGED <<alerts, deliveries, inserted, tx>>,
         RulesStand =>
           /\ RulesKept
           /\ \A h \in Editor : ~Editing(h, "rule")'
           /\ \A u \in Rule : rules'[u] = rules[u] \/ rules[u] = Unborn \/ Unreferenced("rule", u)
  PROVE  CooldownInv'
<1> SUFFICES ASSUME RulesStand
             PROVE  /\ \A h \in Editor : ~Editing(h, "rule")'
                    /\ \A r \in Request : Opened(r)' => TxClear(r)'
                    /\ LocksExclude'
                    /\ CooldownHolds'
  BY DEF CooldownInv, RulesStand, Plan
<1>1. ASSUME NEW r \in Request, Opened(r)' PROVE TxClear(r)'
  <2>1. Opened(r) /\ TxClear(r) /\ tx'[r] = tx[r] /\ Own(r)' = Own(r)
    BY <1>1 DEF CooldownInv, Opened, Own
  <2>2. ASSUME NEW u \in Rule, HasCooldown(r, u), MayNotify(r, u), rules'[u] = rules[u]
        PROVE  Clear(r, u)'
    BY <2>1, <2>2, ClearSame DEF MayNotify
  <2> QED
    BY <2>1, <2>2, StaysClear
<1>2. LocksExclude'
  BY DEF CooldownInv, LocksExclude, Opened
<1>3. CooldownHolds'
  <2>1. ASSUME NEW d \in deliveries PROVE rules'[d.rule] = rules[d.rule]
    <3>1. d.rule \in Rule /\ rules[d.rule] # Unborn
      BY DEF IInv, IngestCore, ForeignKeys, StoredRules, Exists
    <3>2. ~Unreferenced("rule", d.rule)
      BY DEF Unreferenced
    <3> QED
      BY <3>1, <3>2
  <2> QED
    BY <2>1, FingerprintsStay DEF CooldownInv, CooldownHolds, RulesStand, Plan
<1> QED
  BY <1>1, <1>2, <1>3

-----------------------------------------------------------------------------
(* Steps of a transaction *)

\* A transaction has no rows before it comes to its rules.
LEMMA NoRowsYet ==
  ASSUME IInv, NEW r \in Request
  PROVE  /\ Opened(r) /\ ~Notifies(r) => Own(r) = {}
         /\ tx[r] = Idle => \A d \in inserted : d.alert # <<r, tries[r]>>
<1>1. ASSUME NEW d \in inserted
      PROVE  \E s \in Request : Notifies(s) /\ Opened(s) /\ d.alert = tx[s].id
  BY IdleOrOpen DEF IInv, IngestCore, RowsHaveAlerts
<1>2. ASSUME Opened(r), ~Notifies(r), NEW d \in Own(r) PROVE FALSE
  BY <1>1, <1>2, IdsDiffer DEF Own, IInv
<1>3. ASSUME tx[r] = Idle, NEW d \in inserted, d.alert = <<r, tries[r]>> PROVE FALSE
  <2>1. PICK s \in Request : Notifies(s) /\ Opened(s) /\ d.alert = tx[s].id
    BY <1>1
  <2>2. OpenTx(s, tx[s])
    BY <2>1, IdleOrOpen DEF IInv
  <2>3. PICK n : tx[s].id = <<s, n>>
    BY <2>2, Zenon DEF OpenTx
  <2>4. <<s, n>> = <<r, tries[r]>>
    BY <1>3, <2>1, <2>3
  <2>5. s = r
    BY <2>4
  <2> QED
    BY <1>3, <2>1, <2>5 DEF Notifies, Idle
<1> QED
  BY <1>2, <1>3

\* Whatever a transaction ends with but its commit leaves nothing of it.
LEMMA EndingsEnd ==
  ASSUME IInv, NEW r \in Request,
         \/ Replay(r) \/ EvidenceConflict(r) \/ RouteGone(r)
         \/ AbortVictim(r) \/ FailIngest(r)
  PROVE  EndsWithNothing(r)
<1>1. Opened(r)
  <2>1. CASE Replay(r) \/ EvidenceConflict(r) \/ RouteGone(r)
    BY <2>1 DEF Replay, EvidenceConflict, RouteGone, Runs, Opened, Phases
  <2>2. CASE AbortVictim(r) \/ FailIngest(r)
    BY <2>2, IdleOrOpen DEF AbortVictim, Deadlocked, FailIngest, IInv
  <2> QED
    BY <2>1, <2>2
<1>2. RollBack(r) /\ UNCHANGED <<Kept, tries>>
  BY DEF Replay, EvidenceConflict, RouteGone, AbortVictim, FailIngest
<1> QED
  BY <1>1, <1>2, RollBackEnds

LEMMA NoRuleEdits ==
  ASSUME CooldownInv, RulesStand, UNCHANGED configVars
  PROVE  RulesKept /\ (\A h \in Editor : ~Editing(h, "rule")') /\ UNCHANGED <<scenario, rules>>
BY DEF CooldownInv, RulesKept, Editing, configVars

\* The transaction goes on: the others stay as clear as they are.
LEMMA GoingOnKeepsCooldown ==
  ASSUME IInv, CooldownInv, NEW r \in Request, NEW t, GoesOn(r, t),
         \A d \in inserted' \ inserted : d.alert = tx[r].id,
         RulesStand => TxClear(r)',
         RulesStand => \A s \in Request \ {r} : Opened(s) => t.locks \cap tx[s].locks = {}
  PROVE  CooldownInv'
<1> SUFFICES ASSUME RulesStand
             PROVE  /\ \A h \in Editor : ~Editing(h, "rule")'
                    /\ \A s \in Request : Opened(s)' => TxClear(s)'
                    /\ LocksExclude'
                    /\ CooldownHolds'
  BY DEF CooldownInv, RulesStand, Plan, GoesOn, configVars
<1>0. /\ DOMAIN tx = Request /\ tx'[r] = t
      /\ \A s \in Request \ {r} : tx'[s] = tx[s]
  BY DEF IInv, IngestTypes, GoesOn, Go
<1>1. RulesKept /\ (\A h \in Editor : ~Editing(h, "rule")') /\ UNCHANGED <<scenario, rules>>
  BY NoRuleEdits DEF GoesOn
<1>2. ASSUME NEW s \in Request, Opened(s)' PROVE TxClear(s)'
  <2>1. CASE s = r
    BY <2>1
  <2>2. CASE s # r
    <3>1. Opened(s) /\ Opened(r) /\ TxClear(s) /\ tx'[s] = tx[s]
      BY <1>0, <1>2, <2>2 DEF CooldownInv, Opened, GoesOn
    <3>2. Own(s)' = Own(s)
      BY <2>2, <3>1, OthersOwn DEF GoesOn
    <3>3. ASSUME NEW u \in Rule, HasCooldown(s, u), MayNotify(s, u), rules'[u] = rules[u]
          PROVE  Clear(s, u)'
      BY <1>1, <3>1, <3>3, ClearSame DEF MayNotify, GoesOn
    <3> QED
      BY <1>1, <3>1, <3>2, <3>3, StaysClear
  <2> QED
    BY <2>1, <2>2
<1>3. LocksExclude'
  <2>1. Opened(r) /\ \A s \in Request : Opened(s)' => Opened(s)
    BY <1>0 DEF Opened, GoesOn
  <2>2. \A s, q \in Request : Opened(s) /\ Opened(q) /\ s # q => tx[s].locks \cap tx[q].locks = {}
    BY DEF CooldownInv, LocksExclude
  <2>3. ASSUME NEW s \in Request, NEW q \in Request, Opened(s)', Opened(q)', s # q
        PROVE  tx'[s].locks \cap tx'[q].locks = {}
    <3>1. CASE s = r
      BY <1>0, <2>1, <2>3, <3>1
    <3>2. CASE q = r
      BY <1>0, <2>1, <2>3, <3>2
    <3>3. CASE s # r /\ q # r
      BY <1>0, <2>1, <2>2, <2>3, <3>3
    <3> QED
      BY <3>1, <3>2, <3>3
  <2> QED
    BY <2>3 DEF LocksExclude
<1>4. CooldownHolds'
  BY <1>1, FingerprintsStay DEF CooldownInv, CooldownHolds, RulesStand, Plan, GoesOn
<1> QED
  BY <1>1, <1>2, <1>3, <1>4

LEMMA EndKeepsCooldown ==
  ASSUME IInv, CooldownInv, NEW r \in Request, EndsWithNothing(r)
  PROVE  CooldownInv'
<1> SUFFICES ASSUME RulesStand
             PROVE  /\ \A h \in Editor : ~Editing(h, "rule")'
                    /\ \A s \in Request : Opened(s)' => TxClear(s)'
                    /\ LocksExclude'
                    /\ CooldownHolds'
  BY DEF CooldownInv, RulesStand, Plan, EndsWithNothing, configVars
<1>0. /\ DOMAIN tx = Request /\ tx'[r] = Idle
      /\ \A s \in Request \ {r} : tx'[s] = tx[s]
  BY DEF IInv, IngestTypes, EndsWithNothing, Go
<1>1. RulesKept /\ (\A h \in Editor : ~Editing(h, "rule")') /\ UNCHANGED <<scenario, rules>>
  BY NoRuleEdits DEF EndsWithNothing
<1>2. ASSUME NEW s \in Request, Opened(s)'
      PROVE  s # r /\ Opened(s) /\ tx'[s] = tx[s]
  BY <1>0, <1>2 DEF Opened, Idle, Phases
<1>3. ASSUME NEW s \in Request, Opened(s)' PROVE TxClear(s)'
  <2>1. s # r /\ Opened(s) /\ Opened(r) /\ TxClear(s) /\ tx'[s] = tx[s]
    BY <1>2, <1>3 DEF CooldownInv, EndsWithNothing
  <2>2. Own(s)' = Own(s)
    BY <2>1, OthersOwn DEF EndsWithNothing
  <2>3. ASSUME NEW u \in Rule, HasCooldown(s, u), MayNotify(s, u), rules'[u] = rules[u]
        PROVE  Clear(s, u)'
    BY <1>1, <2>1, <2>3, ClearSame DEF MayNotify, EndsWithNothing
  <2> QED
    BY <1>1, <2>1, <2>2, <2>3, StaysClear
<1>4. LocksExclude'
  BY <1>2 DEF CooldownInv, LocksExclude
<1>5. CooldownHolds'
  BY <1>1, FingerprintsStay DEF CooldownInv, CooldownHolds, RulesStand, Plan, EndsWithNothing
<1> QED
  BY <1>1, <1>3, <1>4, <1>5

\* What r finds and takes of the statements before the rules.
LEMMA StoringKeepsCooldown ==
  ASSUME IInv, CooldownInv, NEW r \in Request, StoreAlert(r) \/ StoreEvidence(r)
  PROVE  CooldownInv'
<1>1. PICK t : Storing(r, t)
  BY StoringGoesOn
<1>2. /\ GoesOn(r, t) /\ tx'[r] = t /\ Opened(r) /\ ~Notifies(r) /\ t.locks = tx[r].locks
      /\ t.routes = {} /\ t.rules \subseteq MatchingRules(r)
      /\ UNCHANGED <<scenario, rules, alerts, deliveries, inserted>>
  BY <1>1 DEF Storing, GoesOn, configVars
<1>3. ASSUME RulesStand
      PROVE  TxClear(r)' /\ \A s \in Request \ {r} : Opened(s) => t.locks \cap tx[s].locks = {}
  <2>1. TxClear(r) /\ tx[r].locks = {}
    BY <1>2, <1>3 DEF CooldownInv, TxClear
  <2>2. Own(r)' = {}
    BY <1>2, NoRowsYet DEF Own, GoesOn
  <2>3. \A x \in t.rules : rules[x.rule] # Unborn /\ rules[x.rule].cooldownSeconds = x.cooldown
    BY <1>2, MatchingTypes
  <2> QED
    BY <1>2, <2>1, <2>2, <2>3 DEF TxClear
<1> QED
  BY <1>2, <1>3, GoingOnKeepsCooldown

(* A set of natural numbers that is not empty has a least one.             *)
Less == {pair \in Nat \X Nat : pair[1] < pair[2]}

LEMMA LeastExists ==
  ASSUME NEW T, T \subseteq Nat, T # {}
  PROVE  \E x \in T : \A y \in T : x <= y
<1>1. Less = OpToRel(<, Nat)
  BY DEF OpToRel, Less
<1>2. PICK x \in T : \A y \in T : ~ (<<y, x>> \in Less)
  BY <1>1, NatLessThanWellFounded, WFMin, Zenon
<1>3. ASSUME NEW y \in T PROVE x <= y
  <2>1. x \in Nat /\ y \in Nat /\ ~ (<<y, x>> \in Less)
    BY <1>2
  <2> QED
    BY <2>1 DEF Less
<1> QED
  BY <1>3

\* The rules come in the order of their making.
LEMMA FirstIsThere ==
  ASSUME NEW S, S # {}, \A x \in S : x.rule \in Rule
  PROVE  First(S) \in S
<1>1. {x.rule : x \in S} \subseteq Nat /\ {x.rule : x \in S} # {}
  BY RuleAssumption
<1>2. \E u \in {x.rule : x \in S} : \A v \in {x.rule : x \in S} : u <= v
  BY <1>1, LeastExists
<1>3. \E x \in S : \A y \in S : x.rule <= y.rule
  BY <1>2
<1> QED
  BY <1>3, Zenon DEF First

LEMMA OpenRuleKeepsCooldown ==
  ASSUME IInv, CooldownInv, NEW r \in Request, OpenRule(r)
  PROVE  CooldownInv'
<1>1. PICK spec : spec = First(tx[r].rules)
  OBVIOUS
<1>2. PICK routes : routes = IF CooldownSuppresses(r, spec) THEN {} ELSE Usable(spec.rule)
  OBVIOUS
<1>3. PICK top : top = IF routes = {} THEN tx[r].top ELSE MinPriority(r, routes)
  OBVIOUS
<1>4. PICK locks : locks = IF TakesCooldownLock(r, spec)
                           THEN tx[r].locks \cup {Fingerprint(r, spec.rule)} ELSE tx[r].locks
  OBVIOUS
<1>5. PICK phase : phase = IF routes = {} THEN "rules" ELSE "routes"
  OBVIOUS
<1>6. PICK loaded : loaded = {[rule |-> c.rule, endpoint |-> c.endpoint] : c \in routes}
  OBVIOUS
<1> DEFINE t == [tx[r] EXCEPT !.phase = phase, !.rules = @ \ {spec}, !.routes = routes,
                              !.top = top, !.locks = locks, !.loaded = @ \cup loaded]
<1>7. /\ tx[r].phase = "rules" /\ WaitsFor(r) = {} /\ tx[r].rules # {} /\ Go(r, t)
      /\ UNCHANGED <<Kept, inserted, tries, answers, failures>>
  BY <1>1, <1>2, <1>3, <1>4, <1>5, <1>6 DEF OpenRule, Runs
<1>8. OpenTx(r, tx[r]) /\ Opened(r) /\ HasAlert(r) /\ Notifies(r)
  BY <1>7, IdleOrOpen DEF IInv, Opened, Phases, HasAlert, Notifies
<1>9. spec \in tx[r].rules /\ spec \in [rule : Rule, cooldown : 0..MaxCooldownSeconds]
  BY <1>1, <1>7, <1>8, FirstIsThere DEF OpenTx
<1>10. /\ routes \subseteq channels /\ routes \subseteq ChannelRow
       /\ \A c \in routes : c.rule = spec.rule
  BY <1>2 DEF Usable, IInv, ConfigCore, ConfigInv
<1>11. /\ DOMAIN t = DOMAIN tx[r] /\ t.id = tx[r].id /\ t.at = tx[r].at
       /\ t.stored = tx[r].stored
       /\ t.phase = phase /\ t.rules = tx[r].rules \ {spec} /\ t.routes = routes
       /\ t.locks = locks /\ t.loaded = tx[r].loaded \cup loaded
  BY <1>8 DEF OpenTx
<1> HIDE DEF t
<1>12. OpenTx(r, t)
  BY <1>5, <1>6, <1>8, <1>10, <1>11 DEF OpenTx, Phases, ChannelRow
<1>13. GoesOn(r, t)
  BY <1>5, <1>7, <1>8, <1>11, <1>12 DEF GoesOn, Kept
<1>14. tx'[r] = t /\ Own(r)' = Own(r) /\ UNCHANGED <<scenario, rules, alerts, deliveries>>
  BY <1>7, <1>11 DEF IInv, IngestTypes, Go, Own, Kept, configVars
<1>15. ASSUME RulesStand PROVE TxClear(r)'
  <2>1. TxClear(r)
    BY <1>8, <1>15 DEF CooldownInv
  <2>2. ASSUME NEW u, MayNotify(r, u) PROVE MayNotify(r, u)'
    <3>1. Clear(r, u) => Clear(r, u)'
      BY <1>11, <1>14, ClearSame
    <3>2. HasCooldown(r, u)' <=> HasCooldown(r, u)
      BY <1>14, FingerprintsStay DEF HasCooldown, Exists
    <3>3. tx[r].locks \subseteq tx'[r].locks
      BY <1>4, <1>11, <1>14
    <3> QED
      BY <1>14, <2>2, <3>1, <3>2, <3>3, FingerprintsStay DEF MayNotify
  <2>3. ASSUME routes # {} PROVE MayNotify(r, spec.rule)'
    <3>1. SUFFICES ASSUME HasCooldown(r, spec.rule)
                   PROVE  Fingerprint(r, spec.rule) \in locks /\ Clear(r, spec.rule)'
      BY <1>11, <1>14, FingerprintsStay DEF MayNotify, HasCooldown, Exists
    <3>2. rules[spec.rule].cooldownSeconds = spec.cooldown /\ TakesCooldownLock(r, spec)
      BY <1>9, <2>1, <3>1 DEF TxClear, HasCooldown, TakesCooldownLock
    <3>3. ~CooldownSuppresses(r, spec)
      BY <1>2, <2>3
    <3>4. ASSUME NEW d \in deliveries, NEW a \in alerts, d.alert = a.id, d.rule = spec.rule,
                 Fingerprint(a.request, spec.rule) = Fingerprint(r, spec.rule)
          PROVE  d.createdAt + rules[spec.rule].cooldownSeconds <= tx[r].at
      <4>1. ~(d.createdAt > tx[r].at - spec.cooldown)
        BY <3>2, <3>3, <3>4 DEF CooldownSuppresses
      <4>2. d.createdAt \in Int /\ tx[r].at \in Int /\ spec.cooldown \in Int
        <5>1. now \in Int /\ d.createdAt \in 0..now /\ tx[r].at \in 0..now
          BY <1>8, PlanHolds DEF IInv, IngestTypes, OpenTx, ConfigCore, ConfigInv
        <5>2. spec.cooldown \in 0..MaxCooldownSeconds
          BY <1>9
        <5> QED
          BY <5>1, <5>2
      <4> QED
        BY <3>2, <4>1, <4>2
    <3>5. Clear(r, spec.rule)
      BY <3>4 DEF Clear
    <3> QED
      BY <1>4, <1>11, <1>14, <3>2, <3>5, ClearSame
  <2>4. \A c \in tx'[r].routes : rules'[c.rule] # Unborn /\ MayNotify(r, c.rule)'
    BY <1>9, <1>10, <1>11, <1>14, <2>1, <2>3 DEF TxClear
  <2>5. \A d \in Own(r)' : d.createdAt = tx'[r].at /\ MayNotify(r, d.rule)'
    BY <1>11, <1>14, <2>1, <2>2 DEF TxClear
  <2>6. Notifies(r)'
    BY <1>5, <1>11, <1>14 DEF Notifies
  <2> QED
    BY <1>11, <1>14, <2>1, <2>4, <2>5, <2>6 DEF TxClear, Exists
<1>16. ASSUME RulesStand, NEW s \in Request \ {r}, Opened(s)
       PROVE  t.locks \cap tx[s].locks = {}
  <2>1. tx[r].locks \cap tx[s].locks = {}
    BY <1>8, <1>16 DEF CooldownInv, LocksExclude
  <2>2. CASE ~Notifies(s)
    BY <1>16, <2>2 DEF CooldownInv, TxClear
  <2>3. CASE Notifies(s) /\ TakesCooldownLock(r, spec)
    <3>1. ~CooldownHolder(r, s)
      BY <1>7, <2>3 DEF WaitsFor, Holds, Notifies
    <3>2. Fingerprint(r, spec.rule) \notin tx[s].locks
      BY <1>1, <2>3, <3>1 DEF CooldownHolder
    <3> QED
      BY <1>4, <1>11, <2>1, <3>2
  <2>4. CASE ~TakesCooldownLock(r, spec)
    BY <1>4, <1>11, <2>1, <2>4
  <2> QED
    BY <2>2, <2>3, <2>4
<1> QED
  BY <1>7, <1>13, <1>15, <1>16, GoingOnKeepsCooldown

LEMMA InsertRouteKeepsCooldown ==
  ASSUME IInv, CooldownInv, NEW r \in Request, InsertRoute(r)
  PROVE  CooldownInv'
<1>1. PICK c \in NextRoute(r, tx[r].routes) :
        LET key == AlertDedupeKey(AlertReference(r), c.rule, c.endpoint)
        IN  /\ KeyStored(r, key) \/ c.id \in {x.id : x \in channels}
            /\ inserted' = IF KeyStored(r, key) THEN inserted
                 ELSE inserted \cup
                   {[alert |-> tx[r].id, rule |-> c.rule, endpoint |-> c.endpoint,
                     channel |-> c.id, key |-> key, createdAt |-> tx[r].at,
                     status |-> IF c.priority = tx[r].top THEN "PENDING" ELSE "WAITING_FALLBACK"]}
            /\ Advance(r, c)
  BY Zenon DEF InsertRoute
<1>2. PICK left : left = tx[r].routes \ {c}
  OBVIOUS
<1>3. PICK phase : phase = IF left = {} THEN "rules" ELSE "routes"
  OBVIOUS
<1>4. PICK key, status :
        /\ key = AlertDedupeKey(AlertReference(r), c.rule, c.endpoint)
        /\ status = IF c.priority = tx[r].top THEN "PENDING" ELSE "WAITING_FALLBACK"
  OBVIOUS
<1> DEFINE t == [tx[r] EXCEPT !.routes = left, !.phase = phase]
           row == [alert |-> tx[r].id, rule |-> c.rule, endpoint |-> c.endpoint,
                   channel |-> c.id, key |-> key, createdAt |-> tx[r].at, status |-> status]
<1>5. /\ inserted' = inserted \/ inserted' = inserted \cup {row}
      /\ Go(r, t)
  BY <1>1, <1>2, <1>3, <1>4 DEF Advance
<1>6. tx[r].phase = "routes" /\ UNCHANGED <<Kept, tries, answers, failures>>
  BY DEF InsertRoute, Runs
<1>7. OpenTx(r, tx[r]) /\ Opened(r) /\ HasAlert(r) /\ Notifies(r)
  BY <1>6, IdleOrOpen DEF IInv, Opened, Phases, HasAlert, Notifies
<1>8. c \in tx[r].routes
  BY DEF NextRoute
<1>9. /\ DOMAIN t = DOMAIN tx[r] /\ t.id = tx[r].id /\ t.at = tx[r].at /\ t.rules = tx[r].rules
      /\ t.stored = tx[r].stored
      /\ t.phase = phase /\ t.routes = left /\ t.loaded = tx[r].loaded /\ t.locks = tx[r].locks
  BY <1>7 DEF OpenTx
<1>10. row.alert = tx[r].id /\ row.rule = c.rule /\ row.createdAt = tx[r].at
  OBVIOUS
<1> HIDE DEF t, row
<1>11. OpenTx(r, t)
  BY <1>2, <1>3, <1>7, <1>9 DEF OpenTx, Phases
<1>12. GoesOn(r, t)
  BY <1>3, <1>5, <1>6, <1>7, <1>9, <1>11 DEF GoesOn, Kept
<1>13. tx'[r] = t /\ UNCHANGED <<scenario, rules, alerts, deliveries>>
  BY <1>5, <1>6 DEF IInv, IngestTypes, Go, Kept, configVars
<1>14. ASSUME NEW d \in Own(r)' PROVE d \in Own(r) \/ d = row
  BY <1>5, <1>9, <1>13, <1>14 DEF Own
<1>15. ASSUME RulesStand PROVE TxClear(r)'
  <2>1. TxClear(r)
    BY <1>7, <1>15 DEF CooldownInv
  <2>2. ASSUME NEW u, MayNotify(r, u) PROVE MayNotify(r, u)'
    <3>1. Clear(r, u) => Clear(r, u)'
      BY <1>9, <1>13, ClearSame
    <3>2. HasCooldown(r, u)' <=> HasCooldown(r, u)
      BY <1>13, FingerprintsStay DEF HasCooldown, Exists
    <3> QED
      BY <1>9, <1>13, <2>2, <3>1, <3>2, FingerprintsStay DEF MayNotify
  <2>3. \A b \in tx'[r].routes : rules'[b.rule] # Unborn /\ MayNotify(r, b.rule)'
    BY <1>2, <1>9, <1>13, <2>1, <2>2 DEF TxClear
  <2>4. \A d \in Own(r)' : d.createdAt = tx'[r].at /\ MayNotify(r, d.rule)'
    BY <1>8, <1>9, <1>10, <1>13, <1>14, <2>1, <2>2 DEF TxClear
  <2>5. Notifies(r)'
    BY <1>3, <1>9, <1>13 DEF Notifies
  <2> QED
    BY <1>9, <1>13, <2>1, <2>3, <2>4, <2>5 DEF TxClear, Exists
<1>16. ASSUME RulesStand, NEW s \in Request \ {r}, Opened(s)
       PROVE  t.locks \cap tx[s].locks = {}
  BY <1>7, <1>9, <1>16 DEF CooldownInv, LocksExclude
<1>17. \A d \in inserted' \ inserted : d.alert = tx[r].id
  BY <1>5, <1>10
<1> QED
  BY <1>12, <1>15, <1>16, <1>17, GoingOnKeepsCooldown

LEMMA BeginKeepsCooldown ==
  ASSUME IInv, CooldownInv, NEW r \in Request, Begin(r)
  PROVE  CooldownInv'
<1>1. PICK t : t = [phase |-> "alert", id |-> <<r, tries[r]>>, at |-> now, stored |-> 0,
                    rules |-> {}, routes |-> {}, top |-> 0, locks |-> {}, loaded |-> {}]
  OBVIOUS
<1>2. /\ t.phase = "alert" /\ t.id = <<r, tries[r]>> /\ t.rules = {}
      /\ t.routes = {} /\ t.locks = {}
  BY <1>1
<1>3. /\ tx[r] = Idle /\ UNCHANGED <<Kept, inserted>> /\ (Go(r, t) \/ tx' = tx)
  BY <1>1 DEF Begin
<1>4. UNCHANGED <<scenario, rules, alerts, deliveries, inserted>>
  BY <1>3 DEF Kept, configVars
<1>5. RulesStand => RulesKept /\ \A h \in Editor : ~Editing(h, "rule")'
  BY <1>3, NoRuleEdits DEF Kept
<1>6. CASE tx' = tx
  BY <1>4, <1>5, <1>6, RestKeepsCooldown
<1>7. CASE Go(r, t)
  <2> SUFFICES ASSUME RulesStand
               PROVE  /\ \A s \in Request : Opened(s)' => TxClear(s)'
                      /\ LocksExclude'
                      /\ CooldownHolds'
    BY <1>4, <1>5 DEF CooldownInv, RulesStand, Plan
  <2>1. tx'[r] = t /\ \A s \in Request \ {r} : tx'[s] = tx[s]
    BY <1>7 DEF Go, IInv, IngestTypes
  <2>2. \A s \in Request \ {r} : Opened(s)' => Opened(s)
    BY <2>1 DEF Opened
  <2>3. ASSUME NEW s \in Request \ {r}, Opened(s)' PROVE TxClear(s)'
    <3>1. Opened(s) /\ TxClear(s) /\ tx'[s] = tx[s] /\ Own(s)' = Own(s)
      BY <1>4, <2>1, <2>2, <2>3 DEF CooldownInv, Own
    <3>2. ASSUME NEW u \in Rule, HasCooldown(s, u), MayNotify(s, u), rules'[u] = rules[u]
          PROVE  Clear(s, u)'
      BY <1>4, <3>1, <3>2, ClearSame DEF MayNotify
    <3> QED
      BY <1>4, <1>5, <3>1, <3>2, StaysClear
  <2>4. TxClear(r)'
    <3>1. Own(r)' = {}
      BY <1>2, <1>3, <1>4, <2>1, NoRowsYet DEF Own
    <3> QED
      BY <1>2, <2>1, <3>1 DEF TxClear
  <2>5. LocksExclude'
    <3>1. tx'[r].locks = {}
      BY <1>2, <2>1
    <3>2. ASSUME NEW s \in Request \ {r}, NEW q \in Request \ {r}, Opened(s)', Opened(q)', s # q
          PROVE  tx'[s].locks \cap tx'[q].locks = {}
      BY <2>1, <2>2, <3>2 DEF CooldownInv, LocksExclude
    <3> QED
      BY <3>1, <3>2 DEF LocksExclude
  <2>6. CooldownHolds'
    BY <1>4, FingerprintsStay DEF CooldownInv, CooldownHolds, RulesStand, Plan
  <2> QED
    BY <2>3, <2>4, <2>5, <2>6
<1> QED
  BY <1>3, <1>6, <1>7

LEMMA CooldownIsNat ==
  ASSUME NEW row \in RuleRow
  PROVE  row.cooldownSeconds \in Nat
<1>1. row.cooldownSeconds \in 0..MaxCooldownSeconds
  BY DEF RuleRow
<1> QED
  BY <1>1

LEMMA CommitKeepsCooldown ==
  ASSUME IInv, CooldownInv, NEW r \in Request, Commit(r)
  PROVE  CooldownInv'
<1>1. PICK a0 : a0 = [id |-> tx[r].id, request |-> r, loaded |-> tx[r].loaded]
  OBVIOUS
<1>2. a0.id = tx[r].id /\ a0.request = r
  BY <1>1
<1>3. /\ tx[r].phase = "rules" /\ Go(r, Idle)
      /\ alerts' = alerts \cup {a0} /\ deliveries' = deliveries \cup Own(r)
      /\ inserted' = {d \in inserted : d.alert # tx[r].id}
      /\ UNCHANGED configVars
  BY <1>1 DEF Commit, Close
<1>4. Opened(r) /\ OpenTx(r, tx[r])
  BY <1>3, IdleOrOpen DEF IInv, Opened, Phases
<1>5. /\ tx'[r] = Idle
      /\ \A s \in Request \ {r} : tx'[s] = tx[s]
  BY <1>3 DEF Go, IInv, IngestTypes
<1>6. ASSUME NEW s \in Request, Opened(s)'
      PROVE  s # r /\ Opened(s) /\ tx'[s] = tx[s]
  BY <1>5, <1>6 DEF Opened, Phases, Idle
<1> SUFFICES ASSUME RulesStand
             PROVE  /\ \A h \in Editor : ~Editing(h, "rule")'
                    /\ \A s \in Request : Opened(s)' => TxClear(s)'
                    /\ LocksExclude'
                    /\ CooldownHolds'
  BY <1>3 DEF CooldownInv, RulesStand, Plan, configVars
<1>7. RulesKept /\ (\A h \in Editor : ~Editing(h, "rule")') /\ UNCHANGED <<scenario, rules>>
  BY <1>3, NoRuleEdits
<1>8. TxClear(r)
  BY <1>4 DEF CooldownInv
\* A row that is committed now is of the alert that is, an earlier one is not.
<1>9. ASSUME NEW d \in deliveries', NEW a \in alerts', d.alert = a.id
      PROVE  (d \in deliveries /\ a \in alerts) \/ (d \in Own(r) /\ a = a0)
  <2>1. \A b \in alerts : b.id # tx[r].id
    BY <1>4 DEF IInv, IngestCore, EventsOnce
  <2>2. CASE d \in deliveries
    <3>1. \E b \in alerts : d.alert = b.id
      BY <2>2 DEF IInv, IngestCore, RowsHaveAlerts
    <3> QED
      BY <1>2, <1>3, <1>9, <2>1, <2>2, <3>1
  <2>3. CASE d \in Own(r)
    BY <1>3, <1>9, <2>1, <2>3 DEF Own
  <2> QED
    BY <1>3, <2>2, <2>3
<1>10. ASSUME NEW s \in Request, Opened(s)' PROVE TxClear(s)'
  <2>1. s # r /\ Opened(s) /\ tx'[s] = tx[s] /\ TxClear(s)
    BY <1>6, <1>10 DEF CooldownInv
  <2>2. Own(s)' = Own(s)
    BY <1>3, <1>4, <2>1, OthersOwn
  <2>3. ASSUME NEW u \in Rule, HasCooldown(s, u), MayNotify(s, u), rules'[u] = rules[u]
        PROVE  Clear(s, u)'
    <3>1. Fingerprint(s, u) \in tx[s].locks /\ Clear(s, u)
      BY <2>3 DEF MayNotify
    <3>2. ASSUME NEW d \in deliveries', NEW a \in alerts', d.alert = a.id, d.rule = u,
                 Fingerprint(a.request, u) = Fingerprint(s, u)
          PROVE  d.createdAt + rules[u].cooldownSeconds <= tx[s].at
      <4>1. CASE d \in deliveries /\ a \in alerts
        BY <3>1, <3>2, <4>1 DEF Clear
      <4>2. CASE d \in Own(r) /\ a = a0
        <5>1. Fingerprint(r, u) = Fingerprint(s, u)
          BY <1>2, <3>2, <4>2
        <5>2. IncidentOf(r) = IncidentOf(s)
          BY <5>1 DEF Fingerprint
        <5>3. HasCooldown(r, u) /\ MayNotify(r, u)
          BY <1>8, <2>3, <3>2, <4>2, <5>2 DEF HasCooldown, TxClear
        <5>4. Fingerprint(s, u) \in tx[r].locks
          BY <5>1, <5>3 DEF MayNotify
        <5> QED
          BY <1>4, <2>1, <3>1, <5>4 DEF CooldownInv, LocksExclude
      <4> QED
        BY <1>9, <3>2, <4>1, <4>2
    <3> QED
      BY <1>7, <2>1, <2>3, <3>2, FingerprintsStay DEF Clear
  <2> QED
    BY <1>7, <2>1, <2>2, <2>3, StaysClear
<1>11. LocksExclude'
  BY <1>6 DEF CooldownInv, LocksExclude
<1>12. CooldownHolds'
  <2> DEFINE Apart(c, d) == c.createdAt >= d.createdAt + rules[c.rule].cooldownSeconds
  <2>1. ASSUME NEW c \in Own(r), NEW d \in deliveries, NEW b \in alerts, d.alert = b.id,
               c.rule = d.rule, IncidentOf(r) # NoIncident,
               Fingerprint(b.request, c.rule) = Fingerprint(r, c.rule)
        PROVE  Apart(c, d) \/ Apart(d, c)
    <3>1. PICK cool : cool = rules[c.rule].cooldownSeconds
      OBVIOUS
    <3>2. c.rule \in StoredRules /\ Exists(rules[c.rule]) /\ rules[c.rule] \in RuleRow
      BY DEF Own, IInv, IngestCore, ForeignKeys, StoredRules, ConfigCore, ConfigInv, Exists
    <3>3. cool \in Nat
      BY <3>1, <3>2, CooldownIsNat
    <3>4. c.createdAt \in Nat /\ d.createdAt \in Nat /\ c.createdAt = tx[r].at
      <4>1. now \in Nat /\ c.createdAt \in 0..now /\ d.createdAt \in 0..now
        BY PlanHolds DEF Own, IInv, IngestTypes, ConfigCore, ConfigInv
      <4> QED
        BY <1>8, <4>1 DEF TxClear
    <3>5. CASE cool > 0
      <4>1. Clear(r, c.rule)
        BY <1>8, <2>1, <3>1, <3>2, <3>5 DEF TxClear, MayNotify, HasCooldown
      <4> QED
        BY <2>1, <3>1, <3>3, <3>4, <4>1 DEF Clear
    <3>6. CASE cool = 0
      BY <2>1, <3>1, <3>4, <3>6
    <3> QED
      BY <3>3, <3>5, <3>6
  <2>2. ASSUME NEW c \in deliveries', NEW d \in deliveries', NEW a \in alerts', NEW b \in alerts',
               c.alert = a.id, d.alert = b.id, a # b, c.rule = d.rule,
               IncidentOf(a.request) # NoIncident,
               Fingerprint(a.request, c.rule) = Fingerprint(b.request, d.rule)
        PROVE  Apart(c, d) \/ Apart(d, c)
    <3>1. CASE c \in deliveries /\ d \in deliveries /\ a \in alerts /\ b \in alerts
      BY <2>2, <3>1 DEF CooldownInv, CooldownHolds, RulesStand
    <3>2. CASE c \in Own(r) /\ a = a0
      <4>1. d \in deliveries /\ b \in alerts
        BY <1>9, <2>2, <3>2
      <4> QED
        BY <1>2, <2>1, <2>2, <3>2, <4>1
    <3>3. CASE d \in Own(r) /\ b = a0
      <4>1. c \in deliveries /\ a \in alerts
        BY <1>9, <2>2, <3>3
      <4>2. IncidentOf(r) # NoIncident
        BY <1>2, <2>2, <3>3 DEF Fingerprint
      <4> QED
        BY <1>2, <2>1, <2>2, <3>3, <4>1, <4>2
    <3> QED
      BY <1>9, <2>2, <3>1, <3>2, <3>3
  <2> QED
    BY <1>7, <2>2, FingerprintsStay DEF CooldownHolds
<1> QED
  BY <1>7, <1>10, <1>11, <1>12

LEMMA InitCooldown == Init => CooldownInv
<1> SUFFICES ASSUME Init PROVE CooldownInv
  OBVIOUS
<1>1. \A r \in Request : ~Opened(r)
  BY DEF Init, Opened, Phases, Idle
<1>2. \A h \in Editor : ~Editing(h, "rule")
  BY DEF Init, ConfigInit, Editing
<1>3. CooldownHolds
  BY DEF Init, CooldownHolds
<1> QED
  BY <1>1, <1>2, <1>3 DEF CooldownInv, LocksExclude

LEMMA NextCooldown == IInv /\ CooldownInv /\ [Next]_vars => CooldownInv'
<1> SUFFICES ASSUME IInv, CooldownInv, [Next]_vars PROVE CooldownInv'
  OBVIOUS
<1>1. ASSUME NEW r \in Request, Begin(r) \/ IngestStep(r) \/ FailIngest(r) \/ AbortVictim(r)
      PROVE  CooldownInv'
  BY <1>1, Zenon, BeginKeepsCooldown, StoringKeepsCooldown, EndingsEnd, EndKeepsCooldown,
     OpenRuleKeepsCooldown, InsertRouteKeepsCooldown, CommitKeepsCooldown DEF IngestStep
<1>2. CASE ConfigStep /\ UNCHANGED ingestVars
  <2>1. scenario' = scenario /\ UNCHANGED <<alerts, deliveries, inserted, tx>>
    BY <1>2 DEF ConfigStep, ingestVars
  <2> QED
    BY <1>2, <2>1, OwnersKeepRules, RestKeepsCooldown DEF IInv, ConfigCore, CooldownInv
<1>3. CASE DisableCamera \/ Tick \/ UNCHANGED vars
  <2>1. UNCHANGED <<scenario, rules, edit, alerts, deliveries, inserted, tx>>
    BY <1>3 DEF DisableCamera, Tick, vars, configVars, ingestVars
  <2>2. RulesStand => RulesKept /\ \A h \in Editor : ~Editing(h, "rule")'
    BY <2>1 DEF CooldownInv, RulesKept, Editing
  <2> QED
    BY <2>1, <2>2, RestKeepsCooldown
<1> QED
  BY <1>1, <1>2, <1>3 DEF Next

LEMMA CooldownInvariance == Spec => [](IInv /\ CooldownInv)
  BY InitInv, InitCooldown, NextInv, NextCooldown, PTL DEF Spec

-----------------------------------------------------------------------------
(* While nobody changes the configuration *)

RouteOf(c) == [rule |-> c.rule, endpoint |-> c.endpoint]
LeadsTo(u, e) == \E c \in Usable(u) : c.endpoint = e
\* The routes of a rule are loaded together.
AllLoaded(S) ==
  \A x \in S : LeadsTo(x.rule, x.endpoint) /\ \A c \in Usable(x.rule) : RouteOf(c) \in S
Among(S, c) == \E d \in S : d.rule = c.rule /\ d.endpoint = c.endpoint

FirstRoute(c) == \A b \in Usable(c.rule) : c.priority <= b.priority

HasRoute(d) ==
  \E c \in Usable(d.rule) : c.endpoint = d.endpoint /\ (FirstRoute(c) => d.status = "PENDING")

Concerns(r, u) ==
  /\ StoreOf(r) = RuleStore /\ u \in StoredRules
  /\ RuleMatches(rules[u], Sends(r).severity, Sends(r).type)

\* An alert of S is of r's incident and was notified of by u.
Precedent(S, r, u) ==
  \E b \in S : /\ IncidentOf(b.request) = IncidentOf(r)
               /\ IncidentOf(b.request) # NoIncident
               /\ \E d \in deliveries : d.alert = b.id /\ d.rule = u

(* A rule that concerns r is still to be opened, has had its routes        *)
(* loaded, or had none to load.                                            *)
Accounted(r, u) ==
  \/ \E x \in tx[r].rules : x.rule = u
  \/ \E x \in tx[r].loaded : x.rule = u
  \/ Usable(u) = {}
  \/ Precedent(alerts, r, u)

OwnsAll(r, u) == \A b \in Usable(u) \ tx[r].routes : Among(Own(r), b)
OthersHaveAll(r, u) ==
  \A b \in Usable(u) : \E d \in deliveries :
    d.key = AlertDedupeKey(AlertReference(r), b.rule, b.endpoint)

RowStands(r, d) ==
  /\ HasRoute(d) /\ RouteOf(d) \in tx[r].loaded
  /\ \A x \in tx[r].rules : x.rule # d.rule
  /\ OwnsAll(r, d.rule)

RouteStands(r, c) ==
  /\ c \in Usable(c.rule) /\ RouteOf(c) \in tx[r].loaded /\ ~Among(Own(r), c)
  /\ \A x \in tx[r].rules : x.rule # c.rule
  /\ \A b \in tx[r].routes : b.rule = c.rule
  /\ \A b \in Usable(c.rule) : tx[r].top <= b.priority
  /\ \E b \in Usable(c.rule) : tx[r].top = b.priority
  /\ OwnsAll(r, c.rule) \/ OthersHaveAll(r, c.rule)

(* The routes of a rule are taken over from the first to the last, or not  *)
(* at all because another alert of the incident has them all.              *)
TxStands(r) ==
  /\ \A x, y \in tx[r].rules : x.rule = y.rule => x = y
  /\ AllLoaded(tx[r].loaded)
  /\ \A d \in Own(r) : RowStands(r, d)
  /\ \A c \in tx[r].routes : RouteStands(r, c)
  /\ Notifies(r) => \A u \in Rule : Concerns(r, u) => Accounted(r, u)

DeliveryStands(d) ==
  /\ HasRoute(d)
  /\ \A c \in Usable(d.rule) : \E b \in deliveries : b.alert = d.alert /\ RouteOf(b) = RouteOf(c)

AlertStands(a) ==
  /\ AllLoaded(a.loaded)
  /\ \A d \in deliveries : d.alert = a.id => RouteOf(d) \in a.loaded
  /\ \A u \in Rule : Concerns(a.request, u) =>
       \/ \E x \in a.loaded : x.rule = u
       \/ Usable(u) = {}
       \/ Precedent(alerts \ {a}, a.request, u)

StandingInv ==
  Standing =>
    /\ \A h \in Editor : edit[h] = NoEdit
    /\ \A r \in Request : Opened(r) => TxStands(r)
    /\ \A d \in deliveries : DeliveryStands(d)
    /\ \A a \in alerts : AlertStands(a)

LEMMA RoutesStay ==
  ASSUME UNCHANGED configVars
  PROVE  /\ \A u : Usable(u)' = Usable(u)
         /\ \A u, e : LeadsTo(u, e)' <=> LeadsTo(u, e)
         /\ \A S : AllLoaded(S)' <=> AllLoaded(S)
         /\ \A c : FirstRoute(c)' <=> FirstRoute(c)
         /\ \A d : HasRoute(d)' <=> HasRoute(d)
         /\ \A r, u : Concerns(r, u)' <=> Concerns(r, u)
         /\ Standing' <=> Standing
<1>1. UNCHANGED <<scenario, endpoints, rules, channels>>
  BY DEF configVars
<1>2. \A u : Usable(u)' = Usable(u)
  BY <1>1 DEF Usable
<1>3. \A u, e : LeadsTo(u, e)' <=> LeadsTo(u, e)
  BY <1>2 DEF LeadsTo
<1>8. \A S : AllLoaded(S)' <=> AllLoaded(S)
  BY <1>2, <1>3 DEF AllLoaded
<1>4. \A c : FirstRoute(c)' <=> FirstRoute(c)
  BY <1>2 DEF FirstRoute
<1>5. \A d : HasRoute(d)' <=> HasRoute(d)
  BY <1>2, <1>4 DEF HasRoute
<1>6. \A r, u : Concerns(r, u)' <=> Concerns(r, u)
  BY <1>1 DEF Concerns, StoredRules, Exists, StoreOf, Sends, Plan
<1>7. Standing' <=> Standing
  BY <1>1 DEF Standing, Plan
<1> QED
  BY <1>2, <1>3, <1>4, <1>5, <1>6, <1>7, <1>8

LEMMA PrecedentStays ==
  ASSUME scenario' = scenario, deliveries \subseteq deliveries', alerts \subseteq alerts',
         NEW r, NEW u
  PROVE  /\ Precedent(alerts, r, u) => Precedent(alerts, r, u)'
         /\ \A a : Precedent(alerts \ {a}, r, u) => Precedent(alerts \ {a}, r, u)'
BY FingerprintsStay DEF Precedent

LEMMA OthersKeepAll ==
  ASSUME UNCHANGED configVars, deliveries \subseteq deliveries', NEW r, NEW u,
         tx'[r].id = tx[r].id, OthersHaveAll(r, u)
  PROVE  OthersHaveAll(r, u)'
<1>1. AlertReference(r)' = AlertReference(r)
  BY FingerprintsStay DEF AlertReference, configVars
<1> QED
  BY <1>1, RoutesStay DEF OthersHaveAll, AlertDedupeKey

LEMMA AccountedStays ==
  ASSUME UNCHANGED configVars, deliveries \subseteq deliveries', alerts \subseteq alerts',
         NEW r, NEW u, Accounted(r, u), tx[r].loaded \subseteq tx'[r].loaded,
         \A x \in tx[r].rules : x.rule = u => x \in tx'[r].rules
  PROVE  Accounted(r, u)'
<1>1. Precedent(alerts, r, u) => Precedent(alerts, r, u)'
  BY PrecedentStays DEF configVars
<1> QED
  BY <1>1, RoutesStay DEF Accounted

\* A transaction that does not move.
LEMMA TxStaysStanding ==
  ASSUME UNCHANGED configVars, deliveries \subseteq deliveries', alerts \subseteq alerts',
         NEW s, TxStands(s), tx'[s] = tx[s], Own(s)' = Own(s)
  PROVE  TxStands(s)'
<1>1. \A u : OwnsAll(s, u)' <=> OwnsAll(s, u)
  BY RoutesStay DEF OwnsAll
<1>2. \A d \in Own(s) : RowStands(s, d)'
  BY <1>1, RoutesStay DEF TxStands, RowStands
<1>3. ASSUME NEW c \in tx[s].routes PROVE RouteStands(s, c)'
  <2>1. RouteStands(s, c)
    BY DEF TxStands
  <2>2. OthersHaveAll(s, c.rule) => OthersHaveAll(s, c.rule)'
    BY OthersKeepAll
  <2> QED
    BY <1>1, <2>1, <2>2, RoutesStay DEF RouteStands
<1>4. ASSUME Notifies(s)', NEW u \in Rule, Concerns(s, u)' PROVE Accounted(s, u)'
  <2>1. Accounted(s, u)
    BY <1>4, RoutesStay DEF TxStands, Notifies
  <2> QED
    BY <2>1, AccountedStays
<1> QED
  BY <1>2, <1>3, <1>4, RoutesStay DEF TxStands

\* Nothing is committed.
LEMMA NothingCommitted ==
  ASSUME StandingInv, UNCHANGED <<configVars, alerts, deliveries>>,
         Standing => \A r \in Request : Opened(r)' => TxStands(r)'
  PROVE  StandingInv'
<1> SUFFICES ASSUME Standing
             PROVE  /\ \A h \in Editor : edit'[h] = NoEdit
                    /\ \A d \in deliveries : DeliveryStands(d)'
                    /\ \A a \in alerts : AlertStands(a)'
  BY RoutesStay DEF StandingInv
<1>1. \A h \in Editor : edit'[h] = NoEdit
  BY DEF StandingInv, configVars
<1>2. \A d \in deliveries : DeliveryStands(d)'
  BY RoutesStay DEF StandingInv, DeliveryStands
<1>3. ASSUME NEW a \in alerts PROVE AlertStands(a)'
  <2>1. AlertStands(a)
    BY DEF StandingInv
  <2>2. \A u \in Rule : Precedent(alerts \ {a}, a.request, u) => Precedent(alerts \ {a}, a.request, u)'
    BY PrecedentStays DEF configVars
  <2> QED
    BY <2>1, <2>2, RoutesStay DEF AlertStands
<1> QED
  BY <1>1, <1>2, <1>3

LEMMA GoingOnKeepsStanding ==
  ASSUME IInv, StandingInv, NEW r \in Request, NEW t, GoesOn(r, t),
         \A d \in inserted' \ inserted : d.alert = tx[r].id,
         Standing => TxStands(r)'
  PROVE  StandingInv'
<1>1. UNCHANGED <<configVars, alerts, deliveries>>
  BY DEF GoesOn
<1>2. \A s \in Request \ {r} : tx'[s] = tx[s]
  BY DEF IInv, IngestTypes, GoesOn, Go
<1>3. ASSUME Standing, NEW s \in Request \ {r}, Opened(s)' PROVE TxStands(s)'
  <2>1. Opened(s) /\ Opened(r) /\ tx'[s] = tx[s] /\ TxStands(s)
    BY <1>2, <1>3 DEF StandingInv, Opened, GoesOn
  <2>2. Own(s)' = Own(s)
    BY <2>1, OthersOwn DEF GoesOn
  <2> QED
    BY <1>1, <2>1, <2>2, TxStaysStanding
<1> QED
  BY <1>1, <1>3, NothingCommitted

LEMMA EndKeepsStanding ==
  ASSUME IInv, StandingInv, NEW r \in Request, EndsWithNothing(r)
  PROVE  StandingInv'
<1>1. UNCHANGED <<configVars, alerts, deliveries>>
  BY DEF EndsWithNothing
<1>2. tx'[r] = Idle /\ \A s \in Request \ {r} : tx'[s] = tx[s]
  BY DEF IInv, IngestTypes, EndsWithNothing, Go
<1>3. ASSUME Standing, NEW s \in Request, Opened(s)' PROVE TxStands(s)'
  <2>1. s # r /\ Opened(s) /\ Opened(r) /\ tx'[s] = tx[s] /\ TxStands(s)
    BY <1>2, <1>3 DEF StandingInv, Opened, Phases, Idle, EndsWithNothing
  <2>2. Own(s)' = Own(s)
    BY <2>1, OthersOwn DEF EndsWithNothing
  <2> QED
    BY <1>1, <2>1, <2>2, TxStaysStanding
<1> QED
  BY <1>1, <1>3, NothingCommitted

LEMMA OwnKeys ==
  ASSUME IInv, NEW r \in Request, Opened(r), NEW d \in Own(r)
  PROVE  d.key = AlertDedupeKey(AlertReference(r), d.rule, d.endpoint) /\ d \notin deliveries
<1>1. d \in inserted /\ d.alert = tx[r].id
  BY DEF Own
<1>2. PICK s \in Request :
        /\ Notifies(s) /\ d.alert = tx[s].id
        /\ d.key = AlertDedupeKey(AlertReference(s), d.rule, d.endpoint)
  BY <1>1 DEF IInv, IngestCore, RowsHaveAlerts
<1>3. s = r
  BY <1>1, <1>2, IdsDiffer, IdleOrOpen DEF IInv
<1>4. d \notin deliveries
  BY <1>1 DEF IInv, IngestCore, RowsHaveAlerts, EventsOnce
<1> QED
  BY <1>2, <1>3, <1>4

\* The alert of a committed row is one.
LEMMA RowsOfOneAlert ==
  ASSUME IInv, NEW a \in alerts, NEW b \in alerts, a.id = b.id
  PROVE  a = b
<1>1. PICK m : a.id = <<a.request, m>>
  BY Zenon DEF IInv, IngestTypes, StoredAlert
<1>2. PICK n : b.id = <<b.request, n>>
  BY Zenon DEF IInv, IngestTypes, StoredAlert
<1>3. <<a.request, m>> = <<b.request, n>>
  BY <1>1, <1>2
<1>4. a.request = b.request
  BY <1>3
<1> QED
  BY <1>4 DEF IInv, IngestCore, EventsOnce

LEMMA UsableChannels ==
  ASSUME IInv, NEW u
  PROVE  /\ Usable(u) \subseteq channels /\ Usable(u) \subseteq ChannelRow
         /\ \A c \in Usable(u) : c.rule = u
         /\ \A b, c \in Usable(u) : b.endpoint = c.endpoint => b = c
<1>1. Usable(u) \subseteq channels /\ \A c \in Usable(u) : c.rule = u
  BY DEF Usable
<1> QED
  BY <1>1 DEF IInv, ConfigCore, ConfigInv, ChannelIdsOnce

LEMMA LeastRoute ==
  ASSUME NEW R, R \subseteq ChannelRow, R # {}
  PROVE  \E c \in R : \A b \in R : c.priority <= b.priority
<1>1. {c.priority : c \in R} \subseteq Nat /\ {c.priority : c \in R} # {}
  BY DEF ChannelRow, Priorities
<1>2. \E p \in {c.priority : c \in R} : \A q \in {c.priority : c \in R} : p <= q
  BY <1>1, LeastExists
<1> QED
  BY <1>2

LEMMA MinIsLeast ==
  ASSUME NEW r, NEW R, R \subseteq ChannelRow, R # {}
  PROVE  /\ \A b \in R : MinPriority(r, R) <= b.priority
         /\ \E b \in R : MinPriority(r, R) = b.priority
<1>1. \E c : c \in NextRoute(r, R)
  BY LeastRoute DEF NextRoute
<1>2. PICK c \in NextRoute(r, R) : MinPriority(r, R) = c.priority
  BY <1>1, Zenon DEF MinPriority
<1> QED
  BY <1>2 DEF NextRoute

LEMMA BeginKeepsStanding ==
  ASSUME IInv, StandingInv, NEW r \in Request, Begin(r)
  PROVE  StandingInv'
<1>1. PICK t : t = [phase |-> "alert", id |-> <<r, tries[r]>>, at |-> now, stored |-> 0,
                    rules |-> {}, routes |-> {}, top |-> 0, locks |-> {}, loaded |-> {}]
  OBVIOUS
<1>2. /\ t.phase = "alert" /\ t.id = <<r, tries[r]>> /\ t.rules = {}
      /\ t.routes = {} /\ t.loaded = {}
  BY <1>1
<1>3. /\ tx[r] = Idle /\ (Go(r, t) \/ tx' = tx)
      /\ UNCHANGED <<configVars, alerts, deliveries, inserted>>
  BY <1>1 DEF Begin, Kept
<1>4. /\ \A s \in Request \ {r} : tx'[s] = tx[s]
      /\ tx'[r] = t \/ tx'[r] = Idle
  BY <1>3 DEF IInv, IngestTypes, Go
<1>5. ASSUME Standing, NEW s \in Request \ {r}, Opened(s)' PROVE TxStands(s)'
  <2>1. tx'[s] = tx[s] /\ Own(s)' = Own(s) /\ TxStands(s)
    BY <1>3, <1>4, <1>5 DEF StandingInv, Opened, Own
  <2> QED
    BY <1>3, <2>1, TxStaysStanding
<1>6. ASSUME Opened(r)' PROVE TxStands(r)'
  <2>1. tx'[r] = t
    BY <1>4, <1>6 DEF Opened, Phases, Idle
  <2>2. Own(r)' = {}
    BY <1>2, <1>3, <2>1, NoRowsYet DEF Own
  <2>3. ~Notifies(r)'
    BY <1>2, <2>1 DEF Notifies
  <2> QED
    BY <1>2, <2>1, <2>2, <2>3 DEF TxStands, AllLoaded
<1> QED
  BY <1>3, <1>5, <1>6, NothingCommitted

LEMMA StoringKeepsStanding ==
  ASSUME IInv, StandingInv, NEW r \in Request, StoreAlert(r) \/ StoreEvidence(r)
  PROVE  StandingInv'
<1>1. PICK t : Storing(r, t)
  BY StoringGoesOn
<1>2. /\ GoesOn(r, t) /\ tx'[r] = t /\ t.id = tx[r].id /\ t.routes = {} /\ t.loaded = {}
      /\ t.rules \subseteq MatchingRules(r)
      /\ t.phase \in {"rules", "routes"} => t.rules = MatchingRules(r)
      /\ UNCHANGED <<configVars, alerts, deliveries, inserted>>
  BY <1>1 DEF Storing, GoesOn
<1>3. Own(r)' = {}
  BY <1>1, <1>2, NoRowsYet DEF Own, Storing, GoesOn
<1>4. ASSUME Notifies(r)', NEW u \in Rule, Concerns(r, u)' PROVE \E x \in t.rules : x.rule = u
  <2>1. Concerns(r, u)
    BY <1>2, <1>4, RoutesStay
  <2>2. [rule |-> u, cooldown |-> rules[u].cooldownSeconds] \in MatchingRules(r)
    BY <2>1 DEF MatchingRules, Concerns
  <2> QED
    BY <1>2, <1>4, <2>2 DEF Notifies
<1>5. TxStands(r)'
  BY <1>2, <1>3, <1>4, MatchingTypes DEF TxStands, AllLoaded, Accounted
<1> QED
  BY <1>2, <1>5, GoingOnKeepsStanding

LEMMA OpenRuleKeepsStanding ==
  ASSUME IInv, StandingInv, NEW r \in Request, OpenRule(r)
  PROVE  StandingInv'
<1>1. PICK spec : spec = First(tx[r].rules)
  OBVIOUS
<1>2. PICK routes : routes = IF CooldownSuppresses(r, spec) THEN {} ELSE Usable(spec.rule)
  OBVIOUS
<1>3. PICK top : top = IF routes = {} THEN tx[r].top ELSE MinPriority(r, routes)
  OBVIOUS
<1>4. PICK locks : locks = IF TakesCooldownLock(r, spec)
                           THEN tx[r].locks \cup {Fingerprint(r, spec.rule)} ELSE tx[r].locks
  OBVIOUS
<1>5. PICK phase : phase = IF routes = {} THEN "rules" ELSE "routes"
  OBVIOUS
<1>6. PICK loaded : loaded = {[rule |-> c.rule, endpoint |-> c.endpoint] : c \in routes}
  OBVIOUS
<1> DEFINE t == [tx[r] EXCEPT !.phase = phase, !.rules = @ \ {spec}, !.routes = routes,
                              !.top = top, !.locks = locks, !.loaded = @ \cup loaded]
<1>7. /\ tx[r].phase = "rules" /\ tx[r].rules # {} /\ Go(r, t)
      /\ UNCHANGED <<Kept, inserted, tries, answers, failures>>
  BY <1>1, <1>2, <1>3, <1>4, <1>5, <1>6 DEF OpenRule, Runs
<1>8. OpenTx(r, tx[r]) /\ Opened(r) /\ HasAlert(r) /\ Notifies(r) /\ tx[r].routes = {}
  BY <1>7, IdleOrOpen DEF IInv, Opened, Phases, HasAlert, Notifies, OpenTx
<1>9. spec \in tx[r].rules /\ spec.rule \in Rule
  BY <1>1, <1>7, <1>8, FirstIsThere DEF OpenTx
<1>10. /\ routes \subseteq channels /\ routes \subseteq ChannelRow
       /\ \A c \in routes : c.rule = spec.rule
  BY <1>2, UsableChannels
<1>11. /\ DOMAIN t = DOMAIN tx[r] /\ t.id = tx[r].id /\ t.at = tx[r].at
       /\ t.stored = tx[r].stored
       /\ t.phase = phase /\ t.rules = tx[r].rules \ {spec} /\ t.routes = routes
       /\ t.top = top /\ t.loaded = tx[r].loaded \cup loaded
  BY <1>8 DEF OpenTx
<1> HIDE DEF t
<1>12. OpenTx(r, t)
  BY <1>5, <1>6, <1>8, <1>10, <1>11 DEF OpenTx, Phases, ChannelRow
<1>13. GoesOn(r, t)
  BY <1>5, <1>7, <1>8, <1>11, <1>12 DEF GoesOn, Kept
<1>14. /\ tx'[r] = t /\ Own(r)' = Own(r)
       /\ UNCHANGED <<configVars, alerts, deliveries, inserted>>
  BY <1>7, <1>11 DEF IInv, IngestTypes, Go, Own, Kept
<1>15. ASSUME Standing PROVE TxStands(r)'
  <2>1. TxStands(r)
    BY <1>8, <1>15 DEF StandingInv
  <2>2. \A x \in tx[r].rules \ {spec} : x.rule # spec.rule
    BY <1>9, <2>1 DEF TxStands
  <2>3. \A d \in Own(r) : d.rule # spec.rule
    BY <1>9, <2>1 DEF TxStands, RowStands
  <2>4. routes # {} => routes = Usable(spec.rule)
    BY <1>2
  <2>5. AllLoaded(loaded)
    BY <1>6, <1>10, <2>4 DEF AllLoaded, LeadsTo, RouteOf
  <2>6. ASSUME NEW d \in Own(r) PROVE RowStands(r, d)'
    <3>1. RowStands(r, d)
      BY <2>1 DEF TxStands
    <3>2. OwnsAll(r, d.rule)'
      BY <1>8, <1>14, <3>1, RoutesStay DEF RowStands, OwnsAll
    <3> QED
      BY <1>11, <1>14, <3>1, <3>2, RoutesStay DEF RowStands
  <2>7. ASSUME NEW c \in routes PROVE RouteStands(r, c)'
    <3>1. routes = Usable(c.rule) /\ c.rule = spec.rule
      BY <1>10, <2>4
    <3>2. RouteOf(c) \in loaded
      BY <1>6 DEF RouteOf
    <3>3. ~Among(Own(r), c)
      BY <2>3, <3>1 DEF Among
    <3>4. /\ \A b \in routes : top <= b.priority
          /\ \E b \in routes : top = b.priority
      BY <1>3, <1>10, MinIsLeast
    <3>5. OwnsAll(r, c.rule)'
      BY <1>11, <1>14, <3>1, RoutesStay DEF OwnsAll
    <3>6. \A x \in t.rules : x.rule # c.rule
      BY <1>11, <2>2, <3>1
    <3>7. \A b \in t.routes : b.rule = c.rule
      BY <1>10, <1>11, <3>1
    <3>8. Usable(c.rule)' = routes
      BY <1>14, <3>1, RoutesStay
    <3> QED
      BY <1>11, <1>14, <3>2, <3>3, <3>4, <3>5, <3>6, <3>7, <3>8 DEF RouteStands, RouteOf, Among
  <2>8. ASSUME NEW u \in Rule, Concerns(r, u) PROVE Accounted(r, u)'
    <3>1. Accounted(r, u)
      BY <1>8, <2>1, <2>8 DEF TxStands
    <3>2. CASE u # spec.rule
      BY <1>11, <1>14, <3>1, <3>2, AccountedStays
    <3>3. CASE u = spec.rule /\ routes # {}
      <4>1. PICK c \in routes : TRUE
        BY <3>3
      <4>2. RouteOf(c) \in t.loaded /\ RouteOf(c).rule = u
        BY <1>6, <1>10, <1>11, <3>3 DEF RouteOf
      <4> QED
        BY <1>14, <4>2 DEF Accounted
    <3>4. CASE u = spec.rule /\ routes = {} /\ ~CooldownSuppresses(r, spec)
      <4>1. Usable(u) = {}
        BY <1>2, <3>4
      <4> QED
        BY <1>14, <4>1, RoutesStay DEF Accounted
    <3>5. CASE u = spec.rule /\ CooldownSuppresses(r, spec)
      <4>1. Precedent(alerts, r, u)
        <5>1. PICK d \in deliveries, a \in alerts :
                /\ d.alert = a.id /\ d.rule = u
                /\ Fingerprint(a.request, u) = Fingerprint(r, u)
          BY <3>5 DEF CooldownSuppresses
        <5>2. IncidentOf(a.request) = IncidentOf(r) /\ IncidentOf(r) # NoIncident
          BY <3>5, <5>1 DEF Fingerprint, CooldownSuppresses, TakesCooldownLock
        <5> QED
          BY <5>1, <5>2 DEF Precedent
      <4>2. Precedent(alerts, r, u)'
        BY <1>14, <4>1, PrecedentStays DEF configVars
      <4> QED
        BY <4>2 DEF Accounted
    <3> QED
      BY <3>2, <3>3, <3>4, <3>5
  <2>9. \A x, y \in t.rules : x.rule = y.rule => x = y
    BY <1>11, <2>1 DEF TxStands
  <2>10. AllLoaded(t.loaded)
    BY <1>11, <2>1, <2>5 DEF TxStands, AllLoaded
  <2> QED
    BY <1>11, <1>14, <2>6, <2>7, <2>8, <2>9, <2>10, RoutesStay DEF TxStands
<1> QED
  BY <1>13, <1>14, <1>15, GoingOnKeepsStanding

(* Whoever has the key of one route of a rule has those of all its routes, *)
(* and then r has none of them.                                            *)
LEMMA KeysOfOthers ==
  ASSUME IInv, StandingInv, Standing, NEW r \in Request, Opened(r), NEW c,
         NEW d \in deliveries, d.key = AlertDedupeKey(AlertReference(r), c.rule, c.endpoint)
  PROVE  /\ OthersHaveAll(r, c.rule)
         /\ \A e \in Own(r) : e.rule # c.rule
<1>1. PICK a \in alerts :
        d.alert = a.id /\ d.key = AlertDedupeKey(Reference(a), d.rule, d.endpoint)
  BY DEF IInv, IngestCore, RowsHaveAlerts
<1>2. Reference(a) = AlertReference(r) /\ d.rule = c.rule
  BY <1>1 DEF AlertDedupeKey
<1>3. ASSUME NEW b \in Usable(c.rule)
      PROVE  \E e \in deliveries : e.key = AlertDedupeKey(AlertReference(r), b.rule, b.endpoint)
  <2>1. PICK e \in deliveries : e.alert = d.alert /\ RouteOf(e) = RouteOf(b)
    BY <1>2 DEF StandingInv, DeliveryStands
  <2>2. PICK f \in alerts :
          e.alert = f.id /\ e.key = AlertDedupeKey(Reference(f), e.rule, e.endpoint)
    BY DEF IInv, IngestCore, RowsHaveAlerts
  <2>3. f = a
    BY <1>1, <2>1, <2>2, RowsOfOneAlert
  <2>4. e.rule = b.rule /\ e.endpoint = b.endpoint
    BY <2>1 DEF RouteOf
  <2> QED
    BY <1>2, <2>2, <2>3, <2>4
<1>4. ASSUME NEW e \in Own(r), e.rule = c.rule PROVE FALSE
  <2>1. HasRoute(e)
    BY DEF StandingInv, TxStands, RowStands
  <2>2. PICK b \in Usable(c.rule) : b.endpoint = e.endpoint /\ b.rule = c.rule
    BY <1>4, <2>1, UsableChannels DEF HasRoute
  <2>3. PICK f \in deliveries : f.key = AlertDedupeKey(AlertReference(r), b.rule, b.endpoint)
    BY <1>3
  <2>4. e.key = f.key /\ e \notin deliveries
    BY <1>4, <2>2, <2>3, OwnKeys
  <2> QED
    BY <2>4 DEF IInv, IngestCore, KeysOnce, Own
<1> QED
  BY <1>3, <1>4 DEF OthersHaveAll

LEMMA InsertRouteKeepsStanding ==
  ASSUME IInv, StandingInv, NEW r \in Request, InsertRoute(r)
  PROVE  StandingInv'
<1>1. PICK c \in NextRoute(r, tx[r].routes) :
        LET key == AlertDedupeKey(AlertReference(r), c.rule, c.endpoint)
        IN  /\ KeyStored(r, key) \/ c.id \in {x.id : x \in channels}
            /\ inserted' = IF KeyStored(r, key) THEN inserted
                 ELSE inserted \cup
                   {[alert |-> tx[r].id, rule |-> c.rule, endpoint |-> c.endpoint,
                     channel |-> c.id, key |-> key, createdAt |-> tx[r].at,
                     status |-> IF c.priority = tx[r].top THEN "PENDING" ELSE "WAITING_FALLBACK"]}
            /\ Advance(r, c)
  BY Zenon DEF InsertRoute
<1>2. PICK left : left = tx[r].routes \ {c}
  OBVIOUS
<1>3. PICK phase : phase = IF left = {} THEN "rules" ELSE "routes"
  OBVIOUS
<1>4. PICK key, status :
        /\ key = AlertDedupeKey(AlertReference(r), c.rule, c.endpoint)
        /\ status = IF c.priority = tx[r].top THEN "PENDING" ELSE "WAITING_FALLBACK"
  OBVIOUS
<1> DEFINE t == [tx[r] EXCEPT !.routes = left, !.phase = phase]
           row == [alert |-> tx[r].id, rule |-> c.rule, endpoint |-> c.endpoint,
                   channel |-> c.id, key |-> key, createdAt |-> tx[r].at, status |-> status]
<1>5. /\ inserted' = IF KeyStored(r, key) THEN inserted ELSE inserted \cup {row}
      /\ Go(r, t)
  BY <1>1, <1>2, <1>3, <1>4 DEF Advance
<1>6. tx[r].phase = "routes" /\ UNCHANGED <<Kept, tries, answers, failures>>
  BY DEF InsertRoute, Runs
<1>7. OpenTx(r, tx[r]) /\ Opened(r) /\ HasAlert(r) /\ Notifies(r)
  BY <1>6, IdleOrOpen DEF IInv, Opened, Phases, HasAlert, Notifies
<1>8. c \in tx[r].routes
  BY DEF NextRoute
<1>9. /\ DOMAIN t = DOMAIN tx[r] /\ t.id = tx[r].id /\ t.at = tx[r].at /\ t.rules = tx[r].rules
      /\ t.stored = tx[r].stored
      /\ t.phase = phase /\ t.routes = left /\ t.loaded = tx[r].loaded /\ t.top = tx[r].top
  BY <1>7 DEF OpenTx
<1>10. row.alert = tx[r].id /\ row.rule = c.rule /\ row.endpoint = c.endpoint /\ row.status = status
  OBVIOUS
<1> HIDE DEF t, row
<1>11. OpenTx(r, t)
  BY <1>2, <1>3, <1>7, <1>9 DEF OpenTx, Phases
<1>12. GoesOn(r, t)
  BY <1>3, <1>5, <1>6, <1>7, <1>9, <1>11 DEF GoesOn, Kept
<1>13. tx'[r] = t /\ UNCHANGED <<configVars, alerts, deliveries>>
  BY <1>5, <1>6 DEF IInv, IngestTypes, Go, Kept
<1>14. Own(r)' = IF KeyStored(r, key) THEN Own(r) ELSE Own(r) \cup {row}
  BY <1>5, <1>9, <1>10, <1>13 DEF Own
<1>15. ASSUME Standing PROVE TxStands(r)'
  <2>1. TxStands(r) /\ RouteStands(r, c)
    BY <1>7, <1>8, <1>15 DEF StandingInv, TxStands
  <2>2. c \in Usable(c.rule) /\ RouteOf(c) \in tx[r].loaded /\ ~Among(Own(r), c)
    BY <2>1 DEF RouteStands
  \* The key is another alert's, with those of the other routes, or r's now.
  <2>3. CASE KeyStored(r, key)
    <3>1. PICK f \in deliveries : f.key = key
      <4>1. \A d \in Own(r) : d.key # key
        BY <1>4, <1>7, <2>2, OwnKeys DEF AlertDedupeKey, Among
      <4> QED
        BY <2>3, <4>1 DEF KeyStored
    <3>2. OthersHaveAll(r, c.rule) /\ \A e \in Own(r) : e.rule # c.rule
      BY <1>4, <1>7, <1>15, <3>1, KeysOfOthers
    <3>3. OthersHaveAll(r, c.rule)'
      BY <1>9, <1>13, <3>2, OthersKeepAll
    <3>4. Own(r)' = Own(r)
      BY <1>14, <2>3
    <3>5. ASSUME NEW d \in Own(r) PROVE RowStands(r, d)'
      <4>1. RowStands(r, d) /\ d.rule # c.rule
        BY <2>1, <3>2 DEF TxStands
      <4>2. OwnsAll(r, d.rule)'
        <5>1. \A b \in Usable(d.rule) : b # c
          BY <4>1, UsableChannels
        <5> QED
          BY <1>2, <1>9, <1>13, <3>4, <4>1, <5>1, RoutesStay DEF RowStands, OwnsAll
      <4> QED
        BY <1>9, <1>13, <4>1, <4>2, RoutesStay DEF RowStands
    <3>6. ASSUME NEW b \in left PROVE RouteStands(r, b)'
      <4>1. RouteStands(r, b) /\ b.rule = c.rule
        BY <1>2, <2>1 DEF TxStands, RouteStands
      <4> QED
        BY <1>2, <1>9, <1>13, <3>3, <3>4, <4>1, RoutesStay DEF RouteStands
    <3>7. \A u \in Rule : Accounted(r, u) => Accounted(r, u)'
      BY <1>9, <1>13, AccountedStays
    <3> QED
      BY <1>7, <1>9, <1>13, <2>1, <3>4, <3>5, <3>6, <3>7, RoutesStay DEF TxStands
  <2>4. CASE ~KeyStored(r, key)
    <3>1. Own(r)' = Own(r) \cup {row} /\ Among(Own(r)', c)
      BY <1>10, <1>14, <2>4 DEF Among
    <3>2. OwnsAll(r, c.rule)
      BY <1>4, <2>1, <2>2, <2>4 DEF RouteStands, OthersHaveAll, KeyStored
    <3>3. ASSUME NEW u, OwnsAll(r, u) PROVE OwnsAll(r, u)'
      <4>1. ASSUME NEW b \in Usable(u), b \notin left PROVE Among(Own(r)', b)
        BY <1>2, <3>1, <3>3, <4>1 DEF OwnsAll, Among
      <4> QED
        BY <1>9, <1>13, <4>1, RoutesStay DEF OwnsAll
    <3>4. HasRoute(row)
      <4>1. FirstRoute(c) => c.priority = tx[r].top
        <5>1. /\ \A b \in Usable(c.rule) : tx[r].top <= b.priority
              /\ \E b \in Usable(c.rule) : tx[r].top = b.priority
          BY <2>1 DEF RouteStands
        <5>2. \A b \in Usable(c.rule) : b.priority \in Nat
          BY SMTT(30), UsableChannels DEF ChannelRow, Priorities
        <5> QED
          BY <2>2, <5>1, <5>2 DEF FirstRoute
      <4> QED
        BY <1>4, <1>10, <2>2, <4>1 DEF HasRoute
    <3>5. RouteOf(row) = RouteOf(c)
      BY <1>10 DEF RouteOf
    <3>6. ASSUME NEW d \in Own(r)' PROVE RowStands(r, d)'
      <4>1. /\ HasRoute(d) /\ RouteOf(d) \in tx[r].loaded /\ OwnsAll(r, d.rule)
            /\ \A x \in tx[r].rules : x.rule # d.rule
        <5>1. CASE d \in Own(r)
          BY <2>1, <5>1 DEF TxStands, RowStands
        <5>2. CASE d = row
          BY <1>10, <2>1, <2>2, <3>2, <3>4, <3>5, <5>2 DEF RouteStands
        <5> QED
          BY <3>1, <5>1, <5>2
      <4> QED
        BY <1>9, <1>13, <3>3, <4>1, RoutesStay DEF RowStands
    <3>7. ASSUME NEW b \in left PROVE RouteStands(r, b)'
      <4>1. RouteStands(r, b) /\ b.rule = c.rule /\ b # c
        BY <1>2, <2>1 DEF TxStands, RouteStands
      <4>2. b.endpoint # c.endpoint
        BY <2>2, <4>1, UsableChannels DEF RouteStands
      <4>3. ~Among(Own(r)', b)
        BY <1>10, <3>1, <4>1, <4>2 DEF RouteStands, Among
      <4>4. OwnsAll(r, b.rule)'
        BY <3>2, <3>3, <4>1
      <4> QED
        BY <1>2, <1>9, <1>13, <4>1, <4>3, <4>4, RoutesStay DEF RouteStands
    <3>8. \A u \in Rule : Accounted(r, u) => Accounted(r, u)'
      BY <1>9, <1>13, AccountedStays
    <3> QED
      BY <1>7, <1>9, <1>13, <2>1, <3>6, <3>7, <3>8, RoutesStay DEF TxStands
  <2> QED
    BY <2>3, <2>4
<1>16. \A d \in inserted' \ inserted : d.alert = tx[r].id
  BY <1>5, <1>10
<1> QED
  BY <1>12, <1>15, <1>16, GoingOnKeepsStanding

LEMMA CommitKeepsStanding ==
  ASSUME IInv, StandingInv, NEW r \in Request, Commit(r)
  PROVE  StandingInv'
<1>1. PICK a0 : a0 = [id |-> tx[r].id, request |-> r, loaded |-> tx[r].loaded]
  OBVIOUS
<1>2. a0.id = tx[r].id /\ a0.request = r /\ a0.loaded = tx[r].loaded
  BY <1>1
<1>3. /\ tx[r].phase = "rules" /\ tx[r].rules = {} /\ Go(r, Idle)
      /\ alerts' = alerts \cup {a0} /\ deliveries' = deliveries \cup Own(r)
      /\ inserted' = {d \in inserted : d.alert # tx[r].id}
      /\ UNCHANGED configVars
  BY <1>1 DEF Commit, Close
<1>4. Opened(r) /\ OpenTx(r, tx[r]) /\ Notifies(r) /\ tx[r].routes = {}
  BY <1>3, IdleOrOpen DEF IInv, Opened, Phases, Notifies, OpenTx
<1>5. /\ tx'[r] = Idle
      /\ \A s \in Request \ {r} : tx'[s] = tx[s]
  BY <1>3 DEF Go, IInv, IngestTypes
<1>6. \A a \in alerts : a.id # tx[r].id
  BY <1>4 DEF IInv, IngestCore, EventsOnce
<1>7. \A d \in deliveries : d.alert # tx[r].id
  BY <1>6 DEF IInv, IngestCore, RowsHaveAlerts
<1> SUFFICES ASSUME Standing
             PROVE  /\ \A h \in Editor : edit'[h] = NoEdit
                    /\ \A s \in Request : Opened(s)' => TxStands(s)'
                    /\ \A d \in deliveries' : DeliveryStands(d)'
                    /\ \A a \in alerts' : AlertStands(a)'
  BY <1>3, RoutesStay DEF StandingInv
<1>8. \A h \in Editor : edit'[h] = NoEdit
  BY <1>3 DEF StandingInv, configVars
<1>9. TxStands(r)
  BY <1>4 DEF StandingInv
<1>10. ASSUME NEW s \in Request, Opened(s)' PROVE TxStands(s)'
  <2>1. s # r /\ Opened(s) /\ tx'[s] = tx[s] /\ TxStands(s)
    BY <1>5, <1>10 DEF StandingInv, Opened, Phases, Idle
  <2>2. Own(s)' = Own(s)
    BY <1>3, <1>4, <2>1, OthersOwn
  <2> QED
    BY <1>3, <2>1, <2>2, TxStaysStanding
<1>11. ASSUME NEW d \in deliveries' PROVE DeliveryStands(d)'
  <2>1. CASE d \in deliveries
    BY <1>3, <2>1, RoutesStay DEF StandingInv, DeliveryStands
  <2>2. CASE d \in Own(r)
    <3>1. HasRoute(d) /\ OwnsAll(r, d.rule)
      BY <1>9, <2>2 DEF TxStands, RowStands
    <3>2. ASSUME NEW c \in Usable(d.rule)
          PROVE  \E b \in Own(r) : b.alert = d.alert /\ RouteOf(b) = RouteOf(c)
      <4>1. PICK b \in Own(r) : b.rule = c.rule /\ b.endpoint = c.endpoint
        BY <1>4, <3>1 DEF OwnsAll, Among
      <4> QED
        BY <2>2, <4>1 DEF Own, RouteOf
    <3> QED
      BY <1>3, <3>1, <3>2, RoutesStay DEF DeliveryStands
  <2> QED
    BY <1>3, <2>1, <2>2
<1>12. ASSUME NEW a \in alerts PROVE AlertStands(a)'
  <2>1. AlertStands(a)
    BY DEF StandingInv
  <2>2. \A d \in deliveries' : d.alert = a.id => d \in deliveries
    BY <1>3, <1>6 DEF Own
  <2>3. \A u \in Rule : Precedent(alerts \ {a}, a.request, u) => Precedent(alerts \ {a}, a.request, u)'
    BY <1>3, PrecedentStays DEF configVars
  <2> QED
    BY <1>3, <2>1, <2>2, <2>3, RoutesStay DEF AlertStands
<1>13. AlertStands(a0)'
  <2>1. AllLoaded(a0.loaded)
    BY <1>2, <1>9 DEF TxStands
  <2>2. ASSUME NEW d \in deliveries', d.alert = a0.id PROVE RouteOf(d) \in a0.loaded
    <3>1. d \in Own(r)
      BY <1>2, <1>3, <1>7, <2>2
    <3> QED
      BY <1>2, <1>9, <3>1 DEF TxStands, RowStands
  <2>3. ASSUME NEW u \in Rule, Concerns(r, u)
        PROVE  \/ \E x \in a0.loaded : x.rule = u
               \/ Usable(u) = {}
               \/ Precedent(alerts \ {a0}, r, u)'
    <3>1. Accounted(r, u)
      BY <1>4, <1>9, <2>3 DEF TxStands
    <3>2. ASSUME Precedent(alerts, r, u) PROVE Precedent(alerts \ {a0}, r, u)'
      <4>1. alerts \ {a0} = alerts
        BY <1>2, <1>6
      <4>2. Precedent(alerts \ {a0}, r, u)
        BY <3>2, <4>1
      <4> QED
        BY <1>3, <4>2, PrecedentStays DEF configVars
    <3> QED
      BY <1>2, <1>3, <3>1, <3>2 DEF Accounted
  <2> QED
    BY <1>2, <1>3, <2>1, <2>2, <2>3, RoutesStay DEF AlertStands
<1> QED
  BY <1>3, <1>8, <1>10, <1>11, <1>12, <1>13

LEMMA OwnersStand ==
  ASSUME ConfigInv, Standing, \A h \in Editor : edit[h] = NoEdit
  PROVE  ~ConfigStep /\ ~DisableCamera
<1>1. ~(edits < Plan.edits)
  BY DEF ConfigInv, Standing
<1>2. \A h \in Editor : ~NewRequest(h) /\ ~WriteEndpoint(h) /\ ~WriteRule(h)
  BY <1>1 DEF NewRequest, WriteEndpoint, WriteRule, Editing
<1>3. ASSUME NEW h \in Editor
      PROVE  /\ \A e, row : ~CreateEndpoint(h, e, row) /\ ~ReadEndpoint(h, e, row)
             /\ \A e : ~RemoveEndpoint(h, e)
             /\ \A u, row : ~CreateRule(h, u, row) /\ ~ReadRule(h, u, row)
             /\ \A u : ~RemoveRule(h, u)
             /\ \A u, e, p : ~CreateChannel(h, u, e, p)
             /\ \A c, patch : ~UpdateChannel(h, c, patch)
             /\ \A c : ~RemoveChannel(h, c)
  BY <1>2 DEF CreateEndpoint, ReadEndpoint, RemoveEndpoint, CreateRule, ReadRule, RemoveRule,
              CreateChannel, UpdateChannel, RemoveChannel
<1>4. ~ConfigStep
  BY <1>2, <1>3, Zenon DEF ConfigStep
<1> QED
  BY <1>1, <1>4 DEF DisableCamera

LEMMA InitStanding == Init => StandingInv
<1> SUFFICES ASSUME Init PROVE StandingInv
  OBVIOUS
<1>1. \A r \in Request : ~Opened(r)
  BY DEF Init, Opened, Phases, Idle
<1> QED
  BY <1>1 DEF StandingInv, Init, ConfigInit

LEMMA NextStanding == IInv /\ StandingInv /\ [Next]_vars => StandingInv'
<1> SUFFICES ASSUME IInv, StandingInv, [Next]_vars PROVE StandingInv'
  OBVIOUS
<1>1. ASSUME NEW r \in Request, Begin(r) \/ IngestStep(r) \/ FailIngest(r) \/ AbortVictim(r)
      PROVE  StandingInv'
  BY <1>1, Zenon, BeginKeepsStanding, StoringKeepsStanding, EndingsEnd, EndKeepsStanding,
     OpenRuleKeepsStanding, InsertRouteKeepsStanding, CommitKeepsStanding DEF IngestStep
<1>2. CASE ConfigStep \/ DisableCamera
  <2>1. scenario' = scenario
    BY <1>2 DEF ConfigStep, DisableCamera
  <2>2. Standing' => Standing
    BY <2>1 DEF Standing, Plan
  <2>3. ~Standing
    BY <1>2, OwnersStand DEF IInv, ConfigCore, StandingInv
  <2> QED
    BY <2>2, <2>3 DEF StandingInv
<1>3. CASE Tick \/ UNCHANGED vars
  <2>1. UNCHANGED <<configVars, alerts, deliveries, inserted, tx>>
    BY <1>3 DEF Tick, vars, ingestVars
  <2>2. ASSUME Standing, NEW s \in Request, Opened(s)' PROVE TxStands(s)'
    <3>1. TxStands(s) /\ tx'[s] = tx[s] /\ Own(s)' = Own(s)
      BY <2>1, <2>2 DEF StandingInv, Opened, Own
    <3> QED
      BY <2>1, <3>1, TxStaysStanding
  <2> QED
    BY <2>1, <2>2, NothingCommitted
<1> QED
  BY <1>1, <1>2, <1>3 DEF Next

LEMMA StandingInvariance == Spec => [](IInv /\ StandingInv)
  BY InitInv, InitStanding, NextInv, NextStanding, PTL DEF Spec

LEMMA NothingIsSilenced ==
  ASSUME IncidentIsNoAlert, IInv, StandingInv
  PROVE  EveryRuleNotifies
<1> SUFFICES ASSUME Standing, NEW a \in alerts, NEW u \in StoredRules, Concerns(a.request, u),
                    NEW c \in Usable(u)
             PROVE  \E d \in Notified(a) : d.rule = u /\ d.endpoint = c.endpoint
  BY DEF EveryRuleNotifies, Concerns
<1>1. u \in Rule /\ c.rule = u
  BY UsableChannels DEF StoredRules
\* What one alert of the incident loaded of the rule has been notified.
<1>2. ASSUME NEW b \in alerts, OfIncident(b, a), NEW x \in b.loaded, x.rule = u
      PROVE  \E d \in Notified(a) : d.rule = u /\ d.endpoint = c.endpoint
  <2>1. RouteOf(c) \in b.loaded
    BY <1>2 DEF StandingInv, AlertStands, AllLoaded
  <2>2. PICK d \in Notified(b) : d.rule = u /\ d.endpoint = c.endpoint
    BY <1>1, <2>1, NotifiedOnce DEF IncidentNotifiedOnce, RouteOf
  <2>3. d \in Notified(a)
    BY <1>2, <2>2 DEF Notified, OfIncident
  <2> QED
    BY <2>2, <2>3
<1>3. CASE \E x \in a.loaded : x.rule = u
  BY <1>2, <1>3 DEF OfIncident
<1>4. CASE Precedent(alerts \ {a}, a.request, u)
  <2>1. PICK b \in alerts, d \in deliveries : OfIncident(b, a) /\ d.alert = b.id /\ d.rule = u
    BY <1>4 DEF Precedent, OfIncident
  <2>2. RouteOf(d) \in b.loaded /\ RouteOf(d).rule = u
    BY <2>1 DEF StandingInv, AlertStands, RouteOf
  <2> QED
    BY <1>2, <2>1, <2>2
<1> QED
  BY <1>1, <1>3, <1>4 DEF StandingInv, AlertStands

(* Two alerts of one incident do not both notify through a rule within its *)
(* cooldown, unless an owner changed the cooldown, and while nobody changes*)
(* the configuration the cooldown silences nothing: every usable route of  *)
(* every matching rule has a delivery for the incident of every alert.  The*)
(* advisory lock is held over the look for an earlier delivery and over the*)
(* commit, and only observations of one incident share it (outbox.go       *)
(* 75-91, 124-143).                                                        *)
THEOREM CooldownIsExactAlways ==
  ASSUME IncidentIsNoAlert
  PROVE  Spec => []CooldownIsExact
<1>1. CooldownInv => CooldownHolds
  BY DEF CooldownInv, RulesStand, CooldownHolds
<1>2. IInv /\ StandingInv => EveryRuleNotifies
  BY NothingIsSilenced
<1>3. CooldownHolds /\ EveryRuleNotifies => CooldownIsExact
  BY DEF CooldownIsExact
<1> QED
  BY <1>1, <1>2, <1>3, CooldownInvariance, StandingInvariance, PTL

(* While nobody changes the configuration an alert has a delivery for each *)
(* usable route of a rule, the first of which is to be sent at once, or    *)
(* for none of them: neither a concurrent observation of the incident nor  *)
(* the order of the inserts splits the chain (outbox.go 80-139).           *)
THEOREM ChainIsWholeAlways == Spec => []ChainIsWhole
<1>1. ASSUME IInv, StandingInv PROVE ChainIsWhole
  <2> SUFFICES ASSUME Standing, NEW a \in alerts, NEW u \in Rule,
                      NEW d \in deliveries, d.alert = a.id, d.rule = u
               PROVE  LET own == {e \in deliveries : e.alert = a.id /\ e.rule = u}
                      IN  /\ \E e \in own : e.status = "PENDING"
                          /\ {x.endpoint : x \in {y \in a.loaded : y.rule = u}}
                               = {e.endpoint : e \in own}
    BY DEF ChainIsWhole
  <2> DEFINE chain == {e \in deliveries : e.alert = a.id /\ e.rule = u}
  <2>1. ASSUME NEW c \in Usable(u)
        PROVE  \E e \in chain : e.endpoint = c.endpoint
    <3>1. PICK e \in deliveries : e.alert = d.alert /\ RouteOf(e) = RouteOf(c)
      BY <1>1 DEF StandingInv, DeliveryStands
    <3>2. e.rule = c.rule /\ e.endpoint = c.endpoint /\ c.rule = u
      BY <1>1, <3>1, UsableChannels DEF RouteOf
    <3> QED
      BY <3>1, <3>2
  <2>2. \E e \in chain : e.status = "PENDING"
    <3>1. Usable(u) # {}
      BY <1>1 DEF StandingInv, DeliveryStands, HasRoute
    <3>2. PICK c \in Usable(u) : \A b \in Usable(u) : c.priority <= b.priority
      BY <1>1, <3>1, LeastRoute, UsableChannels
    <3>3. PICK e \in chain : e.endpoint = c.endpoint
      BY <2>1
    <3>4. PICK b \in Usable(u) : b.endpoint = e.endpoint /\ (FirstRoute(b) => e.status = "PENDING")
      BY <1>1 DEF StandingInv, DeliveryStands, HasRoute
    <3>5. b = c /\ c.rule = u
      BY <1>1, <3>3, <3>4, UsableChannels
    <3> QED
      BY <3>2, <3>4, <3>5 DEF FirstRoute
  <2>3. ASSUME NEW x \in a.loaded, x.rule = u
        PROVE  \E e \in chain : e.endpoint = x.endpoint
    <3>1. LeadsTo(u, x.endpoint)
      BY <1>1, <2>3 DEF StandingInv, AlertStands, AllLoaded
    <3> QED
      BY <2>1, <3>1 DEF LeadsTo
  <2>4. ASSUME NEW e \in chain
        PROVE  \E x \in a.loaded : x.rule = u /\ x.endpoint = e.endpoint
    <3>1. RouteOf(e) \in a.loaded /\ RouteOf(e).rule = u /\ RouteOf(e).endpoint = e.endpoint
      BY <1>1 DEF StandingInv, AlertStands, RouteOf
    <3> QED
      BY <3>1
  <2> QED
    BY <2>2, <2>3, <2>4
<1> QED
  BY <1>1, StandingInvariance, PTL
-----------------------------------------------------------------------------
(* Why nobody waits in a circle *)

(* What a transaction has locked or inserted comes before all it has still *)
(* to open and to insert.                                                  *)
Passed(r, u) ==
  (\A x \in tx[r].rules : u < x.rule) /\ (\A c \in tx[r].routes : u <= c.rule)

PassedRow(r, d) ==
  /\ Passed(r, d.rule)
  /\ \A c \in tx[r].routes : d.rule = c.rule =>
       \A b \in Usable(c.rule) : b.endpoint = d.endpoint => b.priority < c.priority

TxInOrder(r) ==
  /\ ~Notifies(r) => tx[r].locks = {}
  /\ \A l \in tx[r].locks : \E u \in Rule : l = Fingerprint(r, u) /\ Passed(r, u)
  /\ \A d \in Own(r) : PassedRow(r, d)
  /\ \A c \in tx[r].routes, x \in tx[r].rules : c.rule < x.rule

OpenOnes == {r \in Request : Opened(r)}

OrderInv ==
  /\ IsFiniteSet(OpenOnes)
  /\ Standing => \A r \in Request : Opened(r) => TxInOrder(r)

LEMMA StaysInOrder ==
  ASSUME UNCHANGED configVars, NEW s, TxInOrder(s), tx'[s] = tx[s], Own(s)' = Own(s)
  PROVE  TxInOrder(s)'
<1>1. \A u : Fingerprint(s, u)' = Fingerprint(s, u) /\ (Passed(s, u)' <=> Passed(s, u))
  BY FingerprintsStay DEF configVars, Passed
<1>2. \A d \in Own(s) : PassedRow(s, d)'
  BY <1>1, RoutesStay DEF TxInOrder, PassedRow
<1> QED
  BY <1>1, <1>2 DEF TxInOrder, Notifies

\* A step of r leaves the other transactions as they are.
LEMMA OneStepKeepsOrder ==
  ASSUME OrderInv, NEW r \in Request, UNCHANGED configVars,
         \A s \in Request \ {r} : tx'[s] = tx[s],
         \A s \in Request \ {r} : Opened(s) => Own(s)' = Own(s),
         Standing /\ Opened(r)' => TxInOrder(r)'
  PROVE  OrderInv'
<1>1. IsFiniteSet(OpenOnes')
  <2>1. OpenOnes' \subseteq OpenOnes \cup {r}
    BY DEF OpenOnes, Opened
  <2> QED
    BY <2>1, FS_AddElement, FS_Subset DEF OrderInv
<1>2. ASSUME Standing', NEW s \in Request, Opened(s)' PROVE TxInOrder(s)'
  <2>1. Standing
    BY <1>2, RoutesStay
  <2>2. CASE s = r
    BY <1>2, <2>1, <2>2
  <2>3. CASE s # r
    <3>1. tx'[s] = tx[s] /\ Opened(s)
      BY <1>2, <2>3 DEF Opened
    <3> QED
      BY <2>1, <2>3, <3>1, StaysInOrder DEF OrderInv
  <2> QED
    BY <2>2, <2>3
<1> QED
  BY <1>1, <1>2 DEF OrderInv

LEMMA BeginKeepsOrder ==
  ASSUME IInv, OrderInv, NEW r \in Request, Begin(r)
  PROVE  OrderInv'
<1>1. PICK t : t = [phase |-> "alert", id |-> <<r, tries[r]>>, at |-> now, stored |-> 0,
                    rules |-> {}, routes |-> {}, top |-> 0, locks |-> {}, loaded |-> {}]
  OBVIOUS
<1>2. t.id = <<r, tries[r]>> /\ t.rules = {} /\ t.routes = {} /\ t.locks = {}
  BY <1>1
<1>3. /\ tx[r] = Idle /\ (Go(r, t) \/ tx' = tx)
      /\ UNCHANGED <<configVars, inserted>>
  BY <1>1 DEF Begin, Kept
<1>4. /\ \A s \in Request \ {r} : tx'[s] = tx[s]
      /\ tx'[r] = t \/ tx'[r] = Idle
  BY <1>3 DEF IInv, IngestTypes, Go
<1>5. \A s \in Request \ {r} : Own(s)' = Own(s)
  BY <1>3, <1>4 DEF Own
<1>6. ASSUME Opened(r)' PROVE TxInOrder(r)'
  <2>1. tx'[r] = t
    BY <1>4, <1>6 DEF Opened, Phases, Idle
  <2>2. Own(r)' = {}
    BY <1>2, <1>3, <2>1, NoRowsYet DEF Own
  <2> QED
    BY <1>2, <2>1, <2>2 DEF TxInOrder
<1> QED
  BY <1>3, <1>4, <1>5, <1>6, OneStepKeepsOrder

LEMMA EndKeepsOrder ==
  ASSUME IInv, OrderInv, NEW r \in Request, EndsWithNothing(r) \/ Commit(r)
  PROVE  OrderInv'
<1>1. /\ Opened(r) /\ Go(r, Idle) /\ UNCHANGED configVars
      /\ inserted' = {d \in inserted : d.alert # tx[r].id}
  BY DEF EndsWithNothing, Commit, Close, Opened, Phases
<1>2. tx'[r] = Idle /\ \A s \in Request \ {r} : tx'[s] = tx[s]
  BY <1>1 DEF IInv, IngestTypes, Go
<1>3. \A s \in Request \ {r} : Opened(s) => Own(s)' = Own(s)
  BY <1>1, <1>2, OthersOwn
<1>4. ~Opened(r)'
  BY <1>2 DEF Opened, Phases, Idle
<1> QED
  BY <1>1, <1>2, <1>3, <1>4, OneStepKeepsOrder

LEMMA StoringKeepsOrder ==
  ASSUME IInv, OrderInv, NEW r \in Request, StoreAlert(r) \/ StoreEvidence(r)
  PROVE  OrderInv'
<1>1. PICK t : Storing(r, t)
  BY StoringGoesOn
<1>2. /\ tx'[r] = t /\ t.id = tx[r].id /\ t.routes = {} /\ t.locks = tx[r].locks
      /\ Opened(r) /\ ~Notifies(r) /\ UNCHANGED <<configVars, inserted>>
      /\ \A s \in Request \ {r} : tx'[s] = tx[s]
  BY <1>1 DEF Storing, GoesOn, Go, IInv, IngestTypes
<1>3. \A s \in Request : Own(s)' = Own(s)
  BY <1>2 DEF Own
<1>4. ASSUME Standing PROVE TxInOrder(r)'
  <2>1. tx[r].locks = {} /\ Own(r) = {}
    BY <1>2, <1>4, NoRowsYet DEF OrderInv, TxInOrder
  <2> QED
    BY <1>2, <1>3, <2>1 DEF TxInOrder
<1> QED
  BY <1>2, <1>3, <1>4, OneStepKeepsOrder

\* The first rule comes before the others.
LEMMA FirstIsFirst ==
  ASSUME NEW S, S # {}, \A x \in S : x.rule \in Rule, \A x, y \in S : x.rule = y.rule => x = y
  PROVE  \A x \in S \ {First(S)} : First(S).rule < x.rule
<1>1. {x.rule : x \in S} \subseteq Nat /\ {x.rule : x \in S} # {}
  BY RuleAssumption
<1>2. \E u \in {x.rule : x \in S} : \A v \in {x.rule : x \in S} : u <= v
  BY <1>1, LeastExists
<1>3. \E x \in S : \A y \in S : x.rule <= y.rule
  BY <1>2
<1>4. First(S) \in S /\ \A y \in S : First(S).rule <= y.rule
  BY <1>3, Zenon DEF First
<1>5. \A x \in S : x.rule \in Nat
  BY RuleAssumption
<1> QED
  BY <1>4, <1>5

LEMMA ChannelsHaveNumbers ==
  \A c \in ChannelRow : c.rule \in Nat /\ c.priority \in Nat \ {0}
<1>1. \A c \in ChannelRow : c.rule \in Rule /\ c.priority \in Priorities
  BY DEF ChannelRow
<1>2. Rule \subseteq Nat /\ Priorities \subseteq Nat \ {0}
  BY RuleAssumption DEF Priorities
<1> QED
  BY <1>1, <1>2, Zenon

LEMMA RowsHaveRules == IInv => \A d \in inserted : d.rule \in Nat
BY RuleAssumption DEF IInv, IngestCore, ForeignKeys, StoredRules

LEMMA OpenRuleKeepsOrder ==
  ASSUME IInv, StandingInv, OrderInv, NEW r \in Request, OpenRule(r)
  PROVE  OrderInv'
<1>1. PICK spec : spec = First(tx[r].rules)
  OBVIOUS
<1>2. PICK routes : routes = IF CooldownSuppresses(r, spec) THEN {} ELSE Usable(spec.rule)
  OBVIOUS
<1>3. PICK locks : locks = IF TakesCooldownLock(r, spec)
                           THEN tx[r].locks \cup {Fingerprint(r, spec.rule)} ELSE tx[r].locks
  OBVIOUS
<1>4. tx[r].phase = "rules" /\ tx[r].rules # {} /\ UNCHANGED <<configVars, inserted>>
  BY DEF OpenRule, Runs, Kept
<1>5. OpenTx(r, tx[r]) /\ Opened(r) /\ Notifies(r) /\ tx[r].routes = {}
  BY <1>4, IdleOrOpen DEF IInv, Opened, Phases, Notifies, OpenTx
<1>6. /\ \A s \in Request \ {r} : tx'[s] = tx[s]
      /\ tx'[r].id = tx[r].id /\ tx'[r].rules = tx[r].rules \ {spec}
      /\ tx'[r].routes = routes /\ tx'[r].locks = locks
      /\ tx'[r].phase \in {"rules", "routes"}
  BY <1>1, <1>2, <1>3, <1>5 DEF OpenRule, Go, IInv, IngestTypes, OpenTx
<1>7. \A s \in Request : Own(s)' = Own(s)
  BY <1>4, <1>6 DEF Own
<1>8. spec \in tx[r].rules /\ spec.rule \in Rule /\ \A x \in tx[r].rules : x.rule \in Rule
  BY <1>1, <1>4, <1>5, FirstIsThere DEF OpenTx
<1>9. spec.rule \in Nat
  BY <1>8, RuleAssumption
<1>10. ASSUME Standing PROVE TxInOrder(r)'
  <2>1. TxInOrder(r) /\ TxStands(r)
    BY <1>5, <1>10 DEF OrderInv, StandingInv
  <2>2. \A x \in tx[r].rules \ {spec} : spec.rule < x.rule
    BY <1>1, <1>4, <1>8, <2>1, FirstIsFirst DEF TxStands
  <2>3. \A c \in routes : c.rule = spec.rule
    BY <1>2, UsableChannels
  <2>4. ASSUME NEW u \in Nat, Passed(r, u) PROVE u < spec.rule /\ Passed(r, u)'
    <3>1. u < spec.rule
      BY <1>8, <2>4 DEF Passed
    <3>2. \A x \in tx[r].rules : u < x.rule
      BY <2>4 DEF Passed
    <3>3. \A c \in routes : u <= c.rule
      BY <1>9, <2>3, <3>1
    <3> QED
      BY <1>6, <3>1, <3>2, <3>3 DEF Passed
  <2>5. Passed(r, spec.rule)'
    <3>1. \A c \in routes : spec.rule <= c.rule
      BY <1>9, <2>3
    <3> QED
      BY <1>6, <2>2, <3>1 DEF Passed
  <2>6. \A u : Fingerprint(r, u)' = Fingerprint(r, u)
    BY <1>4, FingerprintsStay DEF configVars
  <2>7. ASSUME NEW l \in locks PROVE \E u \in Rule : l = Fingerprint(r, u)' /\ Passed(r, u)'
    <3>1. CASE l \in tx[r].locks
      BY <2>1, <2>4, <2>6, <3>1, RuleAssumption DEF TxInOrder
    <3>2. CASE l = Fingerprint(r, spec.rule)
      BY <1>8, <2>5, <2>6, <3>2
    <3> QED
      BY <1>3, <3>1, <3>2
  <2>8. ASSUME NEW d \in Own(r) PROVE PassedRow(r, d)'
    <3>1. d.rule < spec.rule /\ Passed(r, d.rule)'
      BY <2>1, <2>4, RowsHaveRules DEF TxInOrder, PassedRow, Own
    <3>2. d.rule # spec.rule
      BY <1>8, <2>1 DEF TxStands, RowStands
    <3> QED
      BY <1>6, <2>3, <3>1, <3>2 DEF PassedRow
  <2> QED
    BY <1>6, <1>7, <2>2, <2>3, <2>7, <2>8 DEF TxInOrder, Notifies
<1> QED
  BY <1>4, <1>6, <1>7, <1>10, OneStepKeepsOrder

LEMMA InsertRouteKeepsOrder ==
  ASSUME IInv, StandingInv, OrderInv, NEW r \in Request, InsertRoute(r)
  PROVE  OrderInv'
<1>1. PICK c \in NextRoute(r, tx[r].routes) :
        LET key == AlertDedupeKey(AlertReference(r), c.rule, c.endpoint)
        IN  /\ inserted' = IF KeyStored(r, key) THEN inserted
                 ELSE inserted \cup
                   {[alert |-> tx[r].id, rule |-> c.rule, endpoint |-> c.endpoint,
                     channel |-> c.id, key |-> key, createdAt |-> tx[r].at,
                     status |-> IF c.priority = tx[r].top THEN "PENDING" ELSE "WAITING_FALLBACK"]}
            /\ Advance(r, c)
  BY Zenon DEF InsertRoute
<1>2. tx[r].phase = "routes" /\ UNCHANGED configVars
  BY DEF InsertRoute, Runs, Kept
<1>3. OpenTx(r, tx[r]) /\ Opened(r) /\ Notifies(r)
  BY <1>2, IdleOrOpen DEF IInv, Opened, Phases, Notifies
<1>4. /\ \A s \in Request \ {r} : tx'[s] = tx[s]
      /\ tx'[r].id = tx[r].id /\ tx'[r].rules = tx[r].rules
      /\ tx'[r].routes = tx[r].routes \ {c} /\ tx'[r].locks = tx[r].locks
      /\ tx'[r].phase \in {"rules", "routes"}
  BY <1>1, <1>3 DEF Advance, Go, IInv, IngestTypes, OpenTx
<1>5. /\ inserted \subseteq inserted'
      /\ \A d \in inserted' \ inserted :
           d.alert = tx[r].id /\ d.rule = c.rule /\ d.endpoint = c.endpoint
  BY <1>1
<1>6. \A s \in Request \ {r} : Opened(s) => Own(s)' = Own(s)
  BY <1>3, <1>4, <1>5, OthersOwn
<1>7. ASSUME Standing PROVE TxInOrder(r)'
  <2>1. TxInOrder(r) /\ TxStands(r)
    BY <1>3, <1>7 DEF OrderInv, StandingInv
  <2>2. \A u : Passed(r, u) => Passed(r, u)'
    BY <1>4 DEF Passed
  <2>3. \A u : Fingerprint(r, u)' = Fingerprint(r, u)
    BY <1>2, FingerprintsStay DEF configVars
  <2>4. \A b \in tx[r].routes : b \in Usable(c.rule) /\ b.rule = c.rule /\ c.priority <= b.priority
    BY <2>1 DEF TxStands, RouteStands, NextRoute
  <2>5. c \in tx[r].routes /\ c \in Usable(c.rule) /\ c.rule \in Nat
    BY <1>3, <2>4, RuleAssumption DEF NextRoute, OpenTx, ChannelRow
  \* Priorities of a rule differ.
  <2>6. ASSUME NEW b \in tx[r].routes \ {c} PROVE c.priority < b.priority
    <3>1. b \in channels /\ c \in channels /\ b.rule = c.rule /\ c.priority <= b.priority
      BY <2>4, <2>5, UsableChannels
    <3>2. b.priority # c.priority
      BY <2>6, <3>1 DEF IInv, ConfigCore, ChannelIdsOnce
    <3>3. b.priority \in Nat /\ c.priority \in Nat
      BY <1>3, <2>5, ChannelsHaveNumbers DEF OpenTx
    <3> QED
      BY <3>1, <3>2, <3>3
  <2>7. ASSUME NEW d \in Own(r)' PROVE PassedRow(r, d)'
    <3>1. CASE d \in Own(r)
      <4>1. PassedRow(r, d)
        BY <2>1, <3>1 DEF TxInOrder
      <4> QED
        BY <1>2, <1>4, <2>2, <4>1, RoutesStay DEF PassedRow
    <3>2. CASE d \notin Own(r)
      <4>1. d.rule = c.rule /\ d.endpoint = c.endpoint
        BY <1>4, <1>5, <3>2 DEF Own
      <4>2. Passed(r, c.rule)'
        BY <1>4, <2>1, <2>4, <2>5 DEF Passed, TxInOrder
      <4>3. \A b \in Usable(c.rule) : b.endpoint = c.endpoint => b = c
        BY <2>5, UsableChannels
      <4>4. \A b \in tx'[r].routes : b.rule = c.rule /\ c.priority < b.priority
        BY <1>4, <2>4, <2>6
      <4> QED
        BY <1>2, <4>1, <4>2, <4>3, <4>4, RoutesStay DEF PassedRow
    <3> QED
      BY <3>1, <3>2
  <2>8. \A l \in tx'[r].locks : \E u \in Rule : l = Fingerprint(r, u)' /\ Passed(r, u)'
    BY <1>4, <2>1, <2>2, <2>3 DEF TxInOrder
  <2> QED
    BY <1>4, <2>1, <2>7, <2>8 DEF TxInOrder, Notifies
<1> QED
  BY <1>2, <1>4, <1>6, <1>7, OneStepKeepsOrder

LEMMA InitOrder == Init => OrderInv
<1> SUFFICES ASSUME Init PROVE OrderInv
  OBVIOUS
<1>1. \A r \in Request : ~Opened(r)
  BY DEF Init, Opened, Phases, Idle
<1>2. OpenOnes = {}
  BY <1>1 DEF OpenOnes
<1> QED
  BY <1>1, <1>2, FS_EmptySet DEF OrderInv

LEMMA NextOrder == IInv /\ StandingInv /\ OrderInv /\ [Next]_vars => OrderInv'
<1> SUFFICES ASSUME IInv, StandingInv, OrderInv, [Next]_vars PROVE OrderInv'
  OBVIOUS
<1>1. ASSUME NEW r \in Request, Begin(r) \/ IngestStep(r) \/ FailIngest(r) \/ AbortVictim(r)
      PROVE  OrderInv'
  BY <1>1, Zenon, BeginKeepsOrder, StoringKeepsOrder, EndingsEnd, EndKeepsOrder,
     OpenRuleKeepsOrder, InsertRouteKeepsOrder DEF IngestStep
<1>2. ASSUME UNCHANGED tx PROVE IsFiniteSet(OpenOnes')
  BY <1>2 DEF OrderInv, OpenOnes, Opened
<1>3. CASE (ConfigStep /\ UNCHANGED ingestVars) \/ DisableCamera
  <2>1. scenario' = scenario /\ UNCHANGED tx
    BY <1>3 DEF ConfigStep, DisableCamera, ingestVars
  <2>2. Standing' => Standing
    BY <2>1 DEF Standing, Plan
  <2>3. ~Standing
    BY <1>3, OwnersStand DEF IInv, ConfigCore, StandingInv
  <2> QED
    BY <1>2, <2>1, <2>2, <2>3 DEF OrderInv
<1>4. CASE Tick \/ UNCHANGED vars
  <2>1. UNCHANGED <<configVars, inserted, tx>>
    BY <1>4 DEF Tick, vars, ingestVars
  <2>2. ASSUME Standing', NEW s \in Request, Opened(s)' PROVE TxInOrder(s)'
    <3>1. TxInOrder(s) /\ tx'[s] = tx[s] /\ Own(s)' = Own(s)
      BY <2>1, <2>2, RoutesStay DEF OrderInv, Opened, Own
    <3> QED
      BY <2>1, <3>1, StaysInOrder
  <2> QED
    BY <1>2, <2>1, <2>2 DEF OrderInv
<1> QED
  BY <1>1, <1>3, <1>4 DEF Next

LEMMA OrderInvariance == Spec => [](IInv /\ StandingInv /\ OrderInv)
  BY InitInv, InitStanding, InitOrder, NextInv, NextStanding, NextOrder, PTL DEF Spec

-----------------------------------------------------------------------------
(* Where a transaction is: how far in ingestAIAlert, and what it has still *)
(* to do in EnqueueAlertTx, in its order.                                  *)
Stage(r) == IF tx[r].phase = "alert" THEN 0 ELSE IF tx[r].phase = "evidence" THEN 1 ELSE 2

ToDo(r) ==
  {[rule |-> x.rule, priority |-> 0] : x \in tx[r].rules}
    \cup {[rule |-> c.rule, priority |-> c.priority] : c \in tx[r].routes}

Earlier(p, q) == p.rule < q.rule \/ (p.rule = q.rule /\ p.priority < q.priority)

Behind(r, s) ==
  \/ Stage(r) < Stage(s)
  \/ Stage(r) = 1 /\ Stage(s) = 1 /\ NextKey(r) < NextKey(s)
  \/ /\ Stage(r) = 2 /\ Stage(s) = 2
     /\ \E p \in ToDo(r) : \A q \in ToDo(s) : Earlier(p, q)

LEMMA ToDoTypes ==
  ASSUME IInv, NEW r \in Request, Opened(r)
  PROVE  \A p \in ToDo(r) : p.rule \in Nat /\ p.priority \in Nat
<1>1. OpenTx(r, tx[r])
  BY IdleOrOpen DEF IInv
<1>2. \A x \in tx[r].rules : x.rule \in Nat
  BY <1>1, RuleAssumption DEF OpenTx
<1>3. \A c \in tx[r].routes : c.rule \in Nat /\ c.priority \in Nat
  BY <1>1, ChannelsHaveNumbers DEF OpenTx
<1> QED
  BY <1>2, <1>3 DEF ToDo

\* Who stores evidence has a next key.
LEMMA NextKeyIsNamed ==
  ASSUME IInv, NEW r \in Request, Opened(r), Stage(r) = 1
  PROVE  /\ tx[r].phase = "evidence" /\ r \in DOMAIN Plan.sends
         /\ tx[r].stored \in Nat /\ tx[r].stored + 1 \in DOMAIN EvidenceOf(r)
         /\ NextKey(r) \in Nat
<1>1. OpenTx(r, tx[r]) /\ tx[r].phase = "evidence"
  BY IdleOrOpen DEF IInv, Stage, Opened, Phases
<1>2. EvidenceOf(r) \in Seq(Nat) /\ r \in DOMAIN Plan.sends
  BY <1>1, EvidenceIsShort DEF IInv, ConfigCore, OpenTx
<1>3. tx[r].stored \in Nat /\ tx[r].stored < Len(EvidenceOf(r))
  BY <1>1 DEF OpenTx
<1>4. tx[r].stored + 1 \in 1..Len(EvidenceOf(r)) /\ DOMAIN EvidenceOf(r) = 1..Len(EvidenceOf(r))
  BY <1>2, <1>3
<1> QED
  BY <1>1, <1>2, <1>3, <1>4 DEF NextKey

LEMMA BehindIsAnOrder ==
  ASSUME IInv
  PROVE  /\ \A r \in OpenOnes : ~Behind(r, r)
         /\ \A r, s, t \in OpenOnes : Behind(r, s) /\ Behind(s, t) => Behind(r, t)
<1>1. \A r \in OpenOnes :
        /\ Stage(r) \in 0..2
        /\ \A p \in ToDo(r) : p.rule \in Nat /\ p.priority \in Nat
        /\ Stage(r) = 1 => NextKey(r) \in Nat
  BY ToDoTypes, NextKeyIsNamed DEF OpenOnes, Stage
<1>2. ASSUME NEW r \in OpenOnes, Behind(r, r) PROVE FALSE
  <2>1. CASE Stage(r) = 1
    BY <1>1, <1>2, <2>1 DEF Behind
  <2>2. CASE Stage(r) # 1
    <3>1. PICK p \in ToDo(r) : Earlier(p, p)
      BY <1>1, <1>2, <2>2 DEF Behind
    <3> QED
      BY <1>1, <3>1 DEF Earlier
  <2> QED
    BY <2>1, <2>2
<1>3. ASSUME NEW r \in OpenOnes, NEW s \in OpenOnes, NEW t \in OpenOnes, Behind(r, s), Behind(s, t)
      PROVE  Behind(r, t)
  <2>1. CASE Stage(r) < Stage(s) \/ Stage(s) < Stage(t)
    BY <1>1, <1>3, <2>1 DEF Behind
  <2>2. CASE Stage(r) = 1 /\ Stage(s) = 1 /\ Stage(t) = 1
    BY <1>1, <1>3, <2>2 DEF Behind
  <2>3. CASE Stage(r) = 2 /\ Stage(s) = 2 /\ Stage(t) = 2
    <3>1. PICK p \in ToDo(r) : \A q \in ToDo(s) : Earlier(p, q)
      BY <1>3, <2>3 DEF Behind
    <3>2. PICK q \in ToDo(s) : \A z \in ToDo(t) : Earlier(q, z)
      BY <1>3, <2>3 DEF Behind
    <3>3. ASSUME NEW z \in ToDo(t) PROVE Earlier(p, z)
      BY <1>1, <3>1, <3>2 DEF Earlier
    <3> QED
      BY <2>3, <3>3 DEF Behind
  <2> QED
    BY <1>1, <1>3, <2>1, <2>2, <2>3 DEF Behind
<1> QED
  BY <1>2, <1>3

(* Whose next key another one has stored has a smaller next key, if all    *)
(* requests name their keys in order.                                      *)
LEMMA KeysAreAhead ==
  ASSUME IInv, KeysInOrder, NEW r \in Request, NEW s \in Request, Opened(s), Stage(s) = 1,
         NextKey(r) \in StoredKeys(s)
  PROVE  NextKey(r) < NextKey(s)
<1>1. /\ s \in DOMAIN Plan.sends /\ tx[s].stored \in Nat
      /\ tx[s].stored + 1 \in DOMAIN EvidenceOf(s)
  BY NextKeyIsNamed
<1>2. EvidenceOf(s) \in Seq(Nat)
  BY <1>1, EvidenceIsShort DEF IInv, ConfigCore
<1>3. PICK i \in 1..tx[s].stored : NextKey(r) = EvidenceOf(s)[i]
  BY DEF StoredKeys
<1>4. i \in DOMAIN EvidenceOf(s) /\ i < tx[s].stored + 1
  BY <1>1, <1>2, <1>3
<1> QED
  BY <1>1, <1>3, <1>4 DEF KeysInOrder, NextKey

(* Who waits is behind the one that he waits for, unless both store        *)
(* evidence that requests name in different orders.                        *)
LEMMA WaitsForOneAhead ==
  ASSUME IInv, StandingInv, OrderInv, Standing,
         NEW r \in OpenOnes, NEW s \in OpenOnes, s \in WaitsFor(r),
         KeysInOrder \/ Stage(r) # 1
  PROVE  Behind(r, s)
<1>1. /\ OpenTx(r, tx[r]) /\ OpenTx(s, tx[s])
      /\ r \in Request /\ s \in Request /\ Opened(r) /\ Opened(s)
  BY IdleOrOpen DEF IInv, OpenOnes
<1>2. TxInOrder(s) /\ TxStands(r) /\ TxStands(s)
  BY <1>1 DEF OrderInv, StandingInv
<1>3. CASE Holds(r, {"alert"}) /\ Holds(s, {"evidence", "rules", "routes"})
  BY <1>3 DEF Behind, Stage, Holds
<1>4. CASE Holds(r, {"evidence"}) /\ Holds(s, {"rules", "routes"})
  BY <1>4 DEF Behind, Stage, Holds
<1>7. CASE Holds(r, {"evidence"}) /\ Holds(s, {"evidence"}) /\ NextKey(r) \in StoredKeys(s)
  <2>1. Stage(r) = 1 /\ Stage(s) = 1
    BY <1>7 DEF Stage, Holds
  <2> QED
    BY <1>1, <1>7, <2>1, KeysAreAhead DEF Behind
<1>5. ASSUME Holds(r, {"rules"}), Holds(s, {"rules", "routes"}), tx[r].rules # {}, CooldownHolder(r, s)
      PROVE  Behind(r, s)
  <2>1. PICK spec : spec = First(tx[r].rules)
    OBVIOUS
  <2>2. spec \in tx[r].rules /\ Fingerprint(r, spec.rule) \in tx[s].locks
    BY <1>1, <1>5, <2>1, FirstIsThere DEF OpenTx, CooldownHolder
  <2>3. PICK u \in Rule : Fingerprint(r, spec.rule) = Fingerprint(s, u) /\ Passed(s, u)
    BY <1>2, <2>2 DEF TxInOrder
  <2>4. Passed(s, spec.rule)
    BY <2>3 DEF Fingerprint
  <2> DEFINE p == [rule |-> spec.rule, priority |-> 0]
  <2>5. p \in ToDo(r)
    BY <2>2 DEF ToDo
  <2>6. ASSUME NEW q \in ToDo(s) PROVE Earlier(p, q)
    <3>1. CASE \E x \in tx[s].rules : q = [rule |-> x.rule, priority |-> 0]
      BY <2>4, <3>1 DEF Passed, Earlier
    <3>2. CASE \E c \in tx[s].routes : q = [rule |-> c.rule, priority |-> c.priority]
      <4>1. PICK c \in tx[s].routes : q = [rule |-> c.rule, priority |-> c.priority]
        BY <3>2
      <4>2. c.rule \in Nat /\ c.priority \in Nat \ {0}
        BY <1>1, ChannelsHaveNumbers DEF OpenTx
      <4>3. spec.rule \in Nat /\ spec.rule <= c.rule
        BY <1>1, <2>2, <2>4, RuleAssumption DEF OpenTx, Passed
      <4> QED
        BY <4>1, <4>2, <4>3 DEF Earlier
    <3> QED
      BY <3>1, <3>2 DEF ToDo
  <2>7. Stage(r) = 2 /\ Stage(s) = 2
    BY <1>5 DEF Holds, Stage
  <2> QED
    BY <2>5, <2>6, <2>7 DEF Behind
<1>6. ASSUME Holds(r, {"routes"}), Holds(s, {"rules", "routes"}),
             NEW c \in NextRoute(r, tx[r].routes), NEW d \in inserted,
             d.alert = tx[s].id, d.key = AlertDedupeKey(AlertReference(r), c.rule, c.endpoint)
      PROVE  Behind(r, s)
  <2>1. d \in Own(s) /\ c \in tx[r].routes /\ c \in Usable(c.rule)
    BY <1>2, <1>6 DEF Own, NextRoute, TxStands, RouteStands
  <2>2. d.key = AlertDedupeKey(AlertReference(s), d.rule, d.endpoint)
    BY <1>1, <2>1, OwnKeys
  <2>3. d.rule = c.rule /\ d.endpoint = c.endpoint
    BY <1>6, <2>2 DEF AlertDedupeKey
  <2>4. PassedRow(s, d)
    BY <1>2, <2>1 DEF TxInOrder
  <2> DEFINE p == [rule |-> c.rule, priority |-> c.priority]
  <2>5. p \in ToDo(r)
    BY <2>1 DEF ToDo
  <2>6. ASSUME NEW q \in ToDo(s) PROVE Earlier(p, q)
    <3>1. CASE \E x \in tx[s].rules : q = [rule |-> x.rule, priority |-> 0]
      BY <2>3, <2>4, <3>1 DEF PassedRow, Passed, Earlier
    <3>2. CASE \E b \in tx[s].routes : q = [rule |-> b.rule, priority |-> b.priority]
      <4>1. PICK b \in tx[s].routes : q = [rule |-> b.rule, priority |-> b.priority]
        BY <3>2
      <4>2. b.rule \in Nat /\ c.rule \in Nat /\ c.rule <= b.rule
        BY <1>1, <2>1, <2>3, <2>4, RuleAssumption DEF OpenTx, ChannelRow, PassedRow, Passed
      <4>3. b.rule = c.rule => c.priority < b.priority
        BY <2>1, <2>3, <2>4 DEF PassedRow
      <4> QED
        BY <4>1, <4>2, <4>3 DEF Earlier
    <3> QED
      BY <3>1, <3>2 DEF ToDo
  <2>7. Stage(r) = 2 /\ Stage(s) = 2
    BY <1>6 DEF Holds, Stage
  <2> QED
    BY <2>5, <2>6, <2>7 DEF Behind
<1>8. Holds(s, {"evidence", "rules", "routes"}) => Holds(s, {"evidence"}) \/ Holds(s, {"rules", "routes"})
  BY DEF Holds
<1> QED
  BY <1>3, <1>4, <1>5, <1>6, <1>7, <1>8 DEF WaitsFor

(* A finite set that is ordered has a last element.                        *)
LEMMA SomebodyIsLast ==
  ASSUME NEW S, IsFiniteSet(S), S # {}, NEW R,
         \A x \in S : <<x, x>> \notin R,
         \A x, y, z \in S : <<x, y>> \in R /\ <<y, z>> \in R => <<x, z>> \in R
  PROVE  \E x \in S : \A y \in S : <<x, y>> \notin R
<1> DEFINE Endless(U) == U # {} /\ \A x \in U : \E y \in U : <<x, y>> \in R
           Sizes == {Cardinality(U) : U \in {V \in SUBSET S : Endless(V)}}
<1> SUFFICES ASSUME Endless(S) PROVE FALSE
  OBVIOUS
<1>1. \A U \in SUBSET S : IsFiniteSet(U) /\ Cardinality(U) \in Nat
  BY FS_Subset, FS_CardinalityType
<1>2. Sizes \subseteq Nat /\ Sizes # {}
  <2>1. Cardinality(S) \in Sizes
    OBVIOUS
  <2> QED
    BY <1>1, <2>1
<1>3. PICK n \in Sizes : \A m \in Sizes : n <= m
  BY <1>2, LeastExists
<1>4. PICK U \in SUBSET S : Endless(U) /\ Cardinality(U) = n
  BY <1>3
<1>5. PICK x \in U : TRUE
  BY <1>4
<1>6. Cardinality(U \ {x}) = n - 1 /\ n \in Nat
  BY <1>1, <1>2, <1>4, <1>5, FS_RemoveElement
<1>7. ~Endless(U \ {x})
  <2>1. Endless(U \ {x}) => Cardinality(U \ {x}) \in Sizes
    OBVIOUS
  <2>2. n - 1 \notin Sizes
    <3> HIDE DEF Sizes
    <3> QED
      BY <1>3, <1>6
  <2> QED
    BY <1>6, <2>1, <2>2
<1>8. PICK z \in U : <<x, z>> \in R
  BY <1>4, <1>5
<1>9. z \in U \ {x}
  BY <1>4, <1>5, <1>8
<1>10. PICK y \in U \ {x} : \A w \in U \ {x} : <<y, w>> \notin R
  BY <1>7, <1>9
<1>11. <<y, x>> \in R
  BY <1>4, <1>10
<1> QED
  BY <1>4, <1>5, <1>8, <1>9, <1>10, <1>11

\* Transactions that do not store evidence, or not in different orders,
\* do not wait in a circle.
LEMMA NoCircle ==
  ASSUME IInv, StandingInv, OrderInv, Standing, NEW S, S \subseteq OpenOnes, Knot(S),
         KeysInOrder \/ \A x \in S : Stage(x) # 1
  PROVE  FALSE
<1> DEFINE R == {pair \in OpenOnes \X OpenOnes : Behind(pair[1], pair[2])}
<1>1. IsFiniteSet(S) /\ S # {}
  BY FS_Subset DEF OrderInv, Knot
<1>2. \A x, y \in OpenOnes : <<x, y>> \in R <=> Behind(x, y)
  OBVIOUS
<1> HIDE DEF R
<1>3. PICK x \in S : \A y \in S : <<x, y>> \notin R
  <2>1. \A x \in S : <<x, x>> \notin R
    BY <1>2, BehindIsAnOrder
  <2>2. \A x, y, z \in S : <<x, y>> \in R /\ <<y, z>> \in R => <<x, z>> \in R
    BY <1>2, BehindIsAnOrder
  <2> QED
    BY <1>1, <2>1, <2>2, SomebodyIsLast
<1>4. PICK y \in S : y \in WaitsFor(x)
  BY <1>3 DEF Knot
<1>5. Behind(x, y)
  BY <1>3, <1>4, WaitsForOneAhead
<1> QED
  BY <1>2, <1>3, <1>4, <1>5

LEMMA OnlyEvidenceDeadlocks ==
  ASSUME IInv, StandingInv, OrderInv, Standing, NEW r \in Request, Deadlocked(r)
  PROVE  tx[r].phase = "evidence" /\ ~KeysInOrder
<1>1. PICK S \in SUBSET {s \in Request : tx[s] # Idle} :
        r \in S /\ Knot(S) /\ \A T \in (SUBSET S) \ {S} : ~Knot(T)
  BY DEF Deadlocked
<1>2. S \subseteq OpenOnes
  BY IdleOrOpen DEF IInv, OpenOnes
<1>3. \A s \in S : WaitsFor(s) \subseteq Request \ {s}
  BY DEF WaitsFor
\* Nobody waits for the one that has not stored its alert yet.
<1>4. Stage(r) # 0
  <2> SUFFICES ASSUME Stage(r) = 0 PROVE FALSE
    OBVIOUS
  <2>1. tx[r].phase = "alert"
    BY DEF Stage
  <2>2. \A s \in S : r \notin WaitsFor(s)
    BY <2>1 DEF WaitsFor, Holds
  <2>3. Knot(S \ {r})
    BY <1>1, <1>3, <2>2 DEF Knot
  <2>4. S \ {r} \in (SUBSET S) \ {S}
    BY <1>1
  <2> QED
    BY <1>1, <2>3, <2>4
\* Those that are past the evidence wait for each other.
<1>5. Stage(r) # 2
  <2> SUFFICES ASSUME Stage(r) = 2 PROVE FALSE
    OBVIOUS
  <2> DEFINE T == {s \in S : Stage(s) = 2}
  <2>1. ASSUME NEW s \in T, NEW q \in WaitsFor(s) PROVE Stage(q) = 2
    <3>1. tx[s].phase \notin {"alert", "evidence"}
      BY <2>1 DEF Stage
    <3> QED
      BY <2>1, <3>1 DEF WaitsFor, Holds, Stage
  <2>2. Knot(T)
    BY <1>1, <2>1 DEF Knot
  <2>3. \A x \in T : Stage(x) # 1
    OBVIOUS
  <2> QED
    BY <1>2, <2>2, <2>3, NoCircle
<1>6. ~KeysInOrder
  BY <1>1, <1>2, NoCircle
<1>7. tx[r].phase = "evidence"
  BY <1>4, <1>5 DEF Stage
<1> QED
  BY <1>6, <1>7

(* While nobody changes the configuration a transaction is the victim of a *)
(* deadlock only while it stores evidence, and only if requests name their *)
(* storageKeys in different orders, however many alerts of however many    *)
(* incidents are ingested at once: events, cooldown locks and routes are   *)
(* taken in the order of the phases, of the rules and of the priorities,   *)
(* but evidence in that of the request (ai_alerts.go 164-180, outbox.go    *)
(* 75-160).                                                                *)
THEOREM NoDeadlockAlways == Spec => NoDeadlock
<1>1. ASSUME IInv, StandingInv, OrderInv, Next
      PROVE  Standing => \A r \in Request :
               AbortVictim(r) => tx[r].phase = "evidence" /\ ~KeysInOrder
  BY <1>1, OnlyEvidenceDeadlocks DEF AbortVictim
<1>2. IInv /\ StandingInv /\ OrderInv /\ [Next]_vars =>
        [Standing => \A r \in Request :
           AbortVictim(r) => tx[r].phase = "evidence" /\ ~KeysInOrder]_vars
  BY <1>1
<1> QED
  BY <1>2, OrderInvariance, PTL DEF Spec, NoDeadlock
=============================================================================
