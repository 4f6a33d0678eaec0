------------------------- MODULE NotificationConfig -------------------------
(***************************************************************************)
(* The notification configuration of a store: endpoints, rules and the     *)
(* channels that route a rule to its endpoints, as the owner's requests    *)
(* change them.  Every statement of a handler is a transaction of its own. *)
(* A PATCH of an endpoint or of a rule reads the row, merges the fields it *)
(* was given, validates the result and writes ALL columns back: two        *)
(* actions, with the merged row kept between them.  The other handlers     *)
(* change the tables in one statement, whose guard also covers the checks  *)
(* before it (what those refuse changes nothing).                          *)
(*                                                                         *)
(* A row is a record of the fields that a guard or a reader tells apart:   *)
(* config is "complete" when ValidateWhatsAppEnableConfig accepts it;      *)
(* credentialRef stands for the pair with providerAccountRef and is        *)
(* "assigned" when AuthorizeCredential accepts the pair for this store.    *)
(***************************************************************************)
EXTENDS Integers, FiniteSets

CONSTANTS
  Endpoint, Rule,   \* ids; a rule's is its place in ORDER BY "createdAt", "id"
  ProviderOf,       \* Endpoint -> "TELEGRAM" or "WHATSAPP", immutable
  Editor,           \* concurrent requests of owners
  Scenarios,        \* name -> what there is at first and what may be asked:
                    \*   endpoints, rules    id -> row, Unborn
                    \*   channels            set of channels
                    \*   newEndpoints, newRules   bodies of POST
                    \*   endpointPatches, rulePatches, channelPatches
                    \*       bodies of PATCH: functions from some fields
                    \*   priorities          those the owner uses
                    \*   edits               bound on the owners' requests
  Unborn,           \* no row yet
  Deleted,          \* a deleted row: ids are never used again
  NoEdit            \* the request is not between its two statements

Priorities == 1..999

ASSUME RuleAssumption == Rule \subseteq Nat
ASSUME ScenarioAssumption ==
  \A n \in DOMAIN Scenarios : Scenarios[n].edits \in Nat /\ Scenarios[n].priorities \subseteq Priorities

VARIABLES
  scenario,     \* the name of the scenario, chosen once
  endpoints,
  rules,
  channels,
  deliveries,   \* committed ALERT rows of notification_deliveries
  inserted,     \* rows of transactions that are still open
  edit,         \* Editor -> what its request read and merged
  edits         \* requests so far; also the id of a channel made next

Plan == Scenarios[scenario]

configVars == <<scenario, endpoints, rules, channels, edit, edits>>

EndpointRow == [destinationRef : {"d1", "d2"}, credentialRef : {"assigned", "foreign"},
                config : {"empty", "complete"}, isEnabled : BOOLEAN]
MaxCooldownSeconds == 86400

RuleRow == [minimumSeverity : {"LOW", "MEDIUM", "HIGH", "CRITICAL"},
            alertTypes : SUBSET {"WEAPON_DETECTED", "LOITERING"},
            cooldownSeconds : 0..MaxCooldownSeconds, isEnabled : BOOLEAN]

ChannelRow == [id : Nat, rule : Rule, endpoint : Endpoint, priority : Priorities, isEnabled : BOOLEAN]

Exists(row) == row \notin {Unborn, Deleted}
StoredEndpoints == {e \in Endpoint : Exists(endpoints[e])}
StoredRules == {u \in Rule : Exists(rules[u])}

ConfigInit ==
  /\ scenario \in DOMAIN Scenarios
  /\ endpoints = Plan.endpoints
  /\ rules = Plan.rules
  /\ channels = Plan.channels
  /\ edit = [h \in Editor |-> NoEdit]
  /\ edits = 0

NewRequest(h) == edit[h] = NoEdit /\ edits < Plan.edits /\ edits' = edits + 1

-----------------------------------------------------------------------------
(* Validation *)

EnableGate(e, row) ==
  ProviderOf[e] = "WHATSAPP" /\ row.isEnabled => row.config = "complete"

Authorized(row) == row.credentialRef = "assigned"

Sendable(e, row) == row.isEnabled => EnableGate(e, row) /\ Authorized(row)

\* The body of a PATCH: some fields of a row.
PartOf(patch, Row) ==
  \E row \in Row : \A f \in DOMAIN patch : f \in DOMAIN row /\ patch[f] = row[f]

(* A scenario starts from what the tables may hold and asks for what the   *)
(* handlers accept: a PATCH of a channel may name its priority and whether *)
(* it is enabled, ids of channels made later are not in use, and what is   *)
(* enabled at first came through the gate.                                 *)
ASSUME RowAssumption ==
  /\ Unborn # Deleted
  /\ \A none \in {Unborn, Deleted} : none \notin EndpointRow /\ none \notin RuleRow
  /\ \A n \in DOMAIN Scenarios :
       /\ Scenarios[n].endpoints \in [Endpoint -> EndpointRow \cup {Unborn, Deleted}]
       /\ Scenarios[n].rules \in [Rule -> RuleRow \cup {Unborn, Deleted}]
       /\ Scenarios[n].channels \subseteq ChannelRow
       /\ Scenarios[n].newEndpoints \subseteq EndpointRow
       /\ Scenarios[n].newRules \subseteq RuleRow
       /\ \A patch \in Scenarios[n].endpointPatches : PartOf(patch, EndpointRow)
       /\ \A patch \in Scenarios[n].rulePatches : PartOf(patch, RuleRow)
       /\ \A patch \in Scenarios[n].channelPatches :
            PartOf(patch, [priority : Priorities, isEnabled : BOOLEAN])
       /\ \A e \in Endpoint :
            Exists(Scenarios[n].endpoints[e]) => Sendable(e, Scenarios[n].endpoints[e])
       /\ \A c \in Scenarios[n].channels :
            /\ Exists(Scenarios[n].rules[c.rule]) /\ Exists(Scenarios[n].endpoints[c.endpoint])
            /\ c.id >= Scenarios[n].edits
            /\ \A b \in Scenarios[n].channels \ {c} :
                 /\ b.id # c.id
                 /\ b.rule = c.rule => b.endpoint # c.endpoint /\ b.priority # c.priority

\* notification_endpoints_store_provider_destination_key
DestinationTaken(e, row) ==
  \E f \in StoredEndpoints \ {e} :
    ProviderOf[f] = ProviderOf[e] /\ endpoints[f].destinationRef = row.destinationRef

Merged(row, patch) ==
  [f \in DOMAIN row |-> IF f \in DOMAIN patch THEN patch[f] ELSE row[f]]

-----------------------------------------------------------------------------
(* Endpoints *)

CreateEndpoint(h, e, row) ==
  /\ NewRequest(h)
  /\ endpoints[e] = Unborn
  /\ EnableGate(e, row)
  /\ Authorized(row)
  /\ ~DestinationTaken(e, row)
  /\ endpoints' = [endpoints EXCEPT ![e] = row]
  /\ UNCHANGED <<rules, channels, edit>>

ReadEndpoint(h, e, patch) ==
  LET row == Merged(endpoints[e], patch)
  IN  /\ NewRequest(h)
      /\ e \in StoredEndpoints
      /\ EnableGate(e, row)
      /\ row.isEnabled \/ "credentialRef" \in DOMAIN patch => Authorized(row)
      /\ edit' = [edit EXCEPT ![h] = [endpoint |-> e, row |-> row, named |-> DOMAIN patch]]
      /\ UNCHANGED <<endpoints, rules, channels>>

Editing(h, kind) == edit[h] # NoEdit /\ kind \in DOMAIN edit[h]

(* Mutant: the UPDATE names only the fields of the request, as the one of  *)
(* a channel does.                                                         *)
WriteEndpointFields(h) ==
  LET e == edit[h].endpoint
      given == [f \in edit[h].named |-> edit[h].row[f]]
  IN  /\ Editing(h, "endpoint")
      /\ edit' = [edit EXCEPT ![h] = NoEdit]
      /\ endpoints' = IF Exists(endpoints[e]) /\ ~DestinationTaken(e, edit[h].row)
                      THEN [endpoints EXCEPT ![e] = Merged(@, given)]
                      ELSE endpoints
      /\ UNCHANGED <<rules, channels, edits>>

WriteEndpoint(h) ==
  LET e == edit[h].endpoint
  IN  /\ Editing(h, "endpoint")
      /\ edit' = [edit EXCEPT ![h] = NoEdit]
      /\ endpoints' = IF Exists(endpoints[e]) /\ ~DestinationTaken(e, edit[h].row)
                      THEN [endpoints EXCEPT ![e] = edit[h].row]
                      ELSE endpoints
      /\ UNCHANGED <<rules, channels, edits>>

(* Mutant: the check for delivery history without the foreign key, which   *)
(* alone sees the rows of open transactions.                               *)
UnreferencedByCommitted(field, id) == \A d \in deliveries : d[field] # id

(* ON DELETE RESTRICT: a committed row refuses the DELETE, the row of an   *)
(* open transaction makes it wait.                                         *)
Unreferenced(field, id) == \A d \in deliveries \cup inserted : d[field] # id

(* Mutant: the channels stay behind (no cascade).                          *)
RemoveEndpointOnly(h, e) ==
  /\ NewRequest(h)
  /\ e \in StoredEndpoints
  /\ Unreferenced("endpoint", e)
  /\ endpoints' = [endpoints EXCEPT ![e] = Deleted]
  /\ UNCHANGED <<rules, channels, edit>>

\* The channels of the endpoint go with it (ON DELETE CASCADE).
RemoveEndpoint(h, e) ==
  /\ NewRequest(h)
  /\ e \in StoredEndpoints
  /\ Unreferenced("endpoint", e)
  /\ endpoints' = [endpoints EXCEPT ![e] = Deleted]
  /\ channels' = {c \in channels : c.endpoint # e}
  /\ UNCHANGED <<rules, edit>>

-----------------------------------------------------------------------------
(* Rules *)

CreateRule(h, u, row) ==
  /\ NewRequest(h)
  /\ rules[u] = Unborn
  /\ rules' = [rules EXCEPT ![u] = row]
  /\ UNCHANGED <<endpoints, channels, edit>>

ReadRule(h, u, patch) ==
  /\ NewRequest(h)
  /\ u \in StoredRules
  /\ edit' = [edit EXCEPT ![h] =
       [rule |-> u, row |-> Merged(rules[u], patch), named |-> DOMAIN patch]]
  /\ UNCHANGED <<endpoints, rules, channels>>

WriteRule(h) ==
  LET u == edit[h].rule
  IN  /\ Editing(h, "rule")
      /\ edit' = [edit EXCEPT ![h] = NoEdit]
      /\ rules' = IF Exists(rules[u]) THEN [rules EXCEPT ![u] = edit[h].row] ELSE rules
      /\ UNCHANGED <<endpoints, channels, edits>>

RemoveRule(h, u) ==
  /\ NewRequest(h)
  /\ u \in StoredRules
  /\ Unreferenced("rule", u)
  /\ rules' = [rules EXCEPT ![u] = Deleted]
  /\ channels' = {c \in channels : c.rule # u}
  /\ UNCHANGED <<endpoints, edit>>

-----------------------------------------------------------------------------
(* Channels *)

\* notification_rule_channels_rule_endpoint_key, ..._rule_priority_key
Fits(channel) ==
  \A c \in channels : c.id # channel.id /\ c.rule = channel.rule =>
    c.endpoint # channel.endpoint /\ c.priority # channel.priority

CreateChannel(h, u, e, p) ==
  LET channel == [id |-> edits, rule |-> u, endpoint |-> e, priority |-> p, isEnabled |-> TRUE]
  IN  /\ NewRequest(h)
      /\ u \in StoredRules /\ e \in StoredEndpoints
      /\ Fits(channel)
      /\ channels' = channels \cup {channel}
      /\ UNCHANGED <<endpoints, rules, edit>>

UpdateChannel(h, c, patch) ==
  LET channel == Merged(c, patch)
  IN  /\ NewRequest(h)
      /\ Fits(channel)
      /\ channels' = (channels \ {c}) \cup {channel}
      /\ UNCHANGED <<endpoints, rules, edit>>

RemoveChannel(h, c) ==
  /\ NewRequest(h)
  /\ Unreferenced("channel", c.id)
  /\ channels' = channels \ {c}
  /\ UNCHANGED <<endpoints, rules, edit>>

-----------------------------------------------------------------------------
ConfigStep ==
  /\ UNCHANGED scenario
  /\ \E h \in Editor :
      \/ \E e \in Endpoint :
           \/ \E row \in Plan.newEndpoints : CreateEndpoint(h, e, row)
           \/ \E patch \in Plan.endpointPatches : ReadEndpoint(h, e, patch)
           \/ RemoveEndpoint(h, e)
      \/ \E u \in Rule :
           \/ \E row \in Plan.newRules : CreateRule(h, u, row)
           \/ \E patch \in Plan.rulePatches : ReadRule(h, u, patch)
           \/ RemoveRule(h, u)
           \/ \E e \in Endpoint, p \in Plan.priorities : CreateChannel(h, u, e, p)
      \/ WriteEndpoint(h)
      \/ WriteRule(h)
      \/ \E c \in channels :
           \/ \E patch \in Plan.channelPatches : UpdateChannel(h, c, patch)
           \/ RemoveChannel(h, c)

-----------------------------------------------------------------------------
(* Properties *)

ConfigTypeOK ==
  /\ endpoints \in [Endpoint -> EndpointRow \cup {Unborn, Deleted}]
  /\ \A u \in Rule : Exists(rules[u]) => rules[u] \in RuleRow
  /\ \A c \in channels : c.rule \in StoredRules /\ c.endpoint \in StoredEndpoints
  /\ \A h \in Editor : edit[h] # NoEdit => edit[h].row \in EndpointRow \/ edit[h].row \in RuleRow
  /\ edits \in 0..Plan.edits

\* An endpoint that alerts are routed to can be sent with, however the PATCH
\* requests of two owners cross between their read and their write: the
\* enable gate and the credential binding hold of what is stored, not only
\* of what one request saw.
EnabledIsSendable == \A e \in StoredEndpoints : Sendable(e, endpoints[e])

\* A notification that was enqueued keeps its endpoint, its rule and its
\* channel: no DELETE gets between the routes an ingest transaction loaded
\* and its commit.
DeliveriesKeepTheirRoute ==
  \A d \in deliveries :
    /\ d.endpoint \in StoredEndpoints
    /\ d.rule \in StoredRules
    /\ \E c \in channels : c.id = d.channel /\ c.endpoint = d.endpoint
=============================================================================
