--------------------------- MODULE MCAlertIngest ---------------------------
(***************************************************************************)
(* Small instances of AlertIngest and NotificationConfig: one scenario for *)
(* each question, all over the same requests, endpoints and rules.         *)
(***************************************************************************)
EXTENDS AlertIngest, TLC

CONSTANTS e1, e2, e3, r1, r2, r3, i1, i2

Alert(event, camera, keys) ==
  [event |-> event, store |-> "s1", incident |-> i1, camera |-> camera,
   type |-> "WEAPON_DETECTED", severity |-> "CRITICAL", evidence |-> keys]
Mine == Alert("ev1", "c1", <<1>>)
OtherCamera == Alert("ev2", "c2", <<2>>)
SameCamera == Alert("ev2", "c1", <<2>>)
SharedEvidence == Alert("ev2", "c2", <<3, 1>>)
OtherIncident == [Alert("ev3", "c1", <<3>>) EXCEPT !.incident = i2]
OtherStore == [Mine EXCEPT !.store = "s2"]

Telegram(dest) == [destinationRef |-> dest, credentialRef |-> "assigned",
                   config |-> "empty", isEnabled |-> TRUE]
WhatsApp(dest) == [Telegram(dest) EXCEPT !.config = "complete"]
Emergency == [minimumSeverity |-> "CRITICAL", alertTypes |-> {"WEAPON_DETECTED"},
              cooldownSeconds |-> 0, isEnabled |-> TRUE]
Everything == [minimumSeverity |-> "LOW", alertTypes |-> {},
               cooldownSeconds |-> 2, isEnabled |-> TRUE]
MCProviderOf == e1 :> "TELEGRAM" @@ e2 :> "WHATSAPP" @@ e3 :> "WHATSAPP"

\* Ids of channels made later are smaller than 10.
Channel(u, e, p) == [id |-> 10 * u + p, rule |-> u, endpoint |-> e, isEnabled |-> TRUE, priority |-> p]
RoutesOf(u) == {Channel(u, e1, 1), Channel(u, e2, 2)}

(* Three requests for two events of one incident, two rules with two       *)
(* routes each, one fault; the configuration stands still.                 *)
Incident ==
  [endpoints |-> e1 :> Telegram("d1") @@ e2 :> WhatsApp("d2") @@ e3 :> Unborn,
   rules |-> 1 :> Emergency @@ 2 :> Everything,
   channels |-> RoutesOf(1) \cup RoutesOf(2),
   newEndpoints |-> {}, newRules |-> {}, endpointPatches |-> {}, rulePatches |-> {},
   channelPatches |-> {}, priorities |-> {}, edits |-> 0,
   sends |-> r1 :> Mine @@ r2 :> Mine @@ r3 :> OtherCamera, tries |-> 2, faults |-> 1, time |-> 0]

(* One event from two stores, and repeated; evidence that two events       *)
(* share; a camera that is disabled.                                       *)
Replayed == [Incident EXCEPT !.sends = r1 :> Mine @@ r2 :> OtherStore @@ r3 :> SharedEvidence, !.edits = 1]

(* Two events of one fingerprint under a rule with a cooldown of two       *)
(* ticks, while its second route is switched on and off.                   *)
Cooldown ==
  [Incident EXCEPT
     !.sends = r1 :> Mine @@ r3 :> SameCamera, !.tries = 1, !.time = 2, !.edits = 2,
     !.rules = 1 :> Everything @@ 2 :> Unborn,
     !.channels = {Channel(1, e1, 1), [Channel(1, e2, 2) EXCEPT !.isEnabled = FALSE]},
     !.channelPatches = {[isEnabled |-> TRUE], [isEnabled |-> FALSE]}]

(* Within the cooldown one camera sees two incidents, one of them twice,   *)
(* and nobody changes anything.                                            *)
Suppressed ==
  [Incident EXCEPT
     !.sends = r1 :> Mine @@ r2 :> SameCamera @@ r3 :> OtherIncident,
     !.tries = 1, !.time = 2,
     !.rules = 1 :> Everything @@ 2 :> Unborn, !.channels = RoutesOf(1)]

(* Three events that share clips and name them in different orders.        *)
Clips ==
  [Incident EXCEPT
     !.sends = r1 :> Alert("ev1", "c1", <<1, 2>>) @@ r2 :> Alert("ev2", "c2", <<2, 3>>)
               @@ r3 :> Alert("ev3", "c2", <<4, 3, 1>>),
     !.rules = 1 :> Emergency @@ 2 :> Unborn, !.channels = {Channel(1, e1, 1)}]

(* Two cameras see one incident while the owner re-orders, adds and        *)
(* deletes routes.                                                         *)
Rerouted ==
  [Incident EXCEPT
     !.sends = r1 :> Mine @@ r3 :> OtherCamera, !.edits = 2,
     !.rules = 1 :> Emergency @@ 2 :> Unborn,
     !.channels = RoutesOf(1),
     !.channelPatches = {[priority |-> 1], [priority |-> 2], [priority |-> 3]},
     !.priorities = {1, 2}]

(* Two owners change endpoints, rules and channels at once; no alert comes.*)
Edited ==
  [Incident EXCEPT
     !.sends = << >>, !.faults = 0, !.edits = 4,
     !.endpoints = e1 :> Deleted @@ e2 :> [WhatsApp("d1") EXCEPT !.isEnabled = FALSE] @@ e3 :> Unborn,
     !.rules = 1 :> Emergency @@ 2 :> Unborn,
     !.channels = {Channel(1, e2, 1)},
     !.newEndpoints = {WhatsApp("d1")},
     !.newRules = {Emergency},
     !.endpointPatches = {[isEnabled |-> TRUE], [isEnabled |-> FALSE], [config |-> "empty"],
                          [destinationRef |-> "d1"],
                          [credentialRef |-> "foreign", isEnabled |-> FALSE]},
     !.rulePatches = {[isEnabled |-> FALSE], [minimumSeverity |-> "HIGH"]},
     !.channelPatches = {[isEnabled |-> TRUE], [isEnabled |-> FALSE]},
     !.priorities = {1, 2}]

MCScenarios ==
  [incident |-> Incident, replayed |-> Replayed, cooldown |-> Cooldown,
   suppressed |-> Suppressed, clips |-> Clips, rerouted |-> Rerouted, edited |-> Edited]

ASSUME IncidentsAreNoAlerts == IncidentIsNoAlert
=============================================================================
