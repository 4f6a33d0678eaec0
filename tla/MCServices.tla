----------------------------- MODULE MCServices -----------------------------
(***************************************************************************)
(* Small instances of the components of Services.                          *)
(***************************************************************************)
EXTENDS Services, TLC

(* Stores: decisions of all roles on one alert while the manager is        *)
(* demoted and removed; or two stores of one code while memberships        *)
(* change, the owner's included.                                           *)
decision(u, to) == [kind |-> "decide", actor |-> u, alert |-> "a1", to |-> to]
creation == [kind |-> "create", actor |-> "own", code |-> "S2"]
MCStoreDoes ==
  "d1" :> decision("opr", "ACKNOWLEDGED") @@ "d2" :> decision("mgr", "RESOLVED")
  @@ "d3" :> decision("opr", "DISMISSED")
  @@ "n1" :> creation @@ "n2" :> creation
  @@ "m1" :> [kind |-> "update", actor |-> "own", member |-> "mgr", role |-> "OPERATOR"]
  @@ "m2" :> [kind |-> "remove", actor |-> "own", member |-> "mgr"]
  @@ "m3" :> [kind |-> "update", actor |-> "own", member |-> "own", role |-> "MANAGER"]
  @@ "m4" :> [kind |-> "add", actor |-> "own", member |-> "mgr", role |-> "OPERATOR"]
MCInitRole == "own" :> "OWNER" @@ "mgr" :> "MANAGER" @@ "opr" :> "OPERATOR"

(* Tests: c4 repeats c1; c1 and c2 test one endpoint, c3 another of the    *)
(* same store, all for one owner.                                          *)
MCStoreOf == "e1" :> "s1" @@ "e2" :> "s1"
MCEndpointOf == "c1" :> "e1" @@ "c2" :> "e1" @@ "c3" :> "e2" @@ "c4" :> "e1"
MCRequestOf == "c1" :> "r1" @@ "c2" :> "r2" @@ "c3" :> "r1" @@ "c4" :> "r1"
MCRequesterOf == [c \in {"c1", "c2", "c3", "c4"} |-> "u1"]

(* One registration is sent twice; others take its email or its code.      *)
Rival(email, code, n) == [email |-> email, code |-> code, n |-> n]
MCRegistrations ==
  {Rival("e1", "c1", 1), Rival("e1", "c1", 2), Rival("e1", "c2", 1), Rival("e2", "c1", 1)}

(* A table with room for one counter, two routes with different limits.    *)
MCMaximum == "login:a" :> 1 @@ "ai-ingest:c" :> 2
MCWindow == "login:a" :> 4 @@ "ai-ingest:c" :> 5

(* One delivery, two instances; a tick is five seconds: the timeouts are   *)
(* ten and fifteen, the lease fifteen, which config.go 137 lets pass.      *)
MCRequestTimeout == "TELEGRAM" :> 2 @@ "WHATSAPP" :> 3
=============================================================================
