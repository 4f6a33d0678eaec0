--------------------------- MODULE FallbackChain ---------------------------
(***************************************************************************)
(* What the notification outbox promises about the routes of one alert and *)
(* one rule: they are tried one at a time in the order of their            *)
(* priorities, a success stands the later ones down, a failure hands over  *)
(* to the next one, and a message that the provider took and later failed  *)
(* to deliver hands over even to a route that was stood down.  Claims,     *)
(* leases, retries, crashes and lost messages are below this level: a      *)
(* route is simply live while somebody is at it.                           *)
(***************************************************************************)
EXTENDS Integers

CONSTANTS Delivery, Chain, ChainOf, PriorityOf

VARIABLE route

Route == {"absent", "standby", "live", "sent", "failed", "stood_down"}

Init == route = [d \in Delivery |-> "absent"]

IsFirst(d) ==
  \A x \in Delivery : ChainOf[x] = ChainOf[d] => PriorityOf[d] <= PriorityOf[x]

(* The routes of S that are next in line after d: one at most.             *)
NextInLine(d, S) ==
  LET later == {x \in Delivery : /\ ChainOf[x] = ChainOf[d]
                                 /\ PriorityOf[x] > PriorityOf[d]
                                 /\ route[x] \in S}
  IN  {x \in later : \A y \in later : PriorityOf[x] <= PriorityOf[y]}

(* An alert of chain c is recorded with the routes of R.                   *)
Start(c, R) ==
  /\ R # {}
  /\ \A d \in R : ChainOf[d] = c
  /\ \A d \in Delivery : ChainOf[d] = c => route[d] = "absent"
  /\ route' = [d \in Delivery |-> IF d \notin R THEN route[d]
                                  ELSE IF IsFirst(d) THEN "live" ELSE "standby"]

Succeed(d) ==
  /\ route[d] = "live"
  /\ route' = [x \in Delivery |->
                 IF x = d THEN "sent"
                 ELSE IF ChainOf[x] = ChainOf[d] /\ route[x] = "standby" THEN "stood_down"
                 ELSE route[x]]

HandOver(d, S) ==
  route' = [x \in Delivery |-> IF x = d THEN "failed"
                               ELSE IF x \in NextInLine(d, S) THEN "live"
                               ELSE route[x]]

GiveUp(d) == route[d] = "live" /\ HandOver(d, {"standby"})

Bounce(d) == route[d] = "sent" /\ HandOver(d, {"standby", "stood_down"})

Next ==
  \/ \E c \in Chain, R \in SUBSET Delivery : Start(c, R)
  \/ \E d \in Delivery : Succeed(d) \/ GiveUp(d) \/ Bounce(d)

Spec == Init /\ [][Next]_route
=============================================================================
