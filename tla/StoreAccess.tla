---------------------------- MODULE StoreAccess ----------------------------
(***************************************************************************)
(* Who may do what in a store: memberships and their changes, the creation *)
(* of stores and the decisions on alerts, each request as the statements   *)
(* of its handler.  A decision and a creation read the membership and the  *)
(* account FOR SHARE and keep both until they commit; a change of a        *)
(* membership or of an account waits for them.  What a transaction has     *)
(* written is seen by the others when it commits.                          *)
(***************************************************************************)
EXTENDS Integers, Sequences, FiniteSets

CONSTANTS
  User,
  Alert,       \* alerts of the one store that exists at first
  Home,        \* that store
  InitRole,    \* User -> role in Home, "NONE"
  Call,        \* requests; each is sent once at most
  Plans,       \* sets of calls: those of one behaviour
  Does,        \* Call -> what it asks for, a record with kind and actor
  MaxFaults,   \* bound on failed transactions
  Suspendable  \* accounts that an administrator may suspend

FaultAssumption == MaxFaults \in Nat

Roles == {"NONE", "OPERATOR", "MANAGER", "OWNER"}
Statuses == {"NEW", "ACKNOWLEDGED", "DISMISSED", "RESOLVED"}
Terminal == {"DISMISSED", "RESOLVED"}

\* A store that a request creates is named after the request.
Creations == {c \in Call : Does[c].kind = "create"}
StoreId == {Home} \cup Creations

\* The handlers refuse every other body; the store that exists has its owner
\* from createStore or register.
RequestAssumption ==
  /\ Home \notin Call
  /\ InitRole \in [User -> Roles] /\ \E u \in User : InitRole[u] = "OWNER"
  /\ \A c \in Call : LET d == Does[c] IN
       /\ d.actor \in User
       /\ d.kind \in {"decide", "create", "add", "update", "remove"}
       /\ d.kind = "decide" => d.alert \in Alert /\ d.to \in Statuses \ {"NEW"}
       /\ d.kind \in {"add", "update", "remove"} => d.member \in User
       /\ d.kind \in {"add", "update"} => d.role \in {"OPERATOR", "MANAGER"}

VARIABLES
  plan,       \* the calls that may come
  role,       \* [StoreId -> [User -> role]], "NONE" without a membership
  active,     \* accounts with status ACTIVE
  codes,      \* "code" of the stores that requests have created
  alerts,     \* Alert -> [status, actor]: the decision as it stands
  history,    \* Alert -> sequence of rows of alert_status_history
  call,       \* Call -> its handler
  failures

vars == <<plan, role, active, codes, alerts, history, call, failures>>

Init ==
  /\ plan \in Plans
  /\ role = [s \in StoreId |-> [u \in User |-> IF s = Home THEN InitRole[u] ELSE "NONE"]]
  /\ active = User
  /\ codes = {}
  /\ alerts = [a \in Alert |-> [status |-> "NEW", actor |-> "nobody"]]
  /\ history = [a \in Alert |-> <<>>]
  /\ call = [c \in Call |-> [phase |-> "quiet"]]
  /\ failures = 0

-----------------------------------------------------------------------------
(* Roles *)

roleRank == [NONE |-> 0, OPERATOR |-> 1, MANAGER |-> 2, OWNER |-> 3]

AtLeast(r, minimum) == roleRank[r] >= roleRank[minimum]

MinimumRole(c) ==
  IF Does[c].kind = "decide"
  THEN IF Does[c].to = "RESOLVED" THEN "MANAGER" ELSE "OPERATOR"
  ELSE "OWNER"

(* requireRole: a look at the committed rows, nothing is locked.           *)
HasRole(c) ==
  /\ Does[c].actor \in active
  /\ AtLeast(role[Home][Does[c].actor], MinimumRole(c))

(* alertTransitionStatus answers 0.                                        *)
MayChange(from, to, r) ==
  /\ AtLeast(r, "OPERATOR")
  /\ to = "RESOLVED" \/ from \in Terminal => AtLeast(r, "MANAGER")
  /\ from # to
  /\ ~(from \in Terminal /\ to = "ACKNOWLEDGED")

-----------------------------------------------------------------------------
(* Locks *)

(* Mutant: the role is read without FOR SHARE.                             *)
SharedByNobody(u) == {}

(* Transactions that hold the membership and the account of u FOR SHARE.   *)
SharedBy(u) ==
  {c \in Call : call[c].phase \in {"authorized", "written"} /\ Does[c].actor = u}

(* Mutant: the alert is read without FOR UPDATE.                           *)
AlertFreeAlways(a) == TRUE

(* Mutant: no deferred Rollback: a refused decision keeps its row lock.     *)
AlertFreeAfterCommit(a) ==
  \A c \in Call : Does[c].kind = "decide" /\ Does[c].alert = a =>
    call[c].phase # "written" /\ (call[c].phase = "done" => call[c].code # 409)

AlertFree(a) ==
  \A c \in Call : ~(call[c].phase = "written" /\ Does[c].kind = "decide" /\ Does[c].alert = a)

CodeFree(code) ==
  \A c \in Creations : ~(call[c].phase = "written" /\ Does[c].code = code)

Go(c, next) == call' = [call EXCEPT ![c] = next]
Answer(c, code) == Go(c, [phase |-> "done", code |-> code])

-----------------------------------------------------------------------------
(* Every handler but createStore starts with requireRole.                  *)
Enter(c) ==
  /\ c \in plan /\ call[c].phase = "quiet"
  /\ IF Does[c].kind = "create" \/ HasRole(c) THEN Go(c, [phase |-> "entered"]) ELSE Answer(c, 403)
  /\ UNCHANGED <<plan, role, active, codes, alerts, history, failures>>

(* The role again, FOR SHARE; for a creation any membership as OWNER.      *)
Authorize(c) ==
  LET u == Does[c].actor
      held == IF Does[c].kind = "create"
              THEN IF \E s \in StoreId : role[s][u] = "OWNER" THEN "OWNER" ELSE "NONE"
              ELSE role[Home][u]
  IN  /\ call[c].phase = "entered"
      /\ Does[c].kind \in {"decide", "create"}
      /\ IF u \in active /\ held # "NONE"
         THEN Go(c, [phase |-> "authorized", role |-> held])
         ELSE Answer(c, 403)
      /\ UNCHANGED <<plan, role, active, codes, alerts, history, failures>>

(* SELECT ... FOR UPDATE of the alert, the transition, UPDATE and INSERT.  *)
Decide(c) ==
  LET a == Does[c].alert
      from == alerts[a]
  IN  /\ call[c].phase = "authorized"
      /\ Does[c].kind = "decide"
      /\ AlertFree(a)
      /\ IF MayChange(from.status, Does[c].to, call[c].role)
         THEN Go(c, [phase |-> "written", role |-> call[c].role, from |-> from])
         ELSE Answer(c, 409)
      /\ UNCHANGED <<plan, role, active, codes, alerts, history, failures>>

Entry(c) ==
  [actor |-> Does[c].actor, previousStatus |-> call[c].from.status,
   previousActor |-> call[c].from.actor, newStatus |-> Does[c].to]

CommitDecision(c) ==
  LET a == Does[c].alert
  IN  /\ call[c].phase = "written"
      /\ Does[c].kind = "decide"
      /\ alerts' = [alerts EXCEPT ![a] = [status |-> Does[c].to, actor |-> Does[c].actor]]
      /\ history' = [history EXCEPT ![a] = Append(@, Entry(c))]
      /\ Answer(c, 201)
      /\ UNCHANGED <<plan, role, active, codes, failures>>

(* INSERT INTO "stores": the unique code; then the membership.             *)
InsertStore(c) ==
  /\ call[c].phase = "authorized"
  /\ Does[c].kind = "create"
  /\ CodeFree(Does[c].code)
  /\ IF Does[c].code \in codes THEN Answer(c, 409) ELSE Go(c, [call[c] EXCEPT !.phase = "written"])
  /\ UNCHANGED <<plan, role, active, codes, alerts, history, failures>>

CommitStore(c) ==
  /\ call[c].phase = "written"
  /\ Does[c].kind = "create"
  /\ codes' = codes \cup {Does[c].code}
  /\ role' = [role EXCEPT ![c][Does[c].actor] = "OWNER"]
  /\ Answer(c, 201)
  /\ UNCHANGED <<plan, active, alerts, history, failures>>

AddMember(c) ==
  LET u == Does[c].member
  IN  /\ call[c].phase = "entered"
      /\ Does[c].kind = "add"
      /\ IF role[Home][u] = "NONE"
         THEN role' = [role EXCEPT ![Home][u] = Does[c].role] /\ Answer(c, 201)
         ELSE Answer(c, 409) /\ UNCHANGED role
      /\ UNCHANGED <<plan, active, codes, alerts, history, failures>>

MemberCanChange(c) == role[Home][Does[c].member] \in {"OPERATOR", "MANAGER"}

(* memberCanChange, in a statement of its own.                             *)
CheckMember(c) ==
  /\ call[c].phase = "entered"
  /\ Does[c].kind \in {"update", "remove"}
  /\ IF MemberCanChange(c) /\ ~(Does[c].kind = "remove" /\ Does[c].member = Does[c].actor)
     THEN Go(c, [phase |-> "checked"])
     ELSE Answer(c, 409)
  /\ UNCHANGED <<plan, role, active, codes, alerts, history, failures>>

(* The UPDATE or DELETE: it does not look at the role again, and waits for *)
(* the transactions that hold the membership FOR SHARE.                    *)
ChangeMember(c) ==
  LET u == Does[c].member
      next == IF Does[c].kind = "update" THEN Does[c].role ELSE "NONE"
  IN  /\ call[c].phase = "checked"
      /\ SharedBy(u) = {}
      /\ IF role[Home][u] = "NONE" THEN Answer(c, 404) /\ UNCHANGED role
         ELSE role' = [role EXCEPT ![Home][u] = next] /\ Answer(c, 200)
      /\ UNCHANGED <<plan, active, codes, alerts, history, failures>>

(* A database error or the end of the process.                             *)
Fail(c) ==
  /\ call[c].phase \notin {"quiet", "done"}
  /\ failures < MaxFaults
  /\ failures' = failures + 1
  /\ Answer(c, 500)
  /\ UNCHANGED <<plan, role, active, codes, alerts, history>>

(* An administrator changes users.status in the database.                  *)
Suspend(u) ==
  /\ u \in active \cap Suspendable
  /\ SharedBy(u) = {}
  /\ active' = active \ {u}
  /\ UNCHANGED <<plan, role, codes, alerts, history, call, failures>>

CallStep(c) ==
  \/ Enter(c) \/ Authorize(c) \/ Decide(c) \/ CommitDecision(c)
  \/ InsertStore(c) \/ CommitStore(c)
  \/ AddMember(c) \/ CheckMember(c) \/ ChangeMember(c)

Progress == \E c \in Call : CallStep(c)

Next ==
  \/ \E c \in Call : CallStep(c) \/ Fail(c)
  \/ \E u \in User : Suspend(u)

Spec == Init /\ [][Next]_vars

\* A request that has arrived is served; nobody has to fail or suspend.
FairSpec == Spec /\ WF_vars(Progress)

-----------------------------------------------------------------------------
(* Properties *)

\* The variables have their types: roles and statuses of the CHECK
\* constraints (alerts.go 191-272, stores.go 57-310).
TypeOK ==
  /\ role \in [StoreId -> [User -> Roles]]
  /\ active \subseteq User
  /\ \A a \in Alert : alerts[a].status \in Statuses /\ alerts[a].actor \in User \cup {"nobody"}
  /\ \A c \in Call : call[c].phase \in {"quiet", "entered", "authorized", "written", "checked", "done"}
  /\ failures \in 0..MaxFaults

\* The history of an alert is one chain that ends in its present state:
\* every decision starts from the state and the actor that the decision
\* before it left behind, however decisions compete and fail.
HistoryIsChain ==
  \A a \in Alert :
    LET h == history[a]
        Before(i) == IF i = 1 THEN <<"NEW", "nobody">> ELSE <<h[i-1].newStatus, h[i-1].actor>>
    IN  /\ \A i \in 1..Len(h) : <<h[i].previousStatus, h[i].previousActor>> = Before(i)
        /\ <<alerts[a].status, alerts[a].actor>> = Before(Len(h) + 1)

\* At the very commit of a decision or of a new store its author still has
\* the role that the handler found, in an account that is still active: no
\* demotion, removal or suspension comes between the check and the commit.
AuthorKeepsRole ==
  [][\A c \in Call :
       call[c].phase = "written" /\ call'[c].phase = "done" /\ call'[c].code = 201 =>
         /\ Does[c].actor \in active
         /\ \E s \in StoreId : role[s][Does[c].actor] = call[c].role]_vars

\* Every store keeps an owner, although the check of a membership and its
\* change are two statements; a store that was created has one at once.
StoresKeepAnOwner ==
  \A s \in StoreId :
    s = Home \/ (call[s].phase = "done" /\ call[s].code = 201) => \E u \in User : role[s][u] = "OWNER"

\* Roles hold: stores keep their owners, and what a role allowed is not
\* committed after it was lost (stores.go 72-90, 269-308; alerts.go 225-254).
RolesHold == []StoresKeepAnOwner /\ AuthorKeepsRole

\* Time and again every request that came is answered: no circle of
\* waiting ones.
CallIsAnswered == []<>(\A c \in Call : call[c].phase \in {"quiet", "done"})
=============================================================================
