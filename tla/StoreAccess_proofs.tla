-------------------------- MODULE StoreAccess_proofs --------------------------
(***************************************************************************)
(* Proofs about StoreAccess, for every set of users, alerts and requests.  *)
(***************************************************************************)
EXTENDS StoreAccess, SequenceTheorems, TLAPS

-----------------------------------------------------------------------------
(* The inductive invariant *)

Decision == [status : Statuses, actor : User \cup {"nobody"}]

Row == [actor : User, previousStatus : Statuses, previousActor : User \cup {"nobody"},
        newStatus : Statuses]

Held == Roles \ {"NONE"}

Handler ==
  [phase : {"quiet", "entered", "checked"}]
    \cup [phase : {"authorized", "written"}, role : Held]
    \cup [phase : {"written"}, role : Held, from : Decision]
    \cup [phase : {"done"}, code : Nat]

TypeInv ==
  /\ role \in [StoreId -> [User -> Roles]]
  /\ active \subseteq User
  /\ alerts \in [Alert -> Decision]
  /\ history \in [Alert -> Seq(Row)]
  /\ call \in [Call -> Handler]
  /\ failures \in 0..MaxFaults

(* A decision is written over what stands: the row lock of the alert.      *)
Writing(c) == call[c].phase = "written" /\ Does[c].kind = "decide"

WritesOverLatest ==
  /\ \A c \in Call : Writing(c) =>
       /\ call[c] \in [phase : {"written"}, role : Held, from : Decision]
       /\ call[c].from = alerts[Does[c].alert]
  /\ \A c, d \in Call : Writing(c) /\ Writing(d) /\ Does[c].alert = Does[d].alert => c = d

(* What a transaction found FOR SHARE still holds.                         *)
Sharing(c) == call[c].phase \in {"authorized", "written"}

SharedHolds ==
  \A c \in Call : Sharing(c) =>
    /\ Does[c].actor \in active
    /\ \E s \in StoreId : role[s][Does[c].actor] = call[c].role

(* A store has no member before it is committed.                           *)
NotYetThere ==
  \A c \in Creations : call[c].phase # "done" => \A u \in User : role[c][u] = "NONE"

(* The member that may be changed is not an owner, and does not become one.*)
CheckedIsNoOwner ==
  \A c \in Call : call[c].phase = "checked" =>
    Does[c].kind \in {"update", "remove"} /\ role[Home][Does[c].member] # "OWNER"

RoleInv == SharedHolds /\ NotYetThere /\ CheckedIsNoOwner /\ StoresKeepAnOwner

IInv == TypeInv /\ WritesOverLatest /\ HistoryIsChain /\ RoleInv

-----------------------------------------------------------------------------
(* The records of handlers *)

\* The phases that the steps write are those of handlers.
LEMMA NewHandlers ==
  /\ [phase |-> "entered"] \in Handler /\ [phase |-> "checked"] \in Handler
  /\ \A n \in Nat : [phase |-> "done", code |-> n] \in Handler
  /\ \A r \in Held : [phase |-> "authorized", role |-> r] \in Handler
                     /\ [phase |-> "written", role |-> r] \in Handler
  /\ \A r \in Held, d \in Decision : [phase |-> "written", role |-> r, from |-> d] \in Handler
<1>1. [phase |-> "entered"] \in Handler /\ [phase |-> "checked"] \in Handler
  BY DEF Handler
<1>2. \A n \in Nat : [phase |-> "done", code |-> n] \in Handler
  BY DEF Handler
<1>3. \A r \in Held : [phase |-> "authorized", role |-> r] \in Handler
                      /\ [phase |-> "written", role |-> r] \in Handler
  BY DEF Handler
<1>4. \A r \in Held, d \in Decision : [phase |-> "written", role |-> r, from |-> d] \in Handler
  BY DEF Handler
<1> QED BY <1>1, <1>2, <1>3, <1>4

\* What is known of a handler in a phase; a store that is inserted keeps the
\* role its request was authorized with.
LEMMA OldHandlers ==
  ASSUME NEW h \in Handler
  PROVE  /\ h.phase \in {"authorized", "written"} => h.role \in Held
         /\ h.phase = "authorized" => [h EXCEPT !.phase = "written"] = [phase |-> "written", role |-> h.role]
<1>1. CASE h \in [phase : {"authorized", "written"}, role : Held]
  BY <1>1
<1>2. CASE h \notin [phase : {"authorized", "written"}, role : Held]
  BY <1>2 DEF Handler
<1> QED BY <1>1, <1>2

-----------------------------------------------------------------------------
(* Every part of the invariant, step by step *)

\* The variables keep their types.
LEMMA TypeStep ==
  ASSUME FaultAssumption, RequestAssumption, IInv, Next
  PROVE  TypeInv'
<1> USE DEF IInv, TypeInv, StoreId
<1>g. ASSUME NEW c \in Call, NEW h \in Handler, Go(c, h) PROVE call' \in [Call -> Handler]
  BY <1>g DEF Go
<1>a. ASSUME NEW c \in Call, NEW n \in Nat, Answer(c, n) PROVE call' \in [Call -> Handler]
  BY <1>a, <1>g, NewHandlers DEF Answer
<1>1. ASSUME NEW c \in Call, Enter(c) PROVE TypeInv'
  <2>1. call' \in [Call -> Handler]
    BY <1>1, <1>a, <1>g, NewHandlers DEF Enter
  <2> QED BY <1>1, <2>1 DEF Enter
<1>2. ASSUME NEW c \in Call, Authorize(c) PROVE TypeInv'
  <2> DEFINE u == Does[c].actor
             held == IF Does[c].kind = "create"
                     THEN IF \E s \in StoreId : role[s][u] = "OWNER" THEN "OWNER" ELSE "NONE"
                     ELSE role[Home][u]
  <2>1. u \in User
    BY DEF RequestAssumption
  <2>2. held \in Roles
    BY <2>1 DEF Roles
  <2>3. (Go(c, [phase |-> "authorized", role |-> held]) /\ held # "NONE") \/ Answer(c, 403)
    BY <1>2 DEF Authorize
  <2> HIDE DEF held
  <2>4. call' \in [Call -> Handler]
    <3>1. CASE Answer(c, 403)
      BY <1>a, <3>1
    <3>2. CASE Go(c, [phase |-> "authorized", role |-> held]) /\ held # "NONE"
      BY <1>g, <2>2, <3>2, NewHandlers DEF Held
    <3> QED BY <2>3, <3>1, <3>2
  <2> QED BY <1>2, <2>4 DEF Authorize
<1>3. ASSUME NEW c \in Call, Decide(c) PROVE TypeInv'
  <2> DEFINE next == [phase |-> "written", role |-> call[c].role, from |-> alerts[Does[c].alert]]
  <2>1. call[c].role \in Held /\ alerts[Does[c].alert] \in Decision
    BY <1>3, OldHandlers DEF Decide, RequestAssumption
  <2>2. next \in Handler
    BY <2>1, NewHandlers
  <2>3. call' \in [Call -> Handler]
    BY SMTT(60), <1>3, <1>a, <1>g, <2>2 DEF Decide
  <2> QED BY <1>3, <2>3 DEF Decide
<1>4. ASSUME NEW c \in Call, CommitDecision(c) PROVE TypeInv'
  <2> DEFINE a == Does[c].alert
  <2>1. a \in Alert /\ Does[c].actor \in User /\ Does[c].to \in Statuses
    BY <1>4 DEF CommitDecision, RequestAssumption
  <2>2. call[c].from \in Decision
    BY <1>4 DEF CommitDecision, WritesOverLatest, Writing
  <2>3. Entry(c) \in Row
    BY <2>1, <2>2 DEF Entry, Row, Decision
  <2>4. history' \in [Alert -> Seq(Row)]
    <3>1. Append(history[a], Entry(c)) \in Seq(Row)
      BY <2>1, <2>3
    <3> QED BY <1>4, <3>1 DEF CommitDecision
  <2>5. alerts' \in [Alert -> Decision]
    BY <1>4, <2>1 DEF CommitDecision, Decision
  <2>6. call' \in [Call -> Handler]
    BY <1>4, <1>a DEF CommitDecision
  <2> QED BY <1>4, <2>4, <2>5, <2>6 DEF CommitDecision
<1>5. ASSUME NEW c \in Call, InsertStore(c) PROVE TypeInv'
  <2> DEFINE next == [call[c] EXCEPT !.phase = "written"]
  <2>0. call[c] \in Handler /\ call[c].phase = "authorized"
    BY <1>5 DEF InsertStore
  <2>1. next = [phase |-> "written", role |-> call[c].role] /\ call[c].role \in Held
    BY <2>0, OldHandlers
  <2>2. call' \in [Call -> Handler]
    <3>1. next \in Handler
      BY <2>1, NewHandlers
    <3>2. Go(c, next) \/ Answer(c, 409)
      BY <1>5 DEF InsertStore
    <3> HIDE DEF next
    <3> QED BY <1>a, <1>g, <3>1, <3>2
  <2> QED BY <1>5, <2>2 DEF InsertStore
<1>6. ASSUME NEW c \in Call, CommitStore(c) PROVE TypeInv'
  <2>1. role' \in [StoreId -> [User -> Roles]]
    BY <1>6 DEF CommitStore, Roles
  <2>2. call' \in [Call -> Handler]
    BY <1>6, <1>a DEF CommitStore
  <2> QED BY <1>6, <2>1, <2>2 DEF CommitStore
<1>r. ASSUME NEW u \in User, NEW r \in Roles, role' = [role EXCEPT ![Home][u] = r]
      PROVE  role' \in [StoreId -> [User -> Roles]]
  BY <1>r
<1>7. ASSUME NEW c \in Call, AddMember(c) PROVE TypeInv'
  <2>1. Does[c].member \in User /\ Does[c].role \in Roles
    BY <1>7 DEF AddMember, RequestAssumption, Roles
  <2>2. role' \in [StoreId -> [User -> Roles]]
    BY <1>7, <1>r, <2>1 DEF AddMember
  <2>3. call' \in [Call -> Handler]
    BY <1>7, <1>a DEF AddMember
  <2> QED BY <1>7, <2>2, <2>3 DEF AddMember
<1>8. ASSUME NEW c \in Call, CheckMember(c) PROVE TypeInv'
  <2>1. call' \in [Call -> Handler]
    BY <1>8, <1>a, <1>g, NewHandlers DEF CheckMember
  <2> QED BY <1>8, <2>1 DEF CheckMember
<1>9. ASSUME NEW c \in Call, ChangeMember(c) PROVE TypeInv'
  <2> DEFINE next == IF Does[c].kind = "update" THEN Does[c].role ELSE "NONE"
  <2>1. Does[c].member \in User /\ next \in Roles
    BY <1>9 DEF ChangeMember, RequestAssumption, Roles, RoleInv, CheckedIsNoOwner
  <2>2. role' \in [StoreId -> [User -> Roles]]
    BY <1>9, <1>r, <2>1 DEF ChangeMember
  <2>3. call' \in [Call -> Handler]
    BY <1>9, <1>a DEF ChangeMember
  <2> QED BY <1>9, <2>2, <2>3 DEF ChangeMember
<1>10. ASSUME NEW c \in Call, Fail(c) PROVE TypeInv'
  <2>1. call' \in [Call -> Handler]
    BY <1>10, <1>a DEF Fail
  <2> QED BY <1>10, <2>1 DEF Fail, FaultAssumption
<1>11. ASSUME NEW u \in User, Suspend(u) PROVE TypeInv'
  BY <1>11 DEF Suspend
<1> QED
  BY <1>1, <1>2, <1>3, <1>4, <1>5, <1>6, <1>7, <1>8, <1>9, <1>10, <1>11 DEF Next, CallStep

\* Only a decision that is about to commit holds what it found, and nobody
\* else writes its alert meanwhile: it waits for the row lock.
LEMMA WritesStep ==
  ASSUME FaultAssumption, RequestAssumption, IInv, Next
  PROVE  WritesOverLatest'
<1> USE DEF IInv, TypeInv
<1> DEFINE SameOrNotWriting(d) == call'[d] = call[d] \/ ~Writing(d)'
<1>1. ASSUME \A d \in Call : SameOrNotWriting(d), UNCHANGED alerts PROVE WritesOverLatest'
  BY <1>1 DEF WritesOverLatest, Writing
<1>2. ASSUME NEW c \in Call, NEW h, Go(c, h), h.phase # "written" \/ Does[c].kind # "decide"
      PROVE  \A d \in Call : SameOrNotWriting(d)
  BY <1>2 DEF Go, Writing
<1>3. ASSUME NEW c \in Call, Decide(c) PROVE WritesOverLatest'
  <2> DEFINE a == Does[c].alert
             next == [phase |-> "written", role |-> call[c].role, from |-> alerts[a]]
  <2>1. CASE Answer(c, 409)
    BY <1>1, <1>2, <1>3, <2>1 DEF Decide, Answer
  <2>2. CASE Go(c, next)
    <3>1. /\ call' = [call EXCEPT ![c] = next] /\ UNCHANGED alerts
          /\ Does[c].kind = "decide" /\ AlertFree(a)
      BY <1>3, <2>2 DEF Decide, Go
    <3>2. call[c].role \in Held /\ alerts[a] \in Decision
      BY <1>3, OldHandlers DEF Decide, RequestAssumption
    <3>3. \A d \in Call : Writing(d)' => d = c \/ (Writing(d) /\ call'[d] = call[d] /\ Does[d].alert # a)
      BY <3>1 DEF Writing, AlertFree
    <3>4. call'[c] = next
      BY <3>1
    <3>5. ASSUME NEW d \in Call, Writing(d)'
          PROVE  /\ call'[d] \in [phase : {"written"}, role : Held, from : Decision]
                 /\ call'[d].from = alerts'[Does[d].alert]
      <4>1. CASE d = c
        BY <3>1, <3>2, <3>4, <4>1
      <4>2. CASE d # c
        BY <3>1, <3>3, <3>5, <4>2 DEF WritesOverLatest
      <4> QED BY <4>1, <4>2
    <3>6. ASSUME NEW d \in Call, NEW e \in Call, Writing(d)', Writing(e)', Does[d].alert = Does[e].alert
          PROVE  d = e
      BY <3>3, <3>6 DEF WritesOverLatest
    <3> QED BY <3>5, <3>6 DEF WritesOverLatest, Writing
  <2> QED BY <1>3, <2>1, <2>2 DEF Decide
<1>4. ASSUME NEW c \in Call, CommitDecision(c) PROVE WritesOverLatest'
  <2> DEFINE a == Does[c].alert
  <2>1. Writing(c)
    BY <1>4 DEF CommitDecision, Writing
  <2>2. \A d \in Call : Writing(d)' => Writing(d) /\ d # c /\ call'[d] = call[d]
    BY <1>4 DEF CommitDecision, Answer, Go, Writing
  <2>3. \A d \in Call : Writing(d)' => Does[d].alert # a
    BY <2>1, <2>2 DEF WritesOverLatest
  <2>4. \A d \in Call : Writing(d)' => alerts'[Does[d].alert] = alerts[Does[d].alert]
    BY <1>4, <2>3 DEF CommitDecision, RequestAssumption
  <2> QED BY <2>2, <2>4 DEF WritesOverLatest, Writing
<1>5. ASSUME NEW c \in Call,
             Enter(c) \/ Authorize(c) \/ InsertStore(c) \/ CommitStore(c)
               \/ AddMember(c) \/ CheckMember(c) \/ ChangeMember(c) \/ Fail(c)
      PROVE  WritesOverLatest'
  <2>1. UNCHANGED alerts
    BY <1>5 DEF Enter, Authorize, InsertStore, CommitStore, AddMember, CheckMember,
        ChangeMember, Fail
  <2>2. \E h : Go(c, h) /\ (h.phase # "written" \/ Does[c].kind # "decide")
    BY <1>5 DEF Enter, Authorize, InsertStore, CommitStore, AddMember, CheckMember,
        ChangeMember,
                Fail, Answer
  <2> QED BY <1>1, <1>2, <2>1, <2>2
<1>6. ASSUME NEW u \in User, Suspend(u) PROVE WritesOverLatest'
  BY <1>1, <1>6 DEF Suspend
<1> QED BY <1>3, <1>4, <1>5, <1>6 DEF Next, CallStep

\* What the next decision starts from after i rows of a history.
After(h, i) == IF i = 0 THEN <<"NEW", "nobody">> ELSE <<h[i].newStatus, h[i].actor>>

IsChain(h, d) ==
  /\ \A i \in 1..Len(h) : <<h[i].previousStatus, h[i].previousActor>> = After(h, i - 1)
  /\ <<d.status, d.actor>> = After(h, Len(h))

\* What the property says of one alert.
LEMMA ChainOfOne ==
  ASSUME NEW h \in Seq(Row), NEW d
  PROVE  LET Before(i) == IF i = 1 THEN <<"NEW", "nobody">> ELSE <<h[i-1].newStatus, h[i-1].actor>>
         IN  (/\ \A i \in 1..Len(h) : <<h[i].previousStatus, h[i].previousActor>> = Before(i)
              /\ <<d.status, d.actor>> = Before(Len(h) + 1))
             <=> IsChain(h, d)
<1> DEFINE Before(i) == IF i = 1 THEN <<"NEW", "nobody">> ELSE <<h[i-1].newStatus, h[i-1].actor>>
<1>1. Len(h) \in Nat
  BY LenProperties
<1>2. ASSUME NEW i \in 1..Len(h) + 1 PROVE Before(i) = After(h, i - 1)
  BY <1>1, <1>2 DEF After
<1> HIDE DEF Before
<1>3. Before(Len(h) + 1) = After(h, Len(h))
  <2>1. Len(h) + 1 \in 1..Len(h) + 1 /\ Len(h) + 1 - 1 = Len(h)
    BY <1>1
  <2> QED BY <1>2, <2>1
<1>4. \A i \in 1..Len(h) : Before(i) = After(h, i - 1)
  BY <1>1, <1>2
<1>5. (/\ \A i \in 1..Len(h) : <<h[i].previousStatus, h[i].previousActor>> = Before(i)
       /\ <<d.status, d.actor>> = Before(Len(h) + 1))
      <=> IsChain(h, d)
  BY <1>3, <1>4 DEF IsChain
<1> QED BY <1>5 DEF Before

\* The property, alert by alert.
LEMMA ChainOfEach ==
  ASSUME history \in [Alert -> Seq(Row)]
  PROVE  HistoryIsChain <=> \A a \in Alert : IsChain(history[a], alerts[a])
BY ZenonT(60), ChainOfOne DEF HistoryIsChain

\* A chain grows by a row that starts where it ends.
LEMMA ChainGrows ==
  ASSUME NEW h \in Seq(Row), NEW d \in Decision, NEW e \in Row, IsChain(h, d),
         e.previousStatus = d.status, e.previousActor = d.actor
  PROVE  IsChain(Append(h, e), [status |-> e.newStatus, actor |-> e.actor])
<1> DEFINE g == Append(h, e)
<1>1. Len(h) \in Nat /\ Len(g) = Len(h) + 1
  BY LenProperties, AppendProperties
<1>2. g[Len(h) + 1] = e /\ \A i \in 1..Len(h) : g[i] = h[i]
  BY AppendProperties
<1> HIDE DEF g
<1>3. ASSUME NEW i \in 0..Len(h) PROVE After(g, i) = After(h, i)
  BY <1>1, <1>2 DEF After
<1>4. ASSUME NEW i \in 1..Len(g) PROVE <<g[i].previousStatus, g[i].previousActor>> = After(g, i - 1)
  <2>1. CASE i = Len(h) + 1
    <3>1. i - 1 = Len(h) /\ Len(h) \in 0..Len(h)
      BY <1>1, <2>1
    <3>2. <<e.previousStatus, e.previousActor>> = After(h, Len(h))
      BY DEF IsChain
    <3> QED BY <1>2, <1>3, <2>1, <3>1, <3>2
  <2>2. CASE i # Len(h) + 1
    <3>1. i \in 1..Len(h) /\ i - 1 \in 0..Len(h)
      BY <1>1, <1>4, <2>2
    <3> QED BY <1>2, <1>3, <3>1 DEF IsChain
  <2> QED BY <2>1, <2>2
<1>5. <<e.newStatus, e.actor>> = After(g, Len(g))
  BY <1>1, <1>2 DEF After
<1> QED BY <1>4, <1>5 DEF IsChain, g

\* A decision commits over the state it found: the chain goes on.
LEMMA ChainStep ==
  ASSUME FaultAssumption, RequestAssumption, IInv, TypeInv', Next
  PROVE  HistoryIsChain'
<1>1. \A b \in Alert : IsChain(history[b], alerts[b])
  BY ChainOfEach DEF IInv, TypeInv
<1>2. HistoryIsChain' <=> \A b \in Alert : IsChain(history'[b], alerts'[b])
  <2>1. \A b \in Alert : history'[b] \in Seq(Row)
    BY DEF TypeInv
  <2> QED BY ZenonT(60), <2>1, ChainOfOne DEF HistoryIsChain
<1> USE DEF IInv, TypeInv
<1>3. ASSUME UNCHANGED <<alerts, history>> PROVE HistoryIsChain'
  BY <1>1, <1>2, <1>3
<1>4. ASSUME NEW c \in Call, CommitDecision(c) PROVE HistoryIsChain'
  <2> DEFINE a == Does[c].alert
  <2>1. /\ a \in Alert /\ Does[c].actor \in User /\ Does[c].to \in Statuses
        /\ call[c].from \in Decision /\ call[c].from = alerts[a]
    BY <1>4 DEF CommitDecision, RequestAssumption, WritesOverLatest, Writing
  <2>2. /\ Entry(c) \in Row
        /\ Entry(c).previousStatus = alerts[a].status /\ Entry(c).previousActor = alerts[a].actor
        /\ Entry(c).newStatus = Does[c].to /\ Entry(c).actor = Does[c].actor
    BY <2>1 DEF Entry, Row, Decision
  <2>3. IsChain(Append(history[a], Entry(c)), [status |-> Does[c].to, actor |-> Does[c].actor])
    BY <1>1, <2>1, <2>2, ChainGrows
  <2>4. \A b \in Alert : IsChain(history'[b], alerts'[b])
    <3> TAKE b \in Alert
    <3>1. CASE b = a
      BY <1>4, <2>1, <2>3, <3>1 DEF CommitDecision
    <3>2. CASE b # a
      BY <1>1, <1>4, <3>2 DEF CommitDecision
    <3> QED BY <3>1, <3>2
  <2> QED BY <1>2, <2>4
<1>5. ASSUME NEW c \in Call, CallStep(c) \/ Fail(c), ~CommitDecision(c)
      PROVE  UNCHANGED <<alerts, history>>
  BY <1>5 DEF CallStep, Enter, Authorize, Decide, InsertStore, CommitStore, AddMember,
      CheckMember,
              ChangeMember, Fail
<1>6. ASSUME NEW u \in User, Suspend(u) PROVE UNCHANGED <<alerts, history>>
  BY <1>6 DEF Suspend
<1> QED BY <1>3, <1>4, <1>5, <1>6 DEF Next

\* A request goes on and no membership changes.
LEMMA RolesStay ==
  ASSUME IInv, NEW c \in Call, NEW h, Go(c, h), call[c].phase # "done", UNCHANGED <<role, active>>,
         h.phase \in {"authorized", "written"} =>
           Does[c].actor \in active /\ \E s \in StoreId : role[s][Does[c].actor] = h.role,
         h.phase = "checked" =>
           Does[c].kind \in {"update", "remove"} /\ role[Home][Does[c].member] # "OWNER",
         c \in Creations => ~(h.phase = "done" /\ h.code = 201)
  PROVE  RoleInv'
<1>1. call'[c] = h /\ \A d \in Call : d # c => call'[d] = call[d]
  BY DEF Go, IInv, TypeInv
<1>2. UNCHANGED role /\ UNCHANGED active
  OBVIOUS
<1>3. \A d \in Call : (Sharing(d) <=> call[d].phase \in {"authorized", "written"})
                      /\ (Sharing(d)' <=> call'[d].phase \in {"authorized", "written"})
  BY DEF Sharing
<1>4. SharedHolds'
  <2> SUFFICES ASSUME NEW d \in Call, Sharing(d)'
               PROVE  Does[d].actor \in active' /\ \E s \in StoreId : role'[s][Does[d].actor] = call'[d].role
    BY DEF SharedHolds, StoreId, Creations
  <2>1. CASE d = c
    BY <1>1, <1>2, <1>3, <2>1
  <2>2. CASE d # c
    BY <1>1, <1>2, <1>3, <2>2 DEF SharedHolds, IInv, RoleInv
  <2> QED BY <2>1, <2>2
<1>5. NotYetThere'
  <2> SUFFICES ASSUME NEW d \in Creations, call'[d].phase # "done", NEW u \in User
               PROVE  role'[d][u] = "NONE"
    BY DEF NotYetThere, Creations
  <2> QED BY <1>1, <1>2 DEF NotYetThere, Creations, IInv, RoleInv
<1>6. CheckedIsNoOwner'
  BY <1>1, <1>2 DEF CheckedIsNoOwner, IInv, RoleInv
<1>7. StoresKeepAnOwner'
  <2> SUFFICES ASSUME NEW s \in StoreId, s = Home \/ (call'[s].phase = "done" /\ call'[s].code = 201)
               PROVE  \E u \in User : role'[s][u] = "OWNER"
    BY DEF StoresKeepAnOwner, StoreId, Creations
  <2>1. s = Home \/ (call[s].phase = "done" /\ call[s].code = 201)
    BY <1>1 DEF StoreId, Creations
  <2> QED BY <1>2, <2>1 DEF StoresKeepAnOwner, IInv, RoleInv
<1> QED BY <1>4, <1>5, <1>6, <1>7 DEF RoleInv

\* A request changes a membership that nobody shares, or that was none, and
\* that was no owner's; only a new store is given an owner.
LEMMA RoleChanges ==
  ASSUME RequestAssumption, IInv, NEW c \in Call, NEW n \in Nat, Answer(c, n), call[c].phase # "done",
         UNCHANGED active,
         NEW s \in StoreId, NEW u \in User, NEW r \in Roles, role' = [role EXCEPT ![s][u] = r],
         role[s][u] = "NONE" \/ SharedBy(u) = {},
         role[s][u] # "OWNER",
         s = Home => r # "OWNER",
         s # Home => s = c /\ r = "OWNER",
         c \in Creations => s = c
  PROVE  RoleInv'
<1>1. /\ call'[c] = [phase |-> "done", code |-> n]
      /\ \A d \in Call : d # c => call'[d] = call[d]
  BY DEF Answer, Go, IInv, TypeInv
<1>2. /\ role'[s][u] = r
      /\ \A t \in StoreId, v \in User : <<t, v>> # <<s, u>> => role'[t][v] = role[t][v]
  BY DEF IInv, TypeInv
<1>3. Home \notin Creations /\ Creations \subseteq Call /\ StoreId = {Home} \cup Creations
  BY DEF RequestAssumption, Creations, StoreId
<1>4. \A d \in Call : call[d].phase \in {"authorized", "written"} => call[d].role # "NONE"
  BY OldHandlers DEF IInv, TypeInv, Held
<1>5. SharedHolds'
  <2> SUFFICES ASSUME NEW d \in Call, Sharing(d)'
               PROVE  Does[d].actor \in active' /\ \E t \in StoreId : role'[t][Does[d].actor] = call'[d].role
    BY <1>3 DEF SharedHolds, StoreId, Creations
  <2>1. d # c /\ call'[d] = call[d] /\ Sharing(d)
    BY <1>1 DEF Sharing
  <2>2. PICK t \in StoreId : role[t][Does[d].actor] = call[d].role
    BY <2>1 DEF SharedHolds, IInv, RoleInv
  <2>3. <<t, Does[d].actor>> # <<s, u>>
    BY <1>4, <2>1, <2>2 DEF Sharing, SharedBy
  <2>4. Does[d].actor \in User
    BY DEF RequestAssumption
  <2>5. role'[t][Does[d].actor] = call'[d].role
    BY <1>2, <2>1, <2>2, <2>3, <2>4
  <2> QED BY <2>1, <2>5 DEF SharedHolds, IInv, RoleInv
<1>6. NotYetThere'
  <2> SUFFICES ASSUME NEW d \in Creations, call'[d].phase # "done", NEW v \in User
               PROVE  role'[d][v] = "NONE"
    BY DEF NotYetThere, Creations
  <2>1. d # c /\ d # Home /\ d # s /\ call'[d] = call[d]
    BY <1>1, <1>3
  <2> QED BY <1>2, <1>3, <2>1 DEF NotYetThere, IInv, RoleInv
<1>7. CheckedIsNoOwner'
  <2> SUFFICES ASSUME NEW d \in Call, call'[d].phase = "checked"
               PROVE  Does[d].kind \in {"update", "remove"} /\ role'[Home][Does[d].member] # "OWNER"
    BY DEF CheckedIsNoOwner
  <2>1. d # c /\ call[d].phase = "checked"
    BY <1>1
  <2>2. Does[d].kind \in {"update", "remove"} /\ role[Home][Does[d].member] # "OWNER"
    BY <2>1 DEF CheckedIsNoOwner, IInv, RoleInv
  <2>3. Does[d].member \in User
    BY <2>2 DEF RequestAssumption
  <2> QED BY <1>2, <1>3, <2>2, <2>3
<1>8. StoresKeepAnOwner'
  <2> SUFFICES ASSUME NEW t \in StoreId, t = Home \/ (call'[t].phase = "done" /\ call'[t].code = 201)
               PROVE  \E v \in User : role'[t][v] = "OWNER"
    BY <1>3 DEF StoresKeepAnOwner, StoreId, Creations
  <2>1. CASE t = s /\ s # Home
    BY <1>2, <2>1
  <2>2. CASE t # s \/ s = Home
    <3>1. t = Home \/ (call[t].phase = "done" /\ call[t].code = 201)
      BY <1>1, <1>3, <2>2
    <3>2. PICK v \in User : role[t][v] = "OWNER"
      BY <3>1 DEF StoresKeepAnOwner, IInv, RoleInv
    <3> QED BY <1>2, <3>2
  <2> QED BY <2>1, <2>2
<1> QED BY <1>5, <1>6, <1>7, <1>8 DEF RoleInv

\* What a transaction shares holds until it ends, and the owners stay.
LEMMA RoleStep ==
  ASSUME FaultAssumption, RequestAssumption, IInv, Next
  PROVE  RoleInv'
<1>a. ASSUME NEW c \in Call, NEW n, Answer(c, n), call[c].phase # "done", UNCHANGED <<role, active>>,
             n # 201 \/ c \notin Creations
      PROVE  RoleInv'
  <2> DEFINE h == [phase |-> "done", code |-> n]
  <2>1. Go(c, h) /\ h.phase = "done" /\ h.code = n
    BY <1>a DEF Answer
  <2> HIDE DEF h
  <2> QED BY <1>a, <2>1, RolesStay
<1>s. ASSUME NEW c \in Call, Sharing(c)
      PROVE  Does[c].actor \in active /\ \E s \in StoreId : role[s][Does[c].actor] = call[c].role
  BY <1>s DEF IInv, RoleInv, SharedHolds
<1>h. Home \in StoreId /\ Home \notin Creations
  BY DEF StoreId, Creations, RequestAssumption
<1>1. ASSUME NEW c \in Call, Enter(c) PROVE RoleInv'
  <2> DEFINE h == [phase |-> "entered"]
  <2>1. CASE Go(c, h)
    BY <1>1, <2>1, RolesStay DEF Enter
  <2>2. CASE Answer(c, 403)
    BY <1>1, <1>a, <2>2 DEF Enter
  <2> QED BY <1>1, <2>1, <2>2 DEF Enter
<1>2. ASSUME NEW c \in Call, Authorize(c) PROVE RoleInv'
  <2> DEFINE u == Does[c].actor
             held == IF Does[c].kind = "create"
                     THEN IF \E s \in StoreId : role[s][u] = "OWNER" THEN "OWNER" ELSE "NONE"
                     ELSE role[Home][u]
             h == [phase |-> "authorized", role |-> held]
  <2>1. CASE Answer(c, 403)
    BY <1>2, <1>a, <2>1 DEF Authorize
  <2>2. CASE Go(c, h) /\ u \in active /\ held # "NONE"
    <3>1. \E s \in StoreId : role[s][u] = held
      BY <1>h, <2>2
    <3>2. h.phase = "authorized" /\ h.role = held
      OBVIOUS
    <3> HIDE DEF held, h
    <3> QED BY <1>2, <2>2, <3>1, <3>2, RolesStay DEF Authorize
  <2> QED BY <1>2, <2>1, <2>2 DEF Authorize
<1>3. ASSUME NEW c \in Call, Decide(c) PROVE RoleInv'
  <2> DEFINE h == [phase |-> "written", role |-> call[c].role, from |-> alerts[Does[c].alert]]
  <2>1. CASE Answer(c, 409)
    BY <1>3, <1>a, <2>1 DEF Decide
  <2>2. CASE Go(c, h)
    <3>1. Sharing(c) /\ h.phase = "written" /\ h.role = call[c].role
      BY <1>3 DEF Decide, Sharing
    <3> HIDE DEF h
    <3> QED BY <1>3, <1>s, <2>2, <3>1, RolesStay DEF Decide
  <2> QED BY <1>3, <2>1, <2>2 DEF Decide
<1>4. ASSUME NEW c \in Call, CommitDecision(c) PROVE RoleInv'
  BY <1>4, <1>a DEF CommitDecision, Creations
<1>5. ASSUME NEW c \in Call, InsertStore(c) PROVE RoleInv'
  <2> DEFINE h == [call[c] EXCEPT !.phase = "written"]
  <2>1. CASE Answer(c, 409)
    BY <1>5, <1>a, <2>1 DEF InsertStore
  <2>2. CASE Go(c, h)
    <3>1. Sharing(c) /\ h = [phase |-> "written", role |-> call[c].role]
      BY <1>5, OldHandlers DEF InsertStore, Sharing, IInv, TypeInv
    <3>2. h.phase = "written" /\ h.role = call[c].role
      BY <3>1
    <3> HIDE DEF h
    <3> QED BY <1>5, <1>s, <2>2, <3>1, <3>2, RolesStay DEF InsertStore
  <2> QED BY <1>5, <2>1, <2>2 DEF InsertStore
<1>6. ASSUME NEW c \in Call, CommitStore(c) PROVE RoleInv'
  <2>1. c \in Creations /\ c \in StoreId /\ c # Home /\ Does[c].actor \in User
    BY <1>6, <1>h DEF CommitStore, Creations, StoreId, RequestAssumption
  <2>2. role[c][Does[c].actor] = "NONE"
    BY <1>6, <2>1 DEF CommitStore, NotYetThere, IInv, RoleInv
  <2>3. Answer(c, 201) /\ call[c].phase # "done" /\ UNCHANGED active
        /\ role' = [role EXCEPT ![c][Does[c].actor] = "OWNER"]
    BY <1>6 DEF CommitStore
  <2>4. "OWNER" \in Roles /\ "NONE" # "OWNER" /\ 201 \in Nat
    BY DEF Roles
  <2> QED BY <2>1, <2>2, <2>3, <2>4, RoleChanges
<1>7. ASSUME NEW c \in Call, AddMember(c) PROVE RoleInv'
  <2> DEFINE u == Does[c].member
  <2>1. c \notin Creations /\ u \in User /\ Does[c].role \in {"OPERATOR", "MANAGER"}
    BY <1>7 DEF AddMember, Creations, RequestAssumption
  <2>2. CASE role[Home][u] = "NONE"
    <3>1. Answer(c, 201) /\ call[c].phase # "done" /\ UNCHANGED active
          /\ role' = [role EXCEPT ![Home][u] = Does[c].role]
      BY <1>7, <2>2 DEF AddMember
    <3>2. Does[c].role \in Roles /\ Does[c].role # "OWNER" /\ 201 \in Nat
      BY <2>1 DEF Roles
    <3> QED BY <1>h, <2>1, <2>2, <3>1, <3>2, RoleChanges
  <2>3. CASE role[Home][u] # "NONE"
    BY <1>7, <1>a, <2>1, <2>3 DEF AddMember
  <2> QED BY <2>2, <2>3
<1>8. ASSUME NEW c \in Call, CheckMember(c) PROVE RoleInv'
  <2> DEFINE h == [phase |-> "checked"]
  <2>1. CASE Go(c, h) /\ MemberCanChange(c)
    BY <1>8, <2>1, RolesStay DEF CheckMember, MemberCanChange
  <2>2. CASE Answer(c, 409)
    BY <1>8, <1>a, <2>2 DEF CheckMember
  <2> QED BY <1>8, <2>1, <2>2 DEF CheckMember
<1>9. ASSUME NEW c \in Call, ChangeMember(c) PROVE RoleInv'
  <2> DEFINE u == Does[c].member
             next == IF Does[c].kind = "update" THEN Does[c].role ELSE "NONE"
  <2>1. Does[c].kind \in {"update", "remove"} /\ role[Home][u] # "OWNER"
    BY <1>9 DEF ChangeMember, CheckedIsNoOwner, IInv, RoleInv
  <2>2. c \notin Creations /\ u \in User /\ next \in Roles /\ next # "OWNER"
    BY <2>1 DEF Creations, RequestAssumption, Roles
  <2>3. CASE role[Home][u] = "NONE"
    BY <1>9, <1>a, <2>2, <2>3 DEF ChangeMember
  <2>4. CASE role[Home][u] # "NONE"
    <3>1. Answer(c, 200) /\ call[c].phase # "done" /\ UNCHANGED active /\ SharedBy(u) = {}
          /\ role' = [role EXCEPT ![Home][u] = next] /\ 200 \in Nat
      BY <1>9, <2>4 DEF ChangeMember
    <3>2. c \notin Creations /\ u \in User /\ next \in Roles /\ next # "OWNER" /\ role[Home][u] # "OWNER"
      BY <2>1, <2>2
    <3> HIDE DEF next, u
    <3> QED BY ZenonT(60), <1>h, <3>1, <3>2, RoleChanges
  <2> QED BY <2>3, <2>4
<1>10. ASSUME NEW c \in Call, Fail(c) PROVE RoleInv'
  BY <1>10, <1>a DEF Fail
<1>11. ASSUME NEW u \in User, Suspend(u) PROVE RoleInv'
  <2>1. \A c \in Call : Sharing(c) => Does[c].actor # u
    BY <1>11 DEF Suspend, SharedBy, Sharing
  <2>2. SharedHolds'
    BY <1>11, <1>s, <2>1 DEF Suspend, SharedHolds, Sharing, StoreId, Creations
  <2>3. UNCHANGED <<role, call>>
    BY <1>11 DEF Suspend
  <2>4. (NotYetThere /\ CheckedIsNoOwner /\ StoresKeepAnOwner)'
    BY <2>3 DEF NotYetThere, CheckedIsNoOwner, StoresKeepAnOwner, StoreId, Creations, IInv,
        RoleInv
  <2> QED BY <2>2, <2>4 DEF RoleInv
<1> QED
  BY <1>1, <1>2, <1>3, <1>4, <1>5, <1>6, <1>7, <1>8, <1>9, <1>10, <1>11 DEF Next, CallStep

LEMMA InitIsSound == FaultAssumption /\ RequestAssumption /\ Init => IInv
<1> SUFFICES ASSUME FaultAssumption, RequestAssumption, Init PROVE IInv
  OBVIOUS
<1>1. TypeInv
  <2>1. role \in [StoreId -> [User -> Roles]]
    BY DEF Init, Roles, RequestAssumption
  <2>2. alerts \in [Alert -> Decision]
    BY DEF Init, Decision, Statuses
  <2>3. call \in [Call -> Handler]
    BY DEF Init, Handler
  <2>4. history \in [Alert -> Seq(Row)]
    BY DEF Init
  <2> QED BY <2>1, <2>2, <2>3, <2>4 DEF Init, TypeInv, FaultAssumption
<1>2. \A c \in Call : call[c].phase = "quiet"
  BY DEF Init
<1>3. WritesOverLatest /\ SharedHolds /\ CheckedIsNoOwner
  BY <1>2 DEF WritesOverLatest, Writing, SharedHolds, Sharing, CheckedIsNoOwner
<1>4. NotYetThere
  BY DEF Init, NotYetThere, Creations, StoreId, RequestAssumption
<1>5. StoresKeepAnOwner
  <2> SUFFICES ASSUME NEW s \in StoreId, s = Home PROVE \E u \in User : role[s][u] = "OWNER"
    BY <1>2 DEF StoresKeepAnOwner, StoreId, Creations
  <2> QED BY DEF Init, RequestAssumption
<1>6. HistoryIsChain
  <2>1. \A a \in Alert : IsChain(history[a], alerts[a])
    BY DEF Init, IsChain, After
  <2> QED BY <1>1, <2>1, ChainOfEach DEF TypeInv
<1> QED BY <1>1, <1>3, <1>4, <1>5, <1>6 DEF IInv, RoleInv

LEMMA StepIsSound == FaultAssumption /\ RequestAssumption /\ IInv /\ [Next]_vars => IInv'
<1> SUFFICES ASSUME FaultAssumption, RequestAssumption, IInv, [Next]_vars PROVE IInv'
  OBVIOUS
<1>1. CASE Next
  BY <1>1, TypeStep, WritesStep, ChainStep, RoleStep DEF IInv
<1>2. CASE UNCHANGED vars
  <2>1. TypeInv' /\ WritesOverLatest'
    BY <1>2 DEF vars, IInv, TypeInv, WritesOverLatest, Writing, StoreId, Creations
  <2>2. HistoryIsChain'
    BY <1>2 DEF vars, IInv, HistoryIsChain
  <2>3. SharedHolds' /\ NotYetThere'
    BY <1>2 DEF vars, IInv, RoleInv, SharedHolds, Sharing, NotYetThere, StoreId, Creations
  <2>4. CheckedIsNoOwner' /\ StoresKeepAnOwner'
    BY <1>2 DEF vars, IInv, RoleInv, CheckedIsNoOwner, StoresKeepAnOwner, StoreId, Creations
  <2> QED BY <2>1, <2>2, <2>3, <2>4 DEF IInv, RoleInv
<1> QED BY <1>1, <1>2

-----------------------------------------------------------------------------
(* Theorems *)

\* Reachable states satisfy the inductive invariant.
LEMMA Reachable ==
  ASSUME FaultAssumption, RequestAssumption
  PROVE  Spec => []IInv
<1>1. Init => IInv
  BY InitIsSound
<1>2. IInv /\ [Next]_vars => IInv'
  BY StepIsSound
<1> QED BY <1>1, <1>2, PTL DEF Spec

\* The variables keep their types, whatever requests cross: roles and
\* statuses are those of the CHECK constraints (alerts.go 191-272,
\* stores.go 57-310).
THEOREM TypesHold ==
  ASSUME FaultAssumption, RequestAssumption
  PROVE  Spec => []TypeOK
<1>1. IInv => TypeOK
  <2> SUFFICES ASSUME IInv PROVE TypeOK
    OBVIOUS
  <2>1. \A a \in Alert : alerts[a] \in Decision
    BY DEF IInv, TypeInv
  <2>2. \A h \in Handler : h.phase \in {"quiet", "entered", "authorized", "written", "checked", "done"}
    BY DEF Handler
  <2>3. \A c \in Call : call[c] \in Handler
    BY DEF IInv, TypeInv
  <2> QED BY <2>1, <2>2, <2>3 DEF TypeOK, IInv, TypeInv, Decision
<1> QED BY <1>1, Reachable, PTL

\* The history of every alert is one chain of decisions that ends in its
\* state, for any number of alerts, users and crossing requests
\* (alerts.go 238-297).
THEOREM HistoryIsChainAlways ==
  ASSUME FaultAssumption, RequestAssumption
  PROVE  Spec => []HistoryIsChain
<1>1. IInv => HistoryIsChain
  BY DEF IInv
<1> QED BY <1>1, Reachable, PTL

\* Every store keeps an owner, and at the commit of a decision or of a store
\* its author still has the role that was found, in an active account
\* (stores.go 72-90, 269-308; alerts.go 225-254).
THEOREM RolesHoldAlways ==
  ASSUME FaultAssumption, RequestAssumption
  PROVE  Spec => RolesHold
<1>1. IInv => StoresKeepAnOwner
  BY DEF IInv, RoleInv
<1>2. IInv /\ [Next]_vars =>
        [\A c \in Call :
           call[c].phase = "written" /\ call'[c].phase = "done" /\ call'[c].code = 201 =>
             /\ Does[c].actor \in active
             /\ \E s \in StoreId : role[s][Does[c].actor] = call[c].role]_vars
  BY DEF IInv, RoleInv, SharedHolds, Sharing
<1> QED BY <1>1, <1>2, Reachable, PTL DEF Spec, RolesHold, AuthorKeepsRole
=============================================================================
