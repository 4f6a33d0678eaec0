--------------------------- MODULE Services_proofs ---------------------------
(***************************************************************************)
(* Proofs about the components of Services, for all their constants.       *)
(***************************************************************************)
EXTENDS Services, Sequences, FiniteSetTheorems, TLAPS

-----------------------------------------------------------------------------
(* Every component starts in an initial state of its own, and a step of    *)
(* Services is, for each component, a step of it or none.                  *)
LEMMA InitOfAll ==
  Init => /\ Stores!Init /\ Tests!Init /\ Pages!Init /\ Schema!Init
          /\ Accounts!Init /\ Limits!Init /\ Address!Init /\ Sends!Init
          /\ IF focus = "links" THEN Links!Init ELSE Backlog!Init
BY Zenon DEF Init

LEMMA StepOfOne ==
  [Next]_vars =>
    /\ [Stores!Next]_(Stores!vars) /\ [Tests!Next]_(Tests!vars)
    /\ [Pages!Next]_(Pages!vars) /\ [Schema!Next]_(Schema!vars)
    /\ [Accounts!Next]_(Accounts!vars) /\ [Limits!Next]_(Limits!vars)
    /\ [Address!Next]_(Address!vars) /\ [Sends!Next]_(Sends!vars)
    /\ IF focus = "links" THEN [Links!Next]_(Links!vars) ELSE [Backlog!Next]_(Backlog!vars)
    /\ focus' = focus
<1> SUFFICES ASSUME [Next]_vars
             PROVE  /\ [Stores!Next]_(Stores!vars) /\ [Tests!Next]_(Tests!vars)
                    /\ [Pages!Next]_(Pages!vars) /\ [Schema!Next]_(Schema!vars)
                    /\ [Accounts!Next]_(Accounts!vars) /\ [Limits!Next]_(Limits!vars)
                    /\ [Address!Next]_(Address!vars) /\ [Sends!Next]_(Sends!vars)
                    /\ IF focus = "links" THEN [Links!Next]_(Links!vars)
                       ELSE [Backlog!Next]_(Backlog!vars)
                    /\ focus' = focus
  OBVIOUS
<1> USE DEF storeVars, testVars, pageVars, linkVars, schemaVars, accountVars, limitVars,
            addressVars, sendVars, StoreStep, TestStep, PageStep, LinkStep, SchemaStep,
            AccountStep, LimitStep, AddressStep, SendStep
<1>0. \/ StoreStep \/ TestStep \/ PageStep \/ LinkStep \/ SchemaStep \/ AccountStep
      \/ LimitStep \/ AddressStep \/ SendStep \/ UNCHANGED vars
  BY DEF Next
<1>1. [Stores!Next]_(Stores!vars)
  BY <1>0, Zenon DEF Stores!vars, vars
<1>2. [Tests!Next]_(Tests!vars)
  BY <1>0, Zenon DEF Tests!vars, vars
<1>3. [Pages!Next]_(Pages!vars)
  BY <1>0, Zenon DEF Pages!vars, vars
<1>4. [Schema!Next]_(Schema!vars)
  BY <1>0, Zenon DEF Schema!vars, vars
<1>5. [Accounts!Next]_(Accounts!vars)
  BY <1>0, Zenon DEF Accounts!vars, vars
<1>6. [Limits!Next]_(Limits!vars)
  BY <1>0, Zenon DEF Limits!vars, vars
<1>7. [Address!Next]_(Address!vars)
  BY <1>0, Zenon DEF Address!vars, vars
<1>8. [Sends!Next]_(Sends!vars)
  BY <1>0, Zenon DEF Sends!vars, vars
<1>9. IF focus = "links" THEN [Links!Next]_(Links!vars) ELSE [Backlog!Next]_(Backlog!vars)
  BY <1>0, Zenon DEF Links!vars, Backlog!vars, vars
<1>10. focus' = focus
  BY <1>0, Zenon DEF vars
<1> QED BY <1>1, <1>2, <1>3, <1>4, <1>5, <1>6, <1>7, <1>8, <1>9, <1>10

-----------------------------------------------------------------------------
(* Registration *)

RequestSteps ==
  {"idle", "user", "store", "member", "commit", "session", "created", "conflict", "error"}

(* Emails and codes are taken once, by open transactions and by accounts.  *)
EmailTaken(r) == r \in users \/ Accounts!HoldsUser(r)

CodeTaken(r) == r \in stores \/ Accounts!HoldsStore(r)

KeysTakenOnce ==
  /\ \A r, s \in Registrations :
       EmailTaken(r) /\ EmailTaken(s) /\ r.email = s.email => r = s
  /\ \A r, s \in Registrations :
       CodeTaken(r) /\ CodeTaken(s) /\ r.code = s.code => r = s

AccountInv ==
  /\ users \cup stores \cup members \cup sessions \subseteq Registrations
  /\ request \in [Registrations -> RequestSteps]
  /\ registerFaults \in 0..MaxRegisterFaults
  /\ \A r \in Registrations : request[r] \in {"session", "created"} => r \in users
  /\ Accounts!AccountIsWhole
  /\ Accounts!ConflictIsReal
  /\ KeysTakenOnce

LEMMA AccountInit ==
  ASSUME MaxRegisterFaults \in Nat, Accounts!Init
  PROVE  AccountInv
BY DEF AccountInv, KeysTakenOnce, EmailTaken, CodeTaken, RequestSteps, Accounts!Init,
       Accounts!HoldsUser, Accounts!HoldsStore, Accounts!AccountIsWhole, Accounts!ConflictIsReal

\* A request takes a step that stores no account.
LEMMA RequestMoves ==
  ASSUME AccountInv, NEW r \in Registrations, NEW step \in RequestSteps,
         request' = [request EXCEPT ![r] = step],
         UNCHANGED <<users, stores, members>>,
         sessions' = sessions \/ (sessions' = sessions \cup {r} /\ r \in users),
         registerFaults' \in 0..MaxRegisterFaults,
         step \in {"session", "created"} => r \in users,
         step = "conflict" =>
           Accounts!SameEmail(r) \cap users # {} \/ Accounts!SameCode(r) \cap stores # {},
         step \in {"store", "member", "commit"} =>
           \A s \in Registrations \ {r} : s.email = r.email => ~EmailTaken(s),
         step \in {"member", "commit"} =>
           \A s \in Registrations \ {r} : s.code = r.code => ~CodeTaken(s)
  PROVE  AccountInv'
<1>1. \A s \in Registrations : request'[s] = IF s = r THEN step ELSE request[s]
  BY DEF AccountInv
<1>2. request' \in [Registrations -> RequestSteps]
  BY DEF AccountInv
<1>3. (users \cup stores \cup members \cup sessions)' \subseteq Registrations
  BY DEF AccountInv
<1>4. \A s \in Registrations : request'[s] \in {"session", "created"} => s \in users'
  BY <1>1 DEF AccountInv
<1>5. (Accounts!AccountIsWhole)'
  BY DEF AccountInv, Accounts!AccountIsWhole
<1>6. (Accounts!ConflictIsReal)'
  <2>1. ASSUME NEW s \in Registrations, request'[s] = "conflict"
        PROVE  Accounts!SameEmail(s) \cap users # {} \/ Accounts!SameCode(s) \cap stores # {}
    BY <1>1, <2>1 DEF AccountInv, Accounts!ConflictIsReal
  <2>2. \A s : (Accounts!SameEmail(s))' = Accounts!SameEmail(s)
               /\ (Accounts!SameCode(s))' = Accounts!SameCode(s)
    BY DEF Accounts!SameEmail, Accounts!SameCode
  <2> QED
    BY <2>1, <2>2 DEF Accounts!ConflictIsReal
<1>7. ASSUME NEW s \in Registrations \ {r}
      PROVE  EmailTaken(s)' = EmailTaken(s) /\ CodeTaken(s)' = CodeTaken(s)
  BY <1>1 DEF EmailTaken, CodeTaken, Accounts!HoldsUser, Accounts!HoldsStore
<1>8. /\ EmailTaken(r)' => r \in users \/ step \in {"store", "member", "commit"}
      /\ CodeTaken(r)' => r \in stores \/ step \in {"member", "commit"}
  BY <1>1 DEF EmailTaken, CodeTaken, Accounts!HoldsUser, Accounts!HoldsStore
<1>9. /\ r \in users => EmailTaken(r)
      /\ r \in stores => CodeTaken(r)
  BY DEF EmailTaken, CodeTaken
<1>10. ASSUME NEW s \in Registrations \ {r}
       PROVE  /\ EmailTaken(r)' /\ EmailTaken(s)' => s.email # r.email
              /\ CodeTaken(r)' /\ CodeTaken(s)' => s.code # r.code
  BY <1>7, <1>8, <1>9 DEF AccountInv, KeysTakenOnce
<1>11. KeysTakenOnce'
  <2>1. ASSUME NEW s \in Registrations, NEW q \in Registrations,
               EmailTaken(s)', EmailTaken(q)', s.email = q.email
        PROVE  s = q
    BY <1>7, <1>10, <2>1 DEF AccountInv, KeysTakenOnce
  <2>2. ASSUME NEW s \in Registrations, NEW q \in Registrations,
               CodeTaken(s)', CodeTaken(q)', s.code = q.code
        PROVE  s = q
    BY <1>7, <1>10, <2>2 DEF AccountInv, KeysTakenOnce
  <2> QED
    BY <2>1, <2>2 DEF KeysTakenOnce
<1> QED
  BY <1>2, <1>3, <1>4, <1>5, <1>6, <1>11 DEF AccountInv

LEMMA AccountNext ==
  ASSUME MaxRegisterFaults \in Nat, AccountInv, [Accounts!Next]_(Accounts!vars)
  PROVE  AccountInv'
<1>0. \A r \in Registrations :
        /\ request[r] \in {"store", "member", "commit"} => EmailTaken(r)
        /\ request[r] \in {"member", "commit"} => CodeTaken(r)
        /\ request[r] \in {"session", "created"} => r \in users
  BY DEF AccountInv, EmailTaken, CodeTaken, Accounts!HoldsUser, Accounts!HoldsStore
<1>a. \A r, s \in Registrations : r # s =>
        /\ EmailTaken(r) /\ s.email = r.email => ~EmailTaken(s)
        /\ CodeTaken(r) /\ s.code = r.code => ~CodeTaken(s)
  BY DEF AccountInv, KeysTakenOnce
<1>b. registerFaults \in 0..MaxRegisterFaults
  BY DEF AccountInv
<1>1. ASSUME NEW r \in Registrations, Accounts!Begin(r) PROVE AccountInv'
  <2>1. "user" \in RequestSteps
    BY DEF RequestSteps
  <2> QED
    BY <1>1, <1>b, <2>1, RequestMoves DEF Accounts!Begin, Accounts!Go
<1>2. ASSUME NEW r \in Registrations, Accounts!InsertUser(r) PROVE AccountInv'
  <2>1. PICK step : step = IF Accounts!SameEmail(r) \cap users # {} THEN "conflict" ELSE "store"
    OBVIOUS
  <2>2. /\ request' = [request EXCEPT ![r] = step]
        /\ {s \in Accounts!SameEmail(r) : Accounts!HoldsUser(s)} = {}
        /\ UNCHANGED <<users, stores, members, sessions, registerFaults>>
    BY <1>2, <2>1 DEF Accounts!InsertUser, Accounts!Insert, Accounts!Go
  <2>3. step \in RequestSteps
    BY <2>1 DEF RequestSteps
  <2>4. step = "store" =>
          \A s \in Registrations \ {r} : s.email = r.email => ~EmailTaken(s)
    BY <2>1, <2>2 DEF EmailTaken, Accounts!SameEmail
  <2> QED
    BY <1>b, <2>1, <2>2, <2>3, <2>4, RequestMoves
<1>3. ASSUME NEW r \in Registrations, Accounts!InsertStore(r) PROVE AccountInv'
  <2>1. PICK step : step = IF Accounts!SameCode(r) \cap stores # {} THEN "conflict" ELSE "member"
    OBVIOUS
  <2>2. /\ request[r] = "store" /\ request' = [request EXCEPT ![r] = step]
        /\ {s \in Accounts!SameCode(r) : Accounts!HoldsStore(s)} = {}
        /\ UNCHANGED <<users, stores, members, sessions, registerFaults>>
    BY <1>3, <2>1 DEF Accounts!InsertStore, Accounts!Insert, Accounts!Go
  <2>3. step \in RequestSteps
    BY <2>1 DEF RequestSteps
  <2>4. step = "member" =>
          \A s \in Registrations \ {r} : s.code = r.code => ~CodeTaken(s)
    BY <2>1, <2>2 DEF CodeTaken, Accounts!SameCode
  <2>5. \A s \in Registrations \ {r} : s.email = r.email => ~EmailTaken(s)
    BY <1>0, <1>a, <2>2
  <2> QED
    BY <1>b, <2>1, <2>2, <2>3, <2>4, <2>5, RequestMoves
<1>4. ASSUME NEW r \in Registrations, Accounts!InsertMember(r) PROVE AccountInv'
  <2>1. /\ request[r] = "member" /\ request' = [request EXCEPT ![r] = "commit"]
        /\ UNCHANGED <<users, stores, members, sessions, registerFaults>>
    BY <1>4 DEF Accounts!InsertMember, Accounts!Go
  <2>2. /\ \A s \in Registrations \ {r} : s.email = r.email => ~EmailTaken(s)
        /\ \A s \in Registrations \ {r} : s.code = r.code => ~CodeTaken(s)
    BY <1>0, <1>a, <2>1
  <2>3. "commit" \in RequestSteps
    BY DEF RequestSteps
  <2> QED
    BY <1>b, <2>1, <2>2, <2>3, RequestMoves
<1>5. ASSUME NEW r \in Registrations, Accounts!Commit(r) PROVE AccountInv'
  <2> USE DEF AccountInv, RequestSteps, EmailTaken, CodeTaken, Accounts!HoldsUser,
              Accounts!HoldsStore, Accounts!AccountIsWhole, Accounts!ConflictIsReal
  <2> USE DEF KeysTakenOnce, Accounts!SameEmail, Accounts!SameCode, Accounts!Go
  <2>1. /\ request' \in [Registrations -> RequestSteps]
        /\ registerFaults' \in 0..MaxRegisterFaults
        /\ \A s \in Registrations : request'[s] = IF s = r THEN "session" ELSE request[s]
    BY <1>5 DEF Accounts!Commit
  <2>2. /\ (users \cup stores \cup members \cup sessions)' \subseteq Registrations
        /\ (Accounts!AccountIsWhole)'
        /\ \A s \in Registrations : request'[s] \in {"session", "created"} => s \in users'
    BY <1>5, <2>1 DEF Accounts!Commit
  <2>3. (Accounts!ConflictIsReal)'
    <3>1. users \subseteq users' /\ stores \subseteq stores'
      BY <1>5 DEF Accounts!Commit
    <3>2. \A s \in Registrations : request'[s] = "conflict" => request[s] = "conflict"
      BY <2>1
    <3> QED BY <3>1, <3>2
  <2>4. \A s \in Registrations : /\ EmailTaken(s)' => EmailTaken(s)
                                 /\ CodeTaken(s)' => CodeTaken(s)
    BY <1>5, <2>1 DEF Accounts!Commit
  <2>5. KeysTakenOnce'
    BY <2>4
  <2> QED BY <2>1, <2>2, <2>3, <2>5
<1>6. ASSUME NEW r \in Registrations, Accounts!CreateSession(r) PROVE AccountInv'
  <2>1. /\ request[r] = "session" /\ request' = [request EXCEPT ![r] = "created"]
        /\ sessions' = sessions \cup {r}
        /\ UNCHANGED <<users, stores, members, registerFaults>>
    BY <1>6 DEF Accounts!CreateSession, Accounts!Go
  <2>2. r \in users
    BY <1>0, <2>1
  <2>3. "created" \in RequestSteps
    BY DEF RequestSteps
  <2> QED
    BY <1>b, <2>1, <2>2, <2>3, RequestMoves
<1>7. ASSUME NEW r \in Registrations, Accounts!Fail(r) PROVE AccountInv'
  <2>1. /\ request' = [request EXCEPT ![r] = "error"]
        /\ registerFaults < MaxRegisterFaults /\ registerFaults' = registerFaults + 1
        /\ UNCHANGED <<users, stores, members, sessions>>
    BY <1>7 DEF Accounts!Fail, Accounts!Go
  <2>2. registerFaults' \in 0..MaxRegisterFaults
    BY <1>b, <2>1
  <2>3. "error" \in RequestSteps
    BY DEF RequestSteps
  <2> QED
    BY <2>1, <2>2, <2>3, RequestMoves
<1>8. CASE UNCHANGED Accounts!vars
  <2>1. UNCHANGED <<users, stores, members, sessions, request, registerFaults>>
    BY <1>8 DEF Accounts!vars
  <2> QED
    BY <2>1 DEF AccountInv, KeysTakenOnce, EmailTaken, CodeTaken, Accounts!HoldsUser,
                Accounts!HoldsStore, Accounts!AccountIsWhole, Accounts!ConflictIsReal,
                Accounts!SameEmail, Accounts!SameCode
<1> QED BY <1>1, <1>2, <1>3, <1>4, <1>5, <1>6, <1>7, <1>8 DEF Accounts!Next, Accounts!Step

LEMMA AccountsHold == Spec => []AccountInv
<1>1. Init => AccountInv
  BY AccountsAssumption, InitOfAll, AccountInit
<1>2. AccountInv /\ [Next]_vars => AccountInv'
  BY AccountsAssumption, StepOfOne, AccountNext
<1> QED BY <1>1, <1>2, PTL DEF Spec

\* Emails and store codes stay unique, whatever registrations cross.
LEMMA AccountTypes == AccountInv => Accounts!TypeOK
BY DEF AccountInv, KeysTakenOnce, EmailTaken, CodeTaken, Accounts!TypeOK,
       Accounts!SameEmail, Accounts!SameCode, Accounts!AccountIsWhole

(* An account is there whole or not at all, and 409 is answered only for   *)
(* an email or a code that belongs to an account, for every set of         *)
(* concurrent registrations (auth.go 70-93).                               *)
THEOREM AllOrNothingAlways == Spec => []AllOrNothing
<1>1. AccountInv => AllOrNothing
  BY DEF AccountInv, Accounts!AllOrNothing, AllOrNothing
<1> QED BY <1>1, AccountsHold, PTL

-----------------------------------------------------------------------------
(* The address of a client *)

\* i is the last place of parts that no trusted proxy has.
IsLast(i, parts) == i \in Address!Edge(parts) /\ \A j \in Address!Edge(parts) : j <= i

(* The header ends with the client's own address and all proxies but the   *)
(* last, which is the peer; what the client wrote comes before.            *)
EndsWithPath ==
  LET n == Len(hops)
      k == Len(header) - n
  IN  IF n = 0 THEN peer = client
      ELSE /\ peer = hops[n]
           /\ k >= 0 /\ header[k + 1] = client
           /\ \A i \in 1..n - 1 : header[k + 1 + i] = hops[i]

\* Of the proxies that are not trusted, if any, one is the last.
HopsHaveLast == Address!Edge(hops) # {} => \E i \in 1..Len(hops) : IsLast(i, hops)

AddressInv ==
  /\ client \in Client /\ peer \in Client \cup Proxy
  /\ header \in Seq(Client \cup Proxy \cup {Bad}) /\ hops \in Seq(Proxy)
  /\ EndsWithPath
  /\ HopsHaveLast
  /\ known \in {Bad, Address!clientIP}

(* The choice of the last untrusted part has one outcome.                  *)
LEMMA RightmostIsLast ==
  ASSUME NEW Part, NEW parts \in Seq(Part), NEW i \in 1..Len(parts), IsLast(i, parts)
  PROVE  Address!Rightmost(parts) = parts[i]
<1>1. Address!Edge(parts) \subseteq Int
  BY DEF Address!Edge
<1>2. \A j \in Address!Edge(parts) : IsLast(j, parts) => j = i
  BY <1>1 DEF IsLast
<1> QED BY <1>2 DEF Address!Rightmost, IsLast

LEMMA AddressInit ==
  ASSUME MaxSent \in Nat, Address!Init
  PROVE  AddressInv
<1>1. header \in Seq(Client \cup Proxy \cup {Bad})
  BY DEF Address!Init
<1>2. EndsWithPath /\ HopsHaveLast
  BY DEF Address!Init, EndsWithPath, HopsHaveLast, Address!Edge
<1> QED BY <1>1, <1>2 DEF Address!Init, AddressInv

LEMMA HopKeepsPath ==
  ASSUME AddressInv, NEW p \in Proxy, Address!Hop(p)
  PROVE  EndsWithPath' /\ HopsHaveLast'
<1> DEFINE n == Len(hops)
<1>1. /\ header' = Append(header, peer) /\ Len(header') = Len(header) + 1
      /\ hops' = Append(hops, p) /\ Len(hops') = n + 1
      /\ peer' = p /\ hops'[n + 1] = p /\ client' = client
  BY DEF AddressInv, Address!Hop
<1>2. /\ \A i \in 1..Len(header) : header'[i] = header[i]
      /\ header'[Len(header) + 1] = peer
      /\ \A i \in 1..n : hops'[i] = hops[i]
  BY DEF AddressInv, Address!Hop
<1>3. n \in Nat /\ Len(header) \in Nat /\ DOMAIN hops = 1..n /\ DOMAIN hops' = 1..n + 1
  BY <1>1 DEF AddressInv
<1>4. EndsWithPath'
  <2>1. CASE n = 0
    BY <1>1, <1>2, <1>3, <2>1 DEF EndsWithPath, AddressInv
  <2>2. CASE n # 0
    <3> DEFINE k == Len(header) - n
    <3>1. /\ peer = hops[n] /\ k >= 0 /\ header[k + 1] = client
          /\ \A i \in 1..n - 1 : header[k + 1 + i] = hops[i]
      BY <1>3, <2>2 DEF EndsWithPath, AddressInv
    <3>2. header'[k + 1] = client'
      BY <1>1, <1>2, <1>3, <2>2, <3>1
    <3>3. ASSUME NEW i \in 1..n PROVE header'[k + 1 + i] = hops'[i]
      <4>1. CASE i = n
        BY <1>1, <1>2, <1>3, <3>1, <4>1
      <4>2. CASE i # n
        <5>1. i \in 1..n - 1 /\ k + 1 + i \in 1..Len(header)
          <6>1. \A a, b \in Nat : \A j \in 1..b :
                  (a - b >= 0 /\ j # b) => j \in 1..b - 1 /\ (a - b) + 1 + j \in 1..a
            OBVIOUS
          <6> QED BY ZenonT(30), <1>3, <3>1, <4>2, <6>1
        <5>2. header'[k + 1 + i] = header[k + 1 + i] /\ hops'[i] = hops[i]
          BY <1>2, <5>1
        <5>3. header[k + 1 + i] = hops[i]
          BY <3>1, <5>1
        <5> HIDE DEF k, n
        <5> QED BY ZenonT(30), <5>2, <5>3
      <4> QED BY <4>1, <4>2
    <3>4. Len(hops') # 0 /\ Len(header') - Len(hops') = k /\ Len(hops') - 1 = n
      BY <1>1, <1>3
    <3>5. peer' = hops'[Len(hops')]
      BY <1>1
    <3> HIDE DEF n, k
    <3> QED BY <3>1, <3>2, <3>3, <3>4, <3>5 DEF EndsWithPath
  <2> QED BY <2>1, <2>2
<1>5. HopsHaveLast'
  <2>1. \A i \in 1..n : i \in Address!Edge(hops') <=> i \in Address!Edge(hops)
    BY <1>2, <1>3 DEF Address!Edge
  <2>2. n + 1 \in Address!Edge(hops') <=> p \notin Trusted
    BY <1>1, <1>3 DEF Address!Edge
  <2>3. Address!Edge(hops') \subseteq 1..n + 1 /\ Address!Edge(hops) \subseteq 1..n
    BY <1>3 DEF Address!Edge
  <2>4. CASE p \notin Trusted
    <3>1. IsLast(n + 1, hops')
      BY <1>3, <2>2, <2>3, <2>4 DEF IsLast
    <3> QED BY <1>1, <1>3, <3>1 DEF HopsHaveLast
  <2>5. CASE p \in Trusted
    <3>1. Address!Edge(hops') = Address!Edge(hops)
      <4>1. \A j \in 1..n + 1 : j \in 1..n \/ j = n + 1
        BY <1>3
      <4> QED BY <2>1, <2>2, <2>3, <2>5, <4>1, Zenon
    <3>2. ASSUME NEW i \in 1..n, IsLast(i, hops) PROVE IsLast(i, hops') /\ i \in 1..Len(hops')
      BY <1>1, <1>3, <3>1, <3>2 DEF IsLast
    <3>3. Address!Edge(hops) # {} => \E i \in 1..n : IsLast(i, hops)
      BY DEF HopsHaveLast, AddressInv
    <3> HIDE DEF n
    <3> QED BY <3>1, <3>2, <3>3 DEF HopsHaveLast
  <2> QED BY <2>4, <2>5
<1> QED BY <1>4, <1>5

LEMMA AddressNext ==
  ASSUME AddressInv, [Address!Next]_(Address!vars)
  PROVE  AddressInv'
<1>1. ASSUME NEW p \in Proxy, Address!Hop(p) PROVE AddressInv'
  BY <1>1, HopKeepsPath DEF AddressInv, Address!Hop
<1>2. CASE Address!Answer
  <2>1. UNCHANGED <<client, peer, header, hops>> /\ known' = Address!clientIP
    BY <1>2 DEF Address!Answer
  <2>2. Address!clientIP' = Address!clientIP
    BY <2>1 DEF Address!clientIP, Address!Edge, Address!Readable, Address!Rightmost
  <2> QED
    BY <2>1, <2>2 DEF AddressInv, EndsWithPath, HopsHaveLast, IsLast, Address!Edge
<1>3. CASE UNCHANGED Address!vars
  <2>1. UNCHANGED <<client, peer, header, hops, known>>
    BY <1>3 DEF Address!vars
  <2>2. Address!clientIP' = Address!clientIP
    BY <2>1 DEF Address!clientIP, Address!Edge, Address!Readable, Address!Rightmost
  <2> QED
    BY <2>1, <2>2 DEF AddressInv, EndsWithPath, HopsHaveLast, IsLast, Address!Edge
<1> QED BY <1>1, <1>2, <1>3 DEF Address!Next

(* What clientIP answers is the nearest address that is not trusted.       *)
LEMMA ClientIPIsNearest ==
  ASSUME Address!AddressAssumption, AddressInv, TrustProxy, MaxParts \in Nat,
         Address!Readable(header), Len(header) <= MaxParts
  PROVE  Address!clientIP =
           IF Address!Edge(hops) = {} THEN client ELSE Address!Rightmost(hops)
<1> DEFINE n == Len(hops)
           k == Len(header) - n
<1>1. client \notin Trusted /\ n \in Nat /\ Len(header) \in Nat /\ DOMAIN hops = 1..n
      /\ DOMAIN header = 1..Len(header)
  BY DEF Address!AddressAssumption, AddressInv
<1>2. CASE n = 0
  BY <1>1, <1>2 DEF AddressInv, EndsWithPath, Address!clientIP, Address!Edge
<1>3. CASE n # 0 /\ peer \notin Trusted
  <2>1. IsLast(n, hops)
    BY <1>1, <1>3 DEF AddressInv, EndsWithPath, IsLast, Address!Edge
  <2>2. Address!Rightmost(hops) = peer
    BY <1>1, <1>3, <2>1, RightmostIsLast DEF AddressInv, EndsWithPath
  <2> QED BY <1>3, <2>1, <2>2 DEF IsLast, Address!clientIP
<1>4. CASE n # 0 /\ peer \in Trusted
  <2>1. /\ peer = hops[n] /\ k >= 0 /\ header[k + 1] = client
        /\ \A i \in 1..n - 1 : header[k + 1 + i] = hops[i]
    BY <1>1, <1>4 DEF AddressInv, EndsWithPath
  <2>2. k + 1 \in Address!Edge(header)
    BY <1>1, <1>4, <2>1 DEF Address!Edge
  <2>3. Address!clientIP = Address!Rightmost(header)
    <3>1. header # << >> /\ Address!Edge(header) # {}
      BY <1>1, <2>2 DEF Address!Edge
    <3> QED BY <1>4, <3>1, Zenon DEF Address!clientIP
  <2>4. CASE Address!Edge(hops) = {}
    <3>1. \A j \in k + 2..Len(header) : header[j] \in Trusted
      <4> SUFFICES ASSUME NEW j \in k + 2..Len(header) PROVE header[j] \in Trusted
        OBVIOUS
      <4>1. j - k - 1 \in 1..n - 1 /\ k + 1 + (j - k - 1) = j
        BY <1>1, <2>1
      <4>2. header[j] = hops[j - k - 1]
        BY <2>1, <4>1
      <4> QED BY <1>1, <2>4, <4>1, <4>2 DEF Address!Edge
    <3>2. IsLast(k + 1, header)
      BY <1>1, <2>1, <2>2, <3>1 DEF IsLast, Address!Edge
    <3>3. Address!Rightmost(header) = client
      BY <1>1, <1>4, <2>1, <3>2, RightmostIsLast DEF AddressInv
    <3> QED BY <2>3, <2>4, <3>3
  <2>5. CASE Address!Edge(hops) # {}
    <3>1. PICK m \in 1..n : IsLast(m, hops)
      BY <2>5 DEF AddressInv, HopsHaveLast
    <3>2. m \in 1..n - 1 /\ hops[m] \notin Trusted
      BY <1>1, <1>4, <2>1, <3>1 DEF IsLast, Address!Edge
    <3>3. header[k + 1 + m] = hops[m] /\ k + 1 + m \in 1..Len(header)
      BY <1>1, <2>1, <3>2
    <3>4. \A j \in k + 2 + m..Len(header) : header[j] \in Trusted
      <4> SUFFICES ASSUME NEW j \in k + 2 + m..Len(header) PROVE header[j] \in Trusted
        OBVIOUS
      <4>1. j - k - 1 \in 1..n - 1 /\ k + 1 + (j - k - 1) = j /\ j - k - 1 > m
        BY <1>1, <2>1, <3>2
      <4>2. header[j] = hops[j - k - 1]
        BY <2>1, <4>1
      <4> QED BY <1>1, <3>1, <4>1, <4>2 DEF Address!Edge, IsLast
    <3>5. IsLast(k + 1 + m, header)
      BY <1>1, <3>2, <3>3, <3>4 DEF IsLast, Address!Edge
    <3>6. Address!Rightmost(header) = hops[m] /\ Address!Rightmost(hops) = hops[m]
      BY <3>1, <3>3, <3>5, RightmostIsLast DEF AddressInv
    <3> QED BY <2>3, <2>5, <3>6
  <2> QED BY <2>4, <2>5
<1> QED BY <1>1, <1>2, <1>3, <1>4

(* A client is known by the nearest address that is not trusted, whatever  *)
(* it writes itself and however many proxies there are                     *)
(* (rate_limit.go 88-128).                                                 *)
THEOREM KnownByTheNearestUntrustedAlways == Spec => []KnownByTheNearestUntrusted
<1>1. Init => AddressInv
  BY AddressesAssumption, InitOfAll, AddressInit
<1>2. AddressInv /\ [Next]_vars => AddressInv'
  BY StepOfOne, AddressNext
<1>3. AddressInv => KnownByTheNearestUntrusted
  <2> USE AddressesAssumption DEF KnownByTheNearestUntrusted
  <2>1. CASE TrustProxy /\ Address!Readable(header) /\ Len(header) <= MaxParts
    BY <2>1, ClientIPIsNearest DEF AddressInv, Address!KnownByTheNearestUntrusted
  <2>2. CASE ~(TrustProxy /\ Address!Readable(header) /\ Len(header) <= MaxParts)
    BY <2>2 DEF AddressInv, Address!KnownByTheNearestUntrusted, Address!clientIP
  <2> QED BY <2>1, <2>2
<1> QED BY <1>1, <1>2, <1>3, PTL DEF Spec

-----------------------------------------------------------------------------
(* The attempts at a delivery against the clock *)

Classes == {"accepted", "transient", "permanent"}

Deeds == {"none", "unlinked", "took", "busy", "down", "refused"}

Job ==
  [phase : {"idle"}]
    \cup [phase : {"preparing"}, attempt : 1..MaxAttempts]
    \cup [phase : {"sending"}, attempt : 1..MaxAttempts, left : Nat, inTime : BOOLEAN]
    \cup [phase : {"finished"}, attempt : 1..MaxAttempts,
          result : [class : Classes, wait : Nat], did : Deeds, told : Nat]

SendTypes ==
  /\ route \in [provider : Provider, sendable : BOOLEAN]
  /\ status \in {"PENDING", "PROCESSING", "RETRY_SCHEDULED", "SENT", "FAILED"}
  /\ attemptCount \in 0..MaxAttempts /\ sendFaults \in 0..MaxFaults
  /\ lockedUntil \in Nat /\ asked \in Nat
  /\ availableAt \in 0..MaxProviderRetryDelay
  /\ job \in [Worker -> Job] /\ scan \in [Worker -> Nat]
  /\ lockedUntil > 0 => status = "PROCESSING"
  /\ status = "PROCESSING" => attemptCount > 0

(* A claim is processed by the instance that made it, and nobody knows of  *)
(* an attempt before it is made.                                           *)
OneJobPerAttempt ==
  /\ \A v, w \in Worker :
       job[v].phase # "idle" /\ job[w].phase # "idle" /\ job[v].attempt = job[w].attempt => v = w
  /\ \A w \in Worker : job[w].phase # "idle" => job[w].attempt <= attemptCount
  /\ \A w \in Worker : scan[w] <= attemptCount

(* The lease of a request that left in time outlasts it.  When it ends at  *)
(* the same instant, the recovered delivery is not claimed in that         *)
(* instant, whatever number of attempts it is recovered with.              *)
Covered(j) ==
  /\ j.attempt = attemptCount
  /\ \/ status = "PROCESSING" /\ lockedUntil >= j.left
     \/ j.left = 0 /\ status = "RETRY_SCHEDULED" /\ availableAt > 0
     \/ j.left = 0 /\ status = "FAILED"

LeaseLasts == \A w \in Worker : Sends!Sending(w) /\ job[w].inTime => Covered(job[w])

(* What was asked for is waited for, and the claim that heard it has ended.*)
AskedIsScheduled ==
  asked > 0 =>
    /\ status = "FAILED" \/ (status = "RETRY_SCHEDULED" /\ asked <= availableAt)
    /\ \A w \in Worker : job[w].phase # "idle" => job[w].attempt # attemptCount

\* The result of a job is what the provider did.
Deserves(j) ==
  /\ j.result.class = "accepted" => j.did = "took"
  /\ j.result.class = "permanent" => j.did \in {"refused", "unlinked"} \/ ~route.sendable

\* What the provider asked for is in the result.
Heeds(j) ==
  j.told > 0 =>
    j.result.class = "transient" /\ j.result.wait = j.told /\ j.told <= MaxRetryAfter

ResultsAreSound ==
  \A w \in Worker : job[w].phase = "finished" => Deserves(job[w]) /\ Heeds(job[w])

SendInv ==
  /\ SendTypes /\ OneJobPerAttempt /\ LeaseLasts /\ AskedIsScheduled
  /\ ResultsAreSound /\ Sends!EndIsDeserved

LEMMA PowerIsPositive ==
  ASSUME NEW n \in Nat
  PROVE  2^n \in Nat \ {0}
<1>1. IsFiniteSet(1..n) /\ Cardinality(1..n) = n
  BY FS_Interval
<1>2. IsFiniteSet(SUBSET (1..n)) /\ Cardinality(SUBSET (1..n)) = 2^n
  BY <1>1, FS_SUBSET
<1>3. Cardinality(SUBSET (1..n)) \in Nat /\ Cardinality(SUBSET (1..n)) # 0
  BY <1>2, FS_CardinalityType, FS_EmptySet
<1> QED BY <1>2, <1>3

(* No attempt follows the last one at once, and none before the time that  *)
(* the provider asked for.                                                 *)
LEMMA DelayIsBetween ==
  ASSUME Sends!TimingAssumption, NEW n \in Nat \ {0}, NEW wait \in Nat
  PROVE  /\ Sends!RetryDelay(n, wait) \in 1..MaxProviderRetryDelay
         /\ wait <= MaxRetryAfter => wait <= Sends!RetryDelay(n, wait)
<1> DEFINE power == 2^(n - 1)
           delay == Sends!Least(BaseBackoff * power, MaxBackoff)
<1>1. power \in Nat \ {0}
  BY PowerIsPositive
<1>2. BaseBackoff \in Nat \ {0} /\ MaxBackoff \in Nat \ {0} /\ MaxProviderRetryDelay \in Nat
      /\ MaxRetryAfter \in Nat /\ MaxBackoff <= MaxProviderRetryDelay
      /\ MaxRetryAfter <= MaxProviderRetryDelay
  BY DEF Sends!TimingAssumption
<1> HIDE DEF power
<1>3. BaseBackoff * power \in Nat \ {0}
  BY <1>1, <1>2
<1>4. delay \in Nat \ {0} /\ delay <= MaxBackoff
  BY <1>2, <1>3 DEF Sends!Least
<1>5. Sends!RetryDelay(n, wait) = Sends!Least(Sends!Most(delay, wait), MaxProviderRetryDelay)
  BY DEF Sends!RetryDelay, power
<1> HIDE DEF delay
<1> QED BY <1>2, <1>4, <1>5 DEF Sends!Least, Sends!Most

LEMMA TransientWaits ==
  ASSUME Sends!TimingAssumption, NEW wait \in Nat
  PROVE  /\ Sends!Transient(wait) \in [class : Classes, wait : Nat]
         /\ Sends!Transient(wait).class = "transient"
         /\ Sends!Transient(wait).wait = IF wait <= MaxRetryAfter THEN wait ELSE 0
<1> DEFINE read == IF wait <= MaxRetryAfter THEN wait ELSE 0
<1>1. read \in Nat
  OBVIOUS
<1>2. Sends!Transient(wait) = [class |-> "transient", wait |-> read]
  BY DEF Sends!Transient
<1> HIDE DEF read
<1>3. /\ Sends!Transient(wait) \in [class : Classes, wait : Nat]
      /\ Sends!Transient(wait).class = "transient" /\ Sends!Transient(wait).wait = read
  BY <1>1, <1>2 DEF Classes
<1> QED BY <1>3 DEF read

LEMMA Statuses ==
  /\ \A code \in {400, 401, 403, 404} : Sends!PermanentStatus(code) /\ code \notin 200..299
  /\ \A code \in {302, 408, 429, 500} : ~Sends!PermanentStatus(code) /\ code \notin 200..299
  /\ 200 \in 200..299 /\ \A code \in {400, 408, 429, 500} : code \notin 300..399
  /\ 130429 \in Sends!GraphTransient /\ 131000 \in Sends!GraphTransient
BY DEF Sends!PermanentStatus, Sends!GraphTransient

(* What the answers of a provider look like.                               *)
Telegram == route.provider = "TELEGRAM"
WhatsApp == route.provider = "WHATSAPP"

LEMMA AnswerForms ==
  ASSUME NEW v \in {"took", "busy", "down", "refused"}, NEW a \in Sends!Answers(v)
  PROVE  /\ v = "took" => \/ a.status = 200 /\ a.body \in {"id", "json", "unread"}
                          \/ a.status \in {408, 500} /\ a.body = "unread"
         /\ v = "busy" => \/ a.status = 429 /\ a.body = "unread"
                          \/ Telegram /\ a.status = 200 /\ a.body = "error" /\ a.error = 429
                          \/ WhatsApp /\ a.status = 400 /\ a.body = "error" /\ a.error = 130429
         /\ v = "down" => \/ a.status \in {302, 408, 500} /\ a.body = "unread"
                          \/ Telegram /\ a.status = 200 /\ a.body = "error" /\ a.error = 500
                          \/ WhatsApp /\ a.status = 400 /\ a.body = "error" /\ a.error = 131000
         /\ v = "refused" => \/ a.status \in {400, 401, 403, 404} /\ a.body = "unread"
                             \/ Telegram /\ a.status = 200 /\ a.body = "error" /\ a.error = 400
                             \/ WhatsApp /\ a.status = 400 /\ a.body = "error" /\ a.error = 131026
<1> DEFINE answer(code, body, error) == [status |-> code, body |-> body, error |-> error]
           telegram(code) == IF Telegram THEN {answer(200, "error", code)} ELSE {}
           graph(code) == IF WhatsApp THEN {answer(400, "error", code)} ELSE {}
<1>1. /\ \A code, x : x \in telegram(code) =>
           Telegram /\ x.status = 200 /\ x.body = "error" /\ x.error = code
      /\ \A code, x : x \in graph(code) =>
           WhatsApp /\ x.status = 400 /\ x.body = "error" /\ x.error = code
  OBVIOUS
<1>2. CASE v = "took"
  <2>1. Sends!Answers("took") = {answer(200, b, 0) : b \in {"id", "json", "unread"}}
                                  \cup {answer(408, "unread", 0), answer(500, "unread", 0)}
    BY DEF Sends!Answers
  <2> QED BY <1>2, <2>1
<1>3. CASE v = "busy"
  <2>1. Sends!Answers("busy") = {answer(429, "unread", 0)} \cup telegram(429) \cup graph(130429)
    BY DEF Sends!Answers, Telegram, WhatsApp
  <2> HIDE DEF telegram, graph
  <2> QED BY <1>1, <1>3, <2>1
<1>4. CASE v = "down"
  <2>1. Sends!Answers("down") = {answer(code, "unread", 0) : code \in {302, 408, 500}}
                                  \cup telegram(500) \cup graph(131000)
    BY DEF Sends!Answers, Telegram, WhatsApp
  <2> HIDE DEF telegram, graph
  <2> QED BY <1>1, <1>4, <2>1
<1>5. CASE v = "refused"
  <2>1. Sends!Answers("refused") = {answer(code, "unread", 0) : code \in {400, 401, 403, 404}}
                                     \cup telegram(400) \cup graph(131026)
    BY DEF Sends!Answers, Telegram, WhatsApp
  <2> HIDE DEF telegram, graph
  <2> QED BY <1>1, <1>5, <2>1
<1> QED BY <1>2, <1>3, <1>4, <1>5

(* The senders accept only what the provider took, give up only what it    *)
(* refused, and keep the delay that it asked for.                          *)
LEMMA ClassifiedIsSound ==
  ASSUME Sends!TimingAssumption,
         NEW v \in {"took", "busy", "down", "refused"}, NEW wait \in Nat, v = "took" => wait = 0,
         NEW a \in Sends!Answers(v)
  PROVE  LET c == Sends!Classified(a, wait)
             told == Sends!Told(v, wait)
         IN  /\ c \in [class : Classes, wait : Nat] /\ told \in Nat
             /\ c.class = "accepted" => v = "took"
             /\ c.class = "permanent" => v = "refused"
             /\ told > 0 => c.class = "transient" /\ c.wait = told /\ told <= MaxRetryAfter
<1> DEFINE c == Sends!Classified(a, wait)
           told == Sends!Told(v, wait)
           accepted == [class |-> "accepted", wait |-> 0]
           permanent == [class |-> "permanent", wait |-> 0]
<1> DEFINE Fits(x) == /\ x.class = "accepted" => v = "took"
                      /\ x.class = "permanent" => v = "refused"
                      /\ told > 0 => x.class = "transient" /\ x.wait = told /\ told <= MaxRetryAfter
<1>1. told \in Nat /\ (v # "busy" => told = 0)
      /\ (v = "busy" => told = IF wait <= MaxRetryAfter THEN wait ELSE 0)
  BY DEF Sends!Told, Sends!TimingAssumption
<1>2. told > 0 => told = wait /\ wait <= MaxRetryAfter
  BY <1>1
<1> HIDE DEF told
<1>3. v = "took" => Fits(accepted)
  BY <1>1
<1>4. v = "refused" => Fits(permanent)
  BY <1>1
<1>5. Fits(Sends!Transient(wait))
  BY <1>1, <1>2, TransientWaits
<1>6. v # "busy" => Fits(Sends!Transient(0))
  BY <1>1, TransientWaits
<1>7. /\ accepted \in [class : Classes, wait : Nat] /\ permanent \in [class : Classes, wait : Nat]
      /\ Sends!Transient(wait) \in [class : Classes, wait : Nat]
      /\ Sends!Transient(0) \in [class : Classes, wait : Nat]
  BY TransientWaits DEF Classes
<1> HIDE DEF Fits
<1>8. \/ c = accepted /\ v = "took"
      \/ c = permanent /\ v = "refused"
      \/ c = Sends!Transient(wait)
      \/ c = Sends!Transient(0) /\ v # "busy"
  <2> USE AnswerForms, Statuses
  <2> USE DEF Sends!TelegramCode, Sends!Accepted, Sends!Permanent
  <2>1. CASE Telegram
    <3> DEFINE t(code) == Sends!TelegramCode(code, wait)
    <3>1. /\ \A code \in {400, 401, 403, 404} : t(code) = permanent
          /\ \A code \in {302, 408, 500} : t(code) = Sends!Transient(0)
          /\ t(429) = Sends!Transient(wait)
      OBVIOUS
    <3> HIDE DEF t
    <3>2. c = IF a.status \notin 200..299 THEN t(a.status)
              ELSE IF a.body = "error" THEN t(a.error)
              ELSE IF a.body = "id" THEN accepted ELSE Sends!Transient(0)
      BY <2>1 DEF Telegram, Sends!Classified, Sends!TelegramSend, t
    <3> HIDE DEF c, accepted, permanent
    <3>3. ~WhatsApp
      BY <2>1 DEF Telegram, WhatsApp
    <3>4. CASE v = "took"
      BY <3>1, <3>2, <3>4
    <3>5. CASE v = "busy"
      BY <3>1, <3>2, <3>3, <3>5
    <3>6. CASE v = "down"
      BY <3>1, <3>2, <3>3, <3>6
    <3>7. CASE v = "refused"
      BY <3>1, <3>2, <3>3, <3>7
    <3> QED BY <3>4, <3>5, <3>6, <3>7
  <2>2. CASE ~Telegram
    <3>1. c = IF a.status \in 200..299 THEN IF a.body = "id" THEN accepted ELSE Sends!Transient(0)
              ELSE IF a.status = 400 /\ a.body = "error" /\ a.error \in Sends!GraphTransient
                THEN Sends!Transient(wait)
              ELSE IF Sends!PermanentStatus(a.status) THEN permanent
              ELSE IF a.status \in 300..399 THEN Sends!Transient(0) ELSE Sends!Transient(wait)
      BY <2>2 DEF Telegram, Sends!Classified, Sends!WhatsAppSend
    <3> HIDE DEF c, accepted, permanent
    <3>2. CASE a.status \in 200..299
      BY <2>2, <3>1, <3>2
    <3>3. CASE a.status = 400 /\ a.body = "error"
      BY <2>2, <3>1, <3>3
    <3>4. CASE a.status \notin 200..299 /\ a.body = "unread"
      BY <2>2, <3>1, <3>4
    <3> QED BY <2>2, <3>2, <3>3, <3>4
  <2> QED BY <2>1, <2>2
<1> HIDE DEF c
<1>9. c \in [class : Classes, wait : Nat] /\ Fits(c)
  BY <1>3, <1>4, <1>5, <1>6, <1>7, <1>8, Zenon
<1> QED BY <1>1, <1>9 DEF Fits, c, told

LEMMA SendInit ==
  ASSUME Sends!TimingAssumption, Sends!Init
  PROVE  SendInv
<1>1. /\ job \in [Worker -> Job] /\ \A w \in Worker : job[w].phase = "idle"
      /\ scan \in [Worker -> Nat] /\ \A w \in Worker : scan[w] = 0
  BY DEF Sends!Init, Sends!NoJob, Job
<1>2. SendTypes
  BY <1>1 DEF SendTypes, Sends!Init, Sends!TimingAssumption
<1>3. OneJobPerAttempt /\ LeaseLasts /\ AskedIsScheduled /\ ResultsAreSound
  BY <1>1 DEF OneJobPerAttempt, LeaseLasts, AskedIsScheduled, ResultsAreSound, Sends!Sending,
              Sends!Init
<1> QED BY <1>2, <1>3 DEF SendInv, Sends!EndIsDeserved, Sends!Init

LEMMA JobFields ==
  ASSUME SendInv, NEW w \in Worker, job[w].phase # "idle"
  PROVE  /\ job[w].attempt \in 1..MaxAttempts /\ job[w].attempt <= attemptCount
         /\ job[w].phase = "sending" => job[w].left \in Nat /\ job[w].inTime \in BOOLEAN
         /\ job[w].phase = "finished" => /\ job[w].result \in [class : Classes, wait : Nat]
                                         /\ job[w].told \in Nat
BY DEF SendInv, SendTypes, OneJobPerAttempt, Job

LEMMA TypeOfRoute ==
  ASSUME Sends!TimingAssumption, SendInv
  PROVE  /\ route.provider \in Provider /\ route.sendable \in BOOLEAN
         /\ RequestTimeout[route.provider] \in Nat
         /\ attemptCount \in 0..MaxAttempts /\ MaxAttempts \in Nat
         /\ lockedUntil \in Nat /\ asked \in Nat
         /\ availableAt \in 0..MaxProviderRetryDelay /\ MaxProviderRetryDelay \in Nat
         /\ sendFaults \in 0..MaxFaults /\ MaxFaults \in Nat
BY DEF SendInv, SendTypes, Sends!TimingAssumption

(* A step of one worker that leaves the row alone.                         *)
LEMMA WorkerMoves ==
  ASSUME Sends!TimingAssumption, SendInv, NEW w \in Worker, NEW j \in Job,
         UNCHANGED <<route, status, attemptCount, lockedUntil, availableAt, asked, verdict>>,
         job' = [job EXCEPT ![w] = j], sendFaults' \in 0..MaxFaults,
         scan' = scan \/ scan' = [scan EXCEPT ![w] = 0],
         j.phase # "idle" => job[w].phase # "idle" /\ j.attempt = job[w].attempt,
         j.phase = "sending" /\ j.inTime => Covered(j),
         j.phase = "finished" => Deserves(j) /\ Heeds(j)
  PROVE  SendInv'
<1>1. /\ job'[w] = j /\ \A v \in Worker : v # w => job'[v] = job[v]
      /\ job' \in [Worker -> Job]
  BY DEF SendInv, SendTypes
<1>2. scan' \in [Worker -> Nat] /\ \A v \in Worker : scan'[v] <= attemptCount
  BY TypeOfRoute DEF SendInv, SendTypes, OneJobPerAttempt
<1>3. SendTypes'
  BY <1>1, <1>2 DEF SendInv, SendTypes
<1>4. OneJobPerAttempt'
  BY <1>1, <1>2 DEF SendInv, OneJobPerAttempt
<1>5. LeaseLasts'
  BY <1>1 DEF SendInv, LeaseLasts, Sends!Sending, Covered
<1>6. AskedIsScheduled'
  BY <1>1 DEF SendInv, AskedIsScheduled
<1>7. ResultsAreSound'
  BY <1>1 DEF SendInv, ResultsAreSound, Deserves, Heeds
<1>8. Sends!EndIsDeserved'
  BY DEF SendInv, Sends!EndIsDeserved
<1> QED BY <1>3, <1>4, <1>5, <1>6, <1>7, <1>8 DEF SendInv

LEMMA ClaimStep ==
  ASSUME Sends!TimingAssumption, SendInv, NEW w \in Worker, Sends!Claim(w)
  PROVE  SendInv'
<1> DEFINE j == [phase |-> "preparing", attempt |-> attemptCount + 1]
<1>1. /\ job' = [job EXCEPT ![w] = j] /\ job[w].phase = "idle"
      /\ status' = "PROCESSING" /\ attemptCount' = attemptCount + 1
      /\ lockedUntil' = LeaseDuration
      /\ UNCHANGED <<route, availableAt, scan, asked, verdict, sendFaults>>
      /\ status \in {"PENDING", "RETRY_SCHEDULED"} /\ availableAt = 0
      /\ attemptCount \in 0..MaxAttempts /\ attemptCount < MaxAttempts /\ MaxAttempts \in Nat
      /\ LeaseDuration \in Nat
  BY DEF Sends!Claim, SendInv, SendTypes, Sends!TimingAssumption
<1>2. j \in Job
  BY <1>1 DEF Job
<1>3. /\ job'[w] = j /\ \A v \in Worker : v # w => job'[v] = job[v]
      /\ job' \in [Worker -> Job]
  BY <1>1, <1>2 DEF SendInv, SendTypes
<1>4. \A v \in Worker : Sends!Sending(v) => ~job[v].inTime
  BY <1>1 DEF SendInv, LeaseLasts, Covered
<1>5. asked = 0
  BY <1>1 DEF SendInv, AskedIsScheduled, SendTypes
<1>6. SendTypes'
  BY <1>1, <1>3 DEF SendInv, SendTypes
<1>7. OneJobPerAttempt'
  <2>1. \A v \in Worker : job[v].phase # "idle" =>
          job[v].attempt \in Nat /\ job[v].attempt <= attemptCount
    BY JobFields, <1>1
  <2>2. \A v \in Worker : scan[v] \in Nat /\ scan[v] <= attemptCount
    BY DEF SendInv, SendTypes, OneJobPerAttempt
  <2> QED BY <1>1, <1>3, <2>1, <2>2 DEF SendInv, OneJobPerAttempt
<1>8. LeaseLasts'
  BY <1>3, <1>4 DEF LeaseLasts, Sends!Sending
<1>9. AskedIsScheduled'
  BY <1>1, <1>5 DEF AskedIsScheduled
<1>10. ResultsAreSound'
  BY <1>1, <1>3 DEF SendInv, ResultsAreSound, Deserves, Heeds
<1>11. Sends!EndIsDeserved'
  BY <1>1 DEF Sends!EndIsDeserved
<1> QED BY <1>6, <1>7, <1>8, <1>9, <1>10, <1>11 DEF SendInv

LEMMA Finishes ==
  ASSUME Sends!TimingAssumption, SendInv, NEW w \in Worker, job[w].phase # "idle",
         NEW result \in [class : Classes, wait : Nat], NEW did \in Deeds, NEW told \in Nat,
         job' = [job EXCEPT ![w] = Sends!Finished(@.attempt, result, did, told)],
         UNCHANGED <<route, status, attemptCount, lockedUntil, availableAt, asked, verdict>>,
         UNCHANGED scan, sendFaults' \in 0..MaxFaults,
         result.class = "accepted" => did = "took",
         result.class = "permanent" => did \in {"refused", "unlinked"} \/ ~route.sendable,
         told > 0 => result.class = "transient" /\ result.wait = told /\ told <= MaxRetryAfter
  PROVE  SendInv'
<1> DEFINE j == Sends!Finished(job[w].attempt, result, did, told)
<1>1. j = [phase |-> "finished", attempt |-> job[w].attempt, result |-> result, did |-> did,
           told |-> told]
  BY DEF Sends!Finished
<1>2. job[w].attempt \in 1..MaxAttempts
  BY JobFields
<1>3. j \in Job
  BY <1>1, <1>2 DEF Job
<1>4. job' = [job EXCEPT ![w] = j]
  OBVIOUS
<1>5. j.phase = "finished" /\ j.attempt = job[w].attempt
  BY <1>1
<1>6. Deserves(j) /\ Heeds(j)
  BY <1>1 DEF Deserves, Heeds
<1> HIDE DEF j
<1> QED BY <1>3, <1>4, <1>5, <1>6, WorkerMoves

LEMMA RequestStep ==
  ASSUME Sends!TimingAssumption, SendInv, NEW w \in Worker, Sends!Request(w)
  PROVE  SendInv'
<1>1. job[w].phase = "preparing"
  BY DEF Sends!Request
<1>2. /\ UNCHANGED <<route, status, attemptCount, lockedUntil, availableAt, asked, verdict>>
      /\ UNCHANGED scan /\ sendFaults' \in 0..MaxFaults
  BY TypeOfRoute DEF Sends!Request, Sends!rowVars
<1>3. CASE route.sendable
  <2> DEFINE inTime == Sends!Leased(w) /\ lockedUntil >= RequestTimeout[route.provider]
             j == [phase |-> "sending", attempt |-> job[w].attempt,
                   left |-> RequestTimeout[route.provider], inTime |-> inTime]
  <2>1. job' = [job EXCEPT ![w] = j]
    BY <1>3 DEF Sends!Request, Sends!TimeLimit
  <2>2. inTime \in BOOLEAN /\ (inTime => Sends!Leased(w) /\ lockedUntil >= RequestTimeout[route.provider])
    BY Zenon DEF Sends!Leased
  <2> HIDE DEF inTime
  <2>3. j \in Job
    BY <1>1, <2>2, JobFields, TypeOfRoute DEF Job
  <2>4. j.phase = "sending" /\ j.attempt = job[w].attempt
    OBVIOUS
  <2>5. j.inTime => Covered(j)
    BY <2>2 DEF Covered, Sends!Leased
  <2> HIDE DEF j
  <2> QED BY <1>1, <1>2, <2>1, <2>3, <2>4, <2>5, WorkerMoves
<1>4. CASE ~route.sendable
  <2>1. job' = [job EXCEPT ![w] = Sends!Finished(@.attempt, Sends!Permanent, "none", 0)]
    BY <1>4 DEF Sends!Request
  <2>2. Sends!Permanent \in [class : Classes, wait : Nat] /\ Sends!Permanent.class = "permanent"
    BY DEF Sends!Permanent, Classes
  <2>3. PICK c \in [class : Classes, wait : Nat], told \in Nat, did \in Deeds :
          c = Sends!Permanent /\ told = 0 /\ did = "none"
    BY <2>2 DEF Deeds
  <2>4. job' = [job EXCEPT ![w] = Sends!Finished(@.attempt, c, did, told)]
    BY <2>1, <2>3
  <2>5. c.class = "permanent" /\ ~(told > 0)
    BY <2>2, <2>3
  <2> QED BY <1>1, <1>2, <1>4, <2>4, <2>5, Finishes
<1> QED BY <1>3, <1>4

LEMMA RequestWithoutLinkStep ==
  ASSUME Sends!TimingAssumption, SendInv, NEW w \in Worker, Sends!RequestWithoutLink(w)
  PROVE  SendInv'
<1>1. /\ job[w].phase = "preparing"
      /\ UNCHANGED <<route, status, attemptCount, lockedUntil, availableAt, asked, verdict>>
      /\ UNCHANGED scan
      /\ job' = [job EXCEPT ![w] = Sends!Finished(@.attempt, Sends!Permanent, "unlinked", 0)]
  BY DEF Sends!RequestWithoutLink, Sends!rowVars
<1>2. sendFaults' \in 0..MaxFaults
  BY TypeOfRoute DEF Sends!RequestWithoutLink, Sends!Fault
<1>3. Sends!Permanent \in [class : Classes, wait : Nat] /\ Sends!Permanent.class = "permanent"
  BY DEF Sends!Permanent, Classes
<1>4. PICK c \in [class : Classes, wait : Nat], told \in Nat, did \in Deeds :
        c = Sends!Permanent /\ told = 0 /\ did = "unlinked"
  BY <1>3 DEF Deeds
<1>5. job' = [job EXCEPT ![w] = Sends!Finished(@.attempt, c, did, told)]
  BY <1>1, <1>4
<1>6. /\ c.class = "permanent" /\ c.class # "accepted" /\ ~(told > 0)
      /\ did \in {"refused", "unlinked"} /\ job[w].phase # "idle"
  BY <1>1, <1>3, <1>4
<1>7. /\ UNCHANGED <<route, status, attemptCount, lockedUntil, availableAt, asked, verdict>>
      /\ UNCHANGED scan
  BY <1>1
<1> QED BY <1>2, <1>5, <1>6, <1>7, Finishes

LEMMA AnswerStep ==
  ASSUME Sends!TimingAssumption, SendInv, NEW w \in Worker, Sends!Answer(w)
  PROVE  SendInv'
<1>1. PICK v \in {"took", "busy", "down", "refused"}, wait \in Waits :
        /\ v = "took" => wait = 0
        /\ \E a \in Sends!Answers(v) :
             job' = [job EXCEPT ![w] =
                       Sends!Finished(@.attempt, Sends!Classified(a, wait), v, Sends!Told(v, wait))]
  BY DEF Sends!Answer
<1>2. PICK a \in Sends!Answers(v) :
        job' = [job EXCEPT ![w] =
                  Sends!Finished(@.attempt, Sends!Classified(a, wait), v, Sends!Told(v, wait))]
  BY <1>1
<1>3. /\ job[w].phase = "sending"
      /\ UNCHANGED <<route, status, attemptCount, lockedUntil, availableAt, asked, verdict>>
      /\ UNCHANGED scan /\ sendFaults' \in 0..MaxFaults
  BY TypeOfRoute DEF Sends!Answer, Sends!rowVars
<1>4. wait \in Nat
  BY DEF Sends!TimingAssumption
<1> DEFINE c == Sends!Classified(a, wait)
           told == Sends!Told(v, wait)
<1>5. /\ c \in [class : Classes, wait : Nat] /\ told \in Nat
      /\ c.class = "accepted" => v = "took"
      /\ c.class = "permanent" => v = "refused"
      /\ told > 0 => c.class = "transient" /\ c.wait = told /\ told <= MaxRetryAfter
  BY <1>1, <1>4, ClassifiedIsSound
<1> HIDE DEF c, told
<1>6. job' = [job EXCEPT ![w] = Sends!Finished(@.attempt, c, v, told)] /\ v \in Deeds
  BY <1>2 DEF c, told, Deeds
<1> QED BY <1>3, <1>5, <1>6, Finishes

LEMMA NoAnswerStep ==
  ASSUME Sends!TimingAssumption, SendInv, NEW w \in Worker, Sends!NoAnswer(w)
  PROVE  SendInv'
<1>1. /\ job[w].phase = "sending"
      /\ UNCHANGED <<route, status, attemptCount, lockedUntil, availableAt, asked, verdict>>
      /\ UNCHANGED scan /\ sendFaults' \in 0..MaxFaults
  BY TypeOfRoute DEF Sends!NoAnswer, Sends!rowVars
<1>2. PICK v \in {"took", "down"} :
        job' = [job EXCEPT ![w] = Sends!Finished(@.attempt, Sends!Transient(0), v, 0)]
  BY DEF Sends!NoAnswer
<1>3. /\ Sends!Transient(0) \in [class : Classes, wait : Nat]
      /\ Sends!Transient(0).class = "transient"
  BY TransientWaits
<1>4. PICK c \in [class : Classes, wait : Nat], told \in Nat :
        c = Sends!Transient(0) /\ told = 0
  BY <1>3
<1>5. job' = [job EXCEPT ![w] = Sends!Finished(@.attempt, c, v, told)] /\ v \in Deeds
  BY <1>2, <1>4 DEF Deeds
<1>6. c.class = "transient" /\ ~(told > 0)
  BY <1>3, <1>4
<1> QED BY <1>1, <1>5, <1>6, Finishes

LEMMA GiveUpStep ==
  ASSUME Sends!TimingAssumption, SendInv, NEW w \in Worker, Sends!GiveUp(w)
  PROVE  SendInv'
<1>1. /\ UNCHANGED <<route, status, attemptCount, lockedUntil, availableAt, asked, verdict>>
      /\ job' = [job EXCEPT ![w] = Sends!NoJob] /\ scan' = [scan EXCEPT ![w] = 0]
  BY DEF Sends!GiveUp, Sends!rowVars
<1>2. sendFaults' \in 0..MaxFaults
  BY TypeOfRoute DEF Sends!GiveUp, Sends!Fault
<1>3. Sends!NoJob \in Job /\ Sends!NoJob.phase = "idle"
  BY DEF Sends!NoJob, Job
<1> QED BY <1>1, <1>2, <1>3, WorkerMoves

(* The job that holds the row is the only one with its attempt, and its    *)
(* end leaves no request on the way that left in time.                     *)
LEMMA HolderEnds ==
  ASSUME SendInv, NEW w \in Worker, Sends!Holds(w), job' = [job EXCEPT ![w] = Sends!NoJob],
         UNCHANGED <<attemptCount, scan, route>>
  PROVE  /\ job' \in [Worker -> Job]
         /\ \A v \in Worker : job'[v].phase # "idle" =>
              /\ v # w /\ job'[v] = job[v] /\ job[v].attempt # attemptCount
              /\ Sends!Sending(v) => ~job[v].inTime
         /\ OneJobPerAttempt' /\ LeaseLasts' /\ ResultsAreSound'
<1>1. Sends!NoJob \in Job /\ Sends!NoJob.phase = "idle"
  BY DEF Sends!NoJob, Job
<1>2. job' \in [Worker -> Job] /\ \A v \in Worker : job'[v].phase # "idle" => v # w /\ job'[v] = job[v]
  BY <1>1 DEF SendInv, SendTypes
<1>3. job[w].phase = "finished" /\ job[w].attempt = attemptCount
  BY DEF Sends!Holds, Sends!Leased
<1>4. ASSUME NEW v \in Worker, job'[v].phase # "idle"
      PROVE  job[v].attempt # attemptCount /\ (Sends!Sending(v) => ~job[v].inTime)
  BY <1>2, <1>3, <1>4 DEF SendInv, OneJobPerAttempt, LeaseLasts, Covered
<1>5. OneJobPerAttempt'
  BY <1>2 DEF SendInv, OneJobPerAttempt
<1>6. LeaseLasts'
  BY <1>2, <1>4 DEF LeaseLasts, Sends!Sending
<1>7. ResultsAreSound'
  BY <1>2 DEF SendInv, ResultsAreSound, Deserves, Heeds
<1> QED BY <1>2, <1>4, <1>5, <1>6, <1>7

LEMMA FinishSuccessStep ==
  ASSUME Sends!TimingAssumption, SendInv, NEW w \in Worker, Sends!FinishSuccess(w)
  PROVE  SendInv'
<1>1. /\ job' = [job EXCEPT ![w] = Sends!NoJob] /\ status = "PROCESSING"
      /\ status' = "SENT" /\ lockedUntil' = 0 /\ verdict' = job[w].did /\ Sends!Holds(w)
      /\ job[w].phase = "finished" /\ job[w].result.class = "accepted"
      /\ UNCHANGED <<route, attemptCount, availableAt, scan, asked, sendFaults>>
  BY DEF Sends!FinishSuccess, Sends!Holds, Sends!Leased
<1>2. job' \in [Worker -> Job] /\ OneJobPerAttempt' /\ LeaseLasts' /\ ResultsAreSound'
  BY <1>1, HolderEnds
<1>3. verdict' = "took"
  BY <1>1 DEF SendInv, ResultsAreSound, Deserves
<1>4. asked = 0
  BY <1>1 DEF SendInv, AskedIsScheduled, SendTypes
<1>5. SendTypes'
  BY <1>1, <1>2 DEF SendInv, SendTypes
<1>6. AskedIsScheduled' /\ Sends!EndIsDeserved'
  BY <1>1, <1>3, <1>4 DEF AskedIsScheduled, Sends!EndIsDeserved
<1> QED BY <1>2, <1>5, <1>6 DEF SendInv

LEMMA FinishFailureStep ==
  ASSUME Sends!TimingAssumption, SendInv, NEW w \in Worker, Sends!FinishFailure(w)
  PROVE  SendInv'
<1> DEFINE retries == job[w].result.class = "transient" /\ Sends!Retries(attemptCount)
           delay == Sends!RetryDelay(attemptCount, job[w].result.wait)
<1>1. /\ job' = [job EXCEPT ![w] = Sends!NoJob] /\ status = "PROCESSING"
      /\ lockedUntil' = 0 /\ verdict' = job[w].did /\ asked' = job[w].told /\ Sends!Holds(w)
      /\ job[w].phase = "finished" /\ job[w].result.class # "accepted"
      /\ UNCHANGED <<route, attemptCount, scan, sendFaults>>
  BY DEF Sends!FinishFailure, Sends!Holds, Sends!Leased
<1>2. /\ job' \in [Worker -> Job] /\ OneJobPerAttempt' /\ LeaseLasts' /\ ResultsAreSound'
      /\ \A v \in Worker : job'[v].phase # "idle" =>
           job'[v] = job[v] /\ job[v].attempt # attemptCount
  BY <1>1, HolderEnds
<1>3. /\ job[w].result \in [class : Classes, wait : Nat] /\ job[w].told \in Nat
  BY <1>1, JobFields
<1>4. /\ retries => status' = "RETRY_SCHEDULED" /\ availableAt' = delay
      /\ ~retries => status' = "FAILED" /\ UNCHANGED availableAt
  BY DEF Sends!FinishFailure
<1>5. attemptCount \in Nat \ {0} /\ attemptCount \in 0..MaxAttempts /\ MaxAttempts \in Nat
  BY <1>1 DEF SendInv, SendTypes, Sends!TimingAssumption
<1>6. /\ delay \in 1..MaxProviderRetryDelay
      /\ job[w].result.wait <= MaxRetryAfter => job[w].result.wait <= delay
  BY <1>3, <1>5, DelayIsBetween
<1>7. Heeds(job[w]) /\ Deserves(job[w])
  BY <1>1 DEF SendInv, ResultsAreSound
<1> HIDE DEF delay
<1>8. SendTypes'
  <2>1. availableAt' \in 0..MaxProviderRetryDelay /\ status' \in {"RETRY_SCHEDULED", "FAILED"}
    BY <1>4, <1>6, TypeOfRoute
  <2> QED BY <1>1, <1>2, <1>3, <2>1 DEF SendInv, SendTypes
<1>9. AskedIsScheduled'
  <2>1. asked' > 0 => status' = "FAILED" \/ (status' = "RETRY_SCHEDULED" /\ asked' <= availableAt')
    BY <1>1, <1>3, <1>4, <1>6, <1>7 DEF Heeds
  <2> QED BY <1>1, <1>2, <2>1 DEF AskedIsScheduled
<1>10. Sends!EndIsDeserved'
  <2> SUFFICES ASSUME status' = "FAILED", attemptCount < MaxAttempts
               PROVE  verdict' \in {"refused", "unlinked"} \/ ~route.sendable
    BY <1>1, <1>4 DEF Sends!EndIsDeserved
  <2>1. job[w].result.class = "permanent"
    BY <1>1, <1>3, <1>4 DEF Sends!Retries, Classes
  <2> QED BY <1>1, <1>7, <2>1 DEF Deserves
<1> QED BY <1>2, <1>8, <1>9, <1>10 DEF SendInv

LEMMA ScanLeaseStep ==
  ASSUME Sends!TimingAssumption, SendInv, NEW w \in Worker, Sends!ScanLease(w)
  PROVE  SendInv'
<1>1. /\ scan' = [scan EXCEPT ![w] = attemptCount]
      /\ UNCHANGED <<route, status, attemptCount, lockedUntil, availableAt>>
      /\ UNCHANGED <<job, asked, verdict, sendFaults>>
  BY DEF Sends!ScanLease, Sends!rowVars
<1>2. scan' \in [Worker -> Nat] /\ \A v \in Worker : scan'[v] <= attemptCount
  BY <1>1, TypeOfRoute DEF SendInv, SendTypes, OneJobPerAttempt
<1> QED
  BY <1>1, <1>2
  DEF SendInv, SendTypes, OneJobPerAttempt, LeaseLasts, Covered, Sends!Sending,
      AskedIsScheduled, ResultsAreSound, Deserves, Heeds, Sends!EndIsDeserved

LEMMA RecoverLeaseStep ==
  ASSUME Sends!TimingAssumption, SendInv, NEW w \in Worker, Sends!RecoverLease(w)
  PROVE  SendInv'
<1> DEFINE delay == Sends!RetryDelay(scan[w], 0)
           expired == status = "PROCESSING" /\ lockedUntil = 0
<1>1. /\ scan[w] # 0 /\ scan' = [scan EXCEPT ![w] = 0]
      /\ UNCHANGED <<route, attemptCount, lockedUntil, job, asked, verdict, sendFaults>>
      /\ expired /\ Sends!Retries(scan[w]) => status' = "RETRY_SCHEDULED" /\ availableAt' = delay
      /\ expired /\ ~Sends!Retries(scan[w]) => status' = "FAILED" /\ UNCHANGED availableAt
      /\ ~expired => UNCHANGED <<status, availableAt>>
  BY DEF Sends!RecoverLease
<1>2. scan[w] \in Nat \ {0} /\ scan[w] <= attemptCount
  BY <1>1 DEF SendInv, SendTypes, OneJobPerAttempt
<1>3. delay \in 1..MaxProviderRetryDelay
  BY <1>2, DelayIsBetween
<1> HIDE DEF delay
<1>4. scan' \in [Worker -> Nat] /\ \A v \in Worker : scan'[v] <= attemptCount
  BY <1>1, TypeOfRoute DEF SendInv, SendTypes, OneJobPerAttempt
<1>5. SendTypes'
  BY <1>1, <1>3, <1>4 DEF SendInv, SendTypes
<1>6. OneJobPerAttempt'
  BY <1>1, <1>4 DEF SendInv, OneJobPerAttempt
<1>7. LeaseLasts'
  <2> SUFFICES ASSUME NEW v \in Worker, job[v].phase = "sending", job[v].inTime
               PROVE  Covered(job[v])'
    BY <1>1 DEF LeaseLasts, Sends!Sending
  <2>1. Covered(job[v]) /\ job[v].left \in Nat
    BY JobFields DEF SendInv, LeaseLasts, Sends!Sending
  <2>2. CASE expired
    BY <1>1, <1>3, <2>1, <2>2 DEF Covered
  <2>3. CASE ~expired
    BY <1>1, <2>1, <2>3 DEF Covered
  <2> QED BY <2>2, <2>3
<1>8. AskedIsScheduled'
  BY <1>1 DEF SendInv, AskedIsScheduled, SendTypes
<1>9. ResultsAreSound'
  BY <1>1 DEF SendInv, ResultsAreSound, Deserves, Heeds
<1>10. Sends!EndIsDeserved'
  BY <1>1, <1>2, TypeOfRoute DEF SendInv, Sends!EndIsDeserved, Sends!Retries
<1> QED BY <1>5, <1>6, <1>7, <1>8, <1>9, <1>10 DEF SendInv

LEMMA TickStep ==
  ASSUME Sends!TimingAssumption, SendInv, Sends!Tick
  PROVE  SendInv'
<1>1. /\ \A w \in Worker : job[w].phase = "sending" => job[w].left > 0
      /\ lockedUntil' = Sends!Most(lockedUntil - 1, 0)
      /\ availableAt' = Sends!Most(availableAt - 1, 0)
      /\ asked' = Sends!Most(asked - 1, 0)
      /\ job' = [w \in Worker |->
                   IF job[w].phase = "sending" THEN [job[w] EXCEPT !.left = @ - 1] ELSE job[w]]
      /\ UNCHANGED <<route, status, attemptCount, scan, verdict, sendFaults>>
  BY DEF Sends!Tick, Sends!Sending
<1>2. /\ lockedUntil' \in Nat /\ asked' \in Nat /\ availableAt' \in 0..MaxProviderRetryDelay
      /\ lockedUntil' >= lockedUntil - 1 /\ (lockedUntil' > 0 => lockedUntil > 0)
      /\ (asked <= availableAt => asked' <= availableAt') /\ (asked' > 0 => asked > 0)
  BY <1>1, TypeOfRoute DEF Sends!Most
<1>3. ASSUME NEW w \in Worker, job[w].phase = "sending"
      PROVE  /\ job'[w] \in Job /\ job'[w].phase = "sending"
             /\ job'[w].attempt = job[w].attempt /\ job'[w].inTime = job[w].inTime
             /\ job[w].left \in Nat \ {0} /\ job'[w].left = job[w].left - 1
  <2>1. /\ job[w] \in [phase : {"sending"}, attempt : 1..MaxAttempts, left : Nat, inTime : BOOLEAN]
        /\ job[w].left > 0
    BY <1>1, <1>3 DEF SendInv, SendTypes, Job
  <2>2. job'[w] = [job[w] EXCEPT !.left = @ - 1]
    BY <1>1, <1>3
  <2> QED BY <2>1, <2>2 DEF Job
<1>4. \A w \in Worker : job[w].phase # "sending" => job'[w] = job[w]
  BY <1>1
<1>5. \A w \in Worker :
        /\ job'[w].phase = job[w].phase
        /\ job[w].phase # "idle" => job'[w].attempt = job[w].attempt
  BY <1>3, <1>4
<1>6. job' \in [Worker -> Job]
  <2>1. \A w \in Worker : job'[w] \in Job
    BY <1>3, <1>4 DEF SendInv, SendTypes
  <2> QED BY <1>1, <2>1
<1>7. SendTypes'
  BY <1>1, <1>2, <1>6 DEF SendInv, SendTypes
<1>8. OneJobPerAttempt'
  BY <1>1, <1>5 DEF SendInv, OneJobPerAttempt
<1>9. LeaseLasts'
  <2> SUFFICES ASSUME NEW w \in Worker, job[w].phase = "sending", job[w].inTime
               PROVE  Covered(job[w])'
    BY <1>3, <1>5 DEF LeaseLasts, Sends!Sending
  <2>1. /\ job[w].attempt = attemptCount
        /\ status = "PROCESSING" /\ lockedUntil >= job[w].left
    BY <1>3 DEF SendInv, LeaseLasts, Covered, Sends!Sending
  <2> QED BY <1>1, <1>2, <1>3, <2>1, TypeOfRoute DEF Covered
<1>10. AskedIsScheduled'
  BY <1>1, <1>2, <1>5 DEF SendInv, AskedIsScheduled
<1>11. ResultsAreSound'
  BY <1>1, <1>4, <1>5 DEF SendInv, ResultsAreSound, Deserves, Heeds
<1>12. Sends!EndIsDeserved'
  BY <1>1 DEF SendInv, Sends!EndIsDeserved
<1> QED BY <1>7, <1>8, <1>9, <1>10, <1>11, <1>12 DEF SendInv

LEMMA SendNext ==
  ASSUME Sends!TimingAssumption, SendInv, [Sends!Next]_(Sends!vars)
  PROVE  SendInv'
<1>1. ASSUME NEW w \in Worker,
             \/ Sends!Claim(w) \/ Sends!Request(w) \/ Sends!RequestWithoutLink(w)
             \/ Sends!Answer(w) \/ Sends!NoAnswer(w)
             \/ Sends!FinishSuccess(w) \/ Sends!FinishFailure(w) \/ Sends!GiveUp(w)
             \/ Sends!ScanLease(w) \/ Sends!RecoverLease(w)
      PROVE  SendInv'
  BY <1>1, ClaimStep, RequestStep, RequestWithoutLinkStep, AnswerStep, NoAnswerStep,
     FinishSuccessStep, FinishFailureStep, GiveUpStep, ScanLeaseStep, RecoverLeaseStep
<1>2. CASE UNCHANGED Sends!vars
  BY <1>2 DEF Sends!vars, SendInv, SendTypes, OneJobPerAttempt, LeaseLasts, Covered,
              Sends!Sending, AskedIsScheduled, ResultsAreSound, Deserves, Heeds,
              Sends!EndIsDeserved
<1> QED BY <1>1, <1>2, TickStep DEF Sends!Next

LEMMA SendsHold == Spec => []SendInv
<1>1. Init => SendInv
  BY SendsAssumption, InitOfAll, SendInit
<1>2. SendInv /\ [Next]_vars => SendInv'
  BY SendsAssumption, StepOfOne, SendNext
<1> QED BY <1>1, <1>2, PTL DEF Spec

\* A delivery is leased only in PROCESSING.
LEMMA SendTypesHold == SendInv => Sends!TypeOK
BY DEF SendInv, SendTypes, Sends!TypeOK

(* No second request for a delivery leaves while one is on its way that    *)
(* left with its timeout inside its lease, for any number of instances,    *)
(* any lease, and any time between claim and request: whoever recovers the *)
(* lease, with whatever old number of attempts, the delivery is not        *)
(* claimed again before that request has ended (worker.go 165, 309-370).   *)
THEOREM OneRequestAtATimeAlways == Spec => []OneRequestAtATime
<1>1. SendInv => OneRequestAtATime
  <2> SUFFICES ASSUME SendInv, NEW v \in Worker, NEW w \in Worker,
                      v # w, Sends!Sending(v), Sends!Sending(w)
               PROVE  /\ job[v].attempt # job[w].attempt
                      /\ job[v].attempt < job[w].attempt => ~job[v].inTime
    BY DEF OneRequestAtATime, Sends!OneRequestAtATime
  <2>1. job[v].phase # "idle" /\ job[w].phase # "idle"
    BY DEF Sends!Sending
  <2>2. job[v].attempt # job[w].attempt
    BY <2>1 DEF SendInv, OneJobPerAttempt
  <2>3. job[w].attempt <= attemptCount /\ job[v].attempt \in Nat /\ job[w].attempt \in Nat
        /\ attemptCount \in Nat
    BY <2>1, JobFields DEF SendInv, SendTypes
  <2>4. job[v].inTime => job[v].attempt = attemptCount
    BY DEF SendInv, LeaseLasts, Covered
  <2> QED BY <2>2, <2>3, <2>4
<1> QED BY <1>1, SendsHold, PTL

(* What the provider answers is heeded, whatever crosses: SENT was taken,  *)
(* an early failure was refused, and a Retry-After is waited for           *)
(* (telegram_sender.go 152-231, worker.go 373-397).                        *)
THEOREM AnswersAreHeededAlways == Spec => AnswersAreHeeded
<1> DEFINE IsDue(w) ==
             ~Sends!Sending(w) /\ Sends!Sending(w)' /\ job[w].attempt = attemptCount => asked = 0
<1>1. SendInv => Sends!EndIsDeserved
  BY DEF SendInv
<1>2. SendInv /\ [Sends!Next]_(Sends!vars) => [\A w \in Worker : IsDue(w)]_(Sends!vars)
  <2> SUFFICES ASSUME SendInv, [Sends!Next]_(Sends!vars),
                      NEW w \in Worker, job[w].phase # "sending", job'[w].phase = "sending",
                      job[w].attempt = attemptCount
               PROVE  asked = 0
    BY DEF Sends!Sending
  <2>1. job[w].phase = "preparing" => asked = 0
    BY DEF SendInv, AskedIsScheduled, SendTypes
  <2>2. ASSUME NEW v \in Worker, NEW j, j.phase # "sending", job' = [job EXCEPT ![v] = j]
        PROVE  FALSE
    BY <2>2 DEF SendInv, SendTypes
  <2>3. ASSUME NEW v \in Worker, NEW attempt, NEW result, NEW did, NEW told,
               job' = [job EXCEPT ![v] = Sends!Finished(attempt, result, did, told)]
        PROVE  FALSE
    <3>1. Sends!Finished(attempt, result, did, told).phase = "finished"
      BY DEF Sends!Finished
    <3> QED BY <2>2, <2>3, <3>1
  <2>4. Sends!NoJob.phase = "idle"
    BY DEF Sends!NoJob
  <2>5. ASSUME NEW v \in Worker, Sends!Request(v) PROVE job[w].phase = "preparing"
    BY <2>5 DEF Sends!Request, SendInv, SendTypes
  <2>6. ASSUME NEW v \in Worker, Sends!Claim(v) PROVE FALSE
    BY <2>2, <2>6 DEF Sends!Claim
  <2>7. ASSUME NEW v \in Worker,
               Sends!RequestWithoutLink(v) \/ Sends!Answer(v) \/ Sends!NoAnswer(v)
        PROVE  FALSE
    BY <2>3, <2>7 DEF Sends!RequestWithoutLink, Sends!Answer, Sends!NoAnswer
  <2>8. ASSUME NEW v \in Worker,
               Sends!FinishSuccess(v) \/ Sends!FinishFailure(v) \/ Sends!GiveUp(v)
        PROVE  FALSE
    BY <2>2, <2>4, <2>8 DEF Sends!FinishSuccess, Sends!FinishFailure, Sends!GiveUp
  <2>9. ASSUME Sends!Tick PROVE FALSE
    BY <2>9 DEF Sends!Tick, Sends!Sending, SendInv, SendTypes, Job
  <2>10. job' # job
    OBVIOUS
  <2> QED
    BY <2>1, <2>5, <2>6, <2>7, <2>8, <2>9, <2>10
    DEF Sends!Next, Sends!ScanLease, Sends!RecoverLease, Sends!vars
<1>3. SendInv /\ [Next]_vars => [\A w \in Worker : IsDue(w)]_(Sends!vars)
  BY <1>2, StepOfOne
<1> QED
  BY <1>1, <1>3, SendsHold, PTL
  DEF Spec, AnswersAreHeeded, Sends!AnswersAreHeeded, Sends!WaitsAsAsked

-----------------------------------------------------------------------------
(* Migrations, for any number of runners and versions *)

RunnerSteps == {"check", "inspect", "apply", "record", "commit", "done", "failed"}

SchemaTypes ==
  /\ schema \subseteq Schema!Version /\ recorded \subseteq Schema!Version
  /\ legacy \in BOOLEAN
  /\ runner \in [Runner -> [at : RunnerSteps, version : 1..N + 1, skip : BOOLEAN]]
  /\ runnerFaults \in Nat

(* Only version 1 is looked for, and the tables of Prisma are found: no    *)
(* runner makes them again.                                                *)
SkipsPrisma ==
  \A r \in Runner :
    /\ Schema!At(r, "inspect") => runner[r].version = 1
    /\ runner[r].at \in {"apply", "record", "commit"} /\ legacy /\ runner[r].version = 1 =>
         runner[r].skip

(* A runner has left behind only versions that are recorded, it works on   *)
(* one that exists, and it is done after the last.                         *)
GoesInOrder ==
  \A r \in Runner :
    /\ 1..(runner[r].version - 1) \subseteq recorded
    /\ runner[r].at \in {"inspect", "apply", "record", "commit"} => runner[r].version \in Schema!Version
    /\ Schema!At(r, "done") => runner[r].version = N + 1

(* Who is about to commit a version has its row for himself.               *)
CommitsAlone ==
  /\ \A r \in Runner : Schema!At(r, "commit") => runner[r].version \notin recorded
  /\ \A r, s \in Runner :
       Schema!At(r, "commit") /\ Schema!At(s, "commit") /\ runner[r].version = runner[s].version => r = s

(* A runner that did not fail is ahead of all that is recorded, unless an  *)
(* error of its own stopped it.                                            *)
Leads(r) == ~Schema!At(r, "failed") /\ \A v \in recorded : v < runner[r].version

SomebodyLeads == runnerFaults = 0 => \E r \in Runner : Leads(r)

SchemaInv ==
  /\ SchemaTypes /\ Schema!SchemaIsRecorded /\ Schema!AppliedInOrder
  /\ SkipsPrisma /\ GoesInOrder /\ CommitsAlone /\ SomebodyLeads

LEMMA SchemaInit == Schema!VersionAssumption /\ Runner # {} /\ Schema!Init => SchemaInv
<1> SUFFICES ASSUME Schema!VersionAssumption, Runner # {}, Schema!Init PROVE SchemaInv
  OBVIOUS
<1> USE DEF Schema!Init, Schema!VersionAssumption, Schema!At
<1>1. SchemaTypes /\ Schema!SchemaIsRecorded /\ Schema!AppliedInOrder
  BY DEF SchemaTypes, Schema!SchemaIsRecorded, Schema!AppliedInOrder, Schema!Version,
      RunnerSteps
<1>2. SkipsPrisma /\ GoesInOrder /\ CommitsAlone
  BY DEF SkipsPrisma, GoesInOrder, CommitsAlone
<1>3. SomebodyLeads
  BY DEF SomebodyLeads, Leads
<1> QED BY <1>1, <1>2, <1>3 DEF SchemaInv

\* Steps that change a runner only: its part of the invariant is enough.
LEMMA RunnerMoves ==
  ASSUME Schema!VersionAssumption, SchemaInv, NEW r \in Runner, NEW x,
         x \in [at : RunnerSteps, version : 1..N + 1, skip : BOOLEAN],
         runner' = [runner EXCEPT ![r] = x],
         UNCHANGED <<schema, recorded, legacy>>, runnerFaults' \in Nat,
         x.at = "inspect" => x.version = 1,
         x.at \in {"apply", "record", "commit"} /\ legacy /\ x.version = 1 => x.skip,
         1..(x.version - 1) \subseteq recorded,
         x.at \in {"inspect", "apply", "record", "commit"} => x.version \in Schema!Version,
         x.at = "done" => x.version = N + 1,
         x.at = "commit" => x.version \notin recorded
           /\ \A s \in Runner \ {r} : ~(Schema!At(s, "commit") /\ runner[s].version = x.version),
         runnerFaults' = 0 => runnerFaults = 0 /\ (Leads(r) => x.at # "failed" /\ x.version >= runner[r].version)
  PROVE  SchemaInv'
<1>1. /\ runner'[r] = x
      /\ \A s \in Runner : s # r => runner'[s] = runner[s]
  BY DEF SchemaInv, SchemaTypes
<1>2. UNCHANGED schema /\ UNCHANGED recorded /\ UNCHANGED legacy
  OBVIOUS
<1>3. SchemaTypes'
  BY <1>2 DEF SchemaInv, SchemaTypes
<1>4. Schema!SchemaIsRecorded' /\ Schema!AppliedInOrder'
  BY <1>2 DEF SchemaInv, Schema!SchemaIsRecorded, Schema!AppliedInOrder
<1>5. SkipsPrisma'
  BY <1>1, <1>2 DEF SchemaInv, SkipsPrisma, Schema!At
<1>6. GoesInOrder'
  BY <1>1, <1>2 DEF SchemaInv, GoesInOrder, Schema!At, Schema!Version
<1>7. CommitsAlone'
  BY <1>1, <1>2 DEF SchemaInv, CommitsAlone, Schema!At
<1>8. SomebodyLeads'
  <2> SUFFICES ASSUME runnerFaults' = 0 PROVE \E s \in Runner : Leads(s)'
    BY DEF SomebodyLeads
  <2>1. PICK s \in Runner : Leads(s)
    BY DEF SchemaInv, SomebodyLeads
  <2>2. CASE s = r
    <3>1. x.at # "failed" /\ x.version >= runner[r].version
      BY <2>1, <2>2
    <3>2. \A v \in recorded : v \in Nat /\ v < runner[r].version
      BY <2>1, <2>2 DEF Leads, SchemaInv, SchemaTypes, Schema!Version
    <3>3. runner[r].version \in Nat /\ x.version \in Nat
      BY DEF SchemaInv, SchemaTypes, Schema!VersionAssumption
    <3> QED BY <1>1, <1>2, <3>1, <3>2, <3>3 DEF Leads, Schema!At
  <2>3. CASE s # r
    BY <1>1, <1>2, <2>1, <2>3 DEF Leads, Schema!At
  <2> QED BY <2>2, <2>3
<1> QED BY <1>3, <1>4, <1>5, <1>6, <1>7, <1>8 DEF SchemaInv

\* A commit: its version is recorded with its objects, and the next of the
\* versions that lead is the one that follows it.
LEMMA RecordingKeepsSchemaInv ==
  ASSUME Schema!VersionAssumption, SchemaInv, NEW r \in Runner, Schema!Commit(r)
  PROVE  SchemaInv'
<1> DEFINE v == runner[r].version
           x == [at |-> "check", version |-> v + 1, skip |-> FALSE]
<1>1. /\ Schema!At(r, "commit") /\ v \in Schema!Version /\ N \in Nat
      /\ v \notin recorded /\ 1..(v - 1) \subseteq recorded /\ recorded \subseteq Schema!Version
  BY DEF Schema!Commit, Schema!At, SchemaInv, GoesInOrder, CommitsAlone, SchemaTypes,
      Schema!VersionAssumption
<1>2. /\ runner'[r] = x
      /\ \A s \in Runner : s # r => runner'[s] = runner[s]
      /\ recorded' = recorded \cup {v} /\ schema' = schema \cup {v}
      /\ UNCHANGED legacy /\ UNCHANGED runnerFaults
  BY DEF Schema!Commit, Schema!NextVersion, SchemaInv, SchemaTypes
<1>3. SchemaTypes'
  <2>1. runner' \in [Runner -> [at : RunnerSteps, version : 1..N + 1, skip : BOOLEAN]]
    <3>1. x \in [at : RunnerSteps, version : 1..N + 1, skip : BOOLEAN]
      BY <1>1 DEF RunnerSteps, Schema!Version
    <3>2. runner' = [runner EXCEPT ![r] = x]
      BY DEF Schema!Commit, Schema!NextVersion, SchemaInv, SchemaTypes
    <3> HIDE DEF x
    <3> QED BY <3>1, <3>2 DEF SchemaInv, SchemaTypes
  <2> QED BY <1>1, <1>2, <2>1 DEF SchemaInv, SchemaTypes
<1>4. Schema!SchemaIsRecorded'
  BY <1>2 DEF SchemaInv, Schema!SchemaIsRecorded
<1>5. Schema!AppliedInOrder'
  BY <1>1, <1>2 DEF SchemaInv, Schema!AppliedInOrder, Schema!Version
<1>6. SkipsPrisma'
  BY <1>2 DEF SchemaInv, SkipsPrisma, Schema!At
<1>7. GoesInOrder'
  <2>1. 1..(x.version - 1) \subseteq recorded'
    BY <1>1, <1>2 DEF Schema!Version
  <2> QED BY <1>2, <2>1 DEF SchemaInv, GoesInOrder, Schema!At, Schema!Version
<1>8. CommitsAlone'
  <2>1. \A s \in Runner : Schema!At(s, "commit")' => s # r /\ Schema!At(s, "commit") /\ runner'[s] = runner[s]
    BY <1>2 DEF Schema!At
  <2> QED BY <1>1, <1>2, <2>1 DEF SchemaInv, CommitsAlone
<1>9. SomebodyLeads'
  <2> SUFFICES ASSUME runnerFaults' = 0 PROVE \E s \in Runner : Leads(s)'
    BY DEF SomebodyLeads
  <2>1. PICK s \in Runner : Leads(s)
    BY <1>2 DEF SchemaInv, SomebodyLeads
  <2>2. runner[s].version \in Nat /\ v \in Nat /\ \A w \in recorded : w \in Nat
    BY <1>1 DEF SchemaInv, SchemaTypes, Schema!Version
  <2>3. CASE s # r /\ v < runner[s].version
    BY <1>2, <2>1, <2>3 DEF Leads, Schema!At
  <2>4. CASE s = r \/ ~(v < runner[s].version)
    <3>1. \A w \in recorded \cup {v} : w < v + 1
      BY <2>1, <2>2, <2>4 DEF Leads
    <3> QED BY <1>2, <3>1 DEF Leads, Schema!At
  <2> QED BY <2>3, <2>4
<1> QED BY <1>3, <1>4, <1>5, <1>6, <1>7, <1>8, <1>9 DEF SchemaInv

LEMMA SchemaNext == Schema!VersionAssumption /\ SchemaInv /\ [Schema!Next]_(Schema!vars) => SchemaInv'
<1> SUFFICES ASSUME Schema!VersionAssumption, SchemaInv, [Schema!Next]_(Schema!vars) PROVE SchemaInv'
  OBVIOUS
<1>t. \A r \in Runner : runner[r] \in [at : RunnerSteps, version : 1..N + 1, skip : BOOLEAN]
  BY DEF SchemaInv, SchemaTypes
<1>n. N \in Nat /\ runnerFaults \in Nat
  BY DEF Schema!VersionAssumption, SchemaInv, SchemaTypes
<1>g. ASSUME NEW r \in Runner, NEW step, runner' = [runner EXCEPT ![r].at = step]
      PROVE  runner' = [runner EXCEPT ![r] = [at |-> step, version |-> runner[r].version, skip |-> runner[r].skip]]
  <2>1. [runner[r] EXCEPT !.at = step] = [at |-> step, version |-> runner[r].version, skip |-> runner[r].skip]
    BY <1>t
  <2> QED BY <1>g, <2>1
<1>o. ASSUME NEW r \in Runner
      PROVE  /\ Schema!At(r, "inspect") => runner[r].version = 1
             /\ runner[r].at \in {"apply", "record", "commit"} /\ legacy /\ runner[r].version = 1 => runner[r].skip
             /\ 1..(runner[r].version - 1) \subseteq recorded
             /\ runner[r].at \in {"inspect", "apply", "record", "commit"} => runner[r].version \in Schema!Version
  BY DEF SchemaInv, SkipsPrisma, GoesInOrder
<1>1. ASSUME NEW r \in Runner, Schema!Check(r) PROVE SchemaInv'
  <2> DEFINE v == runner[r].version
  <2>0. /\ Schema!At(r, "check") /\ v \in 1..N + 1 /\ UNCHANGED <<schema, recorded, legacy, runnerFaults>>
        /\ recorded \subseteq Schema!Version
    BY <1>1, <1>t DEF Schema!Check, SchemaInv, SchemaTypes
  <2>1. CASE v > N
    <3> DEFINE x == [at |-> "done", version |-> v, skip |-> runner[r].skip]
    <3>1. runner' = [runner EXCEPT ![r] = x]
      BY <1>1, <1>g, <2>1 DEF Schema!Check, Schema!Go
    <3>2. /\ x \in [at : RunnerSteps, version : 1..N + 1, skip : BOOLEAN]
          /\ x.at = "done" /\ x.version = v /\ v = N + 1 /\ v >= v
      BY <1>n, <1>t, <2>0, <2>1 DEF RunnerSteps
    <3> HIDE DEF x
    <3> QED BY <1>n, <1>o, <2>0, <3>1, <3>2, RunnerMoves
  <2>2. CASE ~(v > N) /\ v \in recorded
    <3> DEFINE x == [at |-> "check", version |-> v + 1, skip |-> FALSE]
    <3>1. runner' = [runner EXCEPT ![r] = x]
      BY <1>1, <2>2 DEF Schema!Check, Schema!NextVersion
    <3>2. x \in [at : RunnerSteps, version : 1..N + 1, skip : BOOLEAN] /\ x.at = "check" /\ x.version = v + 1
      BY <1>n, <2>0, <2>2 DEF RunnerSteps
    <3>3. 1..(x.version - 1) \subseteq recorded
      BY <1>n, <1>o, <2>0, <2>2
    <3>4. ~Leads(r)
      BY <2>0, <2>2 DEF Leads
    <3> HIDE DEF x
    <3> QED BY <1>n, <2>0, <3>1, <3>2, <3>3, <3>4, RunnerMoves
  <2>3. CASE ~(v > N) /\ v \notin recorded
    <3> DEFINE next == IF v = 1 THEN "inspect" ELSE "apply"
               x == [at |-> next, version |-> v, skip |-> runner[r].skip]
    <3>1. runner' = [runner EXCEPT ![r] = x]
      BY <1>1, <1>g, <2>3 DEF Schema!Check, Schema!Go
    <3>2. x \in [at : RunnerSteps, version : 1..N + 1, skip : BOOLEAN]
      BY <1>t DEF RunnerSteps
    <3>4. /\ x.version = v /\ x.at = next /\ (next = "inspect" => v = 1)
          /\ (next = "apply" => v # 1) /\ next \in {"inspect", "apply"}
      OBVIOUS
    <3>5. v \in Schema!Version
      BY <1>n, <2>0, <2>3 DEF Schema!Version
    <3>3. v >= runner[r].version
      BY <2>0
    <3> HIDE DEF x, next
    <3> QED BY <1>n, <1>o, <2>0, <3>1, <3>2, <3>3, <3>4, <3>5, RunnerMoves
  <2> QED BY <2>1, <2>2, <2>3
<1>2. ASSUME NEW r \in Runner, Schema!Inspect(r) PROVE SchemaInv'
  <2> DEFINE x == [at |-> "apply", version |-> runner[r].version, skip |-> 1 \in schema]
  <2>1. runner' = [runner EXCEPT ![r] = x]
    BY <1>2 DEF Schema!Inspect
  <2>2. x \in [at : RunnerSteps, version : 1..N + 1, skip : BOOLEAN]
    BY <1>t DEF RunnerSteps
  <2>3. x.at = "apply" /\ x.version = runner[r].version /\ (legacy => x.skip)
    BY DEF SchemaInv, Schema!SchemaIsRecorded
  <2>4. Schema!At(r, "inspect") /\ UNCHANGED <<schema, recorded, legacy, runnerFaults>> /\ runner[r].version \in Schema!Version
    BY <1>2, <1>o DEF Schema!Inspect, Schema!At
  <2>5. runner[r].version >= runner[r].version
    BY <1>t
  <2> HIDE DEF x
  <2> QED BY <1>n, <1>o, <2>1, <2>2, <2>3, <2>4, <2>5, RunnerMoves
<1>3. ASSUME NEW r \in Runner, Schema!Apply(r) PROVE SchemaInv'
  <2> DEFINE v == runner[r].version
             next == IF ~runner[r].skip /\ v \in schema THEN "failed" ELSE "record"
             x == [at |-> next, version |-> v, skip |-> runner[r].skip]
  <2>1. runner' = [runner EXCEPT ![r] = x]
    BY <1>3, <1>g DEF Schema!Apply, Schema!Go
  <2>2. x \in [at : RunnerSteps, version : 1..N + 1, skip : BOOLEAN]
    BY <1>t DEF RunnerSteps
  <2>3. /\ x.at = next /\ x.version = v /\ x.skip = runner[r].skip /\ next \in {"failed", "record"}
        /\ v >= v
    BY <1>t
  <2>4. Schema!At(r, "apply") /\ UNCHANGED <<schema, recorded, legacy, runnerFaults>> /\ v \in Schema!Version
    BY <1>3, <1>o DEF Schema!Apply, Schema!At
  <2>5. legacy /\ v = 1 => runner[r].skip
    BY <1>o, <2>4 DEF Schema!At
  <2>6. Leads(r) => next # "failed"
    <3>1. Leads(r) => v \notin recorded
      BY <1>t DEF Leads
    <3>2. v \in schema /\ v \notin recorded => legacy /\ v = 1
      BY DEF SchemaInv, Schema!SchemaIsRecorded
    <3> QED BY <2>5, <3>1, <3>2
  <2> HIDE DEF x, next
  <2> QED BY <1>n, <1>o, <2>1, <2>2, <2>3, <2>4, <2>5, <2>6, RunnerMoves
<1>4. ASSUME NEW r \in Runner, Schema!Record(r) PROVE SchemaInv'
  <2> DEFINE v == runner[r].version
             next == IF v \in recorded THEN "failed" ELSE "commit"
             x == [at |-> next, version |-> v, skip |-> runner[r].skip]
  <2>1. runner' = [runner EXCEPT ![r] = x]
    BY <1>4, <1>g DEF Schema!Record, Schema!Go
  <2>2. x \in [at : RunnerSteps, version : 1..N + 1, skip : BOOLEAN]
    BY <1>t DEF RunnerSteps
  <2>3. /\ x.at = next /\ x.version = v /\ x.skip = runner[r].skip /\ next \in {"failed", "commit"}
        /\ v >= v /\ (next = "commit" => v \notin recorded)
    BY <1>t
  <2>4. /\ Schema!At(r, "record") /\ UNCHANGED <<schema, recorded, legacy, runnerFaults>> /\ v \in Schema!Version
        /\ \A s \in Runner \ {r} : ~(Schema!At(s, "commit") /\ runner[s].version = v)
    BY <1>4, <1>o DEF Schema!Record, Schema!At
  <2>5. legacy /\ v = 1 => runner[r].skip
    BY <1>o, <2>4 DEF Schema!At
  <2>6. Leads(r) => next # "failed"
    BY <1>t DEF Leads
  <2> HIDE DEF x, next
  <2> QED BY <1>n, <1>o, <2>1, <2>2, <2>3, <2>4, <2>5, <2>6, RunnerMoves
<1>5. ASSUME NEW r \in Runner, Schema!Commit(r) PROVE SchemaInv'
  BY <1>5, RecordingKeepsSchemaInv
<1>6. ASSUME NEW r \in Runner, Schema!Fail(r) PROVE SchemaInv'
  <2> DEFINE x == [at |-> "failed", version |-> runner[r].version, skip |-> runner[r].skip]
  <2>1. runner' = [runner EXCEPT ![r] = x] /\ UNCHANGED <<schema, recorded, legacy>>
    BY <1>6, <1>g DEF Schema!Fail, Schema!Go
  <2>2. x \in [at : RunnerSteps, version : 1..N + 1, skip : BOOLEAN]
    BY <1>t DEF RunnerSteps
  <2>3. x.at = "failed" /\ x.version = runner[r].version
    OBVIOUS
  <2>4. runnerFaults' \in Nat /\ runnerFaults' # 0
    BY <1>6, <1>n DEF Schema!Fail
  <2> HIDE DEF x
  <2> QED BY <1>o, <2>1, <2>2, <2>3, <2>4, RunnerMoves
<1>7. CASE UNCHANGED Schema!vars
  BY <1>7 DEF Schema!vars, SchemaInv, SchemaTypes, Schema!SchemaIsRecorded,
      Schema!AppliedInOrder, SkipsPrisma, GoesInOrder,
              CommitsAlone, SomebodyLeads, Leads, Schema!At
<1> QED BY <1>1, <1>2, <1>3, <1>4, <1>5, <1>6, <1>7 DEF Schema!Next, Schema!Step

\* Reachable states satisfy the inductive invariant.
LEMMA SchemaReachable == Spec => []SchemaInv
<1>1. Init => SchemaInv
  BY SchemaAssumption, InitOfAll, SchemaInit
<1>2. SchemaInv /\ [Next]_vars => SchemaInv'
  BY SchemaAssumption, StepOfOne, SchemaNext
<1> QED BY <1>1, <1>2, PTL DEF Spec

\* Two runners are never both about to commit one version.
LEMMA SchemaTypesHold == SchemaInv => Schema!TypeOK
BY DEF SchemaInv, SchemaTypes, CommitsAlone, Schema!TypeOK

\* However many runners start together and whichever of them fail, the
\* database has what is recorded, in order, and is current when all that
\* started without an error have ended (migrate.go 35-80).
THEOREM SchemaIsSoundAlways == Spec => []SchemaIsSound
<1>1. Schema!VersionAssumption /\ SchemaInv => Schema!DatabaseIsCurrent
  <2> SUFFICES ASSUME Schema!VersionAssumption, SchemaInv, runnerFaults = 0,
                      \A r \in Runner : runner[r].at \in {"done", "failed"}
               PROVE  recorded = Schema!Version
    BY DEF Schema!DatabaseIsCurrent
  <2>1. PICK r \in Runner : Leads(r)
    BY DEF SchemaInv, SomebodyLeads
  <2>2. runner[r].version = N + 1
    BY <2>1 DEF Leads, Schema!At, SchemaInv, GoesInOrder
  <2>3. 1..(runner[r].version - 1) \subseteq recorded
    BY DEF SchemaInv, GoesInOrder
  <2>4. runner[r].version - 1 = N
    BY <2>2 DEF Schema!VersionAssumption
  <2>5. Schema!Version \subseteq recorded
    BY <2>3, <2>4 DEF Schema!Version
  <2> QED BY <2>5 DEF SchemaInv, SchemaTypes
<1>2. SchemaInv => SchemaIsSound
  BY <1>1, SchemaAssumption DEF SchemaInv, Schema!SchemaIsSound, SchemaIsSound
<1> QED BY <1>2, SchemaReachable, PTL

-----------------------------------------------------------------------------
(* Stores and tests, each proved in a module of its own: in Services they  *)
(* behave as they do there.                                                *)
StoreProofs == INSTANCE StoreAccess_proofs WITH
  plan <- storePlan, call <- storeCall, failures <- storeFailures,
  Call <- StoreCall, Plans <- StorePlans, Does <- StoreDoes

TestProofs == INSTANCE TestAdmission_proofs WITH
  plan <- testPlan, call <- testCall, failures <- testFailures,
  Call <- TestCall, Plans <- TestPlans, MaxTime <- MaxTestTime

LEMMA StoresBehave == Spec => StoreProofs!Spec
<1>1. Init => StoreProofs!Init
  BY InitOfAll, Zenon
     DEF Stores!StoreId, StoreProofs!StoreId, Stores!Creations, StoreProofs!Creations,
         Stores!Init, StoreProofs!Init
<1>2. Stores!Next => StoreProofs!Next
  BY Zenon
     DEF Stores!Terminal, StoreProofs!Terminal, Stores!Creations, StoreProofs!Creations,
         Stores!StoreId, StoreProofs!StoreId, Stores!roleRank, StoreProofs!roleRank,
         Stores!AtLeast, StoreProofs!AtLeast, Stores!MinimumRole,
         StoreProofs!MinimumRole, Stores!HasRole, StoreProofs!HasRole, Stores!MayChange,
         StoreProofs!MayChange, Stores!SharedBy, StoreProofs!SharedBy, Stores!AlertFree,
         StoreProofs!AlertFree, Stores!CodeFree, StoreProofs!CodeFree, Stores!Go,
         StoreProofs!Go, Stores!Answer, StoreProofs!Answer, Stores!Enter,
         StoreProofs!Enter, Stores!Authorize, StoreProofs!Authorize, Stores!Decide,
         StoreProofs!Decide, Stores!Entry, StoreProofs!Entry, Stores!CommitDecision,
         StoreProofs!CommitDecision, Stores!InsertStore, StoreProofs!InsertStore,
         Stores!CommitStore, StoreProofs!CommitStore, Stores!AddMember,
         StoreProofs!AddMember, Stores!MemberCanChange, StoreProofs!MemberCanChange,
         Stores!CheckMember, StoreProofs!CheckMember, Stores!ChangeMember,
         StoreProofs!ChangeMember, Stores!Fail, StoreProofs!Fail, Stores!Suspend,
         StoreProofs!Suspend, Stores!CallStep, StoreProofs!CallStep, Stores!Next,
         StoreProofs!Next
<1>3. [Next]_vars => [StoreProofs!Next]_(StoreProofs!vars)
  BY <1>2, StepOfOne DEF Stores!vars, StoreProofs!vars
<1> QED BY <1>1, <1>3, PTL DEF Spec, StoreProofs!Spec

LEMMA StoresAssume == StoreProofs!FaultAssumption /\ StoreProofs!RequestAssumption
BY StoresAssumption
   DEF Stores!FaultAssumption, StoreProofs!FaultAssumption, Stores!RequestAssumption,
       StoreProofs!RequestAssumption, Stores!Roles, StoreProofs!Roles, Stores!Statuses,
       StoreProofs!Statuses

(* However decisions on an alert compete and fail, its history is one      *)
(* chain that ends in its present state (alerts.go 191-297).               *)
THEOREM HistoryIsChainAlways == Spec => []HistoryIsChain
<1>1. StoreProofs!Spec => []StoreProofs!HistoryIsChain
  BY StoresAssume, StoreProofs!HistoryIsChainAlways
<1>2. StoreProofs!HistoryIsChain => HistoryIsChain
  BY DEF StoreProofs!HistoryIsChain, HistoryIsChain, Stores!HistoryIsChain
<1> QED BY <1>1, <1>2, StoresBehave, PTL

(* Stores keep an owner, and what a role allowed is not committed after    *)
(* the role was lost (stores.go 72-90, 269-308; alerts.go 225-254).        *)
THEOREM RolesHoldAlways == Spec => RolesHold
<1>1. StoreProofs!Spec => StoreProofs!RolesHold
  BY StoresAssume, StoreProofs!RolesHoldAlways
<1>2. StoreProofs!RolesHold => RolesHold
  BY PTL
     DEF RolesHold, Stores!RolesHold, StoreProofs!RolesHold, Stores!AuthorKeepsRole,
         StoreProofs!AuthorKeepsRole, Stores!StoresKeepAnOwner, StoreProofs!StoresKeepAnOwner,
         Stores!StoreId, StoreProofs!StoreId, Stores!Creations, StoreProofs!Creations,
         Stores!vars, StoreProofs!vars
<1> QED BY <1>1, <1>2, StoresBehave, PTL

LEMMA TestsBehave == Spec => TestProofs!Spec
<1>1. Init => TestProofs!Init
  BY InitOfAll, Zenon DEF Tests!Init, TestProofs!Init, Tests!Quiet, TestProofs!Quiet
<1>2. Tests!Next => TestProofs!Next
  BY Zenon
     DEF Tests!Cardinality, TestProofs!Cardinality, Tests!Quiet, TestProofs!Quiet,
         Tests!TestDedupeKey, TestProofs!TestDedupeKey,
         Tests!DedupeKey, TestProofs!DedupeKey, Tests!Known, TestProofs!Known, Tests!Since,
         TestProofs!Since, Tests!OfEndpoint, TestProofs!OfEndpoint, Tests!OfStore,
         TestProofs!OfStore, Tests!OfRequester, TestProofs!OfRequester, Tests!Pending,
         TestProofs!Pending, Tests!Limited, TestProofs!Limited, Tests!Admitting,
         TestProofs!Admitting, Tests!Go, TestProofs!Go, Tests!To, TestProofs!To,
         Tests!Answer, TestProofs!Answer, Tests!Refuse, TestProofs!Refuse, Tests!Begin,
         TestProofs!Begin, Tests!Lock, TestProofs!Lock, Tests!RefuseDisabled,
         TestProofs!RefuseDisabled, Tests!LookUp, TestProofs!LookUp, Tests!Count,
         TestProofs!Count, Tests!Insert, TestProofs!Insert, Tests!Commit,
         TestProofs!Commit, Tests!Fail, TestProofs!Fail, Tests!Settle,
         TestProofs!Settle, Tests!Disable, TestProofs!Disable, Tests!Tick,
         TestProofs!Tick, Tests!CallStep, TestProofs!CallStep, Tests!Next,
         TestProofs!Next
<1>3. [Next]_vars => [TestProofs!Next]_(TestProofs!vars)
  BY <1>2, StepOfOne DEF Tests!vars, TestProofs!vars
<1> QED BY <1>1, <1>3, PTL DEF Spec, TestProofs!Spec

LEMMA TestsAssume == TestProofs!AdmissionAssumption
BY TestsAssumption
   DEF TestProofs!AdmissionAssumption, Tests!WindowAssumption, TestProofs!WindowAssumption,
       Tests!BoundAssumption, TestProofs!BoundAssumption, Tests!LimitAssumption,
       TestProofs!LimitAssumption

(* No window of any minute or hour holds more tests than its limits, and   *)
(* no more are pending, whatever requests cross (outbox.go 204-329).       *)
THEOREM QuotasHoldAlways == Spec => []QuotasHold
<1>1. TestProofs!Spec => []TestProofs!QuotasHold
  BY TestsAssume, TestProofs!QuotasHoldAlways
<1>2. TestProofs!QuotasHold => QuotasHold
  BY Zenon
     DEF QuotasHold, Tests!QuotasHold, TestProofs!QuotasHold, Tests!Within, TestProofs!Within,
         Tests!OfEndpoint, TestProofs!OfEndpoint, Tests!OfStore, TestProofs!OfStore,
         Tests!Pending, TestProofs!Pending, Tests!Cardinality, TestProofs!Cardinality
<1> QED BY <1>1, <1>2, TestsBehave, PTL

(* A requestId is one test however often it is sent, and its repetition is *)
(* refused for no limit (outbox.go 195-219).                               *)
THEOREM OneRequestIsOneTestAlways == Spec => OneRequestIsOneTest
<1>1. TestProofs!Spec => TestProofs!OneRequestIsOneTest
  BY TestsAssume, TestProofs!OneRequestIsOneTestAlways
<1>2. TestProofs!OneRequestIsOneTest => OneRequestIsOneTest
  BY PTL
     DEF OneRequestIsOneTest, Tests!OneRequestIsOneTest, TestProofs!OneRequestIsOneTest,
         Tests!RequestIsIdempotent, TestProofs!RequestIsIdempotent, Tests!RepeatIsNotLimited,
         TestProofs!RepeatIsNotLimited, Tests!SameRequest, TestProofs!SameRequest,
         Tests!vars, TestProofs!vars
<1> QED BY <1>1, <1>2, TestsBehave, PTL

-----------------------------------------------------------------------------
(* Reading page by page *)

\* What a cursor <<time, id>> was made of.
IsCursor(c) ==
  \E i \in listed : c = <<rows[i].time, i>>

\* Row i has the time of a row that was listed.
Tied(i) == \E j \in listed : rows[j].time = rows[i].time

\* The pages listed so far are what is not below the cursor; of the rows
\* that matched all the time, the others are below it, but for ties.
CursorDivides ==
  /\ walk.phase = "no" => page = {} /\ listed = {} /\ steady = {}
  /\ walk.phase = "more" =>
       /\ IF walk.cursor = <<>> THEN listed = {} ELSE IsCursor(walk.cursor)
       /\ \A i \in listed : ~Pages!Below(i, walk.cursor)
       /\ \A i \in steady \ listed :
            Pages!Below(i, walk.cursor) \/ (list = "alerts" /\ Tied(i))
  /\ walk.phase = "end" => \A i \in steady \ listed : list = "alerts" /\ Tied(i)

PageInv ==
  /\ list \in {"alerts", "deliveries"}
  /\ IsFiniteSet(DOMAIN rows) /\ DOMAIN rows \subseteq Id
  /\ \A i \in DOMAIN rows : rows[i].time \in Time
  /\ walk.phase \in {"no", "more", "end"}
  /\ listed \subseteq DOMAIN rows /\ steady \subseteq DOMAIN rows /\ page \subseteq listed
  /\ walk.phase # "no" =>
       walk = [phase |-> walk.phase, filter |-> walk.filter, cursor |-> walk.cursor]
  /\ walk.phase # "no" => \A i \in steady : Pages!Matches(walk.filter, rows[i])
  /\ Cardinality(page) \in Nat /\ Cardinality(page) <= Limit
  /\ walk.phase = "more" /\ walk.cursor # <<>> => Cardinality(page) = Limit
  /\ CursorDivides

\* Pages counts like FiniteSets.
LEMMA PagesCount == \A S : Pages!Cardinality(S) = Cardinality(S)
BY Zenon DEF Pages!Cardinality, Cardinality

LEMMA PageInit == Pages!PagingAssumption /\ Pages!Init => PageInv
BY FS_EmptySet
   DEF Pages!PagingAssumption, Pages!Init, PageInv, CursorDivides

\* Rows keep their times: what the cursor divides stays divided when a row
\* comes or changes its status.
LEMMA RowsMayChange ==
  ASSUME PageInv, UNCHANGED <<list, walk, page, listed>>, steady' \subseteq steady,
         DOMAIN rows \subseteq DOMAIN rows',
         \A i \in DOMAIN rows : rows'[i].time = rows[i].time
  PROVE  CursorDivides'
<1>1. \A i \in DOMAIN rows : Pages!Below(i, walk.cursor)' <=> Pages!Below(i, walk.cursor)
  BY DEF Pages!Below
<1>2. listed \subseteq DOMAIN rows /\ steady \subseteq DOMAIN rows
  BY DEF PageInv
<1>3. \A i \in steady : Tied(i) => Tied(i)'
  BY <1>2 DEF Tied
<1>4. \A c : IsCursor(c) => IsCursor(c)'
  BY <1>2 DEF IsCursor
<1> QED
  BY <1>1, <1>2, <1>3, <1>4 DEF PageInv, CursorDivides

LEMMA AddStep ==
  ASSUME Pages!PagingAssumption, PageInv, NEW i \in Id, Pages!Add(i)
  PROVE  PageInv'
<1>1. PICK t \in Time, s \in Status :
        rows' = [j \in DOMAIN rows \cup {i} |->
                   IF j = i THEN [time |-> t, status |-> s] ELSE rows[j]]
  BY DEF Pages!Add
<1>2. /\ DOMAIN rows' = DOMAIN rows \cup {i} /\ i \notin DOMAIN rows
      /\ \A j \in DOMAIN rows : rows'[j] = rows[j]
      /\ rows'[i].time = t
      /\ UNCHANGED <<list, walk, page, listed, steady, changes>>
  BY <1>1 DEF Pages!Add
<1>3. IsFiniteSet(DOMAIN rows')
  BY <1>2, FS_AddElement DEF PageInv
<1>4. CursorDivides'
  BY <1>2, RowsMayChange
<1>5. walk'.phase # "no" => \A j \in steady' : Pages!Matches(walk.filter, rows[j])'
  BY <1>2 DEF PageInv, Pages!Matches
<1> QED
  BY <1>2, <1>3, <1>4, <1>5 DEF PageInv

LEMMA ChangeStep ==
  ASSUME Pages!PagingAssumption, PageInv, NEW i \in Id, Pages!Change(i)
  PROVE  PageInv'
<1>1. PICK s : rows' = [rows EXCEPT ![i].status = s]
  BY DEF Pages!Change
<1>2. /\ DOMAIN rows' = DOMAIN rows
      /\ \A j \in DOMAIN rows : rows'[j].time = rows[j].time
      /\ \A j \in DOMAIN rows \ {i} : rows'[j] = rows[j]
      /\ UNCHANGED <<list, walk, page, listed>>
  BY <1>1 DEF Pages!Change
<1>3. /\ steady' \subseteq steady
      /\ walk.phase # "no" => \A j \in steady' : Pages!Matches(walk.filter, rows[j])'
  BY <1>2 DEF Pages!Change, PageInv, Pages!Matches
<1>4. CursorDivides'
  BY <1>2, <1>3, RowsMayChange
<1> QED
  BY <1>2, <1>3, <1>4 DEF PageInv

LEMMA StartStep ==
  ASSUME Pages!PagingAssumption, PageInv, NEW filter, Pages!Start(filter)
  PROVE  PageInv'
<1>1. /\ walk.phase = "no" /\ walk' = [phase |-> "more", filter |-> filter, cursor |-> <<>>]
      /\ steady' = Pages!Matching(filter)
      /\ UNCHANGED <<list, rows, page, listed, changes>>
  BY DEF Pages!Start
<1>2. walk'.phase = "more" /\ walk'.cursor = <<>> /\ walk'.filter = filter
  BY <1>1
<1>3. \A i : Pages!Below(i, walk.cursor)'
  BY <1>2 DEF Pages!Below
<1>4. listed = {} /\ page = {}
  BY <1>1 DEF PageInv, CursorDivides
<1>5. CursorDivides'
  BY <1>1, <1>2, <1>3, <1>4 DEF CursorDivides
<1>6. \A i \in steady' : Pages!Matches(walk.filter, rows[i])'
  BY <1>1, <1>2 DEF Pages!Matching, Pages!Matches
<1>7. steady' \subseteq DOMAIN rows
  BY <1>1 DEF Pages!Matching
<1> QED
  BY <1>1, <1>2, <1>4, <1>5, <1>6, <1>7 DEF PageInv

\* What a page shows is not listed before, and the cursor moves on.
LEMMA PageStepKeepsInv ==
  ASSUME Pages!PagingAssumption, PageInv, Pages!Page
  PROVE  PageInv' /\ page' \cap listed = {}
<1> DEFINE found == {i \in Pages!Matching(walk.filter) : Pages!Below(i, walk.cursor)}
<1>1. PICK shown \in SUBSET found :
        /\ Pages!Cardinality(shown) = Pages!PageSize(found)
        /\ \A i \in shown, j \in found \ shown : ~Pages!After(i, j)
        /\ page' = shown
        /\ listed' = listed \cup shown
        /\ IF shown # found
           THEN \E c \in Pages!Cursor(shown, found) :
                  walk' = [walk EXCEPT !.cursor = <<rows[c].time, c>>]
           ELSE walk' = [walk EXCEPT !.phase = "end"]
  BY Zenon, PagesCount DEF Pages!Page, Pages!More
<1>2. walk.phase = "more" /\ UNCHANGED <<list, rows, steady, changes>>
  BY DEF Pages!Page
<1>3. found \subseteq DOMAIN rows /\ \A i \in found : Pages!Below(i, walk.cursor)
  BY DEF Pages!Matching
<1>4. \A i \in steady : Pages!Below(i, walk.cursor) => i \in found
  BY <1>2 DEF PageInv, Pages!Matching
<1> HIDE DEF found
<1>5. IsFiniteSet(found) /\ IsFiniteSet(shown) /\ Cardinality(found) \in Nat
      /\ Cardinality(shown) \in Nat
  BY <1>1, <1>3, FS_Subset, FS_CardinalityType DEF PageInv
<1>6. Cardinality(shown) <= Limit /\ (shown # found => Cardinality(shown) = Limit)
  <2>1. Cardinality(shown) = Cardinality(found) => shown = found
    BY <1>1, <1>5, FS_Subset
  <2> QED BY <1>1, <1>5, <2>1, PagesCount DEF Pages!PageSize, Pages!PagingAssumption
<1>7. \A i \in listed : ~Pages!Below(i, walk.cursor)
  BY <1>2 DEF PageInv, CursorDivides
<1>8. shown \cap listed = {}
  BY <1>1, <1>3, <1>7
<1>9. \A i \in DOMAIN rows : rows[i].time \in Nat /\ i \in Nat
  BY DEF PageInv, Pages!PagingAssumption
<1>10. \A i \in steady \ listed : Pages!Below(i, walk.cursor) \/ (list = "alerts" /\ Tied(i))
  BY <1>2 DEF PageInv, CursorDivides
<1>11. \A i \in steady : Tied(i) => Tied(i)'
  BY <1>1, <1>2 DEF Tied
<1>12. /\ listed' \subseteq DOMAIN rows' /\ steady' \subseteq DOMAIN rows'
       /\ page' \subseteq listed' /\ listed \subseteq DOMAIN rows
  BY <1>1, <1>2, <1>3 DEF PageInv
<1>13. CASE shown = found
  <2>1. walk' = [walk EXCEPT !.phase = "end"]
    BY <1>1, <1>13
  <2> DEFINE f == walk.filter
  <2>2. walk'.phase = "end" /\ walk'.filter = f
    BY <1>2, <2>1
  <2>3. CursorDivides'
    BY <1>1, <1>2, <1>4, <1>10, <1>11, <1>13, <2>2 DEF CursorDivides
  <2> QED
    BY <1>1, <1>2, <1>5, <1>6, <1>8, <1>12, <2>2, <2>3 DEF PageInv, Pages!Matches
<1>14. CASE shown # found
  <2>1. PICK c \in shown : /\ \A i \in shown : ~Pages!After(i, c)
                           /\ walk' = [walk EXCEPT !.cursor = <<rows[c].time, c>>]
    BY <1>1, <1>14 DEF Pages!Cursor
  <2> DEFINE t == rows[c].time
             f == walk.filter
  <2>2. /\ walk'.phase = "more" /\ walk'.filter = f /\ walk'.cursor = <<t, c>>
        /\ walk' = [phase |-> "more", filter |-> f, cursor |-> <<t, c>>]
    <3>1. walk = [phase |-> "more", filter |-> f, cursor |-> walk.cursor]
      BY <1>2 DEF PageInv
    <3> QED BY <2>1, <3>1
  <2>3. c \in DOMAIN rows /\ c \in listed' /\ Pages!Below(c, walk.cursor)
    BY <1>1, <1>3
  <2>4. <<t, c>> # <<>> /\ <<t, c>>[1] = t /\ <<t, c>>[2] = c
    OBVIOUS
  <2>5. \A i : Pages!Below(i, walk.cursor)' <=>
               \/ rows[i].time < t
               \/ list = "deliveries" /\ rows[i].time = t /\ i < c
    BY <1>2, <2>2, <2>4 DEF Pages!Below
  <2>6. \A i \in listed' : ~Pages!Below(i, walk.cursor)'
    <3>1. ASSUME NEW i \in shown PROVE ~Pages!Below(i, walk.cursor)'
      BY <1>3, <1>9, <2>1, <2>3, <2>5 DEF Pages!After
    <3>2. ASSUME NEW i \in listed PROVE ~Pages!Below(i, walk.cursor)'
      <4>1. walk.cursor # <<>> /\ IsCursor(walk.cursor)
        BY <1>2, <3>2 DEF PageInv, CursorDivides
      <4>2. PICK j \in listed : walk.cursor = <<rows[j].time, j>>
        BY <4>1 DEF IsCursor
      <4>3. walk.cursor[1] = rows[j].time /\ walk.cursor[2] = j
        BY <4>2
      <4>4. ~Pages!Below(i, walk.cursor)
        BY <1>7
      <4> QED BY <1>9, <1>12, <2>3, <2>5, <4>1, <4>3, <4>4 DEF Pages!Below
    <3> QED BY <1>1, <3>1, <3>2
  <2>7. \A i \in steady' \ listed' : Pages!Below(i, walk.cursor)' \/ (list' = "alerts" /\ Tied(i)')
    <3> SUFFICES ASSUME NEW i \in steady' \ listed', ~Pages!Below(i, walk.cursor)'
                 PROVE  list' = "alerts" /\ Tied(i)'
      OBVIOUS
    <3>1. i \in steady \ listed /\ i \notin shown /\ i \in DOMAIN rows
      BY <1>1, <1>2 DEF PageInv
    <3>2. CASE ~Pages!Below(i, walk.cursor)
      BY <1>2, <1>10, <1>11, <3>1, <3>2
    <3>3. CASE Pages!Below(i, walk.cursor)
      <4>1. i \in found \ shown
        BY <1>4, <3>1, <3>3
      <4>2. ~Pages!After(c, i)
        BY <1>1, <4>1
      <4>3. rows[i].time = t /\ (list = "deliveries" => i = c)
        BY <1>9, <2>3, <2>5, <3>1, <4>2 DEF Pages!After
      <4>4. list = "alerts"
        BY <2>3, <3>1, <4>3 DEF PageInv
      <4> QED BY <1>2, <2>3, <4>3, <4>4 DEF Tied
    <3> QED BY <3>2, <3>3
  <2>8. IsCursor(walk.cursor)'
    BY <1>2, <2>2, <2>3 DEF IsCursor
  <2>9. CursorDivides'
    BY <2>2, <2>4, <2>6, <2>7, <2>8 DEF CursorDivides
  <2> HIDE DEF f, t
  <2>10. \A i \in steady' : Pages!Matches(walk.filter, rows[i])'
    BY <1>2, <2>2 DEF PageInv, Pages!Matches, f
  <2> QED
    BY <1>1, <1>2, <1>5, <1>6, <1>8, <1>12, <1>14, <2>2, <2>9, <2>10 DEF PageInv
<1> QED BY <1>13, <1>14

LEMMA PagesHold == Spec => []PageInv
<1>1. Init => PageInv
  BY PagesAssumption, InitOfAll, PageInit
<1>2. PageInv /\ [Next]_vars => PageInv'
  <2> SUFFICES ASSUME PageInv, [Pages!Next]_(Pages!vars)
               PROVE  PageInv'
    BY StepOfOne
  <2>1. CASE UNCHANGED Pages!vars
    BY <2>1 DEF Pages!vars, PageInv, CursorDivides, IsCursor, Tied, Pages!Below, Pages!Matches
  <2> QED
    BY <2>1, PagesAssumption, AddStep, ChangeStep, StartStep, PageStepKeepsInv DEF Pages!Next
<1> QED BY <1>1, <1>2, PTL DEF Spec

\* A page holds Limit rows at most, and is full when another follows.
LEMMA PageTypes == PageInv => Pages!TypeOK
BY PagesCount DEF PageInv, Pages!TypeOK

(* Whatever is added and changes between the pages, no row is on two of    *)
(* them and none that matched all the time is missed, but for alerts of    *)
(* one time (notification_runtime.go 132-182, alerts.go 101-118).          *)
THEOREM PagesAreSoundAlways == Spec => PagesAreSound
<1>1. PageInv => Pages!WalkIsComplete /\ Pages!OnlyTiesAreLost
  BY DEF PageInv, CursorDivides, Tied, Pages!WalkIsComplete, Pages!OnlyTiesAreLost
<1>2. PageInv /\ [Next]_vars =>
        [walk.phase = "more" /\ walk' # walk => page' \cap listed = {}]_(Pages!vars)
  <2> SUFFICES ASSUME PageInv, Pages!Next, walk.phase = "more", walk' # walk
               PROVE  page' \cap listed = {}
    BY StepOfOne
  <2>1. CASE Pages!Page
    BY <2>1, PagesAssumption, PageStepKeepsInv
  <2> QED
    BY <2>1 DEF Pages!Next, Pages!Add, Pages!Change, Pages!Start
<1> QED
  BY <1>1, <1>2, PagesHold, PTL
  DEF Spec, PagesAreSound, Pages!PagesAreSound, Pages!NoRowTwice

-----------------------------------------------------------------------------
(* The rate limiter *)

LimitInv ==
  /\ limiterClock \in 0..MaxLimiterTime
  /\ IsFiniteSet(DOMAIN entries) /\ Limits!TypeOK
  /\ \A k \in DOMAIN entries : entries[k] \in [count : Nat, resetAt : Nat]
  /\ waiting \in [LimitedRequest ->
       {Limits!Idle} \cup [phase : {"called"}, key : Key, now : Nat]]

LEMMA LimitsCount == \A S : Limits!Cardinality(S) = Cardinality(S)
BY Zenon DEF Limits!Cardinality, Cardinality

LEMMA LimitInit == Limits!LimiterAssumption /\ Limits!Init => LimitInv
<1> SUFFICES ASSUME Limits!LimiterAssumption, Limits!Init PROVE LimitInv
  OBVIOUS
<1>1. DOMAIN entries = {}
  BY DEF Limits!Init
<1>2. IsFiniteSet(DOMAIN entries) /\ Cardinality(DOMAIN entries) = 0
  BY <1>1, FS_EmptySet
<1> QED
  BY <1>1, <1>2, LimitsCount
  DEF Limits!LimiterAssumption, Limits!Init, LimitInv, Limits!TypeOK

\* The sweep leaves counters out, and a counter is put in only where the
\* table has room.
LEMMA AllowStep ==
  ASSUME Limits!LimiterAssumption, LimitInv, NEW r \in LimitedRequest, Limits!Allow(r)
  PROVE  LimitInv'
<1> DEFINE k == waiting[r].key
           t == waiting[r].now
           table == Limits!Swept(t)
<1>1. /\ k \in Key /\ t \in Nat /\ UNCHANGED limiterClock
      /\ waiting' = [waiting EXCEPT ![r] = Limits!Idle]
  BY DEF Limits!Allow, LimitInv, Limits!Idle
<1>2. waiting' \in [LimitedRequest ->
        {Limits!Idle} \cup [phase : {"called"}, key : Key, now : Nat]]
  BY <1>1 DEF LimitInv
<1>3. /\ DOMAIN table \subseteq DOMAIN entries
      /\ \A j \in DOMAIN table : table[j] = entries[j]
  BY DEF Limits!Swept
<1>4. IsFiniteSet(DOMAIN table) /\ Cardinality(DOMAIN table) \in Nat
      /\ Cardinality(DOMAIN table) <= Cardinality(DOMAIN entries)
  BY <1>3, FS_Subset, FS_CardinalityType DEF LimitInv
<1>5. /\ DOMAIN entries \subseteq Key /\ Cardinality(DOMAIN entries) <= MaxEntries
      /\ \A j \in DOMAIN entries : entries[j].count \in 1..Maximum[j]
      /\ MaxEntries \in Nat /\ Maximum \in [Key -> Nat \ {0}] /\ Window \in [Key -> Nat \ {0}]
      /\ \A j \in DOMAIN entries : entries[j] \in [count : Nat, resetAt : Nat]
  BY LimitsCount DEF LimitInv, Limits!TypeOK, Limits!LimiterAssumption
<1>6. CASE UNCHANGED entries
  BY <1>1, <1>2, <1>6 DEF LimitInv, Limits!TypeOK
<1>7. CASE k \in DOMAIN entries /\ Limits!BelowMaximum(k)
           /\ entries' = [entries EXCEPT ![k].count = @ + 1]
  <2>1. DOMAIN entries' = DOMAIN entries
        /\ \A j \in DOMAIN entries : entries'[j] \in [count : Nat, resetAt : Nat]
    BY <1>5, <1>7
  <2>2. \A j \in DOMAIN entries' : entries'[j].count \in 1..Maximum[j]
    <3> SUFFICES ASSUME NEW j \in DOMAIN entries PROVE entries'[j].count \in 1..Maximum[j]
      BY <2>1
    <3>1. CASE j # k
      BY <1>5, <1>7, <3>1
    <3>2. CASE j = k
      <4>1. entries[k].count \in 1..Maximum[k] /\ entries[k].count < Maximum[k]
        BY <1>5, <1>7 DEF Limits!BelowMaximum
      <4>2. entries'[k] = [entries[k] EXCEPT !.count = @ + 1]
        BY <1>7
      <4>3. entries'[k].count = entries[k].count + 1
        BY <1>5, <1>7, <4>2
      <4> QED BY <1>5, <3>2, <4>1, <4>3
    <3> QED BY <3>1, <3>2
  <2> QED BY <1>1, <1>2, <1>5, <2>1, <2>2, LimitsCount DEF LimitInv, Limits!TypeOK
<1>8. CASE entries' = table
  BY <1>1, <1>2, <1>3, <1>4, <1>5, <1>8, LimitsCount, FS_CardinalityType
  DEF LimitInv, Limits!TypeOK
<1>9. CASE /\ Cardinality(DOMAIN table) < MaxEntries
           /\ entries' = Limits!Put(table, k, [count |-> 1, resetAt |-> t + Window[k]])
  <2> DEFINE x == [count |-> 1, resetAt |-> t + Window[k]]
  <2>1. x.count = 1
    OBVIOUS
  <2>2. /\ DOMAIN entries' = DOMAIN table \cup {k}
        /\ \A j \in DOMAIN table : j # k => entries'[j] = table[j]
        /\ entries'[k] = x /\ entries'[k].count = 1
    BY <1>9, <2>1 DEF Limits!Put
  <2>3. IsFiniteSet(DOMAIN entries') /\ Cardinality(DOMAIN entries') <= MaxEntries
    <3>1. IsFiniteSet(DOMAIN table \cup {k})
          /\ Cardinality(DOMAIN table \cup {k}) =
               IF k \in DOMAIN table THEN Cardinality(DOMAIN table)
               ELSE Cardinality(DOMAIN table) + 1
      BY <1>4, FS_AddElement
    <3> HIDE DEF table, k
    <3> QED BY <1>4, <1>5, <1>9, <2>2, <3>1
  <2>4. 1 \in 1..Maximum[k] /\ x \in [count : Nat, resetAt : Nat]
    BY <1>1, <1>5
  <2>5. \A j \in DOMAIN entries' :
          /\ j \in Key /\ entries'[j].count \in 1..Maximum[j]
          /\ entries'[j] \in [count : Nat, resetAt : Nat]
    BY <1>1, <1>3, <1>5, <2>2, <2>4
  <2> QED BY <1>1, <1>2, <1>5, <2>2, <2>3, <2>5, LimitsCount DEF LimitInv, Limits!TypeOK
<1> QED
  BY <1>6, <1>7, <1>8, <1>9, LimitsCount DEF Limits!Allow, Limits!Known

LEMMA LimitNext ==
  ASSUME Limits!LimiterAssumption, LimitInv, [Limits!Next]_(Limits!vars)
  PROVE  LimitInv'
<1>1. ASSUME NEW r \in LimitedRequest, NEW k \in Key, Limits!Call(r, k) PROVE LimitInv'
  BY <1>1 DEF Limits!Call, LimitInv, Limits!TypeOK
<1>2. CASE Limits!Tick
  BY <1>2 DEF Limits!Tick, LimitInv, Limits!TypeOK, Limits!LimiterAssumption
<1>3. CASE UNCHANGED Limits!vars
  BY <1>3 DEF Limits!vars, LimitInv, Limits!TypeOK
<1> QED BY <1>1, <1>2, <1>3, AllowStep DEF Limits!Next

\* How a key's admissions divide: those of its last window, which ends at
\* reset, and the older ones, all of the window before, which ended at past.
\* A counter that was swept had ended by the clock.
Windows(k, old, reset, past) ==
  /\ Cardinality(old) <= Maximum[k] /\ \A a \in old : a.at < past + Delay
  /\ Cardinality(admitted[k] \ old) <= IF k \in DOMAIN entries THEN entries[k].count ELSE Maximum[k]
  /\ \A a \in admitted[k] \ old : a.at < reset + Delay
  /\ reset >= past + Window[k] - Delay
  /\ IF k \in DOMAIN entries THEN reset = entries[k].resetAt ELSE reset <= limiterClock

AtNow(k) == {a \in admitted[k] : a.at = limiterClock}

Dated(k) ==
  /\ IsFiniteSet(admitted[k])
  /\ \A a \in admitted[k] :
       /\ a \in [at : Nat, n : Nat] /\ a.at <= limiterClock
       /\ limiterClock - a.at < Window[k] + 1 - 3 * Delay
       /\ a.at = limiterClock => a.n < Cardinality(AtNow(k))

AdmittedInv ==
  /\ admitted = [k \in Key |-> admitted[k]]
  /\ \A r \in LimitedRequest : waiting[r] # Limits!Idle =>
       waiting[r].now <= limiterClock /\ limiterClock - waiting[r].now <= Delay
  /\ \A k \in Key : Dated(k)
  /\ \A k \in Key : \E old \in SUBSET admitted[k], reset, past \in Int : Windows(k, old, reset, past)

LEMMA LimitNumbers ==
  ASSUME Limits!LimiterAssumption, NEW k \in Key
  PROVE  Maximum[k] \in Nat \ {0} /\ Window[k] \in Nat \ {0} /\ Delay \in Nat /\ 3 * Delay <= Window[k]
BY DEF Limits!LimiterAssumption

LEMMA AdmittedInitially == Limits!LimiterAssumption /\ Limits!Init => AdmittedInv
<1> SUFFICES ASSUME Limits!LimiterAssumption, Limits!Init PROVE AdmittedInv
  OBVIOUS
<1>1. DOMAIN entries = {} /\ limiterClock = 0 /\ admitted = [k \in Key |-> {}]
      /\ \A r \in LimitedRequest : waiting[r] = Limits!Idle
  BY DEF Limits!Init
<1>2. ASSUME NEW k \in Key PROVE Dated(k)
  BY <1>1, <1>2, FS_EmptySet DEF Dated
<1>3. ASSUME NEW k \in Key
      PROVE  \E old \in SUBSET admitted[k], reset, past \in Int : Windows(k, old, reset, past)
  <2>1. Maximum[k] \in Nat /\ Window[k] \in Nat /\ Delay \in Nat
    BY LimitNumbers
  <2>2. admitted[k] = {} /\ {} \ {} = {} /\ Cardinality({}) = 0
    BY <1>1, FS_EmptySet
  <2>3. 0 \in Int /\ -Window[k] \in Int /\ 0 >= -Window[k] + Window[k] - Delay
    BY <2>1
  <2>4. Windows(k, {}, 0, -Window[k])
    BY <1>1, <2>1, <2>2, <2>3 DEF Windows
  <2> QED BY <2>2, <2>3, <2>4
<1>4. admitted = [k \in Key |-> admitted[k]]
  BY <1>1
<1> QED BY <1>1, <1>2, <1>3, <1>4 DEF AdmittedInv

\* A key that nobody is admitted for keeps its windows, also when its counter
\* is swept, and so when time passes and admissions are forgotten.
LEMMA WindowsStand ==
  ASSUME Limits!LimiterAssumption, LimitInv, AdmittedInv, NEW k \in Key,
         admitted'[k] \subseteq admitted[k], limiterClock' >= limiterClock, limiterClock' \in Nat,
         k \in DOMAIN entries' => k \in DOMAIN entries /\ entries'[k] = entries[k],
         k \in DOMAIN entries /\ k \notin DOMAIN entries' => entries[k].resetAt <= limiterClock
  PROVE  \E old \in SUBSET admitted'[k], reset, past \in Int : Windows(k, old, reset, past)'
<1>1. PICK old \in SUBSET admitted[k], reset \in Int, past \in Int : Windows(k, old, reset, past)
  BY DEF AdmittedInv
<1>2. IsFiniteSet(admitted[k]) /\ IsFiniteSet(old) /\ IsFiniteSet(admitted[k] \ old)
  BY FS_Subset DEF AdmittedInv, Dated
<1>0. PICK kept \in SUBSET admitted'[k] : kept = old \cap admitted'[k]
  OBVIOUS
<1> DEFINE rest == admitted'[k] \ kept
<1>3. kept \in SUBSET old /\ rest \in SUBSET (admitted[k] \ old)
  BY <1>0
<1>4. /\ Cardinality(kept) <= Cardinality(old) /\ Cardinality(kept) \in Nat
      /\ Cardinality(rest) <= Cardinality(admitted[k] \ old) /\ Cardinality(rest) \in Nat
      /\ Cardinality(old) \in Nat /\ Cardinality(admitted[k] \ old) \in Nat
  BY <1>2, <1>3, FS_Subset, FS_CardinalityType
<1>5. Maximum[k] \in Nat
  BY LimitNumbers
<1>6. k \in DOMAIN entries => entries[k].count \in Nat /\ entries[k].count <= Maximum[k]
  BY DEF LimitInv, Limits!TypeOK, Limits!LimiterAssumption
<1>7. limiterClock \in Nat
  BY DEF LimitInv
<1> DEFINE room == IF k \in DOMAIN entries THEN entries[k].count ELSE Maximum[k]
           roomThen == IF k \in DOMAIN entries' THEN entries'[k].count ELSE Maximum[k]
<1>8. room <= roomThen /\ room \in Nat /\ roomThen \in Nat
  BY <1>5, <1>6
<1>9. Cardinality(old) <= Maximum[k] /\ Cardinality(admitted[k] \ old) <= room
      /\ (\A a \in old : a.at < past + Delay) /\ (\A a \in admitted[k] \ old : a.at < reset + Delay)
      /\ reset >= past + Window[k] - Delay
  BY <1>1 DEF Windows
<1>10. IF k \in DOMAIN entries' THEN reset = entries'[k].resetAt ELSE reset <= limiterClock'
  BY <1>1, <1>7 DEF Windows
<1> HIDE DEF room, roomThen
<1>11. Cardinality(kept) <= Maximum[k] /\ Cardinality(rest) <= roomThen
  BY <1>4, <1>5, <1>8, <1>9
<1>12. (\A a \in kept : a.at < past + Delay) /\ (\A a \in rest : a.at < reset + Delay)
  BY <1>3, <1>9
<1>13. Windows(k, kept, reset, past)'
  BY <1>9, <1>10, <1>11, <1>12 DEF Windows, roomThen
<1> QED BY <1>1, <1>13

\* One more admission is dated and numbered.
LEMMA OneMoreIsDated ==
  ASSUME Limits!LimiterAssumption, LimitInv, AdmittedInv, NEW k \in Key, NEW x,
         x = [at |-> limiterClock, n |-> Cardinality(AtNow(k))],
         admitted' = [admitted EXCEPT ![k] = @ \cup {x}], UNCHANGED limiterClock
  PROVE  /\ \A j \in Key : Dated(j)'
         /\ x \notin admitted[k] /\ admitted'[k] = admitted[k] \cup {x}
         /\ \A j \in Key : j # k => admitted'[j] = admitted[j]
         /\ admitted' = [j \in Key |-> admitted'[j]]
<1>1. /\ admitted'[k] = admitted[k] \cup {x} /\ \A j \in Key : j # k => admitted'[j] = admitted[j]
      /\ admitted' = [j \in Key |-> admitted'[j]]
  BY DEF AdmittedInv
<1>2. Dated(k) /\ limiterClock \in Nat
  BY DEF AdmittedInv, LimitInv
<1>3. IsFiniteSet(AtNow(k)) /\ Cardinality(AtNow(k)) \in Nat
  <2>1. AtNow(k) \in SUBSET admitted[k]
    BY DEF AtNow
  <2> QED BY <1>2, <2>1, FS_Subset, FS_CardinalityType DEF Dated
<1>4. x.at = limiterClock /\ x.n = Cardinality(AtNow(k)) /\ x \in [at : Nat, n : Nat]
  BY <1>2, <1>3
<1>5. x \notin admitted[k]
  BY <1>2, <1>3, <1>4 DEF Dated
<1>6. AtNow(k)' = AtNow(k) \cup {x}
  BY <1>1, <1>4 DEF AtNow
<1>7. Cardinality(AtNow(k) \cup {x}) = Cardinality(AtNow(k)) + 1
  <2>1. x \notin AtNow(k)
    BY <1>5 DEF AtNow
  <2> QED BY <1>3, <2>1, FS_AddElement
<1>8. Dated(k)'
  <2>1. IsFiniteSet(admitted'[k])
    BY <1>1, <1>2, FS_AddElement DEF Dated
  <2>2. Window[k] \in Nat /\ Delay \in Nat /\ 3 * Delay <= Window[k]
    BY LimitNumbers
  <2>3. Cardinality(AtNow(k))' = Cardinality(AtNow(k)) + 1
    BY <1>6, <1>7
  <2>4. ASSUME NEW a \in admitted'[k]
        PROVE  /\ a \in [at : Nat, n : Nat] /\ a.at <= limiterClock
               /\ limiterClock - a.at < Window[k] + 1 - 3 * Delay
               /\ a.at = limiterClock => a.n < Cardinality(AtNow(k)) + 1
    <3>1. CASE a \in admitted[k]
      <4>1. /\ a \in [at : Nat, n : Nat] /\ a.at <= limiterClock
            /\ limiterClock - a.at < Window[k] + 1 - 3 * Delay
            /\ a.at = limiterClock => a.n < Cardinality(AtNow(k))
        BY <1>2, <3>1 DEF Dated
      <4>2. a.n \in Nat
        BY <4>1
      <4> QED BY <1>3, <4>1, <4>2
    <3>2. CASE a = x
      BY <1>2, <1>3, <1>4, <2>2, <3>2
    <3> QED BY <1>1, <2>4, <3>1, <3>2
  <2> QED BY <2>1, <2>3, <2>4 DEF Dated
<1>9. ASSUME NEW j \in Key, j # k PROVE Dated(j)'
  <2>1. admitted'[j] = admitted[j] /\ AtNow(j)' = AtNow(j)
    BY <1>1, <1>9 DEF AtNow
  <2> QED BY <2>1 DEF Dated, AdmittedInv
<1> QED BY <1>1, <1>5, <1>8, <1>9

\* An admission under a counter that is known.
LEMMA WindowGrows ==
  ASSUME Limits!LimiterAssumption, LimitInv, AdmittedInv, NEW k \in Key, NEW x, NEW t \in Nat,
         x.at = limiterClock, x \notin admitted[k], admitted'[k] = admitted[k] \cup {x},
         UNCHANGED limiterClock, limiterClock - t <= Delay,
         k \in DOMAIN entries, t < entries[k].resetAt, k \in DOMAIN entries',
         entries'[k].count = entries[k].count + 1, entries'[k].resetAt = entries[k].resetAt
  PROVE  \E old \in SUBSET admitted'[k], reset, past \in Int : Windows(k, old, reset, past)'
<1>1. PICK old \in SUBSET admitted[k], reset \in Int, past \in Int : Windows(k, old, reset, past)
  BY DEF AdmittedInv
<1> DEFINE cur == admitted[k] \ old
<1>2. IsFiniteSet(cur) /\ Cardinality(cur) \in Nat
  BY FS_Subset, FS_CardinalityType DEF AdmittedInv, Dated
<1>3. admitted'[k] \ old = cur \cup {x} /\ x \notin cur /\ old \in SUBSET admitted'[k]
  OBVIOUS
<1>4. Cardinality(cur \cup {x}) = Cardinality(cur) + 1
  BY <1>2, <1>3, FS_AddElement
<1>5. Cardinality(cur) <= entries[k].count /\ reset = entries[k].resetAt
      /\ Cardinality(old) <= Maximum[k] /\ (\A a \in old : a.at < past + Delay)
      /\ (\A a \in cur : a.at < reset + Delay) /\ reset >= past + Window[k] - Delay
  BY <1>1 DEF Windows
<1>6. entries[k].count \in Nat /\ limiterClock \in Nat /\ Delay \in Nat
  BY LimitNumbers DEF LimitInv
<1>7. x.at < reset + Delay
  BY <1>5, <1>6
<1> HIDE DEF cur
<1>8. \A a \in cur \cup {x} : a.at < reset + Delay
  BY <1>5, <1>7
<1>9. Cardinality(cur \cup {x}) <= entries'[k].count
  BY <1>2, <1>4, <1>5, <1>6
<1>10. Windows(k, old, reset, past)'
  BY <1>3, <1>5, <1>8, <1>9 DEF Windows
<1> QED BY <1>3, <1>10

\* An admission that opens a window: the last but one is out of sight.
LEMMA WindowOpens ==
  ASSUME Limits!LimiterAssumption, LimitInv, AdmittedInv, NEW k \in Key, NEW x, NEW t \in Nat,
         x.at = limiterClock, x \notin admitted[k], admitted'[k] = admitted[k] \cup {x},
         UNCHANGED limiterClock, limiterClock - t <= Delay, t <= limiterClock,
         k \in DOMAIN entries => entries[k].resetAt <= t,
         k \in DOMAIN entries', entries'[k].count = 1, entries'[k].resetAt = t + Window[k]
  PROVE  \E old \in SUBSET admitted'[k], reset, past \in Int : Windows(k, old, reset, past)'
<1>1. PICK old \in SUBSET admitted[k], reset \in Int, past \in Int : Windows(k, old, reset, past)
  BY DEF AdmittedInv
<1>2. Maximum[k] \in Nat \ {0} /\ Window[k] \in Nat \ {0} /\ Delay \in Nat /\ 3 * Delay <= Window[k]
      /\ limiterClock \in Nat
  BY LimitNumbers DEF LimitInv
<1>3. reset >= past + Window[k] - Delay /\ reset <= t + Delay
  <2>1. CASE k \in DOMAIN entries
    BY <1>1, <1>2, <2>1 DEF Windows, LimitInv
  <2>2. CASE k \notin DOMAIN entries
    BY <1>1, <1>2, <2>2 DEF Windows
  <2> QED BY <2>1, <2>2
<1>4. old = {}
  <2> SUFFICES ASSUME NEW a \in old PROVE FALSE
    OBVIOUS
  <2>1. a.at < past + Delay /\ a.at \in Nat /\ limiterClock - a.at < Window[k] + 1 - 3 * Delay
    BY <1>1 DEF Windows, AdmittedInv, Dated
  <2> QED BY <1>2, <1>3, <2>1
<1>5. Cardinality(admitted[k]) <= Maximum[k]
  <2>1. admitted[k] \ old = admitted[k]
    BY <1>4
  <2>2. Cardinality(admitted[k]) <= IF k \in DOMAIN entries THEN entries[k].count ELSE Maximum[k]
    BY <1>1, <2>1 DEF Windows
  <2>3. k \in DOMAIN entries => entries[k].count \in Nat /\ entries[k].count <= Maximum[k]
    BY <1>2 DEF LimitInv, Limits!TypeOK
  <2>4. Cardinality(admitted[k]) \in Nat
    BY FS_CardinalityType DEF AdmittedInv, Dated
  <2> QED BY <1>2, <2>2, <2>3, <2>4
<1>6. \A a \in admitted[k] : a.at < reset + Delay
  BY <1>1, <1>4 DEF Windows
<1>7. admitted'[k] \ admitted[k] = {x} /\ Cardinality({x}) = 1 /\ admitted[k] \in SUBSET admitted'[k]
  BY FS_Singleton
<1>8. x.at < t + Window[k] + Delay /\ t + Window[k] \in Int
      /\ t + Window[k] >= reset + Window[k] - Delay
  BY <1>1, <1>2, <1>3
<1>9. PICK b \in SUBSET admitted'[k] : b = admitted[k]
  BY <1>7
<1>10. PICK e \in Int : e = t + Window[k]
  BY <1>8
<1>11. /\ Cardinality(b) <= Maximum[k] /\ \A a \in b : a.at < reset + Delay
       /\ admitted'[k] \ b = {x} /\ Cardinality(admitted'[k] \ b) <= entries'[k].count
       /\ \A a \in {x} : a.at < e + Delay
       /\ e >= reset + Window[k] - Delay /\ e = entries'[k].resetAt
  <2>1. Cardinality(b) <= Maximum[k] /\ \A a \in b : a.at < reset + Delay
    BY <1>5, <1>6, <1>9
  <2>2. admitted'[k] \ b = {x}
    BY <1>7, <1>9
  <2>3. Cardinality(admitted'[k] \ b) <= entries'[k].count
    <3>1. Cardinality(admitted'[k] \ b) = 1
      BY <1>7, <2>2
    <3> QED BY <3>1
  <2>4. \A a \in {x} : a.at < e + Delay
    BY <1>8, <1>10
  <2>5. e >= reset + Window[k] - Delay /\ e = entries'[k].resetAt
    BY <1>8, <1>10
  <2> QED BY <2>1, <2>2, <2>3, <2>4, <2>5
<1>12. Windows(k, b, e, reset)'
  BY <1>11 DEF Windows
<1> QED BY <1>12

\* An admission, by a counter that is known or a new one.
LEMMA AdmissionCounts ==
  ASSUME Limits!LimiterAssumption, LimitInv, AdmittedInv, NEW r \in LimitedRequest, Limits!Allow(r)
  PROVE  AdmittedInv'
<1>0. PICK k, t : k = waiting[r].key /\ t = waiting[r].now
  OBVIOUS
<1> DEFINE table == Limits!Swept(t)
<1>1. /\ k \in Key /\ t \in Nat /\ UNCHANGED limiterClock /\ limiterClock \in Nat
      /\ waiting' = [waiting EXCEPT ![r] = Limits!Idle]
      /\ waiting[r] # Limits!Idle
  BY <1>0 DEF Limits!Allow, LimitInv, Limits!Idle
<1>2. t <= limiterClock /\ limiterClock - t <= Delay
  BY <1>0, <1>1 DEF AdmittedInv
<1>3. \A q \in LimitedRequest : waiting'[q] # Limits!Idle =>
        waiting'[q].now <= limiterClock' /\ limiterClock' - waiting'[q].now <= Delay
  BY <1>1 DEF AdmittedInv, LimitInv
<1>4. /\ DOMAIN table \subseteq DOMAIN entries
      /\ \A j \in DOMAIN table : table[j] = entries[j]
      /\ \A j \in DOMAIN entries \ DOMAIN table : entries[j].resetAt <= limiterClock
  <2>1. \A j \in DOMAIN entries : entries[j].resetAt \in Nat
    BY DEF LimitInv
  <2> QED BY <1>1, <1>2, <2>1 DEF Limits!Swept, Limits!Expired, Limits!Before
\* Whoever is not admitted: the counter stays, or was swept.
<1>5. ASSUME NEW j \in Key, admitted'[j] = admitted[j],
             j \in DOMAIN entries' => j \in DOMAIN entries /\ entries'[j] = entries[j],
             j \in DOMAIN entries /\ j \notin DOMAIN entries' => j \notin DOMAIN table
      PROVE  \E old \in SUBSET admitted'[j], reset, past \in Int : Windows(j, old, reset, past)'
  <2>1. j \in DOMAIN entries /\ j \notin DOMAIN entries' => entries[j].resetAt <= limiterClock
    BY <1>4, <1>5
  <2>2. admitted'[j] \subseteq admitted[j] /\ limiterClock' >= limiterClock /\ limiterClock' \in Nat
    BY <1>1, <1>5
  <2> QED BY <1>5, <2>1, <2>2, WindowsStand
<1>6. CASE UNCHANGED admitted /\ (UNCHANGED entries \/ entries' = table)
  <2>1. \A j \in Key : Dated(j)'
    BY <1>1, <1>6 DEF AdmittedInv, Dated, AtNow
  <2>2. ASSUME NEW j \in Key
        PROVE  \E old \in SUBSET admitted'[j], reset, past \in Int : Windows(j, old, reset, past)'
    BY <1>4, <1>5, <1>6
  <2> QED BY <1>3, <1>6, <2>1, <2>2 DEF AdmittedInv
<1>7. ASSUME Limits!Admit(k),
             \A j \in Key : j # k =>
               /\ j \in DOMAIN entries' => j \in DOMAIN entries /\ entries'[j] = entries[j]
               /\ j \in DOMAIN entries /\ j \notin DOMAIN entries' => j \notin DOMAIN table,
             \/ /\ Limits!Known(k, t) /\ k \in DOMAIN entries'
                /\ entries'[k].count = entries[k].count + 1 /\ entries'[k].resetAt = entries[k].resetAt
             \/ /\ ~Limits!Known(k, t) /\ k \in DOMAIN entries'
                /\ entries'[k].count = 1 /\ entries'[k].resetAt = t + Window[k]
      PROVE  AdmittedInv'
  <2>1. PICK x : x = [at |-> limiterClock, n |-> Cardinality(AtNow(k))]
    OBVIOUS
  <2>2. admitted' = [admitted EXCEPT ![k] = @ \cup {x}] /\ x.at = limiterClock
    BY <1>7, <2>1, LimitsCount DEF Limits!Admit, Limits!AdmittedNow, AtNow
  <2>3. /\ \A j \in Key : Dated(j)'
        /\ x \notin admitted[k] /\ admitted'[k] = admitted[k] \cup {x}
        /\ \A j \in Key : j # k => admitted'[j] = admitted[j]
        /\ admitted' = [j \in Key |-> admitted'[j]]
    BY <1>1, <2>1, <2>2, OneMoreIsDated
  <2>4. \E old \in SUBSET admitted'[k], reset, past \in Int : Windows(k, old, reset, past)'
    <3>1. CASE Limits!Known(k, t)
      <4>1. k \in DOMAIN entries /\ t < entries[k].resetAt
        BY <3>1 DEF Limits!Known, Limits!Before
      <4>2. /\ k \in DOMAIN entries' /\ entries'[k].count = entries[k].count + 1
            /\ entries'[k].resetAt = entries[k].resetAt
        BY <1>7, <3>1
      <4>3. k \in Key /\ t \in Nat /\ UNCHANGED limiterClock
        BY <1>1
      <4>4. limiterClock - t <= Delay /\ t <= limiterClock
        BY <1>2
      <4> QED BY <2>2, <2>3, <4>1, <4>2, <4>3, <4>4, WindowGrows
    <3>2. CASE ~Limits!Known(k, t)
      <4>1. k \in DOMAIN entries => entries[k].resetAt <= t
        BY <1>1, <3>2 DEF Limits!Known, Limits!Before, LimitInv
      <4>2. /\ k \in DOMAIN entries' /\ entries'[k].count = 1
            /\ entries'[k].resetAt = t + Window[k]
        BY <1>7, <3>2
      <4>3. k \in Key /\ t \in Nat /\ UNCHANGED limiterClock
        BY <1>1
      <4>4. limiterClock - t <= Delay /\ t <= limiterClock
        BY <1>2
      <4> QED BY <2>2, <2>3, <4>1, <4>2, <4>3, <4>4, WindowOpens
    <3> QED BY <3>1, <3>2
  <2>5. ASSUME NEW j \in Key, j # k
        PROVE  \E old \in SUBSET admitted'[j], reset, past \in Int : Windows(j, old, reset, past)'
    BY <1>5, <1>7, <2>3, <2>5
  <2>6. \A j \in Key : \E old \in SUBSET admitted'[j], reset, past \in Int : Windows(j, old, reset, past)'
    BY <2>4, <2>5
  <2> QED BY <1>3, <2>3, <2>6 DEF AdmittedInv
<1>8. CASE /\ Limits!Known(k, t) /\ Limits!Admit(k)
           /\ entries' = [entries EXCEPT ![k].count = @ + 1]
  <2>1. k \in DOMAIN entries /\ entries[k] \in [count : Nat, resetAt : Nat]
    BY <1>8 DEF Limits!Known, LimitInv
  <2>2. /\ DOMAIN entries' = DOMAIN entries /\ \A j \in DOMAIN entries : j # k => entries'[j] = entries[j]
        /\ entries'[k] = [entries[k] EXCEPT !.count = @ + 1]
    BY <1>8, <2>1
  <2>3. entries'[k].count = entries[k].count + 1 /\ entries'[k].resetAt = entries[k].resetAt
    BY <2>1, <2>2
  <2> HIDE DEF table
  <2> QED BY <1>7, <1>8, <2>1, <2>2, <2>3
<1>9. CASE /\ ~Limits!Known(k, t) /\ Limits!Admit(k)
           /\ entries' = Limits!Put(table, k, [count |-> 1, resetAt |-> t + Window[k]])
  <2> DEFINE x == [count |-> 1, resetAt |-> t + Window[k]]
  <2>1. /\ DOMAIN entries' = DOMAIN table \cup {k}
        /\ \A j \in DOMAIN table : j # k => entries'[j] = table[j]
        /\ entries'[k] = x
    BY <1>9 DEF Limits!Put
  <2>2. entries'[k].count = 1 /\ entries'[k].resetAt = t + Window[k]
    BY <2>1
  <2> HIDE DEF table, x
  <2>3. \A j \in Key : j # k =>
          /\ j \in DOMAIN entries' => j \in DOMAIN entries /\ entries'[j] = entries[j]
          /\ j \in DOMAIN entries /\ j \notin DOMAIN entries' => j \notin DOMAIN table
    BY <1>4, <2>1
  <2> QED BY <1>7, <1>9, <2>1, <2>2, <2>3
<1> QED
  BY <1>0, <1>6, <1>8, <1>9, LimitsCount DEF Limits!Allow

LEMMA AdmittedNext ==
  ASSUME Limits!LimiterAssumption, LimitInv, AdmittedInv, [Limits!Next]_(Limits!vars)
  PROVE  AdmittedInv'
<1>0. limiterClock \in Nat
  BY DEF LimitInv
<1>1. CASE UNCHANGED <<limiterClock, entries, admitted>>
           /\ \A r \in LimitedRequest : waiting'[r] # Limits!Idle =>
                \/ waiting'[r] = waiting[r]
                \/ waiting'[r].now = limiterClock
  <2>1. UNCHANGED limiterClock /\ UNCHANGED entries /\ UNCHANGED admitted
    BY <1>1
  <2>2. \A k \in Key : Dated(k)'
    BY <2>1 DEF AdmittedInv, Dated, AtNow
  <2>3. ASSUME NEW k \in Key
        PROVE  \E old \in SUBSET admitted'[k], reset, past \in Int : Windows(k, old, reset, past)'
    BY <1>0, <2>1, WindowsStand
  <2>4. ASSUME NEW r \in LimitedRequest, waiting'[r] # Limits!Idle
        PROVE  waiting'[r].now <= limiterClock' /\ limiterClock' - waiting'[r].now <= Delay
    <3>1. Delay \in Nat
      BY DEF Limits!LimiterAssumption
    <3>2. CASE waiting'[r] = waiting[r]
      BY <2>1, <2>4, <3>2 DEF AdmittedInv
    <3>3. CASE waiting'[r].now = limiterClock
      BY <1>0, <2>1, <3>1, <3>3
    <3> QED BY <1>1, <2>4, <3>2, <3>3
  <2> QED BY <2>1, <2>2, <2>3, <2>4 DEF AdmittedInv
<1>2. ASSUME NEW r \in LimitedRequest, NEW k \in Key, Limits!Call(r, k) PROVE AdmittedInv'
  <2>1. UNCHANGED <<limiterClock, entries, admitted>>
    BY <1>2 DEF Limits!Call
  <2> DEFINE x == [phase |-> "called", key |-> k, now |-> limiterClock]
  <2>2. waiting' = [waiting EXCEPT ![r] = x] /\ x.now = limiterClock
    BY <1>2 DEF Limits!Call
  <2> HIDE DEF x
  <2>3. \A q \in LimitedRequest : waiting'[q] # Limits!Idle =>
          waiting'[q] = waiting[q] \/ waiting'[q].now = limiterClock
    BY <2>2 DEF LimitInv
  <2> QED BY <1>1, <2>1, <2>3
<1>3. CASE Limits!Tick
  <2>1. /\ limiterClock' = limiterClock + 1 /\ limiterClock' \in Nat
        /\ UNCHANGED entries /\ UNCHANGED waiting
        /\ \A r \in LimitedRequest : waiting[r] # Limits!Idle => limiterClock - waiting[r].now < Delay
        /\ admitted' = [k \in Key |-> {a \in admitted[k] : limiterClock' - a.at < Limits!Span(k)}]
    BY <1>0, <1>3 DEF Limits!Tick
  <2>2. ASSUME NEW k \in Key
        PROVE  /\ admitted'[k] \in SUBSET admitted[k]
               /\ \A a \in admitted'[k] : limiterClock' - a.at < Window[k] + 1 - 3 * Delay
    BY <2>1 DEF Limits!Span
  <2>3. ASSUME NEW k \in Key PROVE Dated(k)'
    <3>1. Dated(k)
      BY DEF AdmittedInv
    <3>2. IsFiniteSet(admitted'[k])
      BY <2>2, <3>1, FS_Subset DEF Dated
    <3>3. \A a \in admitted'[k] : a.at \in Nat /\ a.at <= limiterClock /\ a \in [at : Nat, n : Nat]
      BY <2>2, <3>1 DEF Dated
    <3>4. \A a \in admitted'[k] : a.at <= limiterClock' /\ a.at # limiterClock'
      BY <1>0, <2>1, <3>3
    <3> QED BY <2>2, <3>2, <3>3, <3>4 DEF Dated
  <2>4. ASSUME NEW k \in Key
        PROVE  \E old \in SUBSET admitted'[k], reset, past \in Int : Windows(k, old, reset, past)'
    BY <1>0, <2>1, <2>2, WindowsStand
  <2>5. \A r \in LimitedRequest : waiting'[r] # Limits!Idle =>
          waiting'[r].now <= limiterClock' /\ limiterClock' - waiting'[r].now <= Delay
    <3>1. ASSUME NEW r \in LimitedRequest, waiting[r] # Limits!Idle
          PROVE  waiting[r].now <= limiterClock + 1 /\ limiterClock + 1 - waiting[r].now <= Delay
      <4>1. waiting[r].now \in Nat /\ waiting[r].now <= limiterClock
            /\ limiterClock - waiting[r].now < Delay /\ Delay \in Nat
        BY <2>1, <3>1 DEF LimitInv, AdmittedInv, Limits!LimiterAssumption
      <4> QED BY <1>0, <4>1
    <3>2. UNCHANGED waiting /\ limiterClock' = limiterClock + 1
      BY <2>1
    <3>3. ASSUME NEW r \in LimitedRequest, waiting'[r] # Limits!Idle
          PROVE  waiting'[r].now <= limiterClock' /\ limiterClock' - waiting'[r].now <= Delay
      <4>1. waiting'[r] = waiting[r] /\ waiting[r] # Limits!Idle
        BY <3>2, <3>3
      <4>2. waiting[r].now <= limiterClock + 1 /\ limiterClock + 1 - waiting[r].now <= Delay
        BY <3>1, <4>1
      <4>3. waiting[r].now <= limiterClock' /\ limiterClock' - waiting[r].now <= Delay
        <5>1. waiting[r].now \in Nat /\ Delay \in Nat /\ limiterClock' = limiterClock + 1
          BY <3>2, <4>1 DEF LimitInv, Limits!LimiterAssumption
        <5> QED BY <1>0, <4>2, <5>1
      <4>4. waiting'[r].now = waiting[r].now
        BY <4>1
      <4> QED BY Zenon, <4>3, <4>4
    <3> QED BY <3>3
  <2>6. admitted' = [k \in Key |-> admitted'[k]]
    BY <2>1
  <2> QED BY <2>3, <2>4, <2>5, <2>6 DEF AdmittedInv
<1>4. CASE UNCHANGED Limits!vars
  <2>1. UNCHANGED <<limiterClock, entries, admitted>> /\ UNCHANGED waiting
    BY <1>4 DEF Limits!vars
  <2> QED BY <1>1, <2>1
<1> QED BY <1>2, <1>3, <1>4, AdmissionCounts DEF Limits!Next

\* In any time of the length of a window, less the waits for the mutex, a
\* client is admitted at most twice as often as the limit says, for any
\* limits, windows, table and waits (rate_limit.go 28-54).
THEOREM AtMostTwiceTheLimitAlways == Spec => []AtMostTwiceTheLimit
<1>1. LimitInv /\ AdmittedInv => AtMostTwiceTheLimit
  <2> SUFFICES ASSUME LimitInv, AdmittedInv, NEW k \in Key
               PROVE  Cardinality(admitted[k]) <= 2 * Maximum[k]
    BY LimitsCount DEF AtMostTwiceTheLimit, Limits!AtMostTwiceTheLimit
  <2>1. PICK old \in SUBSET admitted[k], reset \in Int, past \in Int : Windows(k, old, reset, past)
    BY DEF AdmittedInv
  <2> DEFINE cur == admitted[k] \ old
  <2>2. /\ IsFiniteSet(old) /\ IsFiniteSet(cur) /\ old \cup cur = admitted[k] /\ old \cap cur = {}
        /\ Cardinality(old) \in Nat /\ Cardinality(cur) \in Nat
    BY FS_Subset, FS_CardinalityType DEF AdmittedInv, Dated
  <2> HIDE DEF cur
  <2>3. Cardinality(admitted[k]) = Cardinality(old) + Cardinality(cur)
    <3>1. Cardinality(old \cup cur) = Cardinality(old) + Cardinality(cur) - Cardinality(old \cap cur)
      BY <2>2, FS_Union
    <3>2. Cardinality(old \cap cur) = 0
      BY <2>2, FS_EmptySet
    <3>3. Cardinality(old \cup cur) = Cardinality(old) + Cardinality(cur)
      BY <2>2, <3>1, <3>2
    <3> QED BY <2>2, <3>3
  <2>4. Maximum[k] \in Nat
    BY LimitsAssumption, LimitNumbers
  <2>5. Cardinality(old) <= Maximum[k] /\ Cardinality(cur) <= Maximum[k]
    <3>1. k \in DOMAIN entries => entries[k].count \in Nat /\ entries[k].count <= Maximum[k]
      BY <2>4 DEF LimitInv, Limits!TypeOK
    <3> QED BY <2>1, <2>2, <2>4, <3>1 DEF Windows, cur
  <2> QED BY <2>2, <2>3, <2>4, <2>5
<1>2. Init => LimitInv /\ AdmittedInv
  BY LimitsAssumption, InitOfAll, LimitInit, AdmittedInitially
<1>3. LimitInv /\ AdmittedInv /\ [Next]_vars => (LimitInv /\ AdmittedInv)'
  BY LimitsAssumption, StepOfOne, LimitNext, AdmittedNext
<1> QED BY <1>1, <1>2, <1>3, PTL DEF Spec

-----------------------------------------------------------------------------
(* Links, and the backlog of old ones: whichever of them is in focus       *)
LinkProofs == INSTANCE ReviewLinks_proofs WITH faults <- linkFaults, MaxTime <- MaxLinkTime

BacklogProofs == INSTANCE ReviewLinks_proofs WITH
  faults <- linkFaults, Instance <- Cleaner, MaxLinks <- MaxBacklog, TTL <- BacklogTTL,
  Retention <- BacklogRetention, Skew <- BacklogSkew, MaxTime <- MaxBacklogTime

EitherLinkInv ==
  IF focus = "links" THEN LinkProofs!LinkInv
  ELSE BacklogProofs!LinkInv /\ BacklogProofs!BacklogInv

LEMMA LinksAssume == LinkProofs!LinkAssumption /\ BacklogProofs!LinkAssumption
BY LinksAssumption
   DEF Links!LinkAssumption, LinkProofs!LinkAssumption, Backlog!LinkAssumption,
       BacklogProofs!LinkAssumption


LEMMA LinkInits == Init => EitherLinkInv
<1>1. Init /\ focus = "links" => LinkProofs!Init
  BY InitOfAll, Zenon DEF Links!Init, LinkProofs!Init, Links!Never, LinkProofs!Never
<1>2. Init /\ focus # "links" => BacklogProofs!Init
  BY InitOfAll, Zenon DEF Backlog!Init, BacklogProofs!Init, Backlog!Never, BacklogProofs!Never
<1> QED
  BY <1>1, <1>2, LinksAssume, LinkProofs!LinkInit, BacklogProofs!LinkInit,
     BacklogProofs!BacklogInit
  DEF EitherLinkInv

LEMMA LinkSteps ==
  ASSUME [Next]_vars
  PROVE  /\ focus = "links" => [LinkProofs!Next]_(LinkProofs!vars)
         /\ focus # "links" => [BacklogProofs!Next]_(BacklogProofs!vars)
<1>1. Links!Next => LinkProofs!Next
  BY Zenon
     DEF Links!Link, LinkProofs!Link, Links!Never, LinkProofs!Never, Links!Now,
         LinkProofs!Now, Links!Put, LinkProofs!Put, Links!Expiry, LinkProofs!Expiry,
         Links!CreateReviewLink, LinkProofs!CreateReviewLink, Links!ServeToken,
         LinkProofs!ServeToken, Links!Cutoff, LinkProofs!Cutoff, Links!Old,
         LinkProofs!Old, Links!FirstOf, LinkProofs!FirstOf, Links!IsDue,
         LinkProofs!IsDue, Links!Cleanup, LinkProofs!Cleanup, Links!FailCleanup,
         LinkProofs!FailCleanup, Links!Tick, LinkProofs!Tick, Links!Next,
         LinkProofs!Next, Links!Cardinality, LinkProofs!Cardinality
<1>2. Backlog!Next => BacklogProofs!Next
  BY Zenon
     DEF Backlog!Link, BacklogProofs!Link, Backlog!Never, BacklogProofs!Never,
         Backlog!Now, BacklogProofs!Now, Backlog!Put, BacklogProofs!Put, Backlog!Expiry,
         BacklogProofs!Expiry, Backlog!CreateReviewLink, BacklogProofs!CreateReviewLink,
         Backlog!ServeToken, BacklogProofs!ServeToken, Backlog!Cutoff,
         BacklogProofs!Cutoff, Backlog!Old, BacklogProofs!Old, Backlog!FirstOf,
         BacklogProofs!FirstOf, Backlog!IsDue, BacklogProofs!IsDue, Backlog!Cleanup,
         BacklogProofs!Cleanup, Backlog!FailCleanup, BacklogProofs!FailCleanup,
         Backlog!Tick, BacklogProofs!Tick, Backlog!Next, BacklogProofs!Next,
         Backlog!Cardinality, BacklogProofs!Cardinality
<1> QED
  BY <1>1, <1>2, StepOfOne
  DEF Links!vars, LinkProofs!vars, Backlog!vars, BacklogProofs!vars

LEMMA LinksHold == Spec => []EitherLinkInv
<1>1. EitherLinkInv /\ [Next]_vars => EitherLinkInv'
  BY LinksAssume, LinkSteps, StepOfOne, LinkProofs!LinkNext, BacklogProofs!LinkNext,
     BacklogProofs!BacklogNext
  DEF EitherLinkInv
<1> QED BY <1>1, LinkInits, PTL DEF Spec

LEMMA LinkTypes ==
  EitherLinkInv => IF focus = "links" THEN Links!TypeOK ELSE Backlog!TypeOK
BY LinksAssume, LinkProofs!LinkTypes, BacklogProofs!LinkTypes
   DEF EitherLinkInv, Links!TypeOK, LinkProofs!TypeOK, Backlog!TypeOK, BacklogProofs!TypeOK,
       Links!Link, LinkProofs!Link, Backlog!Link, BacklogProofs!Link

(* No link is gone before its TTL, less what the clocks differ by, and     *)
(* expired ones go a batch in each interval, an error or not               *)
(* (secure_link.go 90, 124; worker.go 135-158).                            *)
THEOREM LinksLastAndGoAlways == Spec => LinksLastAndGo
<1>1. EitherLinkInv /\ [Next]_vars => [focus = "links" => Links!NotBefore]_vars
  <2> SUFFICES ASSUME EitherLinkInv, [Next]_vars, focus = "links"
               PROVE  Links!NotBefore
    OBVIOUS
  <2> QED
    BY LinksAssume, LinkSteps, LinkProofs!LinkNotBefore
    DEF EitherLinkInv, Links!NotBefore, LinkProofs!NotBefore
<1>2. EitherLinkInv => (focus = "backlog" => Backlog!BacklogIsWorkedOff)
  <2> SUFFICES ASSUME EitherLinkInv, focus = "backlog" PROVE Backlog!BacklogIsWorkedOff
    OBVIOUS
  <2>1. BacklogProofs!BacklogIsWorkedOff
    BY LinksAssume, BacklogProofs!BacklogGoes DEF EitherLinkInv
  <2> QED
    BY <2>1, Zenon
    DEF Backlog!BacklogIsWorkedOff, BacklogProofs!BacklogIsWorkedOff, Backlog!Overdue,
        BacklogProofs!Overdue, Backlog!Cardinality, BacklogProofs!Cardinality
<1> QED BY <1>1, <1>2, LinksHold, PTL DEF Spec, LinksLastAndGo

-----------------------------------------------------------------------------
(* All of them together *)

(* The variables of every component have their types, and where the        *)
(* database has a constraint nothing that the code writes meets it: unique *)
(* emails and codes, one commit of a version, links that expire after they *)
(* were made; the limiter's table stays within its bound.                  *)
THEOREM TypesHold == Spec => []TypeOK
<1>1. Spec => []Stores!TypeOK
  <2>1. StoreProofs!Spec => []StoreProofs!TypeOK
    BY StoresAssume, StoreProofs!TypesHold
  <2>2. StoreProofs!TypeOK => Stores!TypeOK
    BY DEF Stores!TypeOK, StoreProofs!TypeOK, Stores!StoreId, StoreProofs!StoreId,
           Stores!Creations, StoreProofs!Creations, Stores!Roles, StoreProofs!Roles,
           Stores!Statuses, StoreProofs!Statuses
  <2> QED BY <2>1, <2>2, StoresBehave, PTL
<1>2. Spec => []Tests!TypeOK
  <2>1. TestProofs!Spec => []TestProofs!TypeOK
    BY TestsAssume, TestProofs!TypesHold
  <2>2. TestProofs!TypeOK => Tests!TypeOK
    BY DEF Tests!TypeOK, TestProofs!TypeOK
  <2> QED BY <2>1, <2>2, TestsBehave, PTL
<1>3. Spec => []LimitInv
  <2>1. Init => LimitInv
    BY LimitsAssumption, InitOfAll, LimitInit
  <2>2. LimitInv /\ [Next]_vars => LimitInv'
    BY LimitsAssumption, StepOfOne, LimitNext
  <2> QED BY <2>1, <2>2, PTL DEF Spec
<1>4. Stores!TypeOK /\ Tests!TypeOK /\ PageInv /\ SchemaInv /\ AccountInv /\ LimitInv
      /\ SendInv /\ EitherLinkInv => TypeOK
  BY PageTypes, SchemaTypesHold, AccountTypes, SendTypesHold, LinkTypes
  DEF LimitInv, TypeOK
<1> QED
  BY <1>1, <1>2, <1>3, <1>4, PagesHold, SchemaReachable, AccountsHold, SendsHold, LinksHold, PTL
=============================================================================
