------------------------ MODULE BrowserSession_proofs ------------------------
(***************************************************************************)
(* Proofs about BrowserSession and AuthSessions, for any number of tabs,   *)
(* queries and tokens.                                                     *)
(***************************************************************************)
EXTENDS BrowserSession, TLAPS, FiniteSetTheorems

-----------------------------------------------------------------------------
(* The inductive invariant *)

Cookie == 0..MaxTokens

Requests ==
  {Free}
    \cup [phase : {"begun"}, kind : {"login", "logout", "refresh"}, cookie : Cookie]
    \cup [phase : {"verified"}, kind : {"login"}, cookie : Cookie]
    \cup [phase : {"revoked"}, kind : {"refresh"}, cookie : Cookie]
    \cup [phase : {"answered"}, kind : {"login", "logout", "refresh"}, code : {201, 401, 500},
          token : Token \cup {0, keep}]

(* The server: rows without gaps, of logins that were made.                *)
ServerInv ==
  /\ made \in Cookie
  /\ session \in [Token -> Rows \cup {NoToken}]
  /\ handler \in [Handler -> Requests]
  /\ \A t \in Token : session[t] = NoToken <=> t > made
  /\ \A t \in Token : t <= made => session[t].login <= made

(* A login has one live token at most, and the transaction that updated    *)
(* its row is alone with it until it ends.                                 *)
OneLive ==
  \A t, u \in Token : Live(t) /\ Live(u) /\ session[t].login = session[u].login => t = u

HoldersAlone ==
  /\ \A h \in Handler : handler[h].phase = "revoked" => Live(handler[h].cookie)
  /\ \A g, h \in Handler :
       handler[g].phase = "revoked" /\ handler[h].phase = "revoked"
         /\ handler[g].cookie = handler[h].cookie => g = h

ServerIInv == ServerInv /\ OneLive /\ HoldersAlone

(* The browser: who waits for a refresh waits for one under way.           *)
Tabs == [phase : {"loading", "starting", "out", "in"}, access : Cookie]

Calls ==
  [phase : {"idle", "sent", "refused", "waiting", "done", "failed"}, token : Cookie, last : BOOLEAN]

ClientTypes ==
  /\ cookie \in Cookie /\ fresh \subseteq Token
  /\ tab \in [Tab -> Tabs] /\ call \in [Query -> Calls]

Awaited == \A q \in Query : call[q].phase = "waiting" => handler[PromiseOf(q)] # Free

(* Only logins and logouts are sent for a user; a success carries a token. *)
Expected(h, x) ==
  /\ x.kind # "refresh" => \E t \in Tab : h = User(t)
  /\ x.phase = "answered" /\ x.code = 201 /\ x.kind # "logout" => x.token \in Token

AllExpected == \A h \in Handler : handler[h] # Free => Expected(h, handler[h])

ClientInv == ClientTypes /\ Awaited /\ AllExpected

IInv == ServerIInv /\ ClientInv

-----------------------------------------------------------------------------
(* Requests and rows *)

\* What is known of a request in a phase.
LEMMA RequestCases ==
  ASSUME NEW x \in Requests
  PROVE  /\ x = Free <=> x.phase = "free"
         /\ x.phase \in {"free", "begun", "verified", "revoked", "answered"}
         /\ x # Free => x.kind \in {"login", "logout", "refresh"}
         /\ x.phase \in {"begun", "verified", "revoked"} => x.cookie \in Cookie
         /\ x.phase = "revoked" => x.kind = "refresh"
         /\ x.phase = "answered" => x.token \in Token \cup {0, keep}
<1>1. CASE x = Free
  BY <1>1 DEF Free
<1>2. CASE x \in [phase : {"begun"}, kind : {"login", "logout", "refresh"}, cookie : Cookie]
  BY <1>2 DEF Free
<1>3. CASE x \in [phase : {"verified"}, kind : {"login"}, cookie : Cookie]
  BY <1>3 DEF Free
<1>4. CASE x \in [phase : {"revoked"}, kind : {"refresh"}, cookie : Cookie]
  BY <1>4 DEF Free
<1>5. CASE x \in [phase : {"answered"}, kind : {"login", "logout", "refresh"}, code : {201, 401, 500},
                  token : Token \cup {0, keep}]
  BY <1>5 DEF Free
<1> QED BY <1>1, <1>2, <1>3, <1>4, <1>5 DEF Requests

\* Where a transaction goes on, only its phase changes.
LEMMA RequestGoesOn ==
  ASSUME NEW x \in Requests, x.phase = "begun"
  PROVE  /\ x.kind = "login" => [x EXCEPT !.phase = "verified"]
                                  = [phase |-> "verified", kind |-> "login", cookie |-> x.cookie]
         /\ x.kind = "refresh" => [x EXCEPT !.phase = "revoked"]
                                    = [phase |-> "revoked", kind |-> "refresh", cookie |-> x.cookie]
<1>1. x \in [phase : {"begun"}, kind : {"login", "logout", "refresh"}, cookie : Cookie]
  BY DEF Requests, Free
<1> QED BY <1>1

LEMMA NewRequests ==
  /\ Free \in Requests
  /\ \A k \in {"login", "logout", "refresh"}, c \in Cookie :
       [phase |-> "begun", kind |-> k, cookie |-> c] \in Requests
  /\ \A c \in Cookie : /\ [phase |-> "verified", kind |-> "login", cookie |-> c] \in Requests
                       /\ [phase |-> "revoked", kind |-> "refresh", cookie |-> c] \in Requests
  /\ \A k \in {"login", "logout", "refresh"}, n \in {201, 401, 500}, t \in Token \cup {0, keep} :
       [phase |-> "answered", kind |-> k, code |-> n, token |-> t] \in Requests
BY DEF Requests

\* A login has its one live token, or none.
LEMMA WorkingIsTheLiveToken ==
  ASSUME OneLive, NEW l \in Token
  PROVE  /\ LiveOf(l) = {} => Working[l] = NoToken
         /\ \A t \in LiveOf(l) : LiveOf(l) = {t} /\ Working[l] = t
<1>1. ASSUME NEW t \in LiveOf(l) PROVE LiveOf(l) = {t}
  BY <1>1 DEF OneLive, LiveOf
<1>2. Working[l] = OneOf(LiveOf(l))
  BY DEF Working
<1>3. ASSUME NEW t \in LiveOf(l) PROVE OneOf(LiveOf(l)) = t
  <2>1. LiveOf(l) = {t}
    BY <1>1, <1>3
  <2> QED BY <2>1 DEF OneOf
<1> QED BY <1>1, <1>2, <1>3 DEF OneOf

-----------------------------------------------------------------------------
(* The server *)

\* A request goes on and no row changes.
LEMMA HandlerMoves ==
  ASSUME ServerIInv, NEW h \in Handler, NEW x \in Requests, Go(h, x), UNCHANGED <<session, made>>,
         x.phase = "revoked" => Live(x.cookie) /\ Holders(x.cookie) = {}
  PROVE  ServerIInv'
<1>1. /\ handler' \in [Handler -> Requests] /\ handler'[h] = x
      /\ \A g \in Handler : g # h => handler'[g] = handler[g]
  BY DEF Go, ServerIInv, ServerInv
<1>2. UNCHANGED session /\ UNCHANGED made
  OBVIOUS
<1>3. \A t : Live(t)' <=> Live(t)
  BY <1>2 DEF Live
<1>4. ServerInv'
  BY <1>1, <1>2 DEF ServerIInv, ServerInv
<1>5. OneLive'
  BY <1>2, <1>3 DEF ServerIInv, OneLive
<1>6. HoldersAlone'
  <2>1. ASSUME NEW g \in Handler, handler'[g].phase = "revoked" PROVE Live(handler'[g].cookie)
    BY <1>1, <2>1 DEF ServerIInv, HoldersAlone
  <2>2. ASSUME NEW f \in Handler, NEW g \in Handler, handler'[f].phase = "revoked",
               handler'[g].phase = "revoked", handler'[f].cookie = handler'[g].cookie
        PROVE  f = g
    <3>1. CASE f # h /\ g # h
      BY <1>1, <2>2, <3>1 DEF ServerIInv, HoldersAlone
    <3>2. CASE f = h \/ g = h
      BY <1>1, <2>2, <3>2 DEF Holders
    <3> QED BY <3>1, <3>2
  <2> QED BY <1>3, <2>1, <2>2 DEF HoldersAlone
<1> QED BY <1>4, <1>5, <1>6 DEF ServerIInv

\* Rows change together with a request that ends, and no other request holds
\* a row that was live and is not.
LEMMA RowsChange ==
  ASSUME ServerIInv, ServerInv', OneLive',
         \A g \in Handler : handler'[g].phase = "revoked" =>
           handler'[g] = handler[g] /\ Live(handler[g].cookie)'
  PROVE  ServerIInv'
BY DEF ServerIInv, HoldersAlone

\* What a step of the abstract specification is, on the rows.
AbstractStep == Rotation!Next \/ UNCHANGED <<Working, made>>

\* No row changes: the abstract specification stutters.
LEMMA RowsStay ==
  ASSUME UNCHANGED <<session, made>>
  PROVE  AbstractStep
<1>1. UNCHANGED session /\ UNCHANGED made
  OBVIOUS
<1>2. \A l : LiveOf(l)' = LiveOf(l)
  BY <1>1 DEF LiveOf, Live
<1>3. UNCHANGED Working
  BY <1>2 DEF Working
<1> QED BY <1>1, <1>3 DEF AbstractStep

\* One login loses its token, or rotates it: what the others have stays.
LEMMA OneLoginChanges ==
  ASSUME ServerIInv, OneLive', NEW l \in Token,
         \A k \in Token : k # l => LiveOf(k)' = LiveOf(k)
  PROVE  /\ LiveOf(l)' = {} => Working' = [Working EXCEPT ![l] = NoToken]
         /\ \A t \in Token : t \in LiveOf(l)' => Working' = [Working EXCEPT ![l] = t]
<1>1. \A k \in Token : k # l => Working'[k] = Working[k]
  BY DEF Working
<1>2. LiveOf(l)' = {} => Working'[l] = NoToken
  BY DEF Working, OneOf
<1>3. ASSUME NEW t \in Token, t \in LiveOf(l)' PROVE Working'[l] = t
  <2>1. LiveOf(l)' = {t}
    BY <1>3 DEF OneLive, LiveOf
  <2>2. Working'[l] = OneOf(LiveOf(l)')
    BY DEF Working
  <2> QED BY <2>1, <2>2 DEF OneOf
<1>4. DOMAIN Working = Token /\ DOMAIN Working' = Token
      /\ Working = [k \in Token |-> Working[k]] /\ Working' = [k \in Token |-> Working'[k]]
  BY DEF Working
<1> QED BY <1>1, <1>2, <1>3, <1>4

\* A login: its token is new, and the first of its login.
LEMMA LogInIsSound ==
  ASSUME ServerIInv, NEW h \in Handler, LogIn(h)
  PROVE  ServerIInv' /\ Rotation!Next
<1>00. made \in Nat /\ MaxTokens \in Nat /\ made < MaxTokens /\ made + 1 \in Token
  BY TokenAssumption DEF LogIn, ServerIInv, ServerInv, Cookie, Token
<1> PICK m \in Token : m = made + 1
  BY <1>00
<1>0. made \in Nat /\ MaxTokens \in Nat /\ made < MaxTokens /\ m \in Token /\ m = made + 1
  BY <1>00
<1>1. /\ made' = m /\ session' = [session EXCEPT ![m] = Row(m)] /\ Row(m) \in Rows
  BY <1>0 DEF LogIn, Row, Rows
<1>2. /\ session'[m] = [state |-> "live", login |-> m] /\ session[m] = NoToken
      /\ \A t \in Token : t # m => session'[t] = session[t]
  BY <1>0, <1>1 DEF ServerIInv, ServerInv, Row
<1>l. session'[m].login = m /\ \A t \in Token : t # m => session'[t].login = session[t].login
  BY <1>2
<1>3. \A t \in Token : Live(t)' <=> Live(t) \/ t = m
  <2>1. session'[m] # NoToken /\ session'[m].state = "live" /\ ~Live(m)
    BY <1>0, <1>1, <1>2, TokenAssumption DEF Row, Live
  <2> QED BY <1>0, <1>2, <2>1 DEF Live
<1>4. \A t \in Token : Live(t) => t # m /\ session[t].login # m
  BY SMTT(60), <1>0, <1>2 DEF Live, ServerIInv, ServerInv, Rows, Token
<1>5. OneLive'
  BY <1>2, <1>3, <1>4 DEF OneLive, ServerIInv
<1>6. ServerInv'
  <2>1. handler' \in [Handler -> Requests]
    <3>1. handler[h].kind \in {"login", "logout", "refresh"}
      BY RequestCases DEF LogIn, At, ServerIInv, ServerInv
    <3>2. m \in Token \cup {0, keep} /\ keep \in Token \cup {0, keep}
      BY <1>0
    <3> QED BY <1>1, <3>1, <3>2, NewRequests DEF LogIn, Answer, Go, ServerIInv, ServerInv
  <2>2. session' \in [Token -> Rows \cup {NoToken}] /\ made' \in Cookie
    BY <1>0, <1>1 DEF ServerIInv, ServerInv, Cookie
  <2>3. \A t \in Token : session'[t] = NoToken <=> t > made'
    BY <1>0, <1>1, <1>2, TokenAssumption DEF ServerIInv, ServerInv, Token
  <2>4. ASSUME NEW t \in Token, t <= made' PROVE session'[t].login <= made'
    <3>1. CASE t = m
      BY <1>0, <1>1, <1>2, <3>1
    <3>2. CASE t # m
      <4>1. t <= made /\ session'[t] = session[t]
        BY <1>0, <1>1, <1>2, <2>4, <3>2 DEF Token
      <4>2. session[t] \in Rows /\ session[t].login <= made
        BY <1>0, <4>1 DEF ServerIInv, ServerInv, Token
      <4>3. session[t].login \in Int
        BY <4>2 DEF Rows, Token
      <4> QED BY <1>0, <1>1, <4>1, <4>2, <4>3
    <3> QED BY <3>1, <3>2
  <2> QED BY <2>1, <2>2, <2>3, <2>4 DEF ServerInv
<1>7. ServerIInv'
  <2>1. handler'[h].phase = "answered" /\ \A g \in Handler : g # h => handler'[g] = handler[g]
    BY DEF LogIn, Answer, Go, ServerIInv, ServerInv
  <2> QED BY <1>3, <1>5, <1>6, <2>1, RowsChange DEF ServerIInv, HoldersAlone, Live
<1>8. Rotation!Next
  <2>1. LiveOf(m)' = {m} /\ LiveOf(m) = {}
    <3>1. \A t \in Token : t \in LiveOf(m)' <=> t = m
      BY <1>0, <1>l, <1>3, <1>4 DEF LiveOf
    <3>2. \A t \in Token : t \notin LiveOf(m)
      BY <1>4 DEF LiveOf
    <3> QED BY <1>0, <3>1, <3>2 DEF LiveOf
  <2>2. \A k \in Token : k # m => LiveOf(k)' = LiveOf(k)
    BY <1>l, <1>3, <1>4 DEF LiveOf
  <2>3. Working' = [Working EXCEPT ![m] = m]
    BY <1>0, <1>5, <2>1, <2>2, OneLoginChanges
  <2>4. Working[m] = NoToken
    BY <1>0, <2>1, WorkingIsTheLiveToken DEF ServerIInv
  <2>5. m \notin 1..made /\ 1..made' = (1..made) \cup {m}
    BY <1>0, <1>1
  <2>6. Rotation!SignIn(m)
    BY <2>3, <2>4, <2>5 DEF Rotation!SignIn, Rotation!Give
  <2> QED BY <1>0, <2>6 DEF Rotation!Next
<1> QED BY <1>7, <1>8

\* A refresh ends: one token is used up, the new one has its place.
LEMMA RenewIsSound ==
  ASSUME ServerIInv, NEW h \in Handler, Renew(h), active
  PROVE  ServerIInv' /\ Rotation!Next
<1>00. made \in Nat /\ MaxTokens \in Nat /\ made < MaxTokens /\ made + 1 \in Token
  BY TokenAssumption DEF Renew, ServerIInv, ServerInv, Cookie, Token
<1>01. Live(handler[h].cookie) /\ handler[h].cookie \in Token
  BY DEF Renew, At, Live, ServerIInv, HoldersAlone
<1> PICK m \in Token : m = made + 1
  BY <1>00
<1> PICK t \in Token : t = handler[h].cookie
  BY <1>01
<1>02. session[t] \in Rows
  BY <1>01 DEF Live, ServerIInv, ServerInv
<1> PICK l \in Token : l = session[t].login
  BY <1>02 DEF Rows
<1>0. made \in Nat /\ MaxTokens \in Nat /\ made < MaxTokens /\ m \in Token /\ m = made + 1
  BY <1>00
<1>1. /\ Live(t) /\ t \in Token /\ session[t] \in Rows /\ t <= made /\ t # m /\ l \in Token /\ l <= made
      /\ l = session[t].login
  <2>1. t <= made
    BY <1>0, <1>01 DEF Live, ServerIInv, ServerInv, Token
  <2> QED BY <1>0, <1>01, <1>02, <2>1 DEF ServerIInv, ServerInv
<1>2. /\ made' = m /\ session' = [session EXCEPT ![t] = Dead(@), ![m] = Row(l)]
      /\ handler' = [handler EXCEPT ![h] =
           [phase |-> "answered", kind |-> "refresh", code |-> 201, token |-> m]]
  BY DEF Renew, Answer, Go, At
<1>m. made' = m
  BY <1>0, <1>2
<1>3. Row(l) \in Rows /\ Dead(session[t]) \in Rows /\ Dead(session[t]).state = "revoked"
      /\ Dead(session[t]).login = l
  BY <1>1 DEF Row, Rows, Dead
<1>4. /\ session'[m] = Row(l) /\ session[m] = NoToken /\ session'[t] = Dead(session[t])
      /\ \A u \in Token : u # m /\ u # t => session'[u] = session[u]
  BY <1>0, <1>1, <1>2 DEF ServerIInv, ServerInv
<1>5. Row(l).state = "live" /\ Row(l).login = l
  BY DEF Row
<1>6. \A u \in Token : Live(u)' <=> (Live(u) /\ u # t) \/ u = m
  BY <1>0, <1>3, <1>4, <1>5, TokenAssumption DEF Live
<1>7. \A u \in Token : Live(u) /\ session[u].login = l => u = t
  BY <1>1 DEF ServerIInv, OneLive
<1>8. ~Live(m)
  BY <1>4 DEF Live
<1>9. OneLive'
  BY <1>4, <1>5, <1>6, <1>7, <1>8 DEF OneLive, ServerIInv
<1>10. ServerInv'
  <2>1. handler' \in [Handler -> Requests]
    BY <1>0, <1>2, NewRequests DEF ServerIInv, ServerInv
  <2>2. session' \in [Token -> Rows \cup {NoToken}] /\ made' \in Cookie
    BY <1>0, <1>2, <1>3 DEF ServerIInv, ServerInv, Cookie
  <2>3. \A u \in Token : session'[u] = NoToken <=> u > made'
    <3> SUFFICES ASSUME NEW u \in Token PROVE session'[u] = NoToken <=> u > m
      BY <1>2
    <3>1. CASE u = t \/ u = m
      BY <1>0, <1>1, <1>3, <1>4, <3>1, TokenAssumption DEF Token
    <3>2. CASE u # t /\ u # m
      BY <1>0, <1>4, <3>2 DEF ServerIInv, ServerInv, Token
    <3> QED BY <3>1, <3>2
  <2>4. ASSUME NEW u \in Token, u <= made' PROVE session'[u].login <= made'
    <3>1. CASE u = t \/ u = m
      BY <1>0, <1>1, <1>m, <1>3, <1>4, <1>5, <3>1 DEF Token
    <3>2. CASE u # t /\ u # m
      <4>1. u <= made /\ session'[u] = session[u]
        BY <1>0, <1>m, <1>4, <2>4, <3>2 DEF Token
      <4>2. session[u] \in Rows /\ session[u].login <= made
        BY <1>0, <4>1 DEF ServerIInv, ServerInv, Token
      <4>3. session[u].login \in Int
        BY <4>2 DEF Rows, Token
      <4> QED BY <1>0, <1>2, <4>1, <4>2, <4>3
    <3> QED BY <3>1, <3>2
  <2> QED BY <2>1, <2>2, <2>3, <2>4 DEF ServerInv
<1>11. ServerIInv'
  <2>1. handler'[h].phase = "answered" /\ \A g \in Handler : g # h => handler'[g] = handler[g]
    BY <1>2 DEF ServerIInv, ServerInv
  <2>2. \A g \in Handler : handler[g].phase = "revoked" /\ g # h => handler[g].cookie # t
    BY DEF Renew, At, ServerIInv, HoldersAlone
  <2>3. \A g \in Handler : handler[g].phase = "revoked" => Live(handler[g].cookie) /\ handler[g].cookie \in Token
    BY DEF ServerIInv, HoldersAlone, Live
  <2> QED BY <1>6, <1>9, <1>10, <2>1, <2>2, <2>3, RowsChange
<1>12. Rotation!Next
  <2>1. m \in LiveOf(l)' /\ t \in LiveOf(l)
    BY <1>0, <1>1, <1>4, <1>5, <1>6 DEF LiveOf
  <2>2. \A k \in Token : k # l => LiveOf(k)' = LiveOf(k)
    BY <1>1, <1>4, <1>5, <1>6, <1>8 DEF LiveOf
  <2>3. Working' = [Working EXCEPT ![l] = m]
    BY <1>0, <1>1, <1>9, <2>1, <2>2, OneLoginChanges
  <2>4. Working[l] # NoToken
    BY <1>1, <2>1, WorkingIsTheLiveToken, TokenAssumption DEF ServerIInv
  <2>5. m \notin 1..made /\ 1..made' = (1..made) \cup {m}
    BY <1>0, <1>2
  <2>6. Rotation!Rotate(l, m)
    BY <2>3, <2>4, <2>5 DEF Rotation!Rotate, Rotation!Give
  <2> QED BY <1>0, <1>1, <2>6 DEF Rotation!Next
<1> QED BY <1>11, <1>12

\* A token dies that no transaction holds: a logout, or its time is over.
LEMMA TokenDies ==
  ASSUME ServerIInv, NEW t \in Token, Live(t), Holders(t) = {}, UNCHANGED made,
         NEW r \in Rows, r.state # "live", r.login = session[t].login,
         session' = [session EXCEPT ![t] = r],
         handler' \in [Handler -> Requests],
         \A g \in Handler : handler'[g] = handler[g] \/ handler'[g].phase = "answered"
  PROVE  ServerIInv' /\ Rotation!Next
<1> DEFINE l == session[t].login
<1>1. session[t] \in Rows /\ l \in Token /\ t <= made /\ UNCHANGED made
  BY TokenAssumption DEF Live, ServerIInv, ServerInv, Rows, Cookie, Token
<1>2. session'[t] = r /\ \A u \in Token : u # t => session'[u] = session[u]
  BY DEF ServerIInv, ServerInv
<1>3. \A u \in Token : Live(u)' <=> Live(u) /\ u # t
  BY <1>2 DEF Live
<1>4. OneLive'
  BY <1>2, <1>3 DEF ServerIInv, OneLive
<1>5. ServerInv'
  <2>1. \A u \in Token : session'[u] = NoToken <=> session[u] = NoToken
    BY <1>1, <1>2, TokenAssumption
  <2>2. \A u \in Token : session[u] # NoToken => session'[u].login = session[u].login
    BY <1>2
  <2>3. session' \in [Token -> Rows \cup {NoToken}]
    BY DEF ServerIInv, ServerInv
  <2>4. \A u \in Token : u <= made' => session'[u].login <= made'
    BY <1>1, <1>2 DEF ServerIInv, ServerInv
  <2> QED BY <1>1, <2>1, <2>3, <2>4 DEF ServerIInv, ServerInv
<1>6. ServerIInv'
  <2>1. \A g \in Handler : handler[g].phase = "revoked" =>
          handler[g].cookie # t /\ Live(handler[g].cookie) /\ handler[g].cookie \in Token
    BY DEF Holders, ServerIInv, HoldersAlone, Live
  <2> QED BY <1>3, <1>4, <1>5, <2>1, RowsChange
<1>7. Rotation!Next
  <2>1. LiveOf(l)' = {}
    BY <1>2, <1>3 DEF LiveOf, ServerIInv, OneLive
  <2>2. \A k \in Token : k # l => LiveOf(k)' = LiveOf(k)
    BY <1>2, <1>3 DEF LiveOf
  <2>3. Working' = [Working EXCEPT ![l] = NoToken]
    BY <1>1, <1>4, <2>1, <2>2, OneLoginChanges
  <2>4. Rotation!End(l)
    BY <1>1, <2>3 DEF Rotation!End
  <2> QED BY <1>1, <2>4 DEF Rotation!Next
<1> QED BY <1>6, <1>7

\* What a client may rely on while its request is served: it stays the same
\* request, and a success carries a token.
Serves(h, x) ==
  /\ handler[h] # Free /\ Go(h, x)
  /\ x \in Requests /\ x # Free /\ x.kind = handler[h].kind
  /\ x.phase = "answered" /\ x.code = 201 /\ x.kind # "logout" => x.token \in Token

\* Any step of a handler at the server.
LEMMA ServerStepIsSound ==
  ASSUME ServerIInv, NEW h \in Handler, ServerStep(h) \/ FailRefresh(h) \/ FailLogOut(h)
  PROVE  ServerIInv' /\ AbstractStep /\ \E x : Serves(h, x)
<1>1. handler[h] \in Requests /\ handler[h] # Free
      /\ handler[h].kind \in {"login", "logout", "refresh"}
  <2>1. handler[h] \in Requests
    BY DEF ServerIInv, ServerInv
  <2>2. handler[h].phase \in {"begun", "verified", "revoked"}
    BY DEF ServerStep, Verify, LogIn, Revoke, Renew, LogOut, FailRefresh, FailLogOut, At
  <2> QED BY <2>1, <2>2, RequestCases
<1>2. ASSUME NEW x, Serves(h, x), UNCHANGED <<session, made>>,
             x.phase = "revoked" => Live(x.cookie) /\ Holders(x.cookie) = {}
      PROVE  ServerIInv' /\ AbstractStep /\ \E y : Serves(h, y)
  BY <1>2, HandlerMoves, RowsStay DEF Serves
<1>3. ASSUME NEW n \in {201, 401, 500}, NEW t \in Token \cup {0, keep}, Answer(h, n, t),
             n = 201 /\ handler[h].kind # "logout" => t \in Token
      PROVE  \E x : Serves(h, x) /\ x.phase = "answered"
  <2> DEFINE x == [phase |-> "answered", kind |-> handler[h].kind, code |-> n, token |-> t]
  <2>1. x \in Requests /\ x.phase = "answered" /\ x.kind = handler[h].kind /\ x.code = n /\ x.token = t
    BY <1>1, NewRequests
  <2>2. x # Free
    BY <2>1 DEF Free
  <2>3. Go(h, x)
    BY <1>3 DEF Answer
  <2> HIDE DEF x
  <2> QED BY <1>1, <1>3, <2>1, <2>2, <2>3 DEF Serves
<1>4. ASSUME NEW n \in {201, 401, 500}, NEW t \in Token \cup {0, keep}, Answer(h, n, t),
             n = 201 /\ handler[h].kind # "logout" => t \in Token, UNCHANGED <<session, made>>
      PROVE  ServerIInv' /\ AbstractStep /\ \E x : Serves(h, x)
  <2>1. PICK x : Serves(h, x) /\ x.phase = "answered"
    BY <1>3, <1>4
  <2> QED BY <1>2, <1>4, <2>1
<1>k. keep \in Token \cup {0, keep} /\ 0 \in Token \cup {0, keep}
  OBVIOUS
<1>5. CASE Verify(h)
  <2>1. CASE Answer(h, 401, keep)
    BY <1>4, <1>5, <1>k, <2>1 DEF Verify
  <2>2. CASE Go(h, [handler[h] EXCEPT !.phase = "verified"])
    <3> DEFINE x == [phase |-> "verified", kind |-> "login", cookie |-> handler[h].cookie]
    <3>1. Go(h, x) /\ handler[h].kind = "login" /\ handler[h].cookie \in Cookie
      BY <1>1, <1>5, <2>2, RequestGoesOn, RequestCases DEF Verify, At
    <3>2. x \in Requests /\ x.phase = "verified" /\ x.kind = "login" /\ x # Free
      BY ZenonT(60), <3>1, NewRequests DEF Free
    <3> HIDE DEF x
    <3>3. Serves(h, x)
      BY <1>1, <3>1, <3>2 DEF Serves
    <3> QED BY <1>2, <1>5, <3>2, <3>3 DEF Verify
  <2> QED BY <1>5, <2>1, <2>2 DEF Verify
<1>6. CASE LogIn(h)
  <2>1. made' \in Token
    BY <1>6, TokenAssumption DEF LogIn, ServerIInv, ServerInv, Cookie, Token
  <2>2. Answer(h, 201, made') \/ Answer(h, 500, keep)
    BY <1>6 DEF LogIn
  <2>3. \E x : Serves(h, x)
    BY <1>3, <1>k, <2>1, <2>2
  <2> QED BY <1>6, <2>3, LogInIsSound DEF AbstractStep
<1>7. CASE Revoke(h)
  <2>1. CASE Answer(h, 401, keep)
    BY <1>4, <1>7, <1>k, <2>1 DEF Revoke
  <2>2. CASE Go(h, [handler[h] EXCEPT !.phase = "revoked"]) /\ Live(handler[h].cookie)
    <3> DEFINE x == [phase |-> "revoked", kind |-> "refresh", cookie |-> handler[h].cookie]
    <3>1. /\ Go(h, x) /\ handler[h].kind = "refresh" /\ handler[h].cookie \in Cookie
          /\ Holders(handler[h].cookie) = {}
      BY <1>1, <1>7, <2>2, RequestGoesOn, RequestCases DEF Revoke, At
    <3>2. /\ x \in Requests /\ x.phase = "revoked" /\ x.kind = "refresh" /\ x # Free
          /\ x.cookie = handler[h].cookie
      BY ZenonT(60), <3>1, NewRequests DEF Free
    <3> HIDE DEF x
    <3>3. Serves(h, x)
      BY <1>1, <3>1, <3>2 DEF Serves
    <3> QED BY <1>2, <1>7, <2>2, <3>1, <3>2, <3>3 DEF Revoke
  <2> QED BY <1>7, <2>1, <2>2 DEF Revoke
<1>8. CASE Renew(h)
  <2>1. CASE active
    <3>1. made' \in Token /\ Answer(h, 201, made')
      BY <1>8, <2>1, TokenAssumption DEF Renew, ServerIInv, ServerInv, Cookie, Token
    <3>2. \E x : Serves(h, x)
      BY <1>3, <3>1
    <3> QED BY <1>8, <2>1, <3>2, RenewIsSound DEF AbstractStep
  <2>2. CASE ~active
    BY <1>4, <1>8, <1>k, <2>2 DEF Renew
  <2> QED BY <2>1, <2>2
<1>9. CASE LogOut(h)
  <2>0. PICK t : t = handler[h].cookie
    OBVIOUS
  <2>1. Holders(t) = {} /\ Answer(h, 201, 0) /\ UNCHANGED made /\ handler[h].kind = "logout"
    BY <1>9, <2>0 DEF LogOut, At
  <2>2. \A u \in Token : session'[u] = IF u = t /\ session[u] # NoToken THEN Dead(session[u]) ELSE session[u]
    BY <1>9, <2>0 DEF LogOut
  <2>3. PICK x : Serves(h, x) /\ x.phase = "answered"
    BY <1>3, <1>k, <2>1
  <2>4. /\ handler' \in [Handler -> Requests]
        /\ \A g \in Handler : handler'[g] = handler[g] \/ handler'[g].phase = "answered"
    BY <2>3 DEF Serves, Go, ServerIInv, ServerInv
  <2>5. session' = [u \in Token |-> session'[u]] /\ session = [u \in Token |-> session[u]]
    BY <1>9 DEF LogOut, ServerIInv, ServerInv
  <2>6. \A u \in Token : session[u] # NoToken =>
          Dead(session[u]) \in Rows /\ Dead(session[u]).state = "revoked"
            /\ Dead(session[u]).login = session[u].login
    BY DEF Dead, Rows, ServerIInv, ServerInv
  <2>7. CASE Live(t)
    <3> DEFINE r == Dead(session[t])
    <3>1. t \in Token /\ session[t] # NoToken
      BY <2>7 DEF Live
    <3>2. r \in Rows /\ r.state # "live" /\ r.login = session[t].login
      BY <2>6, <3>1
    <3>3. session' = [session EXCEPT ![t] = r]
      BY <2>2, <2>5, <3>1
    <3> HIDE DEF r
    <3> QED BY <2>1, <2>3, <2>4, <2>7, <3>1, <3>2, <3>3, TokenDies DEF AbstractStep
  <2>8. CASE ~Live(t)
    <3>1. /\ \A u \in Token : Live(u)' <=> Live(u)
          /\ \A u \in Token : session[u] = NoToken <=> session'[u] = NoToken
          /\ \A u \in Token : session[u] # NoToken => session'[u].login = session[u].login
          /\ session' \in [Token -> Rows \cup {NoToken}]
      <4>1. ASSUME NEW u \in Token
            PROVE  /\ Live(u)' <=> Live(u)
                   /\ session[u] = NoToken <=> session'[u] = NoToken
                   /\ session[u] # NoToken => session'[u].login = session[u].login
                   /\ session'[u] \in Rows \cup {NoToken}
        <5>1. CASE u = t /\ session[u] # NoToken
          BY <2>2, <2>6, <2>8, <5>1, TokenAssumption DEF Live
        <5>2. CASE ~(u = t /\ session[u] # NoToken)
          BY <2>2, <5>2 DEF Live, ServerIInv, ServerInv
        <5> QED BY <5>1, <5>2
      <4> QED BY <2>5, <4>1
    <3>2. \A u \in Token : Live(u) => session'[u].login = session[u].login
      BY <3>1 DEF Live
    <3>3. OneLive'
      BY <3>1, <3>2 DEF OneLive, ServerIInv
    <3>4. ServerInv'
      <4>1. UNCHANGED made
        BY <2>1
      <4>2. \A u \in Token : session'[u] = NoToken <=> u > made'
        BY <3>1, <4>1 DEF ServerIInv, ServerInv
      <4>3. \A u \in Token : u <= made' => session'[u].login <= made'
        <5> SUFFICES ASSUME NEW u \in Token, u <= made PROVE session'[u].login <= made
          BY <4>1
        <5>1. ~(u > made)
          BY TokenAssumption DEF ServerIInv, ServerInv, Cookie, Token
        <5>2. session[u] # NoToken
          BY <5>1 DEF ServerIInv, ServerInv
        <5> QED BY <3>1, <5>2 DEF ServerIInv, ServerInv
      <4> QED BY <2>4, <3>1, <4>1, <4>2, <4>3 DEF ServerIInv, ServerInv
    <3>5. ServerIInv'
      <4>1. \A g \in Handler : handler[g].phase = "revoked" => Live(handler[g].cookie) /\ handler[g].cookie \in Token
        BY DEF ServerIInv, HoldersAlone, Live
      <4> QED BY <2>4, <3>1, <3>3, <3>4, <4>1, RowsChange
    <3>6. \A l : LiveOf(l)' = LiveOf(l)
      BY <3>1, <3>2 DEF LiveOf
    <3>7. UNCHANGED Working
      BY <3>6 DEF Working
    <3> QED BY <2>1, <2>3, <3>5, <3>7 DEF AbstractStep
  <2> QED BY <2>7, <2>8
<1>10. CASE FailRefresh(h)
  BY <1>4, <1>10, <1>k DEF FailRefresh
<1>11. CASE FailLogOut(h)
  BY <1>4, <1>11, <1>k DEF FailLogOut, At
<1> QED BY <1>5, <1>6, <1>7, <1>8, <1>9, <1>10, <1>11 DEF ServerStep

-----------------------------------------------------------------------------
(* The browser *)

\* A request that goes on at the server concerns nobody in the browser.
LEMMA ClientUndisturbed ==
  ASSUME IInv, NEW h \in Handler, NEW x, Serves(h, x), UNCHANGED clientVars
  PROVE  ClientInv'
<1>1. handler'[h] = x /\ \A g \in Handler : g # h => handler'[g] = handler[g]
  BY DEF Serves, Go, IInv, ServerIInv, ServerInv
<1>2. UNCHANGED cookie /\ UNCHANGED fresh /\ UNCHANGED tab /\ UNCHANGED call
  BY DEF clientVars
<1>3. ClientTypes'
  BY <1>2 DEF ClientTypes, IInv, ClientInv
<1>4. Awaited'
  <2>1. \A q \in Query : PromiseOf(q) \in Handler
    BY HandlerAssumption DEF PromiseOf, Refresh
  <2> QED BY <1>1, <1>2, <2>1 DEF Awaited, Serves, IInv, ClientInv
<1>5. AllExpected'
  BY <1>1 DEF AllExpected, Expected, Serves, IInv, ClientInv
<1> QED BY <1>3, <1>4, <1>5 DEF ClientInv

\* A request that the browser sends.
LEMMA ArriveIsSound ==
  ASSUME IInv, NEW h \in Handler, NEW kind \in {"login", "logout", "refresh"},
         Arrive(h, kind, cookie), kind # "refresh" => \E t \in Tab : h = User(t),
         UNCHANGED <<session, made>>
  PROVE  /\ ServerIInv' /\ AbstractStep /\ AllExpected'
         /\ handler'[h] # Free /\ \A g \in Handler : g # h => handler'[g] = handler[g]
<1> DEFINE x == [phase |-> "begun", kind |-> kind, cookie |-> cookie]
<1>1. /\ Go(h, x) /\ x \in Requests /\ x # Free /\ x.phase = "begun" /\ x.kind = kind
  BY NewRequests DEF Arrive, Free, IInv, ClientInv, ClientTypes
<1> HIDE DEF x
<1>2. handler'[h] = x /\ \A g \in Handler : g # h => handler'[g] = handler[g]
  BY <1>1 DEF Go, IInv, ServerIInv, ServerInv
<1>3. ServerIInv' /\ AbstractStep
  BY <1>1, HandlerMoves, RowsStay DEF IInv
<1>4. AllExpected'
  BY <1>1, <1>2 DEF AllExpected, Expected, IInv, ClientInv
<1> QED BY <1>1, <1>2, <1>3, <1>4

\* A request ends in the browser; those who waited for it go on.
LEMMA EndIsSound ==
  ASSUME IInv, NEW h \in Handler, handler[h].phase = "answered", NEW token, NEW ok \in BOOLEAN,
         End(h, token, ok), ok => token = handler[h].token /\ handler[h].code = 201,
         UNCHANGED <<session, made>>, cookie' \in Cookie, fresh' \subseteq Token
  PROVE  IInv' /\ AbstractStep
<1>1. handler[h] \in Requests /\ handler[h] # Free
  <2>1. handler[h] \in Requests
    BY DEF IInv, ServerIInv, ServerInv
  <2> QED BY <2>1, RequestCases
<1>2. Expected(h, handler[h])
  BY <1>1 DEF IInv, ClientInv, AllExpected
<1>3. Go(h, Free)
  BY DEF End, EndRefresh, EndUser, Go
<1>4. handler'[h] = Free /\ \A g \in Handler : g # h => handler'[g] = handler[g]
  BY <1>3 DEF Go, IInv, ServerIInv, ServerInv
<1>5. ServerIInv' /\ AbstractStep
  <2>1. Free.phase # "revoked"
    BY DEF Free
  <2> QED BY <1>3, <2>1, HandlerMoves, RowsStay, NewRequests DEF IInv
<1>6. AllExpected'
  BY <1>4 DEF AllExpected, IInv, ClientInv
<1>7. ClientTypes /\ Awaited
  BY DEF IInv, ClientInv
<1>8. CASE handler[h].kind = "refresh"
  <2> DEFINE good == IF ok THEN token ELSE 0
             s == h[1]
  <2>1. EndRefresh(h, good)
    BY <1>8 DEF End
  <2>2. good \in Cookie
    BY <1>2, <1>8, TokenAssumption DEF Expected, Token, Cookie
  <2> HIDE DEF good
  <2>3. tab' \in [Tab -> Tabs]
    <3>1. ASSUME s \in Tab
          PROVE  [phase |-> IF tab[s].phase = "starting" THEN IF good # 0 THEN "in" ELSE "out" ELSE tab[s].phase,
                  access |-> IF good # 0 THEN good ELSE tab[s].access] \in Tabs
      BY <1>7, <2>2, <3>1 DEF ClientTypes, Tabs
    <3> QED BY <1>7, <2>1, <3>1 DEF EndRefresh, ClientTypes
  <2>4. ASSUME NEW q \in Query
        PROVE  /\ call'[q] \in Calls
               /\ call'[q].phase = "waiting" => call[q].phase = "waiting" /\ PromiseOf(q) # h
    <3>0. call[q] \in Calls
      BY <1>7 DEF ClientTypes
    <3>1. CASE q \notin Waiting(h)
      <4>1. call'[q] = call[q]
        BY <2>1, <3>1 DEF EndRefresh
      <4> QED BY <3>0, <3>1, <4>1 DEF Waiting
    <3>2. CASE q \in Waiting(h) /\ good # 0
      <4>1. call'[q] = Send(q, good, TRUE)
        BY <2>1, <3>2 DEF EndRefresh
      <4> QED BY <2>2, <4>1 DEF Send, Calls
    <3>3. CASE q \in Waiting(h) /\ good = 0
      <4>1. call'[q] = [call[q] EXCEPT !.phase = "failed"]
        BY <2>1, <3>3 DEF EndRefresh
      <4> QED BY <3>0, <4>1 DEF Calls
    <3> QED BY <3>1, <3>2, <3>3
  <2>5. call' \in [Query -> Calls]
    BY <2>1, <2>4 DEF EndRefresh
  <2>6. Awaited'
    <3>1. \A q \in Query : PromiseOf(q) \in Handler
      BY HandlerAssumption DEF PromiseOf, Refresh
    <3>2. \A q \in Query : call'[q].phase = "waiting" => handler'[PromiseOf(q)] # Free
      BY <1>4, <1>7, <2>4, <3>1 DEF Awaited
    <3> QED BY <3>2 DEF Awaited, PromiseOf, Refresh
  <2> QED BY <1>5, <1>6, <2>3, <2>5, <2>6 DEF IInv, ClientInv, ClientTypes
<1>9. CASE handler[h].kind # "refresh"
  <2>1. EndUser(h, handler[h].kind, token, ok) /\ UNCHANGED call
    BY <1>9 DEF End, EndUser
  <2>2. PICK s \in Tab : h = User(s)
    BY <1>2, <1>9 DEF Expected
  <2>3. h[1] = s
    BY <2>2 DEF User
  <2>4. tab' \in [Tab -> Tabs]
    <3>1. tab[s] \in Tabs
      BY <1>7 DEF ClientTypes
    <3>2. CASE handler[h].kind = "login" /\ ok
      <4>1. token \in Cookie
        BY <1>2, <3>2, RequestCases, <1>1, TokenAssumption DEF Expected, Token, Cookie
      <4>2. tab' = [tab EXCEPT ![s] = [phase |-> "in", access |-> token]]
        BY <2>1, <2>3, <3>2 DEF EndUser
      <4> QED BY <1>7, <4>1, <4>2 DEF ClientTypes, Tabs
    <3>3. CASE handler[h].kind = "logout"
      <4> DEFINE next == [phase |-> IF ok THEN "out" ELSE tab[s].phase, access |-> 0]
      <4>1. tab' = [tab EXCEPT ![s] = next]
        BY <2>1, <2>3, <3>3 DEF EndUser
      <4>2. next \in Tabs
        BY <3>1, TokenAssumption DEF Tabs, Cookie
      <4> HIDE DEF next
      <4> QED BY <1>7, <4>1, <4>2 DEF ClientTypes
    <3>4. CASE ~(handler[h].kind = "login" /\ ok) /\ handler[h].kind # "logout"
      <4>1. tab' = [tab EXCEPT ![s] = tab[s]]
        BY <2>1, <2>3, <3>4 DEF EndUser
      <4> QED BY <1>7, <4>1 DEF ClientTypes
    <3> QED BY <3>2, <3>3, <3>4
  <2>5. Awaited'
    <3>1. \A q \in Query : PromiseOf(q) \in Handler /\ PromiseOf(q) # h
      BY <2>2, HandlerAssumption DEF PromiseOf, Refresh, User
    <3>2. \A q \in Query : call'[q].phase = "waiting" => handler'[PromiseOf(q)] # Free
      BY <1>4, <1>7, <2>1, <3>1 DEF Awaited
    <3> QED BY <3>2 DEF Awaited, PromiseOf, Refresh
  <2> QED BY <1>5, <1>6, <1>7, <2>1, <2>4, <2>5 DEF IInv, ClientInv, ClientTypes
<1> QED BY <1>8, <1>9

LEMMA InitIsSound == Init => IInv /\ Rotation!Init
<1> SUFFICES ASSUME Init PROVE IInv /\ Rotation!Init
  OBVIOUS
<1>1. \A t \in Token : ~Live(t)
  BY DEF Init, SessionInit, Live
<1>2. \A h \in Handler : handler[h] = Free
  BY DEF Init, SessionInit
<1>3. MaxTokens \in Nat /\ 0 \in Cookie /\ \A t \in Token : t > 0
  BY TokenAssumption DEF Cookie, Token
<1>4. ServerInv
  <2>1. made = 0 /\ session = [t \in Token |-> NoToken] /\ handler = [h \in Handler |-> Free]
    BY DEF Init, SessionInit
  <2>2. handler \in [Handler -> Requests]
    BY <2>1, NewRequests
  <2>3. \A t \in Token : t > made /\ ~(t <= made) /\ session[t] = NoToken
    BY <1>3, <2>1 DEF Token
  <2> QED BY <1>3, <2>1, <2>2, <2>3 DEF ServerInv
<1>5. OneLive /\ HoldersAlone
  BY <1>1, <1>2 DEF OneLive, HoldersAlone, Free
<1>6. ClientTypes
  BY <1>3 DEF Init, ClientTypes, Tabs, Calls
<1>7. Awaited /\ AllExpected
  BY <1>2 DEF Init, Awaited, AllExpected
<1>8. Rotation!Init
  <2>1. \A l \in Token : LiveOf(l) = {}
    BY <1>1 DEF LiveOf
  <2>2. Working = [l \in Token |-> NoToken]
    BY <2>1 DEF Working, OneOf
  <2>3. 1..made = {}
    BY DEF Init, SessionInit
  <2> QED BY <2>2, <2>3 DEF Rotation!Init
<1> QED BY <1>4, <1>5, <1>6, <1>7, <1>8 DEF IInv, ServerIInv, ClientInv

\* Queries and the aging of tokens: nothing happens at the server.
LEMMA ClientStepIsSound ==
  ASSUME IInv, ClientTypes', UNCHANGED <<session, made, handler>>,
         \A q \in Query : call'[q].phase = "waiting" => call[q].phase = "waiting"
  PROVE  IInv' /\ AbstractStep
<1>1. UNCHANGED session /\ UNCHANGED made /\ UNCHANGED handler
  OBVIOUS
<1>2. ServerIInv'
  BY <1>1 DEF IInv, ServerIInv, ServerInv, OneLive, HoldersAlone, Live
<1>3. Awaited' /\ AllExpected'
  <2>1. \A q \in Query : call'[q].phase = "waiting" => handler'[PromiseOf(q)] # Free
    BY <1>1 DEF Awaited, IInv, ClientInv
  <2> QED BY <1>1, <2>1 DEF Awaited, AllExpected, IInv, ClientInv, PromiseOf, Refresh
<1> QED BY <1>2, <1>3, RowsStay DEF IInv, ClientInv

LEMMA StepIsSound == IInv /\ [Next]_vars => IInv' /\ AbstractStep
<1> SUFFICES ASSUME IInv, [Next]_vars PROVE IInv' /\ AbstractStep
  OBVIOUS
<1>t. ClientTypes /\ Awaited
  BY DEF IInv, ClientInv
<1>h. /\ \A t \in Tab : Refresh(t) \in Handler /\ User(t) \in Handler
      /\ \A q \in Query : PromiseOf(q) \in Handler
  BY HandlerAssumption DEF Refresh, User, PromiseOf
<1>1. ASSUME NEW t \in Tab, StartUp(t) PROVE IInv' /\ AbstractStep
  <2>1. Arrive(Refresh(t), "refresh", cookie) /\ UNCHANGED <<session, made>>
        /\ UNCHANGED cookie /\ UNCHANGED fresh /\ UNCHANGED call
        /\ tab' = [tab EXCEPT ![t].phase = "starting"]
    BY <1>1 DEF StartUp
  <2>2. /\ ServerIInv' /\ AbstractStep /\ AllExpected'
        /\ handler'[Refresh(t)] # Free /\ \A g \in Handler : g # Refresh(t) => handler'[g] = handler[g]
    BY <1>h, <2>1, ArriveIsSound
  <2>3. Awaited'
    <3>1. \A q \in Query : call'[q].phase = "waiting" => handler'[PromiseOf(q)] # Free
      BY <1>h, <1>t, <2>1, <2>2 DEF Awaited
    <3> QED BY <3>1 DEF Awaited, PromiseOf, Refresh
  <2>4. ClientTypes'
    BY <1>t, <2>1 DEF ClientTypes, Tabs
  <2> QED BY <2>2, <2>3, <2>4 DEF IInv, ClientInv
<1>2. ASSUME NEW t \in Tab, NEW kind \in {"login", "logout"}, Act(t, kind) PROVE IInv' /\ AbstractStep
  <2>1. Arrive(User(t), kind, cookie) /\ UNCHANGED <<session, made>>
        /\ UNCHANGED cookie /\ UNCHANGED fresh /\ UNCHANGED call /\ UNCHANGED tab
    BY <1>2 DEF Act
  <2>2. /\ ServerIInv' /\ AbstractStep /\ AllExpected'
        /\ handler'[User(t)] # Free /\ \A g \in Handler : g # User(t) => handler'[g] = handler[g]
    <3>1. kind \in {"login", "logout", "refresh"} /\ kind # "refresh"
      OBVIOUS
    <3> QED BY <1>h, <2>1, <3>1, ArriveIsSound
  <2>3. Awaited'
    <3>1. \A q \in Query : call'[q].phase = "waiting" => handler'[PromiseOf(q)] # Free
      BY <1>h, <1>t, <2>1, <2>2 DEF Awaited
    <3> QED BY <3>1 DEF Awaited, PromiseOf, Refresh
  <2>4. ClientTypes'
    BY <1>t, <2>1 DEF ClientTypes
  <2> QED BY <2>2, <2>3, <2>4 DEF IInv, ClientInv
<1>3. ASSUME NEW q \in Query, Ask(q) PROVE IInv' /\ AbstractStep
  <2>1. Send(q, tab[q[1]].access, FALSE) \in Calls
    BY <1>t, HandlerAssumption DEF Send, Calls, ClientTypes, Tabs
  <2>2. ClientTypes'
    BY <1>3, <1>t, <2>1 DEF Ask, ClientTypes
  <2>3. \A r \in Query : call'[r].phase = "waiting" => call[r].phase = "waiting"
    BY <1>3, <1>t DEF Ask, Send, ClientTypes
  <2> QED BY <1>3, <2>2, <2>3, ClientStepIsSound DEF Ask, sessionVars
<1>4. ASSUME NEW q \in Query, Serve(q) PROVE IInv' /\ AbstractStep
  <2> DEFINE next == IF Fresh(call[q].token) /\ active THEN "done" ELSE "refused"
  <2>1. next \in {"done", "refused"} /\ call' = [call EXCEPT ![q].phase = next]
    BY <1>4 DEF Serve
  <2> HIDE DEF next
  <2>2. ClientTypes'
    BY <1>4, <1>t, <2>1 DEF Serve, ClientTypes, Calls
  <2>3. \A r \in Query : call'[r].phase = "waiting" => call[r].phase = "waiting"
    BY <1>t, <2>1 DEF ClientTypes, Calls
  <2> QED BY <1>4, <2>2, <2>3, ClientStepIsSound DEF Serve, sessionVars
<1>5. ASSUME NEW q \in Query, Refused(q) PROVE IInv' /\ AbstractStep
  <2>1. CASE call[q].last
    <3>1. call' = [call EXCEPT ![q].phase = "failed"] /\ UNCHANGED <<session, made, handler>>
          /\ UNCHANGED cookie /\ UNCHANGED fresh /\ UNCHANGED tab
      BY <1>5, <2>1 DEF Refused
    <3>2. ClientTypes'
      BY <1>t, <3>1 DEF ClientTypes, Calls
    <3>3. \A r \in Query : call'[r].phase = "waiting" => call[r].phase = "waiting"
      BY <1>t, <3>1 DEF ClientTypes, Calls
    <3> QED BY <3>1, <3>2, <3>3, ClientStepIsSound
  <2>2. CASE ~call[q].last
    <3> DEFINE h == PromiseOf(q)
    <3>1. call' = [call EXCEPT ![q].phase = "waiting"] /\ UNCHANGED <<session, made>>
          /\ UNCHANGED cookie /\ UNCHANGED fresh /\ UNCHANGED tab
          /\ IF handler[h] = Free THEN Arrive(h, "refresh", cookie) ELSE UNCHANGED handler
      BY <1>5, <2>2 DEF Refused
    <3>2. ClientTypes'
      BY <1>t, <3>1 DEF ClientTypes, Calls
    <3>3. \A r \in Query : r # q => call'[r] = call[r]
      BY <1>t, <3>1 DEF ClientTypes
    <3>4. /\ ServerIInv' /\ AbstractStep /\ AllExpected'
          /\ handler'[h] # Free /\ \A g \in Handler : g # h => handler'[g] = handler[g]
      <4>1. CASE handler[h] = Free
        BY <1>h, <3>1, <4>1, ArriveIsSound
      <4>2. CASE handler[h] # Free
        <5>1. UNCHANGED handler /\ UNCHANGED session /\ UNCHANGED made
          BY <3>1, <4>2
        <5>2. ServerIInv'
          BY <5>1 DEF IInv, ServerIInv, ServerInv, OneLive, HoldersAlone, Live
        <5>3. AllExpected'
          BY <5>1 DEF IInv, ClientInv, AllExpected
        <5> QED BY <3>1, <4>2, <5>1, <5>2, <5>3, RowsStay
      <4> QED BY <4>1, <4>2
    <3>5. Awaited'
      <4>1. \A r \in Query : call'[r].phase = "waiting" => handler'[PromiseOf(r)] # Free
        BY <1>h, <1>t, <3>3, <3>4 DEF Awaited
      <4> QED BY <4>1 DEF Awaited, PromiseOf, Refresh
    <3> QED BY <3>2, <3>4, <3>5 DEF IInv, ClientInv
  <2> QED BY <2>1, <2>2
<1>6. ASSUME NEW h \in Handler, Served(h) \/ ((FailRefresh(h) \/ FailLogOut(h)) /\ UNCHANGED clientVars)
      PROVE  IInv' /\ AbstractStep
  <2>1. ServerIInv' /\ AbstractStep /\ UNCHANGED clientVars /\ \E x : Serves(h, x)
    BY <1>6, ServerStepIsSound DEF Served, IInv
  <2> QED BY <2>1, ClientUndisturbed DEF IInv
<1>7. ASSUME NEW h \in Handler, Deliver(h) PROVE IInv' /\ AbstractStep
  <2> DEFINE a == handler[h]
             ok == a.code = 201
  <2>1. a \in Requests /\ a.phase = "answered"
    BY <1>7 DEF Deliver, IInv, ServerIInv, ServerInv
  <2>2. a.token \in Token \cup {0, keep}
    BY <2>1, RequestCases
  <2>3. cookie' \in Cookie /\ fresh' \subseteq Token
    <3>1. cookie' = IF a.token = keep THEN cookie ELSE a.token
      BY <1>7 DEF Deliver
    <3>2. fresh' = IF a.token \in Token THEN fresh \cup {a.token} ELSE fresh
      BY <1>7 DEF Deliver
    <3>3. cookie' \in Cookie
      BY <1>t, <2>2, <3>1, TokenAssumption DEF ClientTypes, Cookie, Token
    <3> QED BY <1>t, <3>2, <3>3 DEF ClientTypes
  <2>4. End(h, a.token, ok) /\ UNCHANGED <<session, made>> /\ ok \in BOOLEAN
    BY <1>7 DEF Deliver
  <2>5. ok => a.code = 201
    OBVIOUS
  <2> HIDE DEF ok
  <2> QED BY <2>1, <2>3, <2>4, <2>5, EndIsSound
<1>8. ASSUME NEW h \in Handler, Lose(h) PROVE IInv' /\ AbstractStep
  <2>1. /\ handler[h].phase = "answered" /\ End(h, 0, FALSE) /\ UNCHANGED <<session, made>>
        /\ UNCHANGED cookie /\ UNCHANGED fresh
    BY <1>8 DEF Lose
  <2> QED BY <1>t, <2>1, EndIsSound DEF ClientTypes
<1>9. ASSUME Expire, UNCHANGED clientVars PROVE IInv' /\ AbstractStep
  <2>1. PICK t \in Token : Live(t) /\ Holders(t) = {} /\ session' = [session EXCEPT ![t].state = "expired"]
    BY <1>9 DEF Expire
  <2> DEFINE r == [session[t] EXCEPT !.state = "expired"]
  <2>2. session[t] \in Rows
    BY <2>1 DEF Live, IInv, ServerIInv, ServerInv
  <2>3. r \in Rows /\ r.state # "live" /\ r.login = session[t].login /\ session' = [session EXCEPT ![t] = r]
    BY <2>1, <2>2 DEF Rows
  <2>4. UNCHANGED made /\ UNCHANGED handler /\ handler \in [Handler -> Requests]
    BY <1>9 DEF Expire, IInv, ServerIInv, ServerInv
  <2> HIDE DEF r
  <2>5. ServerIInv' /\ Rotation!Next
    BY <2>1, <2>3, <2>4, TokenDies DEF IInv
  <2>6. ClientInv'
    BY <1>9, <2>4 DEF clientVars, IInv, ClientInv, ClientTypes, Awaited, AllExpected,
        PromiseOf, Refresh
  <2> QED BY <2>5, <2>6 DEF IInv, AbstractStep
<1>10. ASSUME Suspend \/ UNCHANGED sessionVars, UNCHANGED clientVars PROVE IInv' /\ AbstractStep
  <2>1. UNCHANGED <<session, made, handler>> /\ UNCHANGED call
    BY <1>10 DEF Suspend, sessionVars, clientVars
  <2>2. ClientTypes'
    BY <1>t, <1>10 DEF clientVars, ClientTypes
  <2> QED BY <2>1, <2>2, ClientStepIsSound
<1>11. ASSUME Age PROVE IInv' /\ AbstractStep
  <2>1. UNCHANGED <<session, made, handler>> /\ UNCHANGED call /\ UNCHANGED cookie /\ UNCHANGED tab
        /\ fresh' \subseteq fresh
    BY <1>11 DEF Age, sessionVars
  <2>2. ClientTypes'
    BY <1>t, <2>1 DEF ClientTypes
  <2> QED BY <2>1, <2>2, ClientStepIsSound
<1>12. CASE UNCHANGED vars
  BY <1>10, <1>12 DEF vars
<1> QED
  BY <1>1, <1>2, <1>3, <1>4, <1>5, <1>6, <1>7, <1>8, <1>9, <1>10, <1>11, <1>12
  DEF Next, ServerFault

-----------------------------------------------------------------------------
(* Staying logged in *)

\* Nobody logs out and nothing has failed.
Undisturbed == faults = 0 /\ plan.acts = {"login"}

Carries(h) == handler[h].phase = "answered" /\ handler[h].token \in Token
Uses(h) == handler[h].phase \in {"begun", "verified", "revoked"}

(* A token that is under way to the browser works, and nobody else has it; *)
(* when none is under way, the one in the jar works.                       *)
Kept ==
  /\ active
  /\ cookie <= made
  /\ \A h \in Handler : handler[h] # Free => handler[h].kind # "logout"
  /\ \A h \in Handler : handler[h].phase = "answered" => handler[h].token \in Token \cup {keep}
  /\ \A h \in Handler : Uses(h) => handler[h].cookie <= made
  /\ \A h \in Handler : Carries(h) =>
       /\ Live(handler[h].token) /\ handler[h].token # cookie
       /\ \A g \in Handler : Uses(g) => handler[g].cookie # handler[h].token
       /\ \A g \in Handler : Carries(g) /\ handler[g].token = handler[h].token => g = h
  /\ made > 0 => Live(cookie) \/ \E h \in Handler : Carries(h)

(* The only tab of a browser: what it sends and what it waits for.         *)
GoesWell(h) ==
  /\ handler[h].phase \in {"begun", "revoked"} => Live(handler[h].cookie)
  /\ handler[h].phase = "answered" => handler[h].code = 201 /\ handler[h].token \in Token

Well(q, t) ==
  /\ call[q].phase # "idle" => q[1] = t /\ tab[t].phase = "in"
  /\ call[q].phase # "failed"
  /\ call[q].phase = "refused" => ~call[q].last
  /\ call[q].phase = "sent" /\ call[q].last => call[q].token \in fresh

Solo(t) ==
  /\ \A s \in Tab : s # t => tab[s].phase = "loading"
  /\ \A h \in Handler : handler[h] # Free => h \in {Refresh(t), User(t)}
  /\ handler[User(t)] # Free => tab[t].phase = "out" /\ handler[User(t)].kind = "login"
  /\ handler[Refresh(t)] # Free => tab[t].phase \in {"starting", "in"}
  /\ tab[t].phase = "in" => made > 0 /\ GoesWell(Refresh(t))
  /\ \A q \in Query : Well(q, t)

SessionInv ==
  /\ faults \in Nat /\ plan \in Plans
  /\ Undisturbed => Kept
  /\ Undisturbed => \A t \in Tab : plan.tabs = {t} => Solo(t)

\* A request goes on and makes no token.
LEMMA MovesAreKept ==
  ASSUME IInv, Kept, NEW h \in Handler, NEW x \in Requests, Go(h, x), ~Carries(h),
         UNCHANGED <<session, made, cookie, active>>,
         x # Free => x.kind # "logout",
         x.phase = "answered" => x.token = keep,
         x.phase \in {"begun", "verified", "revoked"} =>
           x.cookie = cookie \/ (Uses(h) /\ x.cookie = handler[h].cookie)
  PROVE  Kept'
<1>1. handler'[h] = x /\ \A g \in Handler : g # h => handler'[g] = handler[g]
  BY DEF Go, IInv, ServerIInv, ServerInv
<1>2. UNCHANGED session /\ UNCHANGED made /\ UNCHANGED cookie /\ UNCHANGED active
  OBVIOUS
<1>3. \A u : Live(u)' <=> Live(u)
  BY <1>2 DEF Live
<1>4. ~(keep \in Token)
  BY TokenAssumption DEF keep, Token
<1>5. \A g \in Handler : Carries(g)' <=> Carries(g)
  BY <1>1, <1>4 DEF Carries
<1>6. \A g \in Handler : Carries(g) => handler'[g] = handler[g]
  BY <1>1
<1>7. \A g \in Handler : Uses(g)' =>
        handler'[g].cookie = cookie \/ (Uses(g) /\ handler'[g].cookie = handler[g].cookie)
  BY <1>1 DEF Uses
<1>8. \A g \in Handler : Uses(g)' => handler'[g].cookie <= made
  BY <1>7 DEF Kept
<1>9. ASSUME NEW f \in Handler, Carries(f)'
      PROVE  /\ Live(handler[f].token)' /\ handler'[f].token # cookie'
             /\ \A g \in Handler : Uses(g)' => handler'[g].cookie # handler'[f].token
             /\ \A g \in Handler : Carries(g)' /\ handler'[g].token = handler'[f].token => g = f
  <2>1. Carries(f) /\ handler'[f] = handler[f]
    BY <1>5, <1>6, <1>9
  <2>2. Live(handler[f].token) /\ handler[f].token # cookie
    BY <2>1 DEF Kept
  <2>3. Live(handler[f].token)'
    BY <1>2, <2>1, <2>2 DEF Live
  <2>4. \A g \in Handler : Uses(g)' => handler'[g].cookie # handler[f].token
    BY <1>7, <2>1, <2>2 DEF Kept
  <2>5. \A g \in Handler : Carries(g)' /\ handler'[g].token = handler[f].token => g = f
    BY <1>5, <1>6, <2>1 DEF Kept
  <2> QED BY <1>2, <2>1, <2>2, <2>3, <2>4, <2>5
<1>10. \A g \in Handler : /\ handler'[g] # Free => handler'[g].kind # "logout"
                          /\ handler'[g].phase = "answered" => handler'[g].token \in Token \cup {keep}
  BY <1>1 DEF Kept
<1>11. made' > 0 => Live(cookie)' \/ \E g \in Handler : Carries(g)'
  BY <1>2, <1>3, <1>5 DEF Kept
<1> QED BY <1>2, <1>8, <1>9, <1>10, <1>11 DEF Kept, Carries, Uses

\* A request makes the next token, and revokes no other than its own.
LEMMA IssuesAreKept ==
  ASSUME IInv, Kept, NEW h \in Handler, Uses(h), handler[h].kind # "logout", Answer(h, 201, made'),
         made' = made + 1, made' \in Token, Live(made)',
         \A u \in Token : Live(u) /\ u # handler[h].cookie => Live(u)',
         UNCHANGED <<cookie, active>>
  PROVE  Kept'
<1> DEFINE x == [phase |-> "answered", kind |-> handler[h].kind, code |-> 201, token |-> made']
<1>1. handler'[h] = x /\ \A g \in Handler : g # h => handler'[g] = handler[g]
  BY DEF Answer, Go, IInv, ServerIInv, ServerInv
<1>2. x.phase = "answered" /\ x.kind = handler[h].kind /\ x.token = made'
  OBVIOUS
<1> HIDE DEF x
<1>3. made \in Nat /\ MaxTokens \in Nat /\ cookie \in Int
  BY TokenAssumption DEF IInv, ServerIInv, ServerInv, Cookie, ClientInv, ClientTypes
<1>4. \A u \in Token : Live(u) => u <= made
  BY <1>3 DEF Live, IInv, ServerIInv, ServerInv, Token
<1>5. Carries(h)' /\ ~Carries(h) /\ ~Uses(h)'
  BY <1>1, <1>2 DEF Carries, Uses
<1>6. \A g \in Handler : g # h => (Carries(g)' <=> Carries(g)) /\ (Uses(g)' <=> Uses(g))
  BY <1>1 DEF Carries, Uses
<1>7. \A g \in Handler : Uses(g)' => handler'[g].cookie = handler[g].cookie /\ handler[g].cookie <= made
  BY <1>1, <1>5, <1>6 DEF Kept
<1>8. \A g \in Handler : Uses(g) => handler[g].cookie \in Cookie
  <2>1. \A g \in Handler : handler[g] \in Requests
    BY DEF IInv, ServerIInv, ServerInv
  <2> QED BY <2>1, RequestCases DEF Uses
<1>9. \A n : n <= made /\ n \in Int => n <= made' /\ n # made'
  BY <1>3
<1>10. ASSUME NEW f \in Handler, Carries(f)'
       PROVE  /\ Live(handler[f].token)' /\ handler'[f].token # cookie'
              /\ \A g \in Handler : Uses(g)' => handler'[g].cookie # handler'[f].token
              /\ \A g \in Handler : Carries(g)' /\ handler'[g].token = handler'[f].token => g = f
  <2>1. CASE f = h
    <3>1. handler'[f].token = made'
      BY <1>1, <1>2, <2>1
    <3>2. \A g \in Handler : Uses(g)' => handler'[g].cookie # made'
      BY <1>5, <1>6, <1>7, <1>8, <1>9, TokenAssumption DEF Cookie
    <3>3. \A g \in Handler : g # h /\ Carries(g) => handler[g].token \in Int /\ handler[g].token <= made
      BY <1>4 DEF Kept, Carries, Token
    <3>4. \A g \in Handler : g # h /\ Carries(g)' => handler'[g].token # made'
      BY <1>1, <1>6, <1>9, <3>3
    <3>5. cookie' # made'
      BY <1>3, <1>9 DEF Kept
    <3>6. Live(handler[f].token)'
      BY <3>1 DEF Live
    <3> QED BY <2>1, <3>1, <3>2, <3>4, <3>5, <3>6
  <2>2. CASE f # h
    <3>1. Carries(f) /\ handler'[f] = handler[f] /\ handler[f].token \in Token
      BY <1>1, <1>6, <1>10, <2>2 DEF Carries
    <3>2. Live(handler[f].token) /\ handler[f].token # handler[h].cookie
      BY <3>1 DEF Kept
    <3>3. Live(handler[f].token)'
      <4>1. PICK n \in Token : n = handler[f].token
        BY <3>1
      <4>2. Live(n)'
        BY <3>2, <4>1
      <4>3. handler'[f].token = n
        BY <3>1, <4>1
      <4> QED BY <4>2, <4>3 DEF Live
    <3>4. \A g \in Handler : Uses(g)' => handler'[g].cookie # handler[f].token
      BY <1>5, <1>6, <1>7, <3>1 DEF Kept
    <3>5. \A g \in Handler : Carries(g)' /\ handler'[g].token = handler[f].token => g = f
      <4>1. handler[f].token \in Int /\ handler[f].token <= made
        BY <1>4, <3>1, <3>2 DEF Token
      <4>2. handler[f].token # made'
        BY <1>9, <4>1
      <4>3. \A g \in Handler : Carries(g)' /\ handler'[g].token = handler[f].token =>
              Carries(g) /\ handler[g].token = handler[f].token
        BY <1>1, <1>2, <1>6, <4>2
      <4> QED BY <3>1, <4>3 DEF Kept
    <3> QED BY <3>1, <3>2, <3>3, <3>4, <3>5 DEF Kept
  <2> QED BY <2>1, <2>2
<1>11. \A g \in Handler : /\ handler'[g] # Free => handler'[g].kind # "logout"
                          /\ handler'[g].phase = "answered" => handler'[g].token \in Token \cup {keep}
  BY <1>1, <1>2 DEF Kept
<1>12. cookie' <= made' /\ \A g \in Handler : Uses(g)' => handler'[g].cookie <= made'
  BY <1>3, <1>5, <1>6, <1>7, <1>8, <1>9, TokenAssumption DEF Kept, Cookie
<1> QED BY <1>5, <1>10, <1>11, <1>12 DEF Kept, Carries, Uses

\* A token arrives in the jar.
LEMMA ArrivalsAreKept ==
  ASSUME IInv, Kept, NEW h \in Handler, Carries(h), Go(h, Free), cookie' = handler[h].token,
         UNCHANGED <<session, made, active>>
  PROVE  Kept' /\ Live(cookie)' /\ made > 0
<1>1. handler'[h] = Free /\ \A g \in Handler : g # h => handler'[g] = handler[g]
  BY DEF Go, IInv, ServerIInv, ServerInv
<1>2. UNCHANGED session /\ UNCHANGED made /\ UNCHANGED active
  OBVIOUS
<1>3. \A u : Live(u)' <=> Live(u)
  BY <1>2 DEF Live
<1>4. Live(cookie)' /\ cookie' \in Token
  BY <1>2 DEF Kept, Carries, Live
<1>5. \A g \in Handler : /\ Carries(g)' => g # h /\ Carries(g) /\ handler'[g] = handler[g]
                         /\ Uses(g)' => g # h /\ Uses(g) /\ handler'[g] = handler[g]
  BY <1>1 DEF Carries, Uses, Free
<1>6. made > 0 /\ cookie' <= made'
  BY <1>2, <1>4, TokenAssumption DEF Live, IInv, ServerIInv, ServerInv, Token, Cookie
<1>7. ASSUME NEW f \in Handler, Carries(f)'
      PROVE  /\ Live(handler[f].token)' /\ handler'[f].token # cookie'
             /\ \A g \in Handler : Uses(g)' => handler'[g].cookie # handler'[f].token
             /\ \A g \in Handler : Carries(g)' /\ handler'[g].token = handler'[f].token => g = f
  <2>1. f # h /\ Carries(f) /\ handler'[f] = handler[f]
    BY <1>5, <1>7
  <2>2. handler[f].token # handler[h].token
    BY <2>1 DEF Kept
  <2>3. Live(handler[f].token)'
    BY <1>2, <2>1 DEF Kept, Live
  <2>4. \A g \in Handler : Uses(g)' => handler'[g].cookie # handler[f].token
    BY <1>5, <2>1 DEF Kept
  <2>5. \A g \in Handler : Carries(g)' /\ handler'[g].token = handler[f].token => g = f
    BY <1>5, <2>1 DEF Kept
  <2> QED BY <2>1, <2>2, <2>3, <2>4, <2>5
<1>8. \A g \in Handler : /\ handler'[g] # Free => handler'[g].kind # "logout"
                         /\ handler'[g].phase = "answered" => handler'[g].token \in Token \cup {keep}
  BY <1>1 DEF Kept, Free
<1>9. \A g \in Handler : Uses(g)' => handler'[g].cookie <= made'
  BY <1>2, <1>5 DEF Kept
<1> QED BY <1>2, <1>4, <1>6, <1>7, <1>8, <1>9 DEF Kept, Carries, Uses

\* What a request of the browser or of the server leaves alone, in Solo.
LEMMA SoloStands ==
  ASSUME NEW t \in Tab, IInv, Solo(t), NEW h \in Handler, NEW x, x # Free,
         handler' = [handler EXCEPT ![h] = x],
         UNCHANGED <<tab, call, fresh>>, made' >= made, made \in Int, made' \in Int,
         h \in {Refresh(t), User(t)},
         h = User(t) => tab[t].phase = "out" /\ x.kind = "login",
         h = Refresh(t) => /\ tab[t].phase \in {"starting", "in"}
                           /\ tab[t].phase = "in" => GoesWell(h)'
  PROVE  Solo(t)'
<1>1. Refresh(t) # User(t) /\ Refresh(t) \in Handler /\ User(t) \in Handler
  BY HandlerAssumption DEF Refresh, User
<1>2. handler'[h] = x /\ \A g \in Handler : g # h => handler'[g] = handler[g]
  BY DEF IInv, ServerIInv, ServerInv
<1>3. UNCHANGED tab /\ UNCHANGED call /\ UNCHANGED fresh
  OBVIOUS
<1>4. \A q \in Query : Well(q, t)'
  BY <1>3 DEF Solo, Well
<1>5. \A g \in Handler : handler'[g] # Free => g \in {Refresh(t), User(t)}
  BY <1>2 DEF Solo
<1>6. /\ handler'[User(t)] # Free => tab[t].phase = "out" /\ handler'[User(t)].kind = "login"
      /\ handler'[Refresh(t)] # Free => tab[t].phase \in {"starting", "in"}
  BY <1>1, <1>2 DEF Solo
<1>7. tab[t].phase = "in" => made' > 0 /\ GoesWell(Refresh(t))'
  <2> SUFFICES ASSUME tab[t].phase = "in" PROVE made' > 0 /\ GoesWell(Refresh(t))'
    OBVIOUS
  <2>1. h = Refresh(t)
    OBVIOUS
  <2> QED BY <2>1 DEF Solo
<1> QED BY <1>3, <1>4, <1>5, <1>6, <1>7 DEF Solo, Refresh, User

\* A request goes on at the server.
LEMMA SoloServed ==
  ASSUME NEW t \in Tab, IInv, Kept, Solo(t), NEW h \in Handler, Served(h)
  PROVE  Solo(t)'
<1>1. PICK x : Serves(h, x)
  BY ServerStepIsSound DEF Served, IInv
<1>2. x # Free /\ x.kind = handler[h].kind /\ handler' = [handler EXCEPT ![h] = x]
  BY <1>1 DEF Serves, Go
<1>3. UNCHANGED <<tab, call, fresh>> /\ UNCHANGED cookie
  BY DEF Served, clientVars
<1>4. made' >= made /\ made \in Int /\ made' \in Int
  BY TokenAssumption
  DEF Served, ServerStep, Verify, LogIn, Revoke, Renew, LogOut, IInv, ServerIInv, ServerInv, Cookie
<1>5. handler[h] # Free /\ handler[h] \in Requests
  BY DEF Served, ServerStep, Verify, LogIn, Revoke, Renew, LogOut, At, Free, IInv, ServerIInv, ServerInv
<1>6. h \in {Refresh(t), User(t)}
  BY <1>5 DEF Solo
<1>7. Refresh(t) # User(t)
  BY DEF Refresh, User
<1>8. CASE h = User(t)
  <2>1. tab[t].phase = "out" /\ x.kind = "login"
    BY <1>2, <1>5, <1>8 DEF Solo
  <2> QED BY <1>2, <1>3, <1>4, <1>6, <1>7, <1>8, <2>1, SoloStands
<1>9. CASE h = Refresh(t)
  <2>1. tab[t].phase \in {"starting", "in"}
    BY <1>5, <1>9 DEF Solo
  <2>2. handler[h].kind = "refresh"
    <3>1. \A s \in Tab : Refresh(t) # User(s)
      BY DEF Refresh, User
    <3> QED BY <1>5, <1>9, <3>1 DEF IInv, ClientInv, AllExpected, Expected
  <2>3. Revoke(h) \/ Renew(h)
    BY <2>2 DEF Served, ServerStep, Verify, LogIn, LogOut, At
  <2>4. ASSUME tab[t].phase = "in" PROVE GoesWell(h)'
    <3>0. GoesWell(h)
      BY <1>9, <2>4 DEF Solo
    <3>1. CASE Revoke(h)
      <4>1. Live(handler[h].cookie) /\ handler[h].phase = "begun"
        BY <3>0, <3>1 DEF GoesWell, Revoke, At
      <4>2. Go(h, [handler[h] EXCEPT !.phase = "revoked"]) /\ UNCHANGED session
        BY <3>1, <4>1 DEF Revoke
      <4>3. handler'[h] = [phase |-> "revoked", kind |-> "refresh", cookie |-> handler[h].cookie]
        BY <1>5, <2>2, <4>1, <4>2, RequestGoesOn DEF Go, IInv, ServerIInv, ServerInv
      <4>4. handler'[h].phase = "revoked" /\ handler'[h].cookie = handler[h].cookie
        BY <4>3
      <4> QED BY <4>1, <4>2, <4>4 DEF GoesWell, Live
    <3>2. CASE Renew(h)
      <4>1. active
        BY DEF Kept
      <4>2. made' \in Token /\ Answer(h, 201, made')
        BY <3>2, <4>1, TokenAssumption DEF Renew, IInv, ServerIInv, ServerInv, Cookie, Token
      <4>3. handler'[h] = [phase |-> "answered", kind |-> handler[h].kind, code |-> 201, token |-> made']
        BY <4>2 DEF Answer, Go, IInv, ServerIInv, ServerInv
      <4>4. handler'[h].phase = "answered" /\ handler'[h].code = 201 /\ handler'[h].token \in Token
        BY <4>2, <4>3
      <4> QED BY <4>4 DEF GoesWell
    <3> QED BY <2>3, <3>1, <3>2
  <2> QED BY <1>2, <1>3, <1>4, <1>6, <1>7, <1>9, <2>1, <2>4, SoloStands
<1> QED BY <1>6, <1>8, <1>9

\* An answer arrives.
LEMMA SoloDelivered ==
  ASSUME NEW t \in Tab, IInv, Kept, Solo(t), NEW h \in Handler, Deliver(h)
  PROVE  Solo(t)'
<1> DEFINE a == handler[h]
           ok == a.code = 201
<1>1. a \in Requests /\ a.phase = "answered" /\ a # Free
  <2>1. a \in Requests /\ a.phase = "answered"
    BY DEF Deliver, IInv, ServerIInv, ServerInv
  <2> QED BY <2>1 DEF Free
<1>2. h \in {Refresh(t), User(t)}
  BY <1>1 DEF Solo
<1>3. Go(h, Free)
  BY DEF Deliver, End, EndRefresh, EndUser, Go
<1>4. handler'[h] = Free /\ \A g \in Handler : g # h => handler'[g] = handler[g]
  BY <1>3 DEF Go, IInv, ServerIInv, ServerInv
<1>5. UNCHANGED session /\ UNCHANGED made
  BY DEF Deliver
<1>6. /\ \A s \in Tab : Refresh(s) # User(t) /\ User(s) # Refresh(t)
      /\ Refresh(t) \in Handler /\ User(t) \in Handler
  BY HandlerAssumption DEF Refresh, User
<1>7. tab \in [Tab -> Tabs] /\ call \in [Query -> Calls]
  BY DEF IInv, ClientInv, ClientTypes
<1>8. a.token \in Token => made > 0
  <2> SUFFICES ASSUME a.token \in Token PROVE made > 0
    OBVIOUS
  <2>1. Live(a.token)
    BY <1>1 DEF Kept, Carries
  <2> QED BY <2>1, TokenAssumption DEF Live, IInv, ServerIInv, ServerInv, Token, Cookie
<1>9. fresh \subseteq fresh' /\ (a.token \in Token => a.token \in fresh')
  BY DEF Deliver
<1>10. \A g \in Handler : handler'[g] # Free => g # h /\ handler[g] # Free /\ handler'[g] = handler[g]
  BY <1>4
<1>11. \A g \in Handler : GoesWell(g) /\ g # h => GoesWell(g)'
  BY <1>4, <1>5 DEF GoesWell, Live
<1>12. GoesWell(h)'
  BY <1>4 DEF GoesWell, Free
<1>13. CASE h = User(t)
  <2>1. tab[t].phase = "out" /\ a.kind = "login"
    BY <1>1, <1>13 DEF Solo
  <2>2. EndUser(h, "login", a.token, ok)
    BY <2>1 DEF Deliver, End
  <2>3. h[1] = t
    BY <1>13 DEF User
  <2>4. UNCHANGED call
    BY <2>2 DEF EndUser
  <2>5. /\ ok => tab' = [tab EXCEPT ![t] = [phase |-> "in", access |-> a.token]]
        /\ ~ok => tab' = tab
    <3> HIDE DEF ok, a
    <3>1. CASE ok
      BY <2>2, <2>3, <3>1 DEF EndUser
    <3>2. CASE ~ok
      <4>1. tab' = [tab EXCEPT ![t] = tab[t]]
        BY <2>2, <2>3, <3>2 DEF EndUser
      <4>2. [tab EXCEPT ![t] = tab[t]] = tab
        BY <1>7
      <4> QED BY <3>2, <4>1, <4>2
    <3> QED BY <3>1, <3>2
  <2>6. /\ \A s \in Tab : s # t => tab'[s] = tab[s]
        /\ tab'[t].phase = IF ok THEN "in" ELSE "out"
    BY <1>7, <2>1, <2>5
  <2>7. handler[Refresh(t)] = Free
    BY <2>1 DEF Solo
  <2>8. handler'[User(t)] = Free /\ handler'[Refresh(t)] = Free
    BY <1>4, <1>6, <1>13, <2>7
  <2>9. ok => made' > 0
    <3>1. ok => a.token \in Token
      BY <1>1, <2>1 DEF IInv, ClientInv, AllExpected, Expected
    <3> QED BY <1>5, <1>8, <3>1
  <2>10. GoesWell(Refresh(t))'
    BY <2>8 DEF GoesWell, Free, Refresh
  <2>11. \A q \in Query : call[q].phase = "idle"
    BY <2>1 DEF Solo, Well
  <2>12. \A q \in Query : Well(q, t)'
    BY <2>4, <2>11 DEF Well
  <2>13. \A s \in Tab : s # t => tab'[s].phase = "loading"
    BY <2>6 DEF Solo
  <2>14. \A g \in Handler : handler'[g] # Free => g \in {Refresh(t), User(t)}
    BY <1>10 DEF Solo
  <2>15. tab'[t].phase = "in" => made' > 0
    BY <2>6, <2>9
  <2> QED BY <2>8, <2>10, <2>12, <2>13, <2>14, <2>15 DEF Solo, User, Refresh
<1>14. CASE h = Refresh(t)
  <2>1. tab[t].phase \in {"starting", "in"} /\ a.kind = "refresh"
    BY <1>1, <1>6, <1>14 DEF Solo, IInv, ClientInv, AllExpected, Expected
  <2> DEFINE good == IF ok THEN a.token ELSE 0
  <2>2. EndRefresh(h, good)
    BY <2>1 DEF Deliver, End
  <2>3. h[1] = t
    BY <1>14 DEF Refresh
  <2>4. ok => a.token \in Token
    BY <1>1, <2>1 DEF IInv, ClientInv, AllExpected, Expected
  <2>5. good # 0 => good = a.token /\ a.token \in Token
    BY <2>4
  <2>6. tab[t].phase = "in" => good # 0
    <3> SUFFICES ASSUME tab[t].phase = "in" PROVE good # 0
      OBVIOUS
    <3>1. ok
      BY <1>1, <1>14 DEF Solo, GoesWell
    <3> QED BY <2>4, <3>1, TokenAssumption DEF Token
  <2> HIDE DEF good, ok
  <2>7. /\ \A s \in Tab : s # t => tab'[s] = tab[s]
        /\ tab'[t].phase = IF good # 0 THEN "in" ELSE "out"
    <3>1. tab'[t].phase = IF tab[t].phase = "starting" THEN IF good # 0 THEN "in" ELSE "out" ELSE tab[t].phase
      BY <1>7, <2>2, <2>3 DEF EndRefresh
    <3>2. \A s \in Tab : s # t => tab'[s] = tab[s]
      BY <1>7, <2>2, <2>3 DEF EndRefresh
    <3> QED BY <2>1, <2>6, <3>1, <3>2
  <2>8. handler[User(t)] = Free
    BY <2>1 DEF Solo
  <2>9. handler'[User(t)] = Free /\ handler'[Refresh(t)] = Free
    BY <1>4, <1>6, <1>14, <2>8
  <2>10. good # 0 => made' > 0
    BY <1>5, <1>8, <2>5
  <2>11. ASSUME NEW q \in Query PROVE Well(q, t)'
    <3>1. Well(q, t)
      BY DEF Solo
    <3>2. CASE q \in Waiting(h)
      <4>1. tab[t].phase = "in" /\ q[1] = t
        BY <3>1, <3>2 DEF Well, Waiting
      <4>2. good # 0
        BY <2>6, <4>1
      <4>3. call'[q] = Send(q, good, TRUE)
        BY <2>2, <3>2, <4>2 DEF EndRefresh
      <4>4. call'[q].phase = "sent" /\ call'[q].token = good /\ good \in fresh'
        BY <1>9, <2>5, <4>2, <4>3 DEF Send
      <4> QED BY <2>7, <4>1, <4>2, <4>4 DEF Well
    <3>3. CASE q \notin Waiting(h)
      <4>1. call'[q] = call[q]
        BY <2>2, <3>3 DEF EndRefresh
      <4>2. call[q].phase # "idle" => tab'[t].phase = "in"
        BY <2>6, <2>7, <3>1 DEF Well
      <4> QED BY <1>9, <3>1, <4>1, <4>2 DEF Well
    <3> QED BY <3>2, <3>3
  <2>12. GoesWell(Refresh(t))'
    BY <2>9 DEF GoesWell, Free, Refresh
  <2>13. \A s \in Tab : s # t => tab'[s].phase = "loading"
    BY <2>7 DEF Solo
  <2>14. \A g \in Handler : handler'[g] # Free => g \in {Refresh(t), User(t)}
    BY <1>10 DEF Solo
  <2>15. tab'[t].phase = "in" => made' > 0
    BY <2>7, <2>10
  <2> QED BY <2>9, <2>11, <2>12, <2>13, <2>14, <2>15 DEF Solo, User, Refresh
<1> QED BY <1>2, <1>13, <1>14

\* A step that changes none of what Kept is about.
LEMMA KeptStands ==
  ASSUME Kept, UNCHANGED <<session, made, handler, cookie, active>>
  PROVE  Kept'
<1>1. UNCHANGED session /\ UNCHANGED made /\ UNCHANGED handler /\ UNCHANGED cookie /\ UNCHANGED active
  OBVIOUS
<1> QED BY <1>1 DEF Kept, Carries, Uses, Live

\* A step of a browser whose users stay logged in, while nothing fails.
LEMMA KeptStep ==
  ASSUME IInv, Kept, plan.acts = {"login"}, [Next]_vars, UNCHANGED faults, faults \in Nat
  PROVE  Kept'
<1>f. ~Fault
  BY DEF Fault
<1>h. /\ \A t \in Tab : Refresh(t) \in Handler /\ User(t) \in Handler
      /\ \A q \in Query : PromiseOf(q) \in Handler
  BY HandlerAssumption DEF Refresh, User, PromiseOf
<1>r. \A h \in Handler : handler[h] \in Requests
  BY DEF IInv, ServerIInv, ServerInv
<1>a. ASSUME NEW h \in Handler, NEW kind \in {"login", "refresh"}, Arrive(h, kind, cookie),
             UNCHANGED <<session, made, cookie, active>>
      PROVE  Kept'
  <2> DEFINE x == [phase |-> "begun", kind |-> kind, cookie |-> cookie]
  <2>1. /\ Go(h, x) /\ x \in Requests /\ x.phase = "begun" /\ x.kind = kind
        /\ x.cookie = cookie
    BY <1>a, NewRequests DEF Arrive, IInv, ClientInv, ClientTypes
  <2> HIDE DEF x
  <2>2. ~Carries(h)
    BY <1>a DEF Arrive, Free, Carries
  <2> QED BY <1>a, <2>1, <2>2, MovesAreKept
<1>1. ASSUME NEW t \in Tab, StartUp(t) PROVE Kept'
  BY <1>1, <1>a, <1>h DEF StartUp
<1>2. ASSUME NEW t \in Tab, NEW kind \in {"login", "logout"}, Act(t, kind) PROVE Kept'
  <2>1. kind \in {"login", "refresh"}
    BY <1>2 DEF Act
  <2> QED BY <1>2, <1>a, <1>h, <2>1 DEF Act
<1>3. ASSUME NEW q \in Query, Ask(q) \/ Serve(q) PROVE Kept'
  BY <1>3, KeptStands DEF Ask, Serve, sessionVars
<1>4. ASSUME NEW q \in Query, Refused(q) PROVE Kept'
  <2>1. CASE handler' = handler
    BY <1>4, <2>1, KeptStands DEF Refused
  <2>2. CASE Arrive(PromiseOf(q), "refresh", cookie)
    BY <1>4, <1>a, <1>h, <2>2 DEF Refused
  <2> QED BY <1>4, <2>1, <2>2 DEF Refused
<1>5. ASSUME NEW h \in Handler, Served(h) PROVE Kept'
  <2>1. /\ UNCHANGED cookie /\ ServerStep(h)
        /\ handler[h].phase \in {"begun", "verified", "revoked"}
    BY <1>5 DEF Served, ServerStep, clientVars, Verify, LogIn, Revoke, Renew, LogOut, At
  <2>2. Uses(h) /\ ~Carries(h) /\ handler[h] # Free
    BY <2>1 DEF Uses, Carries, Free
  <2>3. handler[h].kind \in {"login", "refresh"}
    BY <1>r, <2>2, RequestCases DEF Kept
  <2>4. ASSUME Answer(h, 401, keep), UNCHANGED <<session, made, active>> PROVE Kept'
    <3> DEFINE x == [phase |-> "answered", kind |-> handler[h].kind, code |-> 401, token |-> keep]
    <3>1. Go(h, x)
      BY <2>4 DEF Answer
    <3>2. x \in Requests
      BY <2>3, NewRequests
    <3>3. x.phase = "answered" /\ x.token = keep /\ x.kind = handler[h].kind
      OBVIOUS
    <3> HIDE DEF x
    <3> QED BY <2>1, <2>2, <2>3, <2>4, <3>1, <3>2, <3>3, MovesAreKept
  <2>5. ASSUME NEW x, Go(h, x), UNCHANGED <<session, made, active>>,
               \/ x = [phase |-> "verified", kind |-> "login", cookie |-> handler[h].cookie]
               \/ x = [phase |-> "revoked", kind |-> "refresh", cookie |-> handler[h].cookie]
        PROVE  Kept'
    <3>1. handler[h].cookie \in Cookie
      BY <1>r, <2>1, RequestCases
    <3>2. x \in Requests
      <4>1. /\ [phase |-> "verified", kind |-> "login", cookie |-> handler[h].cookie] \in Requests
            /\ [phase |-> "revoked", kind |-> "refresh", cookie |-> handler[h].cookie] \in Requests
        BY ZenonT(60), <3>1, NewRequests
      <4> QED BY <2>5, <4>1
    <3>3. x.phase \in {"verified", "revoked"} /\ x.kind # "logout" /\ x.cookie = handler[h].cookie
      BY <2>5
    <3> QED BY <2>1, <2>2, <2>5, <3>2, <3>3, MovesAreKept
  <2>6. made \in Nat
    BY TokenAssumption DEF IInv, ServerIInv, ServerInv, Cookie
  <2>7. CASE Verify(h)
    <3>1. Go(h, [phase |-> "verified", kind |-> "login", cookie |-> handler[h].cookie])
      BY <1>r, <2>7, RequestGoesOn DEF Verify, At, Kept
    <3> QED BY <2>5, <2>7, <3>1 DEF Verify
  <2>8. CASE LogIn(h)
    <3>1. /\ made' = made + 1 /\ made' \in Token /\ Answer(h, 201, made') /\ UNCHANGED active
          /\ session' = [session EXCEPT ![made'] = Row(made')]
      BY <2>6, <2>8, TokenAssumption DEF LogIn, Kept, Token
    <3>2. \A u \in Token : Live(u) => u # made'
      BY <2>6, <3>1 DEF Live, IInv, ServerIInv, ServerInv
    <3>3. session'[made'] = Row(made') /\ \A u \in Token : u # made' => session'[u] = session[u]
      BY <3>1 DEF IInv, ServerIInv, ServerInv
    <3>4. Row(made').state = "live" /\ Row(made') # NoToken
      <4>1. Row(made') \in Rows
        BY <3>1 DEF Row, Rows
      <4> QED BY <4>1, TokenAssumption DEF Row
    <3>5. Live(made)'
      BY <3>1, <3>3, <3>4 DEF Live
    <3>6. \A u \in Token : Live(u) => Live(u)'
      BY <3>2, <3>3 DEF Live
    <3> QED BY <2>1, <2>2, <2>3, <3>1, <3>5, <3>6, IssuesAreKept
  <2>9. CASE Revoke(h)
    <3>1. CASE Answer(h, 401, keep)
      BY <2>4, <2>9, <3>1 DEF Revoke
    <3>2. CASE Go(h, [handler[h] EXCEPT !.phase = "revoked"])
      <4>1. Go(h, [phase |-> "revoked", kind |-> "refresh", cookie |-> handler[h].cookie])
        BY <1>r, <2>9, <3>2, RequestGoesOn DEF Revoke, At
      <4> QED BY <2>5, <2>9, <4>1 DEF Revoke
    <3> QED BY <2>9, <3>1, <3>2 DEF Revoke
  <2>10. CASE Renew(h)
    <3>1. PICK t : t = handler[h].cookie
      OBVIOUS
    <3>2. /\ made' = made + 1 /\ made' \in Token /\ Answer(h, 201, made') /\ UNCHANGED active
          /\ session' = [session EXCEPT ![t] = Dead(@), ![made'] = Row(session[t].login)]
      BY <2>6, <2>10, <3>1, TokenAssumption DEF Renew, Kept, Token
    <3>3. Live(t) /\ session[t] \in Rows
      <4>1. Live(t)
        BY <2>10, <3>1 DEF Renew, At, IInv, ServerIInv, HoldersAlone
      <4> QED BY <4>1 DEF Live, IInv, ServerIInv, ServerInv
    <3>4. \A u \in Token : Live(u) => u # made'
      BY <2>6, <3>2 DEF Live, IInv, ServerIInv, ServerInv
    <3>5. /\ session'[made'] = Row(session[t].login)
          /\ \A u \in Token : u # made' /\ u # t => session'[u] = session[u]
      BY <3>2 DEF IInv, ServerIInv, ServerInv
    <3>6. Row(session[t].login).state = "live" /\ Row(session[t].login) # NoToken
      <4>1. Row(session[t].login) \in Rows
        BY <3>3 DEF Row, Rows
      <4> QED BY <4>1, TokenAssumption DEF Row
    <3>7. Live(made)'
      BY <3>2, <3>5, <3>6 DEF Live
    <3>8. \A u \in Token : Live(u) /\ u # handler[h].cookie => Live(u)'
      BY <3>1, <3>4, <3>5 DEF Live
    <3> QED BY <2>1, <2>2, <2>3, <3>2, <3>7, <3>8, IssuesAreKept
  <2>11. ~LogOut(h)
    BY <2>3 DEF LogOut, At
  <2> QED BY <2>1, <2>7, <2>8, <2>9, <2>10, <2>11 DEF ServerStep
<1>6. ASSUME NEW h \in Handler, Deliver(h) PROVE Kept'
  <2>1. Go(h, Free) /\ UNCHANGED <<session, made, active>>
    BY <1>6 DEF Deliver, End, EndRefresh, EndUser, Go
  <2>2. handler[h].phase = "answered" /\ handler[h].token \in Token \cup {keep}
    BY <1>6 DEF Deliver, Kept
  <2>3. CASE Carries(h)
    <3>1. cookie' = handler[h].token
      BY <1>6, <2>3, TokenAssumption DEF Deliver, Carries, keep, Token
    <3> QED BY <2>1, <2>3, <3>1, ArrivalsAreKept
  <2>4. CASE ~Carries(h)
    <3>1. UNCHANGED cookie
      BY <1>6, <2>2, <2>4 DEF Deliver, Carries
    <3>2. Free \in Requests /\ Free.phase = "free"
      BY NewRequests DEF Free
    <3> QED BY <2>1, <2>4, <3>1, <3>2, MovesAreKept
  <2> QED BY <2>3, <2>4
<1>7. ASSUME NEW h \in Handler, Lose(h) PROVE FALSE
  BY <1>7, <1>f DEF Lose
<1>8. ASSUME ServerFault PROVE FALSE
  BY <1>8, <1>f DEF ServerFault, FailRefresh, FailLogOut, Expire, Suspend
<1>9. CASE Age
  BY <1>9, KeptStands DEF Age, sessionVars
<1>10. CASE UNCHANGED vars
  BY <1>10, KeptStands DEF vars, sessionVars, clientVars
<1> QED BY <1>1, <1>2, <1>3, <1>4, <1>5, <1>6, <1>7, <1>8, <1>9, <1>10 DEF Next

\* A step of a browser with one tab.
LEMMA SoloStep ==
  ASSUME IInv, Kept, plan.acts = {"login"}, [Next]_vars, UNCHANGED faults, faults \in Nat,
         NEW t \in Tab, plan.tabs = {t}, Solo(t)
  PROVE  Solo(t)'
<1>f. ~Fault
  BY DEF Fault
<1>h. /\ Refresh(t) \in Handler /\ User(t) \in Handler /\ Refresh(t) # User(t)
      /\ \A q \in Query : q[1] = t => PromiseOf(q) = Refresh(t)
  BY HandlerAssumption DEF Refresh, User, PromiseOf
<1>t. tab \in [Tab -> Tabs] /\ call \in [Query -> Calls] /\ made \in Int
  BY TokenAssumption DEF IInv, ClientInv, ClientTypes, ServerIInv, ServerInv, Cookie
<1>w. \A q \in Query : Well(q, t)
  BY DEF Solo
<1>a. ASSUME NEW h \in Handler, NEW kind, Arrive(h, kind, cookie)
      PROVE  \E x : /\ handler' = [handler EXCEPT ![h] = x] /\ handler'[h] = x /\ handler[h] = Free
                    /\ x # Free /\ x.kind = kind /\ x.phase = "begun" /\ x.cookie = cookie
  <2> DEFINE x == [phase |-> "begun", kind |-> kind, cookie |-> cookie]
  <2>1. x # Free /\ x.kind = kind /\ x.phase = "begun" /\ x.cookie = cookie
    BY DEF Free
  <2>2. handler' = [handler EXCEPT ![h] = x] /\ handler[h] = Free
    BY <1>a DEF Arrive, Go
  <2> HIDE DEF x
  <2>3. handler'[h] = x
    BY <2>2 DEF IInv, ServerIInv, ServerInv
  <2> QED BY <2>1, <2>2, <2>3
\* Nothing happens but to the queries and the tokens that are fresh.
<1>b. ASSUME UNCHANGED <<session, made, handler, tab>>, \A q \in Query : Well(q, t)'
      PROVE  Solo(t)'
  <2>1. UNCHANGED session /\ UNCHANGED made /\ UNCHANGED handler /\ UNCHANGED tab
    BY <1>b
  <2>2. GoesWell(Refresh(t)) => GoesWell(Refresh(t))'
    BY <2>1 DEF GoesWell, Live, Refresh
  <2> QED BY <1>b, <2>1, <2>2 DEF Solo, User, Refresh
<1>1. ASSUME NEW s \in Tab, StartUp(s) PROVE Solo(t)'
  <2>1. s = t /\ tab[t].phase = "loading" /\ tab' = [tab EXCEPT ![t].phase = "starting"]
    BY <1>1 DEF StartUp
  <2>2. PICK x : /\ handler' = [handler EXCEPT ![Refresh(t)] = x] /\ handler'[Refresh(t)] = x
                 /\ x # Free /\ x.kind = "refresh"
    BY <1>1, <1>a, <1>h, <2>1 DEF StartUp
  <2>3. \A g \in Handler : g # Refresh(t) => handler'[g] = handler[g]
    BY <2>2 DEF IInv, ServerIInv, ServerInv
  <2>4. handler'[User(t)] = Free
    BY <1>h, <2>1, <2>3 DEF Solo
  <2>5. tab'[t].phase = "starting" /\ \A u \in Tab : u # t => tab'[u] = tab[u]
    BY <1>t, <2>1 DEF Tabs
  <2>6. \A q \in Query : Well(q, t)'
    <3>1. \A q \in Query : call[q].phase = "idle"
      BY <1>w, <2>1 DEF Well
    <3>2. UNCHANGED call
      BY <1>1 DEF StartUp
    <3> QED BY <3>1, <3>2 DEF Well
  <2>7. \A g \in Handler : handler'[g] # Free => g \in {Refresh(t), User(t)}
    BY <2>3 DEF Solo
  <2>8. \A u \in Tab : u # t => tab'[u].phase = "loading"
    BY <2>5 DEF Solo
  <2> QED BY <2>4, <2>5, <2>6, <2>7, <2>8 DEF Solo, User, Refresh
<1>2. ASSUME NEW s \in Tab, NEW kind \in {"login", "logout"}, Act(s, kind) PROVE Solo(t)'
  <2>1. kind = "login" /\ tab[s].phase = "out"
    BY <1>2 DEF Act
  <2>2. s = t
    BY <2>1 DEF Solo
  <2>3. PICK x : handler' = [handler EXCEPT ![User(t)] = x] /\ x # Free /\ x.kind = "login"
    BY <1>2, <1>a, <1>h, <2>1, <2>2 DEF Act
  <2>4. UNCHANGED <<tab, call, fresh>> /\ made' = made
    BY <1>2 DEF Act
  <2>5. made' >= made /\ made' \in Int /\ User(t) \in {Refresh(t), User(t)} /\ User(t) # Refresh(t)
    BY <1>h, <1>t, <2>4
  <2>6. tab[t].phase = "out"
    BY <2>1, <2>2
  <2> QED BY <1>h, <1>t, <2>3, <2>4, <2>5, <2>6, SoloStands
<1>3. ASSUME NEW q \in Query, Ask(q) PROVE Solo(t)'
  <2>1. tab[q[1]].phase = "in" /\ q[1] = t
    BY <1>3, HandlerAssumption DEF Ask, Solo
  <2>2. call' = [call EXCEPT ![q] = Send(q, tab[q[1]].access, FALSE)]
    BY <1>3 DEF Ask
  <2>3. call'[q].phase = "sent" /\ ~call'[q].last /\ \A r \in Query : r # q => call'[r] = call[r]
    BY <1>t, <2>2 DEF Send
  <2>4. UNCHANGED tab /\ UNCHANGED fresh
    BY <1>3 DEF Ask
  <2>5. \A r \in Query : Well(r, t)'
    BY <1>w, <2>1, <2>3, <2>4 DEF Well
  <2> QED BY <1>3, <1>b, <2>5 DEF Ask, sessionVars
<1>4. ASSUME NEW q \in Query, Serve(q) PROVE Solo(t)'
  <2>0. call[q] \in Calls /\ call[q].phase = "sent" /\ Well(q, t)
    BY <1>4, <1>t, <1>w DEF Serve
  <2>1. UNCHANGED tab /\ UNCHANGED fresh
    BY <1>4 DEF Serve
  <2>2. call' = [call EXCEPT ![q].phase = IF Fresh(call[q].token) /\ active THEN "done" ELSE "refused"]
    BY <1>4 DEF Serve
  <2>3. /\ call'[q].phase = IF Fresh(call[q].token) /\ active THEN "done" ELSE "refused"
        /\ call'[q].last = call[q].last /\ \A r \in Query : r # q => call'[r] = call[r]
    BY <1>t, <2>0, <2>2 DEF Calls
  <2>4. call[q].last => call'[q].phase = "done"
    BY <2>0, <2>3 DEF Well, Kept, Fresh
  <2>5. Well(q, t)'
    BY <2>0, <2>1, <2>3, <2>4 DEF Well
  <2>6. \A r \in Query : Well(r, t)'
    BY <1>w, <2>1, <2>3, <2>5 DEF Well
  <2> QED BY <1>4, <1>b, <2>6 DEF Serve, sessionVars
<1>5. ASSUME NEW q \in Query, Refused(q) PROVE Solo(t)'
  <2>1. call[q] \in Calls /\ call[q].phase = "refused" /\ ~call[q].last /\ q[1] = t /\ tab[t].phase = "in"
    BY <1>5, <1>t, <1>w DEF Refused, Well
  <2>2. /\ call' = [call EXCEPT ![q].phase = "waiting"]
        /\ UNCHANGED <<session, made, tab, fresh>>
        /\ IF handler[Refresh(t)] = Free THEN Arrive(Refresh(t), "refresh", cookie) ELSE UNCHANGED handler
    BY <1>5, <1>h, <2>1 DEF Refused
  <2>3. call'[q].phase = "waiting" /\ \A r \in Query : r # q => call'[r] = call[r]
    BY <1>t, <2>1, <2>2 DEF Calls
  <2>4. UNCHANGED tab /\ UNCHANGED fresh
    BY <2>2
  <2>5. \A r \in Query : Well(r, t)'
    BY <1>w, <2>1, <2>3, <2>4 DEF Well
  <2>6. CASE handler[Refresh(t)] # Free
    BY <1>b, <2>2, <2>5, <2>6
  <2>7. CASE handler[Refresh(t)] = Free
    <3>1. PICK x : /\ handler' = [handler EXCEPT ![Refresh(t)] = x] /\ handler'[Refresh(t)] = x
                   /\ x # Free /\ x.phase = "begun" /\ x.cookie = cookie
      BY <1>a, <1>h, <2>2, <2>7
    <3>2. \A g \in Handler : g # Refresh(t) => handler'[g] = handler[g]
      BY <3>1 DEF IInv, ServerIInv, ServerInv
    <3>3. \A g \in Handler : handler[g] = Free
      BY <2>1, <2>7 DEF Solo
    <3>4. Live(cookie)
      <4>1. made > 0
        BY <2>1 DEF Solo
      <4>2. \A g \in Handler : ~Carries(g)
        BY <3>3 DEF Carries, Free
      <4> QED BY <4>1, <4>2 DEF Kept
    <3>5. GoesWell(Refresh(t))'
      BY <2>2, <3>1, <3>4 DEF GoesWell, Live, Refresh
    <3>6. handler'[User(t)] = Free
      BY <1>h, <3>2, <3>3
    <3>7. \A g \in Handler : handler'[g] # Free => g \in {Refresh(t), User(t)}
      BY <3>2, <3>3
    <3>8. UNCHANGED made
      BY <2>2
    <3> QED BY <2>1, <2>4, <2>5, <3>5, <3>6, <3>7, <3>8 DEF Solo, User, Refresh
  <2> QED BY <2>6, <2>7
<1>6. ASSUME NEW h \in Handler, Served(h) PROVE Solo(t)'
  BY <1>6, SoloServed
<1>7. ASSUME NEW h \in Handler, Deliver(h) PROVE Solo(t)'
  BY <1>7, SoloDelivered
<1>8. ASSUME NEW h \in Handler, Lose(h) PROVE FALSE
  BY <1>8, <1>f DEF Lose
<1>9. ASSUME ServerFault PROVE FALSE
  BY <1>9, <1>f DEF ServerFault, FailRefresh, FailLogOut, Expire, Suspend
<1>10. CASE Age
  <2>1. PICK n \in fresh : /\ \A q \in Query : call[q].phase = "sent" /\ call[q].last => call[q].token # n
                           /\ fresh' = fresh \ {n}
    BY <1>10 DEF Age
  <2>2. UNCHANGED tab /\ UNCHANGED call
    BY <1>10 DEF Age
  <2>3. \A q \in Query : Well(q, t)'
    BY <1>w, <2>1, <2>2 DEF Well
  <2> QED BY <1>10, <1>b, <2>3 DEF Age, sessionVars
<1>11. CASE UNCHANGED vars
  <2>1. UNCHANGED tab /\ UNCHANGED call /\ UNCHANGED fresh
    BY <1>11 DEF vars, clientVars
  <2>2. \A q \in Query : Well(q, t)'
    BY <1>w, <2>1 DEF Well
  <2> QED BY <1>11, <1>b, <2>2 DEF vars, sessionVars, clientVars
<1> QED BY <1>1, <1>2, <1>3, <1>4, <1>5, <1>6, <1>7, <1>8, <1>9, <1>10, <1>11 DEF Next

LEMMA SessionInvInitially == Init => SessionInv
<1> SUFFICES ASSUME Init PROVE SessionInv
  OBVIOUS
<1>1. \A h \in Handler : handler[h] = Free
  BY DEF Init, SessionInit
<1>2. \A h \in Handler : ~Carries(h) /\ ~Uses(h) /\ GoesWell(h)
  BY <1>1 DEF Carries, Uses, GoesWell, Free
<1>3. faults = 0 /\ plan \in Plans /\ active /\ made = 0 /\ cookie = 0
  BY DEF Init, SessionInit
<1>4. Kept
  BY <1>1, <1>2, <1>3 DEF Kept, Free
<1>5. ASSUME NEW t \in Tab PROVE Solo(t)
  <2>1. \A s \in Tab : tab[s].phase = "loading"
    BY DEF Init
  <2>2. \A q \in Query : call[q].phase = "idle"
    BY DEF Init
  <2>3. \A q \in Query : Well(q, t)
    BY <2>2 DEF Well
  <2>4. Refresh(t) \in Handler /\ User(t) \in Handler
    BY HandlerAssumption DEF Refresh, User
  <2> QED BY <1>1, <2>1, <2>3, <2>4 DEF Solo
<1> QED BY <1>3, <1>4, <1>5 DEF SessionInv

LEMMA SessionInvStep == IInv /\ SessionInv /\ [Next]_vars => SessionInv'
<1> SUFFICES ASSUME IInv, SessionInv, [Next]_vars PROVE SessionInv'
  OBVIOUS
<1>1. UNCHANGED plan /\ (UNCHANGED faults \/ faults' = faults + 1)
  <2>1. ASSUME NEW t \in Tab, StartUp(t) PROVE UNCHANGED <<plan, faults>>
    BY <2>1 DEF StartUp
  <2>2. ASSUME NEW t \in Tab, NEW kind, Act(t, kind) PROVE UNCHANGED <<plan, faults>>
    BY <2>2 DEF Act
  <2>3. ASSUME NEW q \in Query, Ask(q) \/ Serve(q) \/ Refused(q) PROVE UNCHANGED <<plan, faults>>
    BY <2>3 DEF Ask, Serve, Refused, sessionVars
  <2>4. ASSUME NEW h \in Handler, Served(h) \/ Deliver(h) PROVE UNCHANGED <<plan, faults>>
    BY <2>4 DEF Served, ServerStep, Verify, LogIn, Revoke, Renew, LogOut, Deliver
  <2>5. ASSUME NEW h \in Handler, Lose(h) PROVE UNCHANGED plan /\ faults' = faults + 1
    BY <2>5 DEF Lose, Fault
  <2>6. ASSUME ServerFault PROVE UNCHANGED plan /\ faults' = faults + 1
    BY <2>6 DEF ServerFault, Expire, Suspend, FailRefresh, FailLogOut, Fault
  <2>7. CASE Age \/ UNCHANGED vars
    BY <2>7 DEF Age, vars, sessionVars
  <2> QED BY <2>1, <2>2, <2>3, <2>4, <2>5, <2>6, <2>7 DEF Next
<1>2. faults' \in Nat /\ plan' \in Plans
  BY <1>1 DEF SessionInv
<1>3. ASSUME Undisturbed' PROVE Undisturbed /\ UNCHANGED faults /\ plan.acts = {"login"}
  BY <1>1, <1>3 DEF Undisturbed, SessionInv
<1>4. Undisturbed' => Kept'
  BY <1>3, KeptStep DEF SessionInv
<1>5. Undisturbed' => \A t \in Tab : plan'.tabs = {t} => Solo(t)'
  BY <1>1, <1>3, SoloStep DEF SessionInv
<1> QED BY <1>2, <1>4, <1>5 DEF SessionInv

LEMMA SessionsAreKept == IInv /\ SessionInv => StaysLoggedIn
<1> SUFFICES ASSUME IInv, SessionInv PROVE StaysLoggedIn
  OBVIOUS
<1>1. KeepsSession
  <2> SUFFICES ASSUME Undisturbed, Quiet, made > 0 PROVE Live(cookie)
    BY DEF KeepsSession, Undisturbed
  <2>1. \A h \in Handler : ~Carries(h)
    BY DEF Quiet, Carries, Free
  <2> QED BY <2>1 DEF SessionInv, Kept
<1>2. NoQueryFails
  <2> SUFFICES ASSUME Undisturbed, Cardinality(plan.tabs) = 1, NEW q \in Query
               PROVE  call[q].phase # "failed"
    BY DEF NoQueryFails, Undisturbed
  <2>1. IsFiniteSet(plan.tabs) /\ plan.tabs \subseteq Tab
    BY HandlerAssumption DEF SessionInv
  <2>2. PICK t : plan.tabs = {t}
    BY <2>1, FS_Singleton
  <2>3. Solo(t)
    BY <2>1, <2>2 DEF SessionInv
  <2> QED BY <2>3 DEF Solo, Well
<1> QED BY <1>1, <1>2 DEF StaysLoggedIn

-----------------------------------------------------------------------------
(* Theorems *)

\* The variables keep their types, and a query waits only while the refresh
\* that it shares is under way (api.ts 30-39).
THEOREM TypesHold == Spec => []TypeOK
<1>1. IInv => TypeOK
  <2> SUFFICES ASSUME IInv PROVE TypeOK
    OBVIOUS
  <2>1. \A t \in Tab : tab[t] \in Tabs
    BY DEF IInv, ClientInv, ClientTypes
  <2>2. \A q \in Query : call[q] \in Calls
    BY DEF IInv, ClientInv, ClientTypes
  <2> QED BY <2>1, <2>2 DEF TypeOK, IInv, ServerIInv, ServerInv, ClientInv, ClientTypes,
      Awaited,
                            Tabs, Calls, Cookie
<1> QED BY <1>1, InitIsSound, StepIsSound, PTL DEF Spec

\* For any number of tabs, queries and tokens a login has one token that
\* works at most, and a refresh uses it up and puts one new token in its
\* place, whatever requests cross and fail (auth.go 145-183).
THEOREM RotatesAlways == Spec => Rotates
<1>1. Init => IInv /\ Rotation!Init
  BY InitIsSound
<1>2. IInv /\ [Next]_vars => IInv' /\ [Rotation!Next]_<<Working, 1..made>>
  <2> SUFFICES ASSUME IInv, [Next]_vars
               PROVE  IInv' /\ (Rotation!Next \/ UNCHANGED <<Working, 1..made>>)
    OBVIOUS
  <2>1. IInv' /\ AbstractStep
    BY StepIsSound
  <2>2. UNCHANGED <<Working, made>> => UNCHANGED <<Working, 1..made>>
    OBVIOUS
  <2> QED BY <2>1, <2>2 DEF AbstractStep
<1> QED BY <1>1, <1>2, PTL DEF Spec, Rotates, Rotation!Spec

\* Whoever logs in stays logged in while nothing fails: at rest the browser
\* has a token that works, however its tabs and requests cross, and with one
\* tab no query fails (api.ts 106-116, auth.go 145-183).
THEOREM StaysLoggedInAlways == Spec => []StaysLoggedIn
<1>1. Init => IInv /\ SessionInv
  BY InitIsSound, SessionInvInitially
<1>2. IInv /\ SessionInv /\ [Next]_vars => (IInv /\ SessionInv)'
  BY StepIsSound, SessionInvStep
<1> QED BY <1>1, <1>2, SessionsAreKept, PTL DEF Spec
=============================================================================
