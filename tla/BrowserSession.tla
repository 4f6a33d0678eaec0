--------------------------- MODULE BrowserSession ---------------------------
(***************************************************************************)
(* The web client on top of AuthSessions: the tabs of one browser share    *)
(* one cookie jar; each tab keeps an access token and sends queries.  The  *)
(* queries that get 401 wait for one refresh of their tab and are sent     *)
(* once more.  A request reads the jar when it is sent, its answer changes *)
(* the jar when it arrives.                                                *)
(***************************************************************************)
EXTENDS AuthSessions

CONSTANTS
  Tab,
  Query        \* <<tab, name>>: the queries, each sent once

(* A plan also names the tabs that are opened, the queries that are asked, *)
(* and what users do how often.  A query and the start of a page make a    *)
(* token at most.                                                          *)
ASSUME HandlerAssumption ==
  /\ Handler = Tab \X {"refresh", "user"} \cup Query
  /\ \A q \in Query : q[1] \in Tab
  /\ \A p \in Plans : /\ p.tabs \subseteq Tab /\ p.queries \subseteq Query
                      /\ IsFiniteSet(p.tabs) /\ IsFiniteSet(p.queries)
                      /\ p.turns + Cardinality(p.queries) + Cardinality(p.tabs) <= MaxTokens
                      /\ p.acts \subseteq {"login", "logout"}

VARIABLES
  cookie,     \* the refresh token of the jar, 0 for none
  fresh,      \* access tokens not expired, by the number of their session
  tab,        \* Tab -> [phase, access]
  turns,      \* logins and logouts that users have asked for
  call        \* Query -> [phase, token, last]

clientVars == <<cookie, fresh, tab, turns, call>>
vars == <<sessionVars, clientVars>>

Init ==
  /\ SessionInit
  /\ cookie = 0
  /\ fresh = {}
  /\ turns = 0
  /\ tab = [t \in Tab |-> [phase |-> "loading", access |-> 0]]
  /\ call = [q \in Query |-> [phase |-> "idle", token |-> 0, last |-> FALSE]]

Fresh(t) == t \in fresh

\* The call of refresh that a query of a tab shares with the others.
Refresh(t) == <<t, "refresh">>
User(t) == <<t, "user">>

(* Mutant: every query refreshes for itself.                               *)
PromiseOfQuery(q) == q

PromiseOf(q) == Refresh(q[1])

Waiting(h) == {q \in Query : call[q].phase = "waiting" /\ PromiseOf(q) = h}

Send(q, token, last) == [phase |-> "sent", token |-> token, last |-> last]

-----------------------------------------------------------------------------
(* The page is loaded: AuthProvider tries to refresh.  The request for the *)
(* stores that follows a refresh or a login is one of the queries.         *)
StartUp(t) ==
  /\ t \in plan.tabs /\ tab[t].phase = "loading"
  /\ Arrive(Refresh(t), "refresh", cookie)
  /\ tab' = [tab EXCEPT ![t].phase = "starting"]
  /\ UNCHANGED <<plan, session, active, made, faults, cookie, fresh, turns, call>>

Act(t, kind) ==
  /\ kind \in plan.acts
  /\ tab[t].phase = IF kind = "login" THEN "out" ELSE "in"
  /\ turns < plan.turns /\ turns' = turns + 1
  /\ Arrive(User(t), kind, cookie)
  /\ UNCHANGED <<plan, session, active, made, faults, cookie, fresh, tab, call>>

Ask(q) ==
  /\ q \in plan.queries /\ tab[q[1]].phase = "in"
  /\ call[q].phase = "idle"
  /\ call' = [call EXCEPT ![q] = Send(q, tab[q[1]].access, FALSE)]
  /\ UNCHANGED <<sessionVars, cookie, fresh, tab, turns>>

\* The middleware takes an access token that is not expired, of an active user.
Serve(q) ==
  /\ call[q].phase = "sent"
  /\ call' = [call EXCEPT ![q].phase =
       IF Fresh(call[q].token) /\ active THEN "done" ELSE "refused"]
  /\ UNCHANGED <<sessionVars, cookie, fresh, tab, turns>>

(* A 401 arrives: it is final for a repeated query, a first one joins the  *)
(* refresh under way or starts one.                                        *)
Refused(q) ==
  LET h == PromiseOf(q)
  IN  /\ call[q].phase = "refused"
      /\ IF call[q].last
         THEN call' = [call EXCEPT ![q].phase = "failed"] /\ UNCHANGED handler
         ELSE /\ call' = [call EXCEPT ![q].phase = "waiting"]
              /\ IF handler[h] = Free THEN Arrive(h, "refresh", cookie) ELSE UNCHANGED handler
      /\ UNCHANGED <<plan, session, active, made, faults, cookie, fresh, tab, turns>>

-----------------------------------------------------------------------------
(* Mutant: the queries that joined the refresh are not told of its error.  *)
EndRefreshForgetting(h, token) ==
  /\ handler' = [handler EXCEPT ![h] = Free]
  /\ tab' = [tab EXCEPT ![h[1]] =
       [phase  |-> IF @.phase = "starting" THEN IF token # 0 THEN "in" ELSE "out" ELSE @.phase,
        access |-> IF token # 0 THEN token ELSE @.access]]
  /\ call' = [q \in Query |->
       IF q \in Waiting(h) /\ token # 0 THEN Send(q, token, TRUE) ELSE call[q]]

(* The end of rawRequest for refresh, well or not: the promise is cleared  *)
(* and everybody who awaits it goes on.                                    *)
EndRefresh(h, token) ==
  LET t == h[1]
      ok == token # 0
  IN  /\ handler' = [handler EXCEPT ![h] = Free]
      /\ tab' = [tab EXCEPT ![t] =
           [phase  |-> IF @.phase = "starting" THEN IF ok THEN "in" ELSE "out" ELSE @.phase,
            access |-> IF ok THEN token ELSE @.access]]
      /\ call' = [q \in Query |->
           IF q \notin Waiting(h) THEN call[q]
           ELSE IF ok THEN Send(q, token, TRUE) ELSE [call[q] EXCEPT !.phase = "failed"]]

\* login and logout: an error leaves the user, but logout forgets the token.
EndUser(h, kind, token, ok) ==
  LET t == h[1]
  IN  /\ handler' = [handler EXCEPT ![h] = Free]
      /\ tab' = [tab EXCEPT ![t] =
           CASE kind = "login" /\ ok -> [phase |-> "in", access |-> token]
             [] kind = "logout" -> [phase |-> IF ok THEN "out" ELSE @.phase, access |-> 0]
             [] OTHER -> @]
      /\ UNCHANGED call

End(h, token, ok) ==
  IF handler[h].kind = "refresh" THEN EndRefresh(h, IF ok THEN token ELSE 0)
  ELSE EndUser(h, handler[h].kind, token, ok)

Deliver(h) ==
  /\ handler[h].phase = "answered"
  /\ LET a == handler[h]
     IN  /\ cookie' = IF a.token = keep THEN cookie ELSE a.token
         /\ fresh' = IF a.token \in Token THEN fresh \cup {a.token} ELSE fresh
         /\ End(h, a.token, a.code = 201)
  /\ UNCHANGED <<plan, session, active, made, faults, turns>>

(* The connection breaks after the server has answered.                    *)
Lose(h) ==
  /\ handler[h].phase = "answered"
  /\ Fault
  /\ End(h, 0, FALSE)
  /\ UNCHANGED <<plan, session, active, made, cookie, fresh, turns>>

(* An access token expires.  Its 15 minutes are longer than a query that   *)
(* is repeated with it takes.                                              *)
Age ==
  \E n \in fresh :
    /\ \A q \in Query : call[q].phase = "sent" /\ call[q].last => call[q].token # n
    /\ fresh' = fresh \ {n}
    /\ UNCHANGED <<sessionVars, cookie, tab, turns, call>>

-----------------------------------------------------------------------------
Served(h) == ServerStep(h) /\ UNCHANGED clientVars

Next ==
  \/ \E t \in Tab : StartUp(t) \/ \E kind \in {"login", "logout"} : Act(t, kind)
  \/ \E q \in Query : Ask(q) \/ Serve(q) \/ Refused(q)
  \/ \E h \in Handler : Served(h) \/ Deliver(h) \/ Lose(h)
  \/ ServerFault /\ UNCHANGED clientVars
  \/ Age

\* While a query or a request under way can go on, one does; users need not
\* act and nothing has to fail.
Progress ==
  \/ \E q \in Query : Serve(q) \/ Refused(q)
  \/ \E h \in Handler : Served(h) \/ Deliver(h)

Spec == Init /\ [][Next]_vars /\ WF_vars(Progress)

-----------------------------------------------------------------------------
(* The variables have their types; a query waits only while the refresh    *)
(* it shares is under way (api.ts 30-39).                                  *)
TypeOK ==
  /\ made \in 0..MaxTokens
  /\ cookie \in 0..MaxTokens /\ fresh \subseteq Token
  /\ \A t \in Token : session[t] = NoToken <=> t > made
  /\ \A t \in Tab : tab[t].phase \in {"loading", "starting", "out", "in"} /\ tab[t].access \in 0..MaxTokens
  /\ \A q \in Query :
       /\ call[q].phase \in {"idle", "sent", "refused", "waiting", "done", "failed"}
       /\ call[q].phase = "waiting" => handler[PromiseOf(q)] # Free

LiveOf(login) == {t \in Token : Live(t) /\ session[t].login = login}

OneOf(tokens) == IF tokens = {} THEN NoToken ELSE CHOOSE t \in tokens : TRUE

Working == [l \in Token |-> OneOf(LiveOf(l))]

Rotation == INSTANCE TokenRotation WITH
  Login <- Token, None <- NoToken, valid <- Working, used <- 1..made

(* Each login has one token that works at most; a refresh replaces it and  *)
(* uses it up, whatever requests cross (auth.go 145-183).                  *)
Rotates == Rotation!Spec

Quiet == \A h \in Handler : handler[h] = Free

(* While nobody logs out and nothing fails, a browser that has logged in   *)
(* comes to rest with a token that works, although its tabs refresh with   *)
(* the same cookie and one of them is refused (auth.go 159-163).           *)
KeepsSession ==
  faults = 0 /\ plan.acts = {"login"} /\ Quiet /\ made > 0 => Live(cookie)

(* In a browser with one tab no query fails as long as nobody logs out and *)
(* nothing fails, however many queries find the access token expired       *)
(* together (api.ts 106-116).                                              *)
NoQueryFails ==
  faults = 0 /\ plan.acts = {"login"} /\ Cardinality(plan.tabs) = 1 =>
    \A q \in Query : call[q].phase # "failed"

(* The renewal of tokens does not end the session of a browser, with any   *)
(* number of tabs, and in a browser with one tab no query notices it (of   *)
(* two tabs one may be refused and see its queries fail; api.ts 106-116,   *)
(* auth.go 145-183).                                                       *)
StaysLoggedIn == KeepsSession /\ NoQueryFails

(* Every query ends with an answer or an error, and so does the start of   *)
(* a page, under every fault (api.ts 106-144, auth.go 145-183).            *)
CallsEnd ==
  /\ \A q \in Query : call[q].phase = "sent" ~> call[q].phase \in {"done", "failed"}
  /\ \A t \in Tab : tab[t].phase = "starting" ~> tab[t].phase # "starting"
=============================================================================
