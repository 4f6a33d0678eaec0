---------------------------- MODULE AuthSessions ----------------------------
(***************************************************************************)
(* The refresh sessions of one account at the server: login, refresh and   *)
(* logout, each request with its handler.  A refresh is one transaction:   *)
(* its UPDATE locks the row of the old token, an UPDATE by another request *)
(* waits for it and then sees what was committed.  Tokens are the numbers  *)
(* 1, 2, ... in the order in which they were made; 0 is no cookie.         *)
(***************************************************************************)
EXTENDS Integers, FiniteSets

CONSTANTS
  Handler,     \* requests that can be under way at once
  MaxTokens,   \* bound on the tokens made
  Plans,       \* records with faults, a bound on errors, losses, expiries
               \* and suspensions
  NoToken

Token == 1..MaxTokens

\* Rows of refresh_sessions; the login a row descends from is kept for the
\* properties.
Rows == [state : {"live", "revoked", "expired"}, login : Token]

ASSUME TokenAssumption ==
  /\ MaxTokens \in Nat /\ NoToken \notin Token \cup Rows
  /\ \A p \in Plans : p.faults \in Nat

VARIABLES
  plan,       \* what may happen in this behaviour, chosen once
  session,    \* Token -> its row of refresh_sessions, NoToken
  active,     \* the account is ACTIVE
  handler,    \* Handler -> the request it serves
  made,       \* tokens made so far
  faults

sessionVars == <<plan, session, active, handler, made, faults>>

Free == [phase |-> "free"]

SessionInit ==
  /\ plan \in Plans
  /\ session = [t \in Token |-> NoToken]
  /\ active = TRUE
  /\ handler = [h \in Handler |-> Free]
  /\ made = 0
  /\ faults = 0

Live(t) == t \in Token /\ session[t] # NoToken /\ session[t].state = "live"

Fault == faults < plan.faults /\ faults' = faults + 1

Row(login) == [state |-> "live", login |-> login]
Dead(row) == [row EXCEPT !.state = "revoked"]

At(h, phase, kind) == handler[h].phase = phase /\ handler[h].kind = kind
Go(h, next) == handler' = [handler EXCEPT ![h] = next]

\* token is what Set-Cookie carries: 0 clears it, keep leaves it as it is.
Answer(h, code, token) ==
  Go(h, [phase |-> "answered", kind |-> handler[h].kind, code |-> code, token |-> token])
keep == -1

(* Transactions that have updated the row of t and not committed.          *)
Holders(t) == {h \in Handler : handler[h].phase = "revoked" /\ handler[h].cookie = t}

-----------------------------------------------------------------------------
(* A request arrives.                                                      *)
Arrive(h, kind, cookie) ==
  /\ handler[h] = Free
  /\ Go(h, [phase |-> "begun", kind |-> kind, cookie |-> cookie])

(* The password and the status; wrong passwords change nothing and are     *)
(* left out.                                                               *)
Verify(h) ==
  /\ At(h, "begun", "login")
  /\ IF active THEN Go(h, [handler[h] EXCEPT !.phase = "verified"]) ELSE Answer(h, 401, keep)
  /\ UNCHANGED <<plan, session, active, made, faults>>

(* createSession inserts the row at once and then reads the user, who may  *)
(* have been suspended since the password was verified.                    *)
LogIn(h) ==
  /\ At(h, "verified", "login")
  /\ made < MaxTokens
  /\ made' = made + 1
  /\ session' = [session EXCEPT ![made'] = Row(made')]
  /\ IF active THEN Answer(h, 201, made') ELSE Answer(h, 500, keep)
  /\ UNCHANGED <<plan, active, faults>>

(* Mutant: a SELECT finds the session, the UPDATE names only its id.       *)
RevokeUnguarded(h) ==
  LET t == handler[h].cookie
  IN  /\ At(h, "begun", "refresh")
      /\ IF Live(t) THEN Go(h, [handler[h] EXCEPT !.phase = "revoked"]) ELSE Answer(h, 401, keep)
      /\ UNCHANGED <<plan, session, active, made, faults>>

(* UPDATE ... WHERE "tokenHash"=$1 AND "revokedAt" IS NULL AND "expiresAt" *)
(* >NOW(): one row, or the token is refused.                               *)
Revoke(h) ==
  LET t == handler[h].cookie
  IN  /\ At(h, "begun", "refresh")
      /\ Holders(t) = {}
      /\ IF Live(t) THEN Go(h, [handler[h] EXCEPT !.phase = "revoked"]) ELSE Answer(h, 401, keep)
      /\ UNCHANGED <<plan, session, active, made, faults>>

(* The user, the new row and the commit; or the user is not ACTIVE and the *)
(* transaction is rolled back.                                             *)
Renew(h) ==
  LET t == handler[h].cookie
  IN  /\ At(h, "revoked", "refresh")
      /\ made < MaxTokens
      /\ IF active
         THEN /\ made' = made + 1
              /\ session' = [session EXCEPT ![t] = Dead(@), ![made'] = Row(session[t].login)]
              /\ Answer(h, 201, made')
         ELSE Answer(h, 401, keep) /\ UNCHANGED <<session, made>>
      /\ UNCHANGED <<plan, active, faults>>

(* Mutant: an error ends the handler and leaves the transaction open.      *)
FailRefreshOpen(h) ==
  /\ At(h, "revoked", "refresh")
  /\ Fault
  /\ Go(h, [handler[h] EXCEPT !.kind = "nobody"])
  /\ UNCHANGED <<plan, session, active, made>>

(* A database error: rolled back, the old token still works.               *)
FailRefresh(h) ==
  /\ At(h, "revoked", "refresh")
  /\ Fault
  /\ Answer(h, 500, keep)
  /\ UNCHANGED <<plan, session, active, made>>

(* Whatever state the row is in; without a cookie there is nothing to do.  *)
LogOut(h) ==
  LET t == handler[h].cookie
  IN  /\ At(h, "begun", "logout")
      /\ Holders(t) = {}
      /\ session' = [u \in Token |->
           IF u = t /\ session[u] # NoToken THEN Dead(session[u]) ELSE session[u]]
      /\ Answer(h, 201, 0)
      /\ UNCHANGED <<plan, active, made, faults>>

(* The error of the UPDATE is ignored, the answer is the same.             *)
FailLogOut(h) ==
  /\ At(h, "begun", "logout")
  /\ Fault
  /\ Answer(h, 201, 0)
  /\ UNCHANGED <<plan, session, active, made>>

Expire ==
  /\ Fault
  /\ \E t \in Token : Live(t) /\ Holders(t) = {} /\ session' = [session EXCEPT ![t].state = "expired"]
  /\ UNCHANGED <<plan, active, handler, made>>

(* An administrator suspends the account.                                  *)
Suspend ==
  /\ Fault
  /\ active /\ active' = FALSE
  /\ UNCHANGED <<plan, session, handler, made>>

ServerStep(h) == Verify(h) \/ LogIn(h) \/ Revoke(h) \/ Renew(h) \/ LogOut(h)
ServerFault == Expire \/ Suspend \/ \E h \in Handler : FailRefresh(h) \/ FailLogOut(h)
=============================================================================
