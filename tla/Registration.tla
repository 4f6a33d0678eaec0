---------------------------- MODULE Registration ----------------------------
(***************************************************************************)
(* POST /auth/register.  One transaction makes the user, the store and     *)
(* the OWNER membership; the session is made after the commit.  Emails and *)
(* store codes are unique: an INSERT waits for an open transaction that    *)
(* inserted the same key, fails when that commits and goes on when it is   *)
(* rolled back.                                                            *)
(***************************************************************************)
EXTENDS Naturals

CONSTANTS
  Request,    \* registrations: records with at least email and code
  MaxFaults   \* bound on errors of the database

VARIABLES
  users, stores, members,   \* committed rows, by the request that made them
  sessions,                 \* requests whose account has a refresh session
  request,                  \* Request -> where its handler is
  faults

vars == <<users, stores, members, sessions, request, faults>>

Init ==
  /\ users = {} /\ stores = {} /\ members = {} /\ sessions = {}
  /\ request = [r \in Request |-> "idle"]
  /\ faults = 0

Go(r, step) == request' = [request EXCEPT ![r] = step]

SameEmail(r) == {s \in Request \ {r} : s.email = r.email}
SameCode(r) == {s \in Request \ {r} : s.code = r.code}

\* Rows of a transaction that is not yet committed.
HoldsUser(s) == request[s] \in {"store", "member", "commit"}

HoldsStore(s) == request[s] \in {"member", "commit"}

Begin(r) ==
  /\ request[r] = "idle"
  /\ Go(r, "user")
  /\ UNCHANGED <<users, stores, members, sessions, faults>>

(* Mutant: a key in an open transaction counts as taken.                   *)
InsertHasty(r, step, next, same, holders, rows) ==
  /\ request[r] = step
  /\ Go(r, IF (same \cap rows) \cup holders # {} THEN "conflict" ELSE next)
  /\ UNCHANGED <<users, stores, members, sessions, faults>>

(* An INSERT with a unique key: same are the requests with this key,       *)
(* holders those of them with an open transaction, rows the committed.     *)
Insert(r, step, next, same, holders, rows) ==
  /\ request[r] = step
  /\ holders = {}
  /\ Go(r, IF same \cap rows # {} THEN "conflict" ELSE next)
  /\ UNCHANGED <<users, stores, members, sessions, faults>>

InsertUser(r) == Insert(r, "user", "store", SameEmail(r), {s \in SameEmail(r) : HoldsUser(s)}, users)

InsertStore(r) == Insert(r, "store", "member", SameCode(r), {s \in SameCode(r) : HoldsStore(s)}, stores)

InsertMember(r) ==
  /\ request[r] = "member"
  /\ Go(r, "commit")
  /\ UNCHANGED <<users, stores, members, sessions, faults>>

Commit(r) ==
  /\ request[r] = "commit"
  /\ users' = users \cup {r} /\ stores' = stores \cup {r} /\ members' = members \cup {r}
  /\ Go(r, "session")
  /\ UNCHANGED <<sessions, faults>>

\* createSession, then the cookie and 201.
CreateSession(r) ==
  /\ request[r] = "session"
  /\ sessions' = sessions \cup {r}
  /\ Go(r, "created")
  /\ UNCHANGED <<users, stores, members, faults>>

(* Any statement may fail: 500, what is open is rolled back, what is       *)
(* committed stays.                                                        *)
Fail(r) ==
  /\ request[r] \in {"user", "store", "member", "commit", "session"}
  /\ faults < MaxFaults /\ faults' = faults + 1
  /\ Go(r, "error")
  /\ UNCHANGED <<users, stores, members, sessions>>

Step(r) ==
  InsertUser(r) \/ InsertStore(r) \/ InsertMember(r) \/ Commit(r) \/ CreateSession(r)

Progress == \E r \in Request : Step(r)

Next == \E r \in Request : Begin(r) \/ Step(r) \/ Fail(r)

Spec == Init /\ [][Next]_vars /\ WF_vars(Progress)

-----------------------------------------------------------------------------
(* The variables have their types; a key is in one committed row at most.  *)
TypeOK ==
  /\ users \cup stores \cup members \cup sessions \subseteq Request
  /\ \A r \in users : SameEmail(r) \cap users = {}
  /\ \A r \in stores : SameCode(r) \cap stores = {}
  /\ faults \in 0..MaxFaults

(* An account is whole whatever fails: its user, its store and the         *)
(* membership that makes it the owner are there together (auth.go 70-93).  *)
AccountIsWhole == users = stores /\ users = members /\ sessions \subseteq users

(* 409 is answered only when the email or the code belongs to an account,  *)
(* not to a registration that comes to nothing (auth.go 70-86).            *)
ConflictIsReal ==
  \A r \in Request : request[r] = "conflict" =>
    SameEmail(r) \cap users # {} \/ SameCode(r) \cap stores # {}

(* Registration takes its keys with a whole account or not at all          *)
(* (auth.go 70-93).                                                        *)
AllOrNothing == AccountIsWhole /\ ConflictIsReal

(* A registration that began is answered, also when another holds its key. *)
RegisterEnds ==
  []<>(\A r \in Request : request[r] \in {"idle", "created", "conflict", "error"})
=============================================================================
