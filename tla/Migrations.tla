----------------------------- MODULE Migrations -----------------------------
(***************************************************************************)
(* cmd/migrate: each runner goes through the versions in order; what is    *)
(* not recorded is applied and recorded in one transaction.  There is no   *)
(* lock between runners: the one that comes second waits for the objects   *)
(* or the row of the first, finds them there and ends with an error.       *)
(* (Where both have locked a table and each waits to change it, as with    *)
(* the alert_evidence of 20260827, PostgreSQL aborts one and the other     *)
(* goes on: the one that is aborted is the one that comes second here.)    *)
(* Version 1 made the tables of a database that Prisma set up: it is       *)
(* recorded only.                                                          *)
(***************************************************************************)
EXTENDS Naturals, FiniteSets

CONSTANTS
  Runner,
  N,          \* versions are 1..N
  MaxFaults   \* bound on errors, time-outs and killed runners

VersionAssumption == N \in Nat \ {0}

VARIABLES
  schema,    \* versions whose objects are committed
  recorded,  \* rows of go_schema_migrations
  legacy,    \* Prisma made the tables of version 1
  runner,    \* Runner -> [at, version, skip]
  faults

vars == <<schema, recorded, legacy, runner, faults>>

Version == 1..N

Init ==
  /\ legacy \in BOOLEAN
  /\ schema = IF legacy THEN {1} ELSE {}
  /\ recorded = {}
  /\ runner = [r \in Runner |-> [at |-> "check", version |-> 1, skip |-> FALSE]]
  /\ faults = 0

At(r, step) == runner[r].at = step
Go(r, step) == runner' = [runner EXCEPT ![r].at = step]
NextVersion(r) ==
  runner' = [runner EXCEPT ![r] = [at |-> "check", version |-> @.version + 1, skip |-> FALSE]]

\* Another transaction has made the objects of this version, uncommitted.
Open(s, r) ==
  /\ runner[s].at \in {"record", "commit"} /\ ~runner[s].skip
  /\ runner[s].version = runner[r].version

HasToWait(r) == \E s \in Runner \ {r} : Open(s, r)

-----------------------------------------------------------------------------
Check(r) ==
  LET v == runner[r].version
  IN  /\ At(r, "check")
      /\ IF v > N THEN Go(r, "done")
         ELSE IF v \in recorded THEN NextVersion(r)
         ELSE Go(r, IF v = 1 THEN "inspect" ELSE "apply")
      /\ UNCHANGED <<schema, recorded, legacy, faults>>

\* to_regclass('public.users') IS NOT NULL
Inspect(r) ==
  /\ At(r, "inspect")
  /\ runner' = [runner EXCEPT ![r] = [at |-> "apply", version |-> @.version, skip |-> 1 \in schema]]
  /\ UNCHANGED <<schema, recorded, legacy, faults>>

(* Mutant: the SQL runs outside the transaction.                           *)
ApplyOutside(r) ==
  LET v == runner[r].version
      skip == runner[r].skip
  IN  /\ At(r, "apply")
      /\ skip \/ ~HasToWait(r)
      /\ Go(r, IF ~skip /\ v \in schema THEN "failed" ELSE "record")
      /\ schema' = IF skip THEN schema ELSE schema \cup {v}
      /\ UNCHANGED <<recorded, legacy, faults>>

\* Begin and the SQL, which fails when its objects are there by now.
Apply(r) ==
  LET v == runner[r].version
      skip == runner[r].skip
  IN  /\ At(r, "apply")
      /\ skip \/ ~HasToWait(r)
      /\ Go(r, IF ~skip /\ v \in schema THEN "failed" ELSE "record")
      /\ UNCHANGED <<schema, recorded, legacy, faults>>

(* Mutant: the primary key does not wait.                                  *)
RecordAtOnce(r) ==
  /\ At(r, "record")
  /\ Go(r, IF runner[r].version \in recorded THEN "failed" ELSE "commit")
  /\ UNCHANGED <<schema, recorded, legacy, faults>>

\* The row: the primary key waits for another transaction that inserted it.
Record(r) ==
  LET v == runner[r].version
  IN  /\ At(r, "record")
      /\ \A s \in Runner \ {r} : ~(At(s, "commit") /\ runner[s].version = v)
      /\ Go(r, IF v \in recorded THEN "failed" ELSE "commit")
      /\ UNCHANGED <<schema, recorded, legacy, faults>>

Commit(r) ==
  LET v == runner[r].version
  IN  /\ At(r, "commit")
      /\ schema' = schema \cup {v}
      /\ recorded' = recorded \cup {v}
      /\ NextVersion(r)
      /\ UNCHANGED <<legacy, faults>>

\* An error, the time-out of a minute or the end of the process.
Fail(r) ==
  /\ runner[r].at \in {"check", "inspect", "apply", "record", "commit"}
  /\ faults < MaxFaults /\ faults' = faults + 1
  /\ Go(r, "failed")
  /\ UNCHANGED <<schema, recorded, legacy>>

Step(r) == Check(r) \/ Inspect(r) \/ Apply(r) \/ Record(r) \/ Commit(r)

Progress == \E r \in Runner : Step(r)

Next == \E r \in Runner : Step(r) \/ Fail(r)

Spec == Init /\ [][Next]_vars /\ WF_vars(Progress)

-----------------------------------------------------------------------------
(* The variables have their types; of the runners at a version one at most *)
(* is about to commit it (migrate.go 60-78).                               *)
TypeOK ==
  /\ schema \subseteq Version /\ recorded \subseteq Version
  /\ \A r \in Runner : runner[r].version \in 1..N + 1
  /\ \A r, s \in Runner :
       At(r, "commit") /\ At(s, "commit") /\ runner[r].version = runner[s].version => r = s

(* The objects of a version are there just when it is recorded, but for    *)
(* those of Prisma, whoever fails where (migrate.go 60-78).                *)
SchemaIsRecorded == schema = recorded \cup IF legacy THEN {1} ELSE {}

(* No version is there without those before it (migrate.go 35, 38-80).     *)
AppliedInOrder == \A v \in recorded : 1..v \subseteq recorded

(* Runners that start together stop each other, but not all: when nothing  *)
(* else fails the database is current in the end (migrate.go 38-80).       *)
DatabaseIsCurrent ==
  faults = 0 /\ (\A r \in Runner : runner[r].at \in {"done", "failed"}) => recorded = Version

(* However many runners start together and whichever of them fail, the     *)
(* database has what is recorded, in order, and ends up to date            *)
(* (migrate.go 35-80).                                                     *)
SchemaIsSound == SchemaIsRecorded /\ AppliedInOrder /\ DatabaseIsCurrent

(* No runner waits for ever for another (migrate.go 66, 71).               *)
RunnersEnd == <>[](\A r \in Runner : runner[r].at \in {"done", "failed"})
=============================================================================
