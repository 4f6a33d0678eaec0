---------------------------- MODULE RateLimiter ----------------------------
(***************************************************************************)
(* The limiter that all limited routes share: one table of counters, each  *)
(* for a route and a client address, under one mutex.  A request reads the *)
(* clock before it waits for the mutex, so that the table sees times in    *)
(* any order.                                                              *)
(***************************************************************************)
EXTENDS Naturals, FiniteSets

CONSTANTS
  Key,         \* <<route, address>>
  Maximum,     \* Key -> requests admitted in a window
  Window,      \* Key -> length of the window of its route
  MaxEntries,  \* size of the table
  Request,     \* requests that can wait for the mutex at once
  Delay,       \* longest wait for the mutex
  MaxTime      \* bound on the clock

LimiterAssumption ==
  /\ Maximum \in [Key -> Nat \ {0}] /\ Window \in [Key -> Nat \ {0}]
  /\ MaxEntries \in Nat \ {0} /\ Delay \in Nat /\ MaxTime \in Nat
  /\ \A k \in Key : 3 * Delay <= Window[k]

VARIABLES
  clock,
  entries,    \* the map: [subset of Key -> [count, resetAt]]
  request,    \* Request -> [key, now] while it waits for the mutex
  admitted    \* Key -> [at, n]: the n-th admission of a time, within Span

vars == <<clock, entries, request, admitted>>

Idle == [phase |-> "idle"]

\* A window, but for the time that requests wait.
Span(k) == Window[k] + 1 - 3 * Delay

Init ==
  /\ clock = 0
  /\ entries = << >>
  /\ request = [r \in Request |-> Idle]
  /\ admitted = [k \in Key |-> {}]

Before(now, entry) == now < entry.resetAt
Expired(k, now) == ~Before(now, entries[k])

Put(table, k, entry) == [j \in DOMAIN table \cup {k} |-> IF j = k THEN entry ELSE table[j]]

\* time.Now() is an argument of allow.
Call(r, k) ==
  /\ request[r] = Idle
  /\ request' = [request EXCEPT ![r] = [phase |-> "called", key |-> k, now |-> clock]]
  /\ UNCHANGED <<clock, entries, admitted>>

AdmittedNow(k) == {a \in admitted[k] : a.at = clock}

Admit(k) ==
  admitted' = [admitted EXCEPT ![k] = @ \cup {[at |-> clock, n |-> Cardinality(AdmittedNow(k))]}]

(* Mutant: the sweep takes the oldest counters when none has expired.      *)
SweptByAge(now) ==
  LET old == {k \in DOMAIN entries : \A j \in DOMAIN entries : entries[k].resetAt <= entries[j].resetAt}
  IN  IF Cardinality(DOMAIN entries) < MaxEntries THEN entries
      ELSE [k \in DOMAIN entries \ old |-> entries[k]]

\* A full table is swept of expired counters before a new one is put in.
Swept(now) ==
  IF Cardinality(DOMAIN entries) < MaxEntries THEN entries
  ELSE [k \in {j \in DOMAIN entries : ~Expired(j, now)} |-> entries[k]]

\* There is a counter and its window is not over.
Known(k, now) == k \in DOMAIN entries /\ Before(now, entries[k])

BelowMaximum(k) == entries[k].count < Maximum[k]

(* allow, under the mutex.                                                 *)
Allow(r) ==
  LET k == request[r].key
      now == request[r].now
      table == Swept(now)
  IN  /\ request[r].phase = "called"
      /\ request' = [request EXCEPT ![r] = Idle]
      /\ IF Known(k, now)
         THEN IF BelowMaximum(k)
              THEN entries' = [entries EXCEPT ![k].count = @ + 1] /\ Admit(k)
              ELSE UNCHANGED <<entries, admitted>>
         ELSE IF Cardinality(DOMAIN table) < MaxEntries
              THEN entries' = Put(table, k, [count |-> 1, resetAt |-> now + Window[k]]) /\ Admit(k)
              ELSE entries' = table /\ UNCHANGED admitted
      /\ UNCHANGED clock

(* Time passes, no longer than a request may wait.                         *)
Tick ==
  /\ clock < MaxTime
  /\ \A r \in Request : request[r] # Idle => clock - request[r].now < Delay
  /\ clock' = clock + 1
  /\ admitted' = [k \in Key |-> {a \in admitted[k] : clock' - a.at < Span(k)}]
  /\ UNCHANGED <<entries, request>>

Next == Tick \/ \E r \in Request : Allow(r) \/ \E k \in Key : Call(r, k)

Spec == Init /\ [][Next]_vars

-----------------------------------------------------------------------------
(* The variables have their types; the table does not outgrow its bound    *)
(* (rate_limit.go 42-53).                                                  *)
TypeOK ==
  /\ clock \in 0..MaxTime
  /\ DOMAIN entries \subseteq Key /\ Cardinality(DOMAIN entries) <= MaxEntries
  /\ \A k \in DOMAIN entries : entries[k].count \in 1..Maximum[k]

(* In any time of the length of a window a client is admitted at most      *)
(* twice as often as the limit says, when it stands across two windows.    *)
(* A request that waited for the mutex while the counter it would have met *)
(* was swept opens a window in the past: hence Span (rate_limit.go 28-54). *)
AtMostTwiceTheLimit ==
  \A k \in Key : Cardinality(admitted[k]) <= 2 * Maximum[k]
=============================================================================
