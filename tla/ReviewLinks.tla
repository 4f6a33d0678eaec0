---------------------------- MODULE ReviewLinks ----------------------------
(***************************************************************************)
(* Links to the video of an alert.  Their expiry is written by the clock   *)
(* of the instance that makes them and tested by the clock of the          *)
(* database; every instance deletes what has been expired for some time by *)
(* its own clock, a batch at an interval, sooner again after an error.     *)
(***************************************************************************)
EXTENDS Integers, FiniteSets

CONSTANTS
  Instance,
  MaxLinks,     \* bound on the links made
  TTL,          \* SecureVideoLinkTTL
  Retention,    \* reviewLinkRetention
  Interval,     \* reviewLinkCleanupInterval
  Retry,        \* five minutes
  Batch,        \* 500
  Skew,         \* bound on the distance of a clock from the database's
  MaxTime, MaxFaults

LinkAssumption ==
  /\ {MaxLinks, TTL, Retention, Interval, Retry, Batch, Skew, MaxTime, MaxFaults} \subseteq Nat
  /\ 2 * Skew < TTL /\ Skew <= Retention /\ Retry <= Interval

\* Links are numbered in the order in which they are made.
Link == 1..MaxLinks

VARIABLES
  clock,     \* NOW() of the database
  skew,      \* Instance -> what its clock adds
  links,     \* Link -> [createdAt, expiresAt] of the rows there are
  given,     \* Link -> when it was made, of all that were made
  due,       \* Instance -> nextReviewLinkCleanup
  notFound,  \* links that were answered 404
  faults

vars == <<clock, skew, links, given, due, notFound, faults>>

Never == -MaxTime

Init ==
  /\ clock = 0
  /\ skew \in [Instance -> -Skew..Skew]
  /\ links = << >> /\ given = << >>
  /\ due = [i \in Instance |-> Never]
  /\ notFound = {} /\ faults = 0

Now(i) == clock + skew[i]

Put(f, k, v) == [j \in DOMAIN f \cup {k} |-> IF j = k THEN v ELSE f[j]]

-----------------------------------------------------------------------------
Expiry(i) == Now(i) + TTL

\* The worker, or the owner who asks for a playback URL.
CreateReviewLink(i) ==
  LET l == Cardinality(DOMAIN given) + 1
  IN  /\ l \in Link
      /\ links' = Put(links, l, [createdAt |-> clock, expiresAt |-> Expiry(i)])
      /\ given' = Put(given, l, clock)
      /\ UNCHANGED <<clock, skew, due, notFound, faults>>

\* ServeToken answers 404 for a row that is gone or expired.
ServeToken(l) ==
  /\ l \in DOMAIN given /\ l \notin notFound
  /\ ~(l \in DOMAIN links /\ links[l].expiresAt > clock)
  /\ notFound' = notFound \cup {l}
  /\ UNCHANGED <<clock, skew, links, given, due, faults>>

(* Mutant: without the retention.                                          *)
CutoffNow(i) == Now(i)

Cutoff(i) == Now(i) - Retention

Old(i) == {l \in DOMAIN links : links[l].expiresAt < Cutoff(i)}

\* ORDER BY "expiresAt","id" LIMIT 500
FirstOf(old) ==
  {b \in SUBSET old :
     /\ Cardinality(b) = IF Cardinality(old) < Batch THEN Cardinality(old) ELSE Batch
     /\ \A l \in b, k \in old \ b : links[l].expiresAt <= links[k].expiresAt}

IsDue(i) == Now(i) >= due[i]

Cleanup(i) ==
  /\ IsDue(i)
  /\ due' = [due EXCEPT ![i] = Now(i) + Interval]
  /\ \E b \in FirstOf(Old(i)) : links' = [l \in DOMAIN links \ b |-> links[l]]
  /\ UNCHANGED <<clock, skew, given, notFound, faults>>

FailCleanup(i) ==
  /\ IsDue(i)
  /\ faults < MaxFaults /\ faults' = faults + 1
  /\ due' = [due EXCEPT ![i] = Now(i) + Retry]
  /\ UNCHANGED <<clock, skew, links, given, notFound>>

(* A unit of time is long against the interval of the worker's polls.      *)
Tick ==
  /\ clock < MaxTime
  /\ \A i \in Instance : ~IsDue(i)
  /\ clock' = clock + 1
  /\ UNCHANGED <<skew, links, given, due, notFound, faults>>

Next ==
  \/ \E i \in Instance : Cleanup(i) \/ FailCleanup(i) \/ CreateReviewLink(i)
  \/ \E l \in Link : ServeToken(l)
  \/ Tick

Spec == Init /\ [][Next]_vars

-----------------------------------------------------------------------------
(* The variables have their types; no link expires before it was made      *)
(* (the CHECK constraint of notification_video_links).                     *)
TypeOK ==
  /\ clock \in 0..MaxTime /\ faults \in 0..MaxFaults
  /\ DOMAIN links \subseteq DOMAIN given /\ DOMAIN given \subseteq Link
  /\ \A l \in DOMAIN links : links[l].expiresAt > links[l].createdAt /\ links[l].createdAt = given[l]

(* A link is good for its TTL, less what the clocks differ by: it neither  *)
(* expires nor is it deleted before, by whichever instance                 *)
(* (secure_link.go 90, 124; worker.go 145-150).                            *)
NotBefore == \A l \in notFound' \ notFound : clock - given[l] >= TTL - Skew
LinkLasts == [][NotBefore]_vars

Overdue(age) == {l \in DOMAIN links : clock - links[l].expiresAt > age}

(* Expired links go, a batch in each interval, and one error delays them   *)
(* by a retry only (worker.go 135-158).                                    *)
BacklogIsWorkedOff ==
  \A n \in 1..MaxLinks :
    Cardinality(Overdue(Retention + n * Interval + Skew + 1 + faults * Retry)) <=
      IF n * Batch < MaxLinks THEN MaxLinks - n * Batch ELSE 0
=============================================================================
