------------------------- MODULE ReviewLinks_proofs -------------------------
(***************************************************************************)
(* Proofs about ReviewLinks, for any instances, clocks and intervals.      *)
(***************************************************************************)
EXTENDS ReviewLinks, FiniteSetTheorems, TLAPS

LEMMA Constants == LinkAssumption =>
  /\ MaxLinks \in Nat /\ TTL \in Nat /\ Retention \in Nat /\ Interval \in Nat /\ Retry \in Nat
  /\ Batch \in Nat /\ Skew \in Nat /\ MaxTime \in Nat /\ MaxFaults \in Nat
  /\ 2 * Skew < TTL /\ Skew <= Retention /\ Retry <= Interval
BY DEF LinkAssumption

(* Links are numbered; none expires before its TTL is over on the clock    *)
(* that is furthest behind, and one that is gone had expired.              *)
LinkInv ==
  /\ clock \in 0..MaxTime /\ faults \in 0..MaxFaults
  /\ skew \in [Instance -> -Skew..Skew]
  /\ \E n \in 0..MaxLinks : DOMAIN given = 1..n
  /\ DOMAIN links \subseteq DOMAIN given
  /\ \A l \in DOMAIN given : given[l] \in 0..clock
  /\ \A l \in DOMAIN links :
       /\ links[l].createdAt = given[l]
       /\ links[l].expiresAt \in Int
       /\ links[l].expiresAt >= given[l] + TTL - Skew
  /\ \A l \in DOMAIN given \ DOMAIN links : clock - given[l] >= TTL - Skew

\* How far the clock and the clocks of the instances go.
LEMMA Clocks ==
  ASSUME LinkAssumption, LinkInv
  PROVE  /\ clock \in Nat /\ clock <= MaxTime
         /\ \A i \in Instance : /\ Now(i) \in Int /\ skew[i] \in Int
                                /\ clock - Skew <= Now(i) /\ Now(i) <= clock + Skew
<1>1. clock \in Nat /\ clock <= MaxTime
  BY Constants DEF LinkInv
<1>2. ASSUME NEW i \in Instance
      PROVE  skew[i] \in Int /\ -Skew <= skew[i] /\ skew[i] <= Skew
  BY Constants DEF LinkInv
<1> QED
  BY <1>1, <1>2, Constants DEF Now

LEMMA LinkInit ==
  ASSUME LinkAssumption, Init
  PROVE  LinkInv
<1>1. DOMAIN given = 1..0 /\ DOMAIN links = {}
  BY DEF Init
<1>2. 0 \in 0..MaxLinks
  BY Constants
<1> QED
  BY <1>1, <1>2, Constants DEF LinkInv, Init

LEMMA CreateKeepsInv ==
  ASSUME LinkAssumption, LinkInv, NEW i \in Instance, CreateReviewLink(i)
  PROVE  LinkInv'
<1> DEFINE l == Cardinality(DOMAIN given) + 1
<1>1. PICK n \in 0..MaxLinks : DOMAIN given = 1..n
  BY DEF LinkInv
<1>2. MaxLinks \in Nat /\ n \in Nat
  BY Constants
<1>3. Cardinality(DOMAIN given) = n
  BY <1>1, <1>2, FS_Interval
<1>4. PICK k : k = l
  OBVIOUS
<1>5. k = n + 1 /\ k \in 1..MaxLinks /\ k \notin DOMAIN given
  BY <1>1, <1>2, <1>3, <1>4 DEF CreateReviewLink, Link
<1>6. PICK x : x = Expiry(i)
  OBVIOUS
<1>7. x \in Int /\ x >= clock + TTL - Skew
  BY <1>6, Constants, Clocks DEF Expiry
<1>8. /\ links' = Put(links, k, [createdAt |-> clock, expiresAt |-> x])
      /\ given' = Put(given, k, clock)
      /\ UNCHANGED <<clock, skew, due, notFound, faults>>
  BY <1>4, <1>6 DEF CreateReviewLink
<1>9. /\ DOMAIN given' = DOMAIN given \cup {k} /\ given'[k] = clock
      /\ \A m \in DOMAIN given : given'[m] = given[m]
      /\ DOMAIN links' = DOMAIN links \cup {k}
      /\ links'[k].createdAt = clock /\ links'[k].expiresAt = x
      /\ \A m \in DOMAIN links \ {k} : links'[m] = links[m]
  BY <1>5, <1>8 DEF Put
<1>10. DOMAIN given' = 1..(n + 1) /\ n + 1 \in 0..MaxLinks
  BY <1>1, <1>2, <1>5, <1>9
<1>11. clock \in 0..clock
  BY Constants DEF LinkInv
<1>12. \A m \in DOMAIN links' :
         /\ links'[m].createdAt = given'[m]
         /\ links'[m].expiresAt \in Int
         /\ links'[m].expiresAt >= given'[m] + TTL - Skew
  BY <1>5, <1>7, <1>9 DEF LinkInv
<1>13. \A m \in DOMAIN given' : given'[m] \in 0..clock
  BY <1>9, <1>11 DEF LinkInv
<1>14. \A m \in DOMAIN given' \ DOMAIN links' : clock - given'[m] >= TTL - Skew
  BY <1>9 DEF LinkInv
<1> QED
  BY <1>8, <1>9, <1>10, <1>12, <1>13, <1>14 DEF LinkInv

(* What an instance deletes has been expired on every clock.               *)
LEMMA CleanupKeepsInv ==
  ASSUME LinkAssumption, LinkInv, NEW i \in Instance, Cleanup(i)
  PROVE  LinkInv'
<1>1. PICK b \in FirstOf(Old(i)) : links' = [l \in DOMAIN links \ b |-> links[l]]
  BY DEF Cleanup
<1>2. UNCHANGED <<clock, skew, given, faults>>
  BY DEF Cleanup
<1>3. ASSUME NEW l \in b, l \in DOMAIN links
      PROVE  clock - given[l] >= TTL - Skew
  <2>1. links[l].expiresAt < Now(i) - Retention
    BY <1>3 DEF FirstOf, Old, Cutoff
  <2>2. skew[i] <= Skew /\ skew[i] \in Int /\ Skew <= Retention /\ Retention \in Nat /\ Skew \in Nat
        /\ clock \in Nat /\ TTL \in Nat
    BY Constants DEF LinkInv
  <2>3. given[l] \in Nat /\ links[l].expiresAt \in Int /\ links[l].expiresAt >= given[l] + TTL - Skew
    BY <1>3, <2>2 DEF LinkInv
  <2> QED
    BY <2>1, <2>2, <2>3 DEF Now
<1>4. DOMAIN links' = DOMAIN links \ b /\ \A l \in DOMAIN links' : links'[l] = links[l]
  BY <1>1
<1>5. \A l \in DOMAIN given \ DOMAIN links' : clock - given[l] >= TTL - Skew
  BY <1>3, <1>4 DEF LinkInv
<1> QED
  BY <1>2, <1>4, <1>5 DEF LinkInv

LEMMA LinkNext ==
  ASSUME LinkAssumption, LinkInv, [Next]_vars
  PROVE  LinkInv'
<1>1. CASE \E i \in Instance : FailCleanup(i)
  <2>1. faults' \in 0..MaxFaults /\ UNCHANGED <<clock, skew, links, given>>
    <3>1. faults \in Nat /\ faults < MaxFaults /\ faults' = faults + 1
      BY <1>1 DEF FailCleanup, LinkInv
    <3> QED BY <1>1, <3>1, Constants DEF FailCleanup
  <2> QED BY <2>1 DEF LinkInv
<1>2. CASE \E l \in Link : ServeToken(l)
  BY <1>2 DEF ServeToken, LinkInv
<1>3. CASE Tick
  <2>1. /\ clock' = clock + 1 /\ clock' \in 0..MaxTime /\ clock \in Nat
        /\ UNCHANGED <<skew, links, given, faults>>
    <3>1. clock \in 0..MaxTime /\ MaxTime \in Nat
      BY Constants DEF LinkInv
    <3>2. clock < MaxTime /\ clock' = clock + 1 /\ UNCHANGED <<skew, links, given, faults>>
      BY <1>3 DEF Tick
    <3> QED BY <3>1, <3>2
  <2>2. \A l \in DOMAIN given : given[l] \in 0..clock'
    BY <2>1 DEF LinkInv
  <2>3. ASSUME NEW l \in DOMAIN given \ DOMAIN links
        PROVE  clock' - given[l] >= TTL - Skew
    <3>1. clock - given[l] >= TTL - Skew /\ given[l] \in 0..clock
      BY DEF LinkInv
    <3>2. TTL \in Nat /\ Skew \in Nat
      BY Constants
    <3> QED BY <2>1, <3>1, <3>2
  <2> QED
    BY <2>1, <2>2, <2>3 DEF LinkInv
<1>4. CASE UNCHANGED vars
  BY <1>4 DEF vars, LinkInv
<1> QED
  BY <1>1, <1>2, <1>3, <1>4, CreateKeepsInv, CleanupKeepsInv DEF Next

LEMMA LinkTypes ==
  ASSUME LinkAssumption, LinkInv
  PROVE  TypeOK
<1>1. DOMAIN given \subseteq Link
  BY Constants DEF LinkInv, Link
<1>2. ASSUME NEW l \in DOMAIN links
      PROVE  links[l].expiresAt > links[l].createdAt
  <2>1. /\ links[l].createdAt = given[l] /\ given[l] \in Nat /\ links[l].expiresAt \in Int
        /\ links[l].expiresAt >= given[l] + TTL - Skew
    BY Clocks DEF LinkInv
  <2> QED BY <2>1, Constants
<1> QED
  BY <1>1, <1>2 DEF LinkInv, TypeOK

LEMMA LinkNotBefore ==
  ASSUME LinkAssumption, LinkInv, [Next]_vars
  PROVE  NotBefore
<1> SUFFICES ASSUME NEW l \in notFound' \ notFound
             PROVE  clock - given[l] >= TTL - Skew
  BY DEF NotBefore
<1>1. ServeToken(l)
  BY DEF Next, vars, Cleanup, FailCleanup, CreateReviewLink, ServeToken, Tick
<1>2. CASE l \notin DOMAIN links
  BY <1>1, <1>2 DEF ServeToken, LinkInv
<1>3. CASE l \in DOMAIN links
  <2>1. links[l].expiresAt \in Int /\ links[l].expiresAt >= given[l] + TTL - Skew
        /\ given[l] \in Nat
    BY <1>3, Clocks DEF LinkInv
  <2>2. ~(links[l].expiresAt > clock)
    BY <1>1, <1>3 DEF ServeToken
  <2> QED BY <2>1, <2>2, Constants, Clocks
<1> QED
  BY <1>2, <1>3

(* The variables keep their types, and no link expires before it was made  *)
(* (the CHECK constraint of notification_video_links).                     *)
THEOREM TypesHold ==
  ASSUME LinkAssumption
  PROVE  Spec => []TypeOK
<1>1. Init => LinkInv
  BY LinkInit
<1>2. LinkInv /\ [Next]_vars => LinkInv'
  BY LinkNext
<1>3. LinkInv => TypeOK
  BY LinkTypes
<1> QED
  BY <1>1, <1>2, <1>3, PTL DEF Spec

(* A link is good for its TTL, less what the clocks may differ by: none is *)
(* answered 404 before, whichever instance made it and whichever deletes   *)
(* it (secure_link.go 90, 124; worker.go 145-150).                         *)
THEOREM LinkLastsAlways ==
  ASSUME LinkAssumption
  PROVE  Spec => LinkLasts
<1>1. Init => LinkInv
  BY LinkInit
<1>2. LinkInv /\ [Next]_vars => LinkInv'
  BY LinkNext
<1>3. LinkInv /\ [Next]_vars => [NotBefore]_vars
  BY LinkNotBefore
<1> QED
  BY <1>1, <1>2, <1>3, PTL DEF Spec, LinkLasts

-----------------------------------------------------------------------------
(* The backlog: links that expired before some time, and what is left of   *)
(* them after n intervals.                                                 *)
Low(d) == {l \in DOMAIN links : links[l].expiresAt < d}

Left(n) == IF n * Batch < MaxLinks THEN MaxLinks - n * Batch ELSE 0

\* Up to when instance i must have come for its nth batch of those below d.
Deadline(d, n) == d + Retention + n * Interval + faults * Retry

(* An instance is never behind the time of its next cleanup, and when that *)
(* is past the deadline, what it should have deleted is gone.              *)
BacklogInv ==
  /\ due \in [Instance -> Int]
  /\ \A i \in Instance : /\ clock = 0 \/ Now(i) <= due[i]
                         /\ due[i] <= clock + Skew + Interval
  /\ Instance = {} => DOMAIN links = {}
  /\ \A i \in Instance, d \in Int, n \in Nat \ {0} :
       due[i] > Deadline(d, n) => Cardinality(Low(d)) <= Left(n)

LEMMA TimesNext ==
  \A n \in Nat \ {0}, k \in Nat :
    n * k = (n - 1) * k + k /\ (n - 1) * k \in Nat /\ n - 1 \in Nat /\ n * k \in Nat
OBVIOUS

\* What the errors so far put off.
LEMMA PutOff ==
  ASSUME LinkAssumption, LinkInv
  PROVE  faults \in Nat /\ Retry \in Nat /\ faults * Retry \in Nat
<1>1. faults \in Nat /\ Retry \in Nat
  BY Constants DEF LinkInv
<1>2. \A n, k \in Nat : n * k \in Nat
  OBVIOUS
<1> QED BY <1>1, <1>2

\* There are at most MaxLinks links.
LEMMA FewLinks ==
  ASSUME LinkAssumption, LinkInv
  PROVE  /\ IsFiniteSet(DOMAIN links)
         /\ \A S \in SUBSET DOMAIN links :
              IsFiniteSet(S) /\ Cardinality(S) \in Nat /\ Cardinality(S) <= MaxLinks
<1>1. PICK n \in 0..MaxLinks : DOMAIN given = 1..n
  BY DEF LinkInv
<1>2. n \in Nat /\ n <= MaxLinks /\ MaxLinks \in Nat
  BY Constants
<1>3. IsFiniteSet(1..n) /\ Cardinality(1..n) = n
  BY <1>2, FS_Interval
<1>4. DOMAIN links \subseteq 1..n
  BY <1>1 DEF LinkInv
<1>5. \A S \in SUBSET DOMAIN links : IsFiniteSet(S) /\ Cardinality(S) <= n
  BY <1>3, <1>4, FS_Subset
<1> QED
  BY <1>2, <1>5, FS_CardinalityType

LEMMA BacklogInit ==
  ASSUME LinkAssumption, Init
  PROVE  BacklogInv
<1>1. \A d : Low(d) = {}
  BY DEF Low, Init
<1>2. \A n \in Nat \ {0} : Left(n) \in Nat
  BY Constants DEF Left
<1>3. \A d, n : n \in Nat \ {0} => Cardinality(Low(d)) <= Left(n)
  BY <1>1, <1>2, FS_EmptySet
<1>4. due \in [Instance -> Int] /\ \A i \in Instance : due[i] <= clock + Skew + Interval
  <2>1. clock = 0 /\ clock + Skew + Interval \in Nat /\ Never \in Int /\ Never <= 0
    BY Constants DEF Init, Never
  <2>2. due = [i \in Instance |-> Never]
    BY DEF Init
  <2> QED BY <2>1, <2>2
<1> QED
  BY <1>3, <1>4 DEF BacklogInv, Init

\* Links that stay, a clock that goes on and errors change nothing of what
\* is left.
LEMMA LessIsLeft ==
  ASSUME LinkAssumption, LinkInv, BacklogInv,
         NEW i \in Instance, NEW d \in Int, NEW n \in Nat \ {0},
         due[i] > Deadline(d, n),
         IsFiniteSet(DOMAIN links), Low(d)' \subseteq Low(d)
  PROVE  Cardinality(Low(d)') <= Left(n)
<1>1. Cardinality(Low(d)) <= Left(n)
  BY DEF BacklogInv
<1>2. IsFiniteSet(Low(d))
  BY FS_Subset DEF Low
<1>3. Cardinality(Low(d)') <= Cardinality(Low(d)) /\ Cardinality(Low(d)') \in Nat
      /\ Cardinality(Low(d)) \in Nat
  BY <1>2, FS_Subset, FS_CardinalityType
<1>4. Left(n) \in Nat
  BY Constants DEF Left
<1> QED BY <1>1, <1>3, <1>4

\* No link expires before the clock starts.
LEMMA ExpireLater ==
  ASSUME LinkAssumption, LinkInv, NEW m \in DOMAIN links
  PROVE  links[m].expiresAt \in Int /\ links[m].expiresAt > 0
<1>1. given[m] \in Nat /\ links[m].expiresAt \in Int
      /\ links[m].expiresAt >= given[m] + TTL - Skew
  BY Clocks DEF LinkInv
<1> QED BY <1>1, Constants

\* A link that is made now is not below any day that a deadline is past of.
LEMMA NewIsNotLow ==
  ASSUME LinkAssumption, LinkInv, BacklogInv, NEW i \in Instance, NEW d \in Int,
         NEW n \in Nat \ {0}, due[i] > Deadline(d, n)
  PROVE  d <= clock
<1>1. n * Interval >= Interval /\ n * Interval \in Nat /\ Interval \in Nat
  BY TimesNext, Constants
<1>2. faults * Retry \in Nat
  BY PutOff
<1>3. due[i] \in Int /\ due[i] <= clock + Skew + Interval
  BY DEF BacklogInv
<1> QED BY <1>1, <1>2, <1>3, Constants, Clocks DEF Deadline

LEMMA CreateKeepsBacklog ==
  ASSUME LinkAssumption, LinkInv, BacklogInv, NEW j \in Instance, CreateReviewLink(j)
  PROVE  BacklogInv'
<1>1. PICK l : l = Cardinality(DOMAIN given) + 1
  OBVIOUS
<1>2. PICK x : x = Expiry(j)
  OBVIOUS
<1>3. x \in Int /\ x > clock
  BY <1>2, Constants, Clocks DEF Expiry
<1>4. /\ links' = Put(links, l, [createdAt |-> clock, expiresAt |-> x])
      /\ UNCHANGED <<clock, skew, due, notFound, faults>>
  BY <1>1, <1>2 DEF CreateReviewLink
<1>5. /\ DOMAIN links' = DOMAIN links \cup {l}
      /\ links'[l].expiresAt = x
      /\ \A m \in DOMAIN links \ {l} : links'[m] = links[m]
  BY <1>4 DEF Put
<1>6. ASSUME NEW i \in Instance, NEW d \in Int, NEW n \in Nat \ {0},
             due'[i] > Deadline(d, n)'
      PROVE  Cardinality(Low(d)') <= Left(n)
  <2>1. due[i] > Deadline(d, n)
    BY <1>4, <1>6 DEF Deadline
  <2>2. d <= clock
    BY <2>1, NewIsNotLow
  <2>3. ~(x < d) /\ clock \in Int
    BY <1>3, <2>2, Clocks
  <2>4. Low(d)' \subseteq Low(d)
    BY <1>5, <2>3 DEF Low
  <2> QED BY <2>1, <2>4, LessIsLeft, FewLinks
<1> QED
  BY <1>4, <1>6 DEF BacklogInv, Left, Now

LEMMA FailKeepsBacklog ==
  ASSUME LinkAssumption, LinkInv, BacklogInv, NEW j \in Instance, FailCleanup(j)
  PROVE  BacklogInv'
<1>1. /\ IsDue(j) /\ faults \in Nat /\ faults' = faults + 1
      /\ due' = [due EXCEPT ![j] = Now(j) + Retry]
      /\ UNCHANGED <<clock, skew, links, given, notFound>>
  BY DEF FailCleanup, LinkInv
<1>2. /\ due \in [Instance -> Int] /\ due' \in [Instance -> Int]
      /\ \A i \in Instance : due'[i] = IF i = j THEN Now(j) + Retry ELSE due[i]
  <2>1. due \in [Instance -> Int]
    BY DEF BacklogInv
  <2>2. Now(j) + Retry \in Int
    BY Constants, Clocks
  <2> QED BY <1>1, <2>1, <2>2
<1>3. ASSUME NEW i \in Instance
      PROVE  (clock = 0 \/ Now(i) <= due'[i]) /\ due'[i] <= clock + Skew + Interval
  <2>1. CASE i = j
    <3>1. due'[i] = Now(j) + Retry
      BY <1>2, <2>1
    <3> QED BY <2>1, <3>1, Constants, Clocks
  <2>2. CASE i # j
    BY <1>2, <2>2 DEF BacklogInv
  <2> QED BY <2>1, <2>2
<1>4. (faults + 1) * Retry = faults * Retry + Retry /\ faults * Retry \in Nat
  BY <1>1, PutOff
<1>5. ASSUME NEW i \in Instance, NEW d \in Int, NEW n \in Nat \ {0},
             due'[i] > Deadline(d, n)'
      PROVE  Cardinality(Low(d)') <= Left(n)
  <2>1. n * Interval \in Nat /\ due[i] \in Int
    BY <1>2, Constants, TimesNext
  <2>2. Deadline(d, n)' = Deadline(d, n) + Retry /\ Deadline(d, n) \in Int
    BY <1>1, <1>4, <2>1, Constants DEF Deadline
  <2>3. Low(d)' = Low(d)
    BY <1>1 DEF Low
  <2>4. CASE clock = 0
    <3>1. \A m \in DOMAIN links : ~(links[m].expiresAt < d)
      <4>1. n * Interval >= Interval
        BY TimesNext, Constants
      <4>2. due'[i] <= clock + Skew + Interval
        BY <1>3
      <4>3. d <= 0
        BY <1>2, <1>4, <2>1, <2>2, <2>4, <4>1, <4>2, <1>5, Constants, Clocks DEF Deadline
      <4> QED BY <4>3, ExpireLater
    <3>2. Low(d)' = {}
      BY <2>3, <3>1 DEF Low
    <3>3. Left(n) \in Nat
      BY Constants DEF Left
    <3> QED BY <3>2, <3>3, FS_EmptySet
  <2>5. CASE clock # 0
    <3>1. due[i] > Deadline(d, n)
      <4>1. CASE i = j
        <5>1. Now(j) \in Int /\ Retry \in Int /\ Now(j) <= due[j]
          BY <2>5, Constants, Clocks DEF BacklogInv
        <5>2. Now(j) + Retry > Deadline(d, n) + Retry
          BY <1>2, <1>5, <2>2, <4>1
        <5> HIDE DEF Now
        <5> QED BY <2>1, <2>2, <4>1, <5>1, <5>2
      <4>2. CASE i # j
        <5>1. due[i] > Deadline(d, n) + Retry /\ Retry \in Nat
          BY <1>2, <1>5, <2>2, <4>2, Constants
        <5> QED BY <2>1, <2>2, <5>1
      <4> QED BY <4>1, <4>2
    <3> QED BY <2>3, <3>1, LessIsLeft, FewLinks
  <2> QED BY <2>4, <2>5
<1> QED
  BY <1>1, <1>2, <1>3, <1>5 DEF BacklogInv, Left, Now

\* The oldest links go first: of those below d a whole batch goes, or all.
LEMMA BatchIsOldest ==
  ASSUME LinkAssumption, LinkInv, NEW j \in Instance, NEW d \in Int, d <= Cutoff(j),
         NEW b \in FirstOf(Old(j)), NEW n \in Nat \ {0},
         n - 1 = 0 \/ Cardinality(Low(d)) <= Left(n - 1)
  PROVE  Cardinality(Low(d) \ b) <= Left(n)
<1>1. /\ IsFiniteSet(Low(d)) /\ Cardinality(Low(d)) \in Nat /\ Cardinality(Low(d)) <= MaxLinks
      /\ IsFiniteSet(Old(j)) /\ Cardinality(Old(j)) \in Nat
  BY FewLinks DEF Low, Old
<1>2. /\ b \subseteq Old(j)
      /\ Cardinality(b) = IF Cardinality(Old(j)) < Batch THEN Cardinality(Old(j)) ELSE Batch
      /\ \A l \in b, k \in Old(j) \ b : links[l].expiresAt <= links[k].expiresAt
  BY DEF FirstOf
<1>3. \A l \in DOMAIN links : links[l].expiresAt \in Int
  BY DEF LinkInv
<1>4. Low(d) \subseteq Old(j)
  BY <1>3, Constants, Clocks DEF Low, Old, Cutoff
<1>5. Left(n) \in Nat /\ IsFiniteSet(b)
  BY <1>1, <1>2, Constants, FS_Subset DEF Left
<1>6. CASE Low(d) \subseteq b
  <2>1. Low(d) \ b = {}
    BY <1>6
  <2> QED BY <1>5, <2>1, FS_EmptySet
<1>7. CASE ~(Low(d) \subseteq b)
  <2>1. PICK k \in Low(d) : k \notin b
    BY <1>7
  <2>2. b \subseteq Low(d)
    BY <1>2, <1>3, <1>4, <2>1 DEF Low, Old
  <2>3. Cardinality(b) = Batch
    <3>1. b # Old(j)
      BY <1>4, <2>1
    <3>2. Cardinality(b) # Cardinality(Old(j))
      BY <1>1, <1>2, <3>1, FS_Subset
    <3> QED BY <1>2, <3>2
  <2>4. Cardinality(Low(d) \ b) = Cardinality(Low(d)) - Batch
    <3>1. Low(d) \cap b = b
      BY <2>2
    <3> QED BY <1>1, <2>3, <3>1, FS_Difference
  <2>5. n * Batch = (n - 1) * Batch + Batch /\ (n - 1) * Batch \in Nat /\ Batch \in Nat
    BY TimesNext, Constants
  <2>6. n - 1 = 0 => (n - 1) * Batch = 0
    BY Constants
  <2>7. Cardinality(Low(d)) >= Batch
    BY <1>1, <1>5, <2>2, <2>3, FS_Subset
  <2> QED BY <1>1, <2>4, <2>5, <2>6, <2>7, Constants DEF Left
<1> QED BY <1>6, <1>7

LEMMA CleanupKeepsBacklog ==
  ASSUME LinkAssumption, LinkInv, BacklogInv, NEW j \in Instance, Cleanup(j)
  PROVE  BacklogInv'
<1>1. PICK b \in FirstOf(Old(j)) : links' = [l \in DOMAIN links \ b |-> links[l]]
  BY DEF Cleanup
<1>2. /\ IsDue(j) /\ due' = [due EXCEPT ![j] = Now(j) + Interval]
      /\ UNCHANGED <<clock, skew, given, notFound, faults>>
  BY DEF Cleanup
<1>3. /\ due \in [Instance -> Int] /\ due' \in [Instance -> Int]
      /\ \A i \in Instance : due'[i] = IF i = j THEN Now(j) + Interval ELSE due[i]
  <2>1. due \in [Instance -> Int]
    BY DEF BacklogInv
  <2>2. Now(j) + Interval \in Int
    BY Constants, Clocks
  <2> QED BY <1>2, <2>1, <2>2
<1>4. ASSUME NEW i \in Instance
      PROVE  (clock = 0 \/ Now(i) <= due'[i]) /\ due'[i] <= clock + Skew + Interval
  <2>1. CASE i = j
    <3>1. due'[i] = Now(j) + Interval
      BY <1>3, <2>1
    <3> QED BY <2>1, <3>1, Constants, Clocks
  <2>2. CASE i # j
    BY <1>3, <2>2 DEF BacklogInv
  <2> QED BY <2>1, <2>2
<1>5. \A d : Low(d)' = Low(d) \ b
  BY <1>1 DEF Low
<1>6. ASSUME NEW i \in Instance, NEW d \in Int, NEW n \in Nat \ {0},
             due'[i] > Deadline(d, n)'
      PROVE  Cardinality(Low(d)') <= Left(n)
  <2>1. Deadline(d, n)' = Deadline(d, n)
    BY <1>2 DEF Deadline
  <2>2. CASE i # j
    <3>1. due[i] > Deadline(d, n)
      BY <1>3, <1>6, <2>1, <2>2
    <3> QED BY <1>5, <3>1, LessIsLeft, FewLinks
  <2>3. CASE i = j
    <3>1. n * Interval = (n - 1) * Interval + Interval /\ (n - 1) * Interval \in Nat
          /\ n - 1 \in Nat
      BY TimesNext, Constants
    <3>2. faults * Retry \in Nat
      BY PutOff
    <3>3. Now(j) + Interval > Deadline(d, n)
      BY <1>3, <1>6, <2>1, <2>3
    <3>4. Now(j) > Deadline(d, n - 1) /\ d <= Cutoff(j)
      BY <3>1, <3>2, <3>3, Constants, Clocks DEF Deadline, Cutoff
    <3>5. CASE clock = 0
      <4>1. d <= 0
        BY <3>4, <3>5, Constants, Clocks DEF Cutoff
      <4>2. Low(d)' = {}
        BY <1>5, <4>1, ExpireLater DEF Low
      <4>3. Left(n) \in Nat
        BY Constants DEF Left
      <4> QED BY <4>2, <4>3, FS_EmptySet
    <3>6. CASE clock # 0
      <4>1. Now(j) <= due[j] /\ due[j] \in Int /\ Now(j) \in Int
        BY <1>3, <3>6, Clocks DEF BacklogInv
      <4>2. Deadline(d, n - 1) \in Int
        BY <3>1, <3>2, Constants DEF Deadline
      <4>3. due[j] > Deadline(d, n - 1)
        BY <3>4, <4>1, <4>2
      <4>4. n - 1 = 0 \/ Cardinality(Low(d)) <= Left(n - 1)
        BY <3>1, <4>3 DEF BacklogInv
      <4> QED BY <1>5, <3>4, <4>4, BatchIsOldest
    <3> QED BY <3>5, <3>6
  <2> QED BY <2>2, <2>3
<1> QED
  BY <1>2, <1>3, <1>4, <1>5, <1>6 DEF BacklogInv, Left, Now

LEMMA BacklogNext ==
  ASSUME LinkAssumption, LinkInv, BacklogInv, [Next]_vars
  PROVE  BacklogInv'
<1>1. ASSUME NEW l \in Link, ServeToken(l) PROVE BacklogInv'
  BY <1>1 DEF ServeToken, BacklogInv, Low, Left, Deadline, Now
<1>2. CASE Tick
  <2>1. /\ \A i \in Instance : ~IsDue(i)
        /\ clock' = clock + 1
        /\ UNCHANGED <<skew, links, given, due, notFound, faults>>
    BY <1>2 DEF Tick
  <2>2. ASSUME NEW i \in Instance
        PROVE  Now(i)' <= due[i] /\ due[i] <= clock' + Skew + Interval
    <3>1. Now(i)' = Now(i) + 1 /\ Now(i) \in Int
      BY <2>1, Clocks DEF Now
    <3>2. due[i] \in Int /\ Now(i) < due[i]
      BY <2>1, <3>1 DEF BacklogInv, IsDue
    <3>3. due[i] <= clock + Skew + Interval
      BY DEF BacklogInv
    <3> QED BY <2>1, <3>1, <3>2, <3>3, Constants, Clocks
  <2>3. \A d \in Int, n \in Nat \ {0} : Deadline(d, n)' = Deadline(d, n) /\ Low(d)' = Low(d)
    BY <2>1 DEF Deadline, Low
  <2> QED
    BY <2>1, <2>2, <2>3 DEF BacklogInv, Left
<1>3. CASE UNCHANGED vars
  BY <1>3 DEF vars, BacklogInv, Low, Left, Deadline, Now
<1> QED
  BY <1>1, <1>2, <1>3, CreateKeepsBacklog, FailKeepsBacklog, CleanupKeepsBacklog DEF Next

LEMMA BacklogGoes ==
  ASSUME LinkAssumption, LinkInv, BacklogInv
  PROVE  BacklogIsWorkedOff
<1> SUFFICES ASSUME NEW n \in 1..MaxLinks
             PROVE  Cardinality(Overdue(Retention + n * Interval + Skew + 1 + faults * Retry))
                      <= Left(n)
  BY DEF BacklogIsWorkedOff, Left
<1> DEFINE age == Retention + n * Interval + Skew + 1 + faults * Retry
<1>1. n \in Nat \ {0} /\ n * Interval \in Nat /\ faults * Retry \in Nat /\ clock \in Nat
  <2>1. n \in Nat \ {0} /\ clock \in Nat
    BY Constants, Clocks
  <2>2. n * Interval \in Nat
    BY <2>1, Constants, TimesNext
  <2>3. faults * Retry \in Nat
    BY PutOff
  <2> QED BY <2>1, <2>2, <2>3
<1>2. age \in Nat
  BY <1>1, Constants
<1> HIDE DEF age
<1>3. Overdue(age) = Low(clock - age)
  <2>1. \A l \in DOMAIN links : clock - links[l].expiresAt > age <=> links[l].expiresAt < clock - age
    BY <1>1, <1>2, ExpireLater
  <2> QED BY <2>1 DEF Overdue, Low
<1>4. Left(n) \in Nat
  BY <1>1, Constants DEF Left
<1>5. CASE clock = 0 \/ Instance = {}
  <2>1. Low(clock - age) = {}
    BY <1>1, <1>2, <1>5, ExpireLater DEF Low, BacklogInv
  <2> QED BY <1>3, <1>4, <2>1, FS_EmptySet DEF age
<1>6. CASE clock # 0 /\ Instance # {}
  <2>1. PICK i \in Instance : TRUE
    BY <1>6
  <2>2. due[i] \in Int /\ Now(i) \in Int /\ Now(i) <= due[i] /\ clock - Skew <= Now(i)
    BY <1>6, Clocks DEF BacklogInv
  <2>3. Deadline(clock - age, n) = clock - Skew - 1
    BY <1>1, Constants DEF Deadline, age
  <2>4. due[i] > Deadline(clock - age, n)
    BY <1>1, <2>2, <2>3, Constants
  <2>5. clock - age \in Int
    BY <1>1, <1>2
  <2> QED BY <1>1, <1>3, <2>4, <2>5 DEF BacklogInv, age
<1> QED BY <1>5, <1>6 DEF age

(* Expired links go, a batch in each interval by one instance at least,    *)
(* and an error delays them by no more than the retry                      *)
(* (worker.go 135-158).                                                    *)
THEOREM BacklogIsWorkedOffAlways ==
  ASSUME LinkAssumption
  PROVE  Spec => []BacklogIsWorkedOff
<1>1. Init => LinkInv /\ BacklogInv
  BY LinkInit, BacklogInit
<1>2. LinkInv /\ BacklogInv /\ [Next]_vars => (LinkInv /\ BacklogInv)'
  BY LinkNext, BacklogNext
<1>3. LinkInv /\ BacklogInv => BacklogIsWorkedOff
  BY BacklogGoes
<1> QED
  BY <1>1, <1>2, <1>3, PTL DEF Spec
=============================================================================
