------------------------- MODULE TestAdmission_proofs -------------------------
(***************************************************************************)
(* Proofs about TestAdmission: for any number of requests, instances and   *)
(* endpoints, one requestId is one test, and no window exceeds a quota.    *)
(***************************************************************************)
EXTENDS TestAdmission, FiniteSetTheorems, TLAPS

AdmissionAssumption == WindowAssumption /\ BoundAssumption /\ LimitAssumption

-----------------------------------------------------------------------------
(* The inductive invariant *)

RowOf(c, t, waits) ==
  [id |-> c, key |-> DedupeKey(c), endpoint |-> EndpointOf[c], requester |-> RequesterOf[c],
   createdAt |-> t, pending |-> waits]

\* The rows that the requests may have made so far.
Rows == {RowOf(c, t, waits) : c \in Call, t \in 0..now, waits \in BOOLEAN}

InHand(c) == call[c].phase \in {"locked", "new", "counted", "inserted"}

Handler ==
  [phase : {"quiet"}]
    \cup [phase : {"begun", "locked", "new", "counted", "inserted", "done"}, row : SUBSET Rows]

TypeInv ==
  /\ tests \subseteq Rows /\ IsFiniteSet(tests)
  /\ call \in [Call -> Handler]
  /\ enabled \subseteq Endpoint
  /\ now \in 0..MaxTime /\ failures \in 0..MaxFaults
  /\ answers \subseteq [call : Call, code : {202, 409, 429, 500}, id : SUBSET Call]

(* The advisory lock: one request at a time is between its first statement *)
(* and the end of its transaction.                                         *)
OneHasLock == \A b, c \in Call : InHand(b) /\ InHand(c) => b = c

(* A key has one row, and none while its request is being admitted.        *)
KeyHasOneRow ==
  /\ \A d, e \in tests : d.key = e.key => d = e
  /\ \A c \in Call : call[c].phase \in {"new", "counted", "inserted"} => \A d \in tests : d.key # DedupeKey(c)

(* An accepted answer names the row of its key.                            *)
AnswersNameRows ==
  \A x \in answers : x.code = 202 => \E d \in tests : x.id = {d.id} /\ d.key = DedupeKey(x.call)

RequestInv == OneHasLock /\ KeyHasOneRow /\ AnswersNameRows

-----------------------------------------------------------------------------
(* The quotas, by what they group the requests by.                         *)

StoreOfCall == [c \in Call |-> StoreOf[EndpointOf[c]]]
Requesters == [c \in Call |-> RequesterOf[c]]
Anyone == [c \in Call |-> "anyone"]

Quota(group, window, limit) == [group |-> group, window |-> window, limit |-> limit]

WindowQuotas ==
  {Quota(EndpointOf, Minute, EndpointPerMinute), Quota(EndpointOf, Hour, EndpointPerHour),
   Quota(StoreOfCall, Hour, StorePerHour), Quota(Requesters, Hour, RequesterPerHour),
   Quota(Anyone, Hour, GlobalPerHour)}

PendingQuotas ==
  {Quota(EndpointOf, 0, EndpointPending), Quota(StoreOfCall, 0, StorePending),
   Quota(Anyone, 0, GlobalPending)}

\* The rows that count with a request c, at time t.
Recent(q, c, t) == {x \in tests : x.createdAt > t - q.window /\ q.group[x.id] = q.group[c]}

Waiting(q, c) == {x \in tests : x.pending /\ q.group[x.id] = q.group[c]}

HasRoom(c, t) ==
  /\ \A q \in WindowQuotas : Cardinality(Recent(q, c, t)) < q.limit
  /\ \A q \in PendingQuotas : Cardinality(Waiting(q, c)) < q.limit

(* What the count found still holds when the row is inserted, and at the   *)
(* time of the row until it is committed.                                  *)
RoomIsKept ==
  \A c \in Call :
    /\ call[c].phase = "counted" => HasRoom(c, now)
    /\ call[c].phase = "inserted" =>
         \E t \in 0..now : /\ call[c].row = {RowOf(c, t, TRUE)}
                           /\ HasRoom(c, t)
                           /\ \A d \in tests : d.createdAt <= t

Counted(q, d) == {x \in Within(tests, d, q.window) : q.group[x.id] = q.group[d.id]}

WithinQuotas ==
  /\ \A q \in WindowQuotas, d \in tests : Cardinality(Counted(q, d)) <= q.limit
  /\ \A q \in PendingQuotas, c \in Call : Cardinality(Waiting(q, c)) <= q.limit

IInv == TypeInv /\ RequestInv /\ RoomIsKept /\ WithinQuotas

-----------------------------------------------------------------------------
(* Counting *)

LEMMA Subset ==
  ASSUME NEW T, IsFiniteSet(T), NEW S, S \subseteq T
  PROVE  Cardinality(S) \in Nat /\ Cardinality(T) \in Nat /\ Cardinality(S) <= Cardinality(T)
BY FS_Subset, FS_CardinalityType

LEMMA OneMore ==
  ASSUME NEW T, IsFiniteSet(T), NEW r, NEW S, S \subseteq T \cup {r}
  PROVE  /\ Cardinality(S) \in Nat /\ Cardinality(T) \in Nat
         /\ Cardinality(S) <= Cardinality(T) + 1
<1>1. IsFiniteSet(T \cup {r}) /\ Cardinality(T \cup {r}) <= Cardinality(T) + 1
      /\ Cardinality(T) \in Nat
  BY FS_AddElement, FS_CardinalityType
<1>2. Cardinality(S) \in Nat /\ Cardinality(T \cup {r}) \in Nat
      /\ Cardinality(S) <= Cardinality(T \cup {r})
  BY <1>1, Subset
<1> QED BY <1>1, <1>2

LEMMA OneForAnother ==
  ASSUME NEW T, IsFiniteSet(T), NEW d \in T, NEW e, NEW S, S \subseteq (T \ {d}) \cup {e}
  PROVE  /\ Cardinality(S) \in Nat /\ Cardinality(T) \in Nat
         /\ Cardinality(S) <= Cardinality(T)
<1>1. IsFiniteSet(T \ {d}) /\ Cardinality(T \ {d}) = Cardinality(T) - 1 /\ Cardinality(T) \in Nat
  BY FS_RemoveElement, FS_CardinalityType
<1>2. Cardinality(S) \in Nat /\ Cardinality(S) <= Cardinality(T \ {d}) + 1
  BY <1>1, OneMore
<1> QED BY <1>1, <1>2

-----------------------------------------------------------------------------
(* Rows, requests and quotas *)

LEMMA RowFields ==
  ASSUME NEW d \in Rows
  PROVE  /\ d.id \in Call /\ d.key = DedupeKey(d.id) /\ d.endpoint = EndpointOf[d.id]
         /\ d.requester = RequesterOf[d.id] /\ d.createdAt \in 0..now /\ d.pending \in BOOLEAN
         /\ d = RowOf(d.id, d.createdAt, d.pending)
BY DEF Rows, RowOf

LEMMA IsARow ==
  ASSUME NEW c \in Call, NEW t \in 0..now, NEW waits \in BOOLEAN
  PROVE  RowOf(c, t, waits) \in Rows
BY Z3 DEF Rows

LEMMA SameKey ==
  ASSUME NEW b, NEW c
  PROVE  SameRequest(b, c) <=> DedupeKey(b) = DedupeKey(c)
BY DEF SameRequest, DedupeKey, TestDedupeKey

LEMMA KnownIsByKey ==
  ASSUME IInv, NEW c \in Call
  PROVE  Known(c) = {d \in tests : d.key = DedupeKey(c)}
<1>1. \A d \in tests : d.key = DedupeKey(c) => StoreOf[d.endpoint] = StoreOf[EndpointOf[c]]
  BY RowFields DEF IInv, TypeInv, DedupeKey, TestDedupeKey
<1> QED BY <1>1 DEF Known

LEMMA QuotaFields ==
  ASSUME AdmissionAssumption
  PROVE  /\ \A q \in WindowQuotas : q.window \in Nat /\ q.limit \in Nat
         /\ \A q \in PendingQuotas : q.limit \in Nat
BY DEF AdmissionAssumption, WindowAssumption, LimitAssumption, WindowQuotas, PendingQuotas,
    Quota

LEMMA CountsAreNumbers ==
  ASSUME IInv, NEW q, NEW c, NEW t
  PROVE  /\ IsFiniteSet(Recent(q, c, t)) /\ Cardinality(Recent(q, c, t)) \in Nat
         /\ IsFiniteSet(Waiting(q, c)) /\ Cardinality(Waiting(q, c)) \in Nat
<1>1. Recent(q, c, t) \subseteq tests /\ Waiting(q, c) \subseteq tests /\ IsFiniteSet(tests)
  BY DEF IInv, TypeInv, Recent, Waiting
<1> QED BY <1>1, FS_Subset, FS_CardinalityType

(* Who is not limited has room under all quotas.                           *)
LEMMA NotLimitedHasRoom ==
  ASSUME AdmissionAssumption, IInv, NEW c \in Call, ~Limited(c)
  PROVE  HasRoom(c, now)
<1>1. \A d \in tests : /\ d.id \in Call /\ d.endpoint = EndpointOf[d.id]
                       /\ d.requester = RequesterOf[d.id]
  BY RowFields DEF IInv, TypeInv
<1>2. ASSUME NEW window, NEW limit
      PROVE  /\ OfEndpoint(Since(tests, window), c) = Recent(Quota(EndpointOf, window, limit), c, now)
             /\ OfStore(Since(tests, window), c) = Recent(Quota(StoreOfCall, window, limit), c, now)
             /\ OfRequester(Since(tests, window), c) = Recent(Quota(Requesters, window, limit), c, now)
             /\ Since(tests, window) = Recent(Quota(Anyone, window, limit), c, now)
             /\ OfEndpoint(Pending(tests), c) = Waiting(Quota(EndpointOf, window, limit), c)
             /\ OfStore(Pending(tests), c) = Waiting(Quota(StoreOfCall, window, limit), c)
             /\ Pending(tests) = Waiting(Quota(Anyone, window, limit), c)
  BY <1>1 DEF OfEndpoint, OfStore, OfRequester, Since, Pending, Recent, Waiting, Quota,
              StoreOfCall, Requesters, Anyone
<1>3. ASSUME NEW q \in WindowQuotas PROVE Cardinality(Recent(q, c, now)) < q.limit
  <2>1. CASE q = Quota(EndpointOf, Minute, EndpointPerMinute)
    <3>1. q.limit = EndpointPerMinute
      BY <2>1 DEF Quota
    <3> QED BY <1>2, <2>1, <3>1, CountsAreNumbers, QuotaFields DEF Limited
  <2>2. CASE q = Quota(EndpointOf, Hour, EndpointPerHour)
    <3>1. q.limit = EndpointPerHour
      BY <2>2 DEF Quota
    <3> QED BY <1>2, <2>2, <3>1, CountsAreNumbers, QuotaFields DEF Limited
  <2>3. CASE q = Quota(StoreOfCall, Hour, StorePerHour)
    <3>1. q.limit = StorePerHour
      BY <2>3 DEF Quota
    <3> QED BY <1>2, <2>3, <3>1, CountsAreNumbers, QuotaFields DEF Limited
  <2>4. CASE q = Quota(Requesters, Hour, RequesterPerHour)
    <3>1. q.limit = RequesterPerHour
      BY <2>4 DEF Quota
    <3> QED BY <1>2, <2>4, <3>1, CountsAreNumbers, QuotaFields DEF Limited
  <2>5. CASE q = Quota(Anyone, Hour, GlobalPerHour)
    <3>1. q.limit = GlobalPerHour
      BY <2>5 DEF Quota
    <3> QED BY <1>2, <2>5, <3>1, CountsAreNumbers, QuotaFields DEF Limited
  <2> QED BY <2>1, <2>2, <2>3, <2>4, <2>5 DEF WindowQuotas
<1>4. ASSUME NEW q \in PendingQuotas PROVE Cardinality(Waiting(q, c)) < q.limit
  <2>1. CASE q = Quota(EndpointOf, 0, EndpointPending)
    <3>1. q.limit = EndpointPending
      BY <2>1 DEF Quota
    <3> QED BY <1>2, <2>1, <3>1, CountsAreNumbers, QuotaFields DEF Limited
  <2>2. CASE q = Quota(StoreOfCall, 0, StorePending)
    <3>1. q.limit = StorePending
      BY <2>2 DEF Quota
    <3> QED BY <1>2, <2>2, <3>1, CountsAreNumbers, QuotaFields DEF Limited
  <2>3. CASE q = Quota(Anyone, 0, GlobalPending)
    <3>1. q.limit = GlobalPending
      BY <2>3 DEF Quota
    <3> QED BY <1>2, <2>3, <3>1, CountsAreNumbers, QuotaFields DEF Limited
  <2> QED BY <2>1, <2>2, <2>3 DEF PendingQuotas
<1> QED BY <1>3, <1>4 DEF HasRoom

-----------------------------------------------------------------------------
(* The initial states, and the steps of a request that change no row.      *)

LEMMA InitHolds ==
  ASSUME AdmissionAssumption, Init
  PROVE  IInv
<1>1. IsFiniteSet({}) /\ Cardinality({}) = 0
  BY FS_EmptySet
<1>2. call \in [Call -> Handler] /\ \A c \in Call : call[c].phase = "quiet"
  BY DEF Init, Quiet, Handler
<1>3. TypeInv
  BY <1>1, <1>2 DEF TypeInv, Init, AdmissionAssumption, BoundAssumption
<1>4. RequestInv /\ RoomIsKept
  BY <1>2 DEF Init, RequestInv, OneHasLock, InHand, KeyHasOneRow, AnswersNameRows, RoomIsKept
<1>5. \A q, c : Waiting(q, c) = {}
  BY DEF Init, Waiting
<1>6. WithinQuotas
  <2>1. \A q \in PendingQuotas, c \in Call : Cardinality(Waiting(q, c)) <= q.limit
    <3> SUFFICES ASSUME NEW q \in PendingQuotas, NEW c \in Call
                 PROVE  Cardinality(Waiting(q, c)) <= q.limit
      OBVIOUS
    <3>1. q.limit \in Nat
      BY QuotaFields
    <3>2. Waiting(q, c) = {}
      BY <1>5
    <3> QED BY <1>1, <3>1, <3>2
  <2> QED BY <2>1 DEF Init, WithinQuotas
<1> QED BY <1>3, <1>4, <1>6 DEF IInv

(* A request goes on to h and may give an answer; the rows stay.           *)
LEMMA HandlerMoves ==
  ASSUME IInv, NEW c \in Call, NEW h \in Handler,
         UNCHANGED <<tests, enabled, now>>,
         call' = [call EXCEPT ![c] = h], failures' \in 0..MaxFaults,
         answers' \subseteq [call : Call, code : {202, 409, 429, 500}, id : SUBSET Call],
         \A x \in answers' \ answers :
           x.code = 202 => \E d \in tests : x.id = {d.id} /\ d.key = DedupeKey(x.call),
         h.phase \in {"locked", "new", "counted", "inserted"} =>
           InHand(c) \/ \A b \in Call : ~InHand(b),
         h.phase \in {"new", "counted", "inserted"} => \A d \in tests : d.key # DedupeKey(c),
         h.phase = "counted" => HasRoom(c, now),
         h.phase = "inserted" => \E t \in 0..now : /\ h.row = {RowOf(c, t, TRUE)}
                                                   /\ HasRoom(c, t)
                                                   /\ \A d \in tests : d.createdAt <= t
  PROVE  IInv'
<1>1. /\ call'[c] = h /\ \A b \in Call : b # c => call'[b] = call[b]
      /\ call' \in [Call -> Handler]
  BY DEF IInv, TypeInv
<1>2. Rows' = Rows /\ Handler' = Handler
  BY DEF Rows, Handler, RowOf, DedupeKey, TestDedupeKey
<1>3. TypeInv'
  BY <1>1, <1>2 DEF IInv, TypeInv
<1>4. OneHasLock'
  BY <1>1 DEF IInv, RequestInv, OneHasLock, InHand
<1>5. KeyHasOneRow'
  BY <1>1 DEF IInv, RequestInv, KeyHasOneRow, DedupeKey, TestDedupeKey
<1>6. AnswersNameRows'
  BY ZenonT(60) DEF IInv, RequestInv, AnswersNameRows, DedupeKey, TestDedupeKey
<1>7. \A b, t : HasRoom(b, t)' <=> HasRoom(b, t)
  BY DEF HasRoom, Recent, Waiting
<1>8. RoomIsKept'
  <2> SUFFICES ASSUME NEW b \in Call
               PROVE  /\ call'[b].phase = "counted" => HasRoom(b, now)
                      /\ call'[b].phase = "inserted" =>
                           \E t \in 0..now : /\ call'[b].row = {RowOf(b, t, TRUE)}
                                             /\ HasRoom(b, t)
                                             /\ \A d \in tests : d.createdAt <= t
    BY <1>7 DEF RoomIsKept, RowOf, DedupeKey, TestDedupeKey
  <2>1. CASE b = c
    BY ZenonT(60), <1>1, <2>1
  <2>2. CASE b # c
    BY ZenonT(60), <1>1, <2>2 DEF IInv, RoomIsKept
  <2> QED BY ZenonT(60), <2>1, <2>2
<1>9. WithinQuotas'
  <2>1. \A q, d : Waiting(q, d)' = Waiting(q, d) /\ Counted(q, d)' = Counted(q, d)
    BY DEF Waiting, Counted, Within
  <2> QED BY <2>1 DEF IInv, WithinQuotas
<1> QED BY <1>3, <1>4, <1>5, <1>6, <1>8, <1>9 DEF IInv, RequestInv

LEMMA PhaseChange ==
  ASSUME IInv, NEW c \in Call, call[c].phase # "quiet",
         NEW p \in {"begun", "locked", "new", "counted", "inserted", "done"}
  PROVE  /\ [call[c] EXCEPT !.phase = p] \in Handler
         /\ [call[c] EXCEPT !.phase = p].phase = p
BY DEF IInv, TypeInv, Handler

LEMMA NewAnswer ==
  ASSUME IInv, NEW c \in Call, NEW code \in {202, 409, 429, 500}, NEW id \in SUBSET Call,
         Answer(c, code, id)
  PROVE  /\ answers' \subseteq [call : Call, code : {202, 409, 429, 500}, id : SUBSET Call]
         /\ \A x \in answers' \ answers : x.call = c /\ x.code = code /\ x.id = id
BY DEF IInv, TypeInv, Answer

LEMMA Refuses ==
  ASSUME IInv, NEW c \in Call, NEW code \in {409, 429, 500}, call[c].phase # "quiet",
         Refuse(c, code), UNCHANGED <<tests, enabled, now>>, failures' \in 0..MaxFaults
  PROVE  IInv'
<1> DEFINE h == [call[c] EXCEPT !.phase = "done"]
<1>1. h \in Handler /\ h.phase = "done" /\ call' = [call EXCEPT ![c] = h]
  BY ZenonT(60), PhaseChange DEF Refuse, To, Go
<1>2. /\ answers' \subseteq [call : Call, code : {202, 409, 429, 500}, id : SUBSET Call]
      /\ \A x \in answers' \ answers : x.code = code
  <2>1. {} \in SUBSET Call /\ Answer(c, code, {})
    BY DEF Refuse
  <2> QED BY <2>1, NewAnswer
<1>3. \A x \in answers' \ answers :
        x.code = 202 => \E d \in tests : x.id = {d.id} /\ d.key = DedupeKey(x.call)
  BY <1>2
<1> HIDE DEF h
<1> QED BY ZenonT(60), <1>1, <1>2, <1>3, HandlerMoves

LEMMA Admitted ==
  ASSUME IInv
  PROVE  /\ Admitting = {b \in Call : InHand(b)}
         /\ failures \in 0..MaxFaults
         /\ answers \subseteq [call : Call, code : {202, 409, 429, 500}, id : SUBSET Call]
BY DEF Admitting, InHand, IInv, TypeInv

LEMMA BeginStep ==
  ASSUME IInv, NEW c \in Call, Begin(c)
  PROVE  IInv'
<1> DEFINE h == [phase |-> "begun", row |-> {}]
<1>1. h \in Handler /\ h.phase = "begun"
  BY DEF Handler
<1>2. /\ call' = [call EXCEPT ![c] = h]
      /\ UNCHANGED <<tests, enabled, answers, now, failures>>
  BY DEF Begin, Go
<1> HIDE DEF h
<1> QED BY ZenonT(60), <1>1, <1>2, Admitted, HandlerMoves

LEMMA LockStep ==
  ASSUME IInv, NEW c \in Call, Lock(c)
  PROVE  IInv'
<1> DEFINE h == [call[c] EXCEPT !.phase = "locked"]
<1>1. h \in Handler /\ h.phase = "locked" /\ call' = [call EXCEPT ![c] = h]
  BY PhaseChange DEF Lock, To, Go
<1>2. /\ UNCHANGED <<tests, enabled, answers, now, failures>>
      /\ \A b \in Call : ~InHand(b)
  BY Admitted DEF Lock
<1> HIDE DEF h
<1> QED BY ZenonT(60), <1>1, <1>2, Admitted, HandlerMoves

LEMMA LookUpStep ==
  ASSUME IInv, NEW c \in Call, LookUp(c)
  PROVE  IInv'
<1>1. UNCHANGED <<tests, enabled, now, failures>> /\ call[c].phase = "locked" /\ InHand(c)
  BY DEF LookUp, InHand
<1>2. Known(c) = {d \in tests : d.key = DedupeKey(c)}
  BY KnownIsByKey
<1>3. CASE Known(c) = {}
  <2> DEFINE h == [call[c] EXCEPT !.phase = "new"]
  <2>1. h \in Handler /\ h.phase = "new" /\ call' = [call EXCEPT ![c] = h] /\ answers' = answers
    BY <1>1, <1>3, PhaseChange DEF LookUp, To, Go
  <2>2. \A d \in tests : d.key # DedupeKey(c)
    BY <1>2, <1>3
  <2> HIDE DEF h
  <2> QED BY ZenonT(60), <1>1, <2>1, <2>2, Admitted, HandlerMoves
<1>4. CASE Known(c) # {}
  <2> DEFINE h == [call[c] EXCEPT !.phase = "done"]
  <2>1. h \in Handler /\ h.phase = "done" /\ call' = [call EXCEPT ![c] = h]
    BY <1>1, <1>4, PhaseChange DEF LookUp, To, Go
  <2>2. PICK d \in tests : d.key = DedupeKey(c)
    BY <1>2, <1>4
  <2>3. Known(c) = {d}
    BY <1>2, <2>2 DEF IInv, RequestInv, KeyHasOneRow
  <2>4. Answer(c, 202, {d.id}) /\ {d.id} \in SUBSET Call
    <3>1. {x.id : x \in Known(c)} = {d.id}
      BY <2>3
    <3>2. d.id \in Call
      BY RowFields DEF IInv, TypeInv
    <3>3. Answer(c, 202, {x.id : x \in Known(c)})
      BY <1>4 DEF LookUp
    <3> QED BY <3>1, <3>2, <3>3
  <2>5. /\ answers' \subseteq [call : Call, code : {202, 409, 429, 500}, id : SUBSET Call]
        /\ \A x \in answers' \ answers : x.id = {d.id} /\ d.key = DedupeKey(x.call)
    BY <2>2, <2>4, NewAnswer
  <2> HIDE DEF h
  <2> QED BY ZenonT(60), <1>1, <2>1, <2>2, <2>5, Admitted, HandlerMoves
<1> QED BY <1>3, <1>4

LEMMA CountStep ==
  ASSUME AdmissionAssumption, IInv, NEW c \in Call, Count(c)
  PROVE  IInv'
<1>1. UNCHANGED <<tests, enabled, now, failures>> /\ call[c].phase = "new" /\ InHand(c)
  BY DEF Count, InHand
<1>2. CASE Limited(c)
  <2>1. PICK code \in {409, 429, 500} : Refuse(c, code)
    BY <1>2 DEF Count
  <2> QED BY <1>1, <2>1, Refuses, Admitted
<1>3. CASE ~Limited(c)
  <2> DEFINE h == [call[c] EXCEPT !.phase = "counted"]
  <2>1. h \in Handler /\ h.phase = "counted" /\ call' = [call EXCEPT ![c] = h] /\ answers' = answers
    BY <1>1, <1>3, PhaseChange DEF Count, To, Go
  <2>2. HasRoom(c, now)
    BY <1>3, NotLimitedHasRoom
  <2>3. \A d \in tests : d.key # DedupeKey(c)
    BY <1>1 DEF IInv, RequestInv, KeyHasOneRow
  <2> HIDE DEF h
  <2> QED BY ZenonT(60), <1>1, <2>1, <2>2, <2>3, Admitted, HandlerMoves
<1> QED BY <1>2, <1>3

LEMMA InsertStep ==
  ASSUME AdmissionAssumption, IInv, NEW c \in Call, Insert(c)
  PROVE  IInv'
<1> DEFINE r == RowOf(c, now, TRUE)
           h == [call[c] EXCEPT !.phase = "inserted", !.row = {r}]
<1>1. /\ UNCHANGED <<tests, enabled, answers, now, failures>>
      /\ call[c].phase = "counted" /\ InHand(c)
      /\ call' = [call EXCEPT ![c] = h]
  BY DEF Insert, InHand, Go, RowOf
<1>2. now \in 0..now
  BY DEF IInv, TypeInv, AdmissionAssumption, BoundAssumption
<1>3. r \in Rows
  BY <1>2, IsARow
<1> HIDE DEF r
<1>4. h \in Handler /\ h.phase = "inserted" /\ h.row = {r}
  <2>1. call[c] \in [phase : {"begun", "locked", "new", "counted", "inserted", "done"},
                      row : SUBSET Rows]
    BY <1>1 DEF IInv, TypeInv, Handler
  <2>2. h \in [phase : {"begun", "locked", "new", "counted", "inserted", "done"},
               row : SUBSET Rows]
    BY <1>3, <2>1
  <2>3. h.phase = "inserted" /\ h.row = {r}
    BY <2>1
  <2> QED BY <2>2, <2>3 DEF Handler
<1>5. HasRoom(c, now) /\ \A d \in tests : d.key # DedupeKey(c)
  BY <1>1 DEF IInv, RequestInv, KeyHasOneRow, RoomIsKept
<1>6. \A d \in tests : d.createdAt <= now
  BY RowFields DEF IInv, TypeInv
<1> HIDE DEF h
<1>7. \E t \in 0..now : /\ h.row = {RowOf(c, t, TRUE)} /\ HasRoom(c, t)
                        /\ \A d \in tests : d.createdAt <= t
  BY <1>2, <1>4, <1>5, <1>6 DEF r
<1> QED BY ZenonT(60), <1>1, <1>4, <1>5, <1>7, Admitted, HandlerMoves

LEMMA FailStep ==
  ASSUME AdmissionAssumption, IInv, NEW c \in Call, Fail(c)
  PROVE  IInv'
<1>1. UNCHANGED <<tests, enabled, now>> /\ call[c].phase # "quiet" /\ Refuse(c, 500)
  BY DEF Fail
<1>2. failures' \in 0..MaxFaults
  BY Admitted DEF Fail, AdmissionAssumption, BoundAssumption
<1>3. PICK code \in {409, 429, 500} : Refuse(c, code)
  BY <1>1
<1> QED BY <1>1, <1>2, <1>3, Refuses

LEMMA RefuseDisabledStep ==
  ASSUME IInv, NEW c \in Call, RefuseDisabled(c)
  PROVE  IInv'
<1>1. PICK code \in {409, 429, 500} : Refuse(c, code)
  BY DEF RefuseDisabled
<1> QED BY <1>1, Refuses, Admitted DEF RefuseDisabled

-----------------------------------------------------------------------------
(* The steps that change rows or the time.                                 *)

LEMMA CommitStep ==
  ASSUME AdmissionAssumption, IInv, NEW c \in Call, Commit(c)
  PROVE  IInv'
<1>1. PICK t \in 0..now : /\ call[c].row = {RowOf(c, t, TRUE)}
                          /\ HasRoom(c, t)
                          /\ \A d \in tests : d.createdAt <= t
  BY DEF Commit, IInv, RoomIsKept
<1> DEFINE r == RowOf(c, t, TRUE)
           h == [call[c] EXCEPT !.phase = "done"]
<1>2. /\ tests' = tests \cup {r} /\ UNCHANGED <<plan, enabled, now, failures>>
      /\ Answer(c, 202, {c}) /\ call' = [call EXCEPT ![c] = h]
      /\ call[c].phase = "inserted" /\ InHand(c)
  BY <1>1 DEF Commit, To, Go, InHand
<1>3. /\ r.id = c /\ r.key = DedupeKey(c) /\ r.createdAt = t /\ r.pending = TRUE
      /\ \A d \in tests : d # r /\ d.key # DedupeKey(c)
  BY <1>2 DEF RowOf, IInv, RequestInv, KeyHasOneRow
<1>4. r \in Rows
  BY IsARow
<1> HIDE DEF r
<1>5. h \in Handler /\ h.phase = "done"
  BY <1>2, PhaseChange
<1> HIDE DEF h
<1>6. /\ call'[c].phase = "done" /\ \A b \in Call : b # c => call'[b] = call[b]
      /\ call' \in [Call -> Handler]
  BY <1>2, <1>5 DEF IInv, TypeInv
<1>7. \A b \in Call : InHand(b) => b = c
  BY <1>2 DEF IInv, RequestInv, OneHasLock
<1>8. \A b \in Call : call'[b].phase \notin {"locked", "new", "counted", "inserted"}
  BY <1>6, <1>7 DEF InHand
<1>9. /\ answers' \subseteq [call : Call, code : {202, 409, 429, 500}, id : SUBSET Call]
      /\ \A x \in answers' \ answers : x.call = c /\ x.code = 202 /\ x.id = {c}
  <2>1. {c} \in SUBSET Call
    OBVIOUS
  <2> QED BY <1>2, <2>1, NewAnswer
<1>10. Rows' = Rows /\ Handler' = Handler
  BY <1>2 DEF Rows, Handler, RowOf, DedupeKey, TestDedupeKey
<1>11. TypeInv'
  <2>1. IsFiniteSet(tests')
    BY <1>2, FS_AddElement DEF IInv, TypeInv
  <2> QED BY <1>2, <1>4, <1>6, <1>9, <1>10, <2>1 DEF IInv, TypeInv
<1>12. RequestInv'
  <2>1. OneHasLock'
    BY <1>8 DEF OneHasLock, InHand
  <2>2. KeyHasOneRow'
    BY <1>2, <1>3, <1>8 DEF IInv, RequestInv, KeyHasOneRow
  <2>3. AnswersNameRows'
    <3> SUFFICES ASSUME NEW x \in answers', x.code = 202
                 PROVE  \E d \in tests' : x.id = {d.id} /\ d.key = DedupeKey(x.call)
      BY DEF AnswersNameRows, DedupeKey, TestDedupeKey
    <3>1. CASE x \in answers
      BY <1>2, <3>1 DEF IInv, RequestInv, AnswersNameRows
    <3>2. CASE x \notin answers
      BY <1>2, <1>3, <1>9, <3>2
    <3> QED BY <3>1, <3>2
  <2> QED BY <2>1, <2>2, <2>3 DEF RequestInv
<1>13. RoomIsKept'
  BY <1>8 DEF RoomIsKept
<1>14. ASSUME NEW q \in WindowQuotas, NEW d \in tests' PROVE Cardinality(Counted(q, d)') <= q.limit
  <2>1. q.window \in Nat /\ q.limit \in Nat
    BY QuotaFields
  <2>2. Cardinality(Recent(q, c, t)) < q.limit /\ Cardinality(Recent(q, c, t)) \in Nat
        /\ IsFiniteSet(Recent(q, c, t))
    BY <1>1, CountsAreNumbers DEF HasRoom
  <2>3. \A x \in tests : x.createdAt \in Nat
    BY RowFields DEF IInv, TypeInv
  <2>4. CASE d.createdAt = t /\ q.group[d.id] = q.group[c]
    <3>1. Counted(q, d)' \subseteq Recent(q, c, t) \cup {r}
      BY <1>2, <2>4 DEF Counted, Within, Recent
    <3> QED BY <2>1, <2>2, <3>1, OneMore
  <2>5. CASE ~(d.createdAt = t /\ q.group[d.id] = q.group[c])
    <3>1. d \in tests /\ ~(t <= d.createdAt /\ q.group[c] = q.group[d.id])
      BY <1>1, <1>2, <1>3, <2>3, <2>5
    <3>2. Counted(q, d)' = Counted(q, d)
      BY <1>2, <1>3, <3>1 DEF Counted, Within
    <3> QED BY <3>1, <3>2 DEF IInv, WithinQuotas
  <2> QED BY <2>4, <2>5
<1>15. ASSUME NEW q \in PendingQuotas, NEW b \in Call PROVE Cardinality(Waiting(q, b)') <= q.limit
  <2>1. q.limit \in Nat
    BY QuotaFields
  <2>2. Cardinality(Waiting(q, c)) < q.limit /\ Cardinality(Waiting(q, c)) \in Nat
        /\ IsFiniteSet(Waiting(q, c))
    BY <1>1, CountsAreNumbers DEF HasRoom
  <2>3. CASE q.group[b] = q.group[c]
    <3>1. Waiting(q, b)' \subseteq Waiting(q, c) \cup {r}
      BY <1>2, <2>3 DEF Waiting
    <3>2. /\ Cardinality(Waiting(q, b)') \in Nat
          /\ Cardinality(Waiting(q, b)') <= Cardinality(Waiting(q, c)) + 1
      BY <2>2, <3>1, OneMore
    <3> QED BY <2>1, <2>2, <3>2
  <2>4. CASE q.group[b] # q.group[c]
    <3>1. Waiting(q, b)' = Waiting(q, b)
      BY <1>2, <1>3, <2>4 DEF Waiting
    <3> QED BY <3>1 DEF IInv, WithinQuotas
  <2> QED BY <2>3, <2>4
<1>16. WithinQuotas'
  BY <1>14, <1>15 DEF WithinQuotas, WindowQuotas, PendingQuotas, Quota, StoreOfCall,
      Requesters, Anyone
<1> QED BY <1>11, <1>12, <1>13, <1>16 DEF IInv

LEMMA SettleStep ==
  ASSUME AdmissionAssumption, IInv, Settle
  PROVE  IInv'
<1>1. PICK d \in Pending(tests) : tests' = (tests \ {d}) \cup {[d EXCEPT !.pending = FALSE]}
  BY DEF Settle
<1> DEFINE e == [d EXCEPT !.pending = FALSE]
<1>2. d \in tests /\ d.pending /\ d \in Rows
  BY DEF Pending, IInv, TypeInv
<1>3. e = RowOf(d.id, d.createdAt, FALSE) /\ d.id \in Call /\ d.createdAt \in 0..now
  <2>1. PICK c \in Call, t \in 0..now, waits \in BOOLEAN : d = RowOf(c, t, waits)
    BY <1>2 DEF Rows
  <2>2. d.id = c /\ d.createdAt = t
    BY <2>1 DEF RowOf
  <2>3. e = RowOf(c, t, FALSE)
    <3>1. \A waiting : [d EXCEPT !.pending = waiting] = RowOf(c, t, waiting)
      BY <2>1 DEF RowOf
    <3> QED BY <3>1, Zenon
  <2> QED BY <2>2, <2>3
<1>4. e \in Rows
  BY <1>3, IsARow
<1>5. e.id = d.id /\ e.key = d.key /\ e.createdAt = d.createdAt /\ ~e.pending
  BY <1>2, <1>3, RowFields DEF RowOf
<1>6. tests' = (tests \ {d}) \cup {e} /\ UNCHANGED <<plan, call, enabled, answers, now, failures>>
  BY <1>1 DEF Settle
<1> HIDE DEF e
<1>7. Rows' = Rows /\ Handler' = Handler
  BY <1>6 DEF Rows, Handler, RowOf, DedupeKey, TestDedupeKey
<1>8. TypeInv'
  <2>1. IsFiniteSet(tests')
    BY ZenonT(60), <1>6, FS_AddElement, FS_RemoveElement DEF IInv, TypeInv
  <2> QED BY <1>4, <1>6, <1>7, <2>1 DEF IInv, TypeInv
<1>9. RequestInv'
  <2>1. OneHasLock'
    BY <1>6 DEF IInv, RequestInv, OneHasLock, InHand
  <2>2. KeyHasOneRow'
    BY <1>2, <1>5, <1>6 DEF IInv, RequestInv, KeyHasOneRow, DedupeKey, TestDedupeKey
  <2>3. AnswersNameRows'
    BY <1>2, <1>5, <1>6 DEF IInv, RequestInv, AnswersNameRows, DedupeKey, TestDedupeKey
  <2> QED BY <2>1, <2>2, <2>3 DEF RequestInv
(* A set of rows that does not look at pending is as large as before.      *)
<1>10. ASSUME NEW S, NEW T, S \subseteq tests, T \subseteq tests',
              \A x \in T : x \in S \/ (x = e /\ d \in S)
       PROVE  Cardinality(T) \in Nat /\ Cardinality(T) <= Cardinality(S)
  <2>1. IsFiniteSet(S)
    BY <1>10, FS_Subset DEF IInv, TypeInv
  <2>2. d \notin T
    BY <1>2, <1>5, <1>6, <1>10
  <2>3. CASE d \in S
    <3>1. T \subseteq (S \ {d}) \cup {e}
      BY <1>10, <2>2
    <3> QED BY <2>1, <2>3, <3>1, OneForAnother
  <2>4. CASE d \notin S
    <3>1. T \subseteq S
      BY <1>10, <2>4
    <3> QED BY <2>1, <3>1, Subset
  <2> QED BY <2>3, <2>4
<1>11. ASSUME NEW q, NEW c, NEW t
       PROVE  /\ Cardinality(Recent(q, c, t)') \in Nat
              /\ Cardinality(Recent(q, c, t)') <= Cardinality(Recent(q, c, t))
  <2>1. Recent(q, c, t)' = {x \in tests' : x.createdAt > t - q.window /\ q.group[x.id] = q.group[c]}
    BY DEF Recent
  <2>2. \A x \in Recent(q, c, t)' : x \in Recent(q, c, t) \/ (x = e /\ d \in Recent(q, c, t))
    BY <1>2, <1>5, <1>6, <2>1 DEF Recent
  <2> QED BY <1>10, <2>1, <2>2 DEF Recent
<1>12. ASSUME NEW q, NEW c
       PROVE  /\ Cardinality(Waiting(q, c)') \in Nat
              /\ Cardinality(Waiting(q, c)') <= Cardinality(Waiting(q, c))
  <2>1. Waiting(q, c)' = {x \in tests' : x.pending /\ q.group[x.id] = q.group[c]}
    BY DEF Waiting
  <2>2. \A x \in Waiting(q, c)' : x \in Waiting(q, c)
    BY <1>5, <1>6, <2>1 DEF Waiting
  <2> QED BY <1>10, <2>1, <2>2 DEF Waiting
<1>13. ASSUME NEW c \in Call, NEW t, HasRoom(c, t) PROVE HasRoom(c, t)'
  <2>1. ASSUME NEW q \in WindowQuotas PROVE Cardinality(Recent(q, c, t)') < q.limit
    BY <1>11, <1>13, CountsAreNumbers, QuotaFields DEF HasRoom
  <2>2. ASSUME NEW q \in PendingQuotas PROVE Cardinality(Waiting(q, c)') < q.limit
    BY <1>12, <1>13, CountsAreNumbers, QuotaFields DEF HasRoom
  <2> QED BY <2>1, <2>2
      DEF HasRoom, WindowQuotas, PendingQuotas, Quota, StoreOfCall, Requesters, Anyone
<1>14. RoomIsKept'
  BY <1>2, <1>5, <1>6, <1>13 DEF IInv, RoomIsKept, RowOf, DedupeKey, TestDedupeKey
<1>15. ASSUME NEW q \in WindowQuotas, NEW f \in tests' PROVE Cardinality(Counted(q, f)') <= q.limit
  <2>1. PICK g \in tests : g.createdAt = f.createdAt /\ g.id = f.id
    BY <1>2, <1>5, <1>6
  <2>2. Counted(q, f)' = {x \in tests' : /\ f.createdAt - q.window < x.createdAt
                                         /\ x.createdAt <= f.createdAt
                                         /\ q.group[x.id] = q.group[f.id]}
    BY DEF Counted, Within
  <2>3. Counted(q, g) = {x \in tests : /\ f.createdAt - q.window < x.createdAt
                                       /\ x.createdAt <= f.createdAt
                                       /\ q.group[x.id] = q.group[f.id]}
    BY <2>1 DEF Counted, Within
  <2>4. \A x \in Counted(q, f)' : x \in Counted(q, g) \/ (x = e /\ d \in Counted(q, g))
    BY <1>2, <1>5, <1>6, <2>2, <2>3
  <2>5. Cardinality(Counted(q, f)') \in Nat /\ Cardinality(Counted(q, f)') <= Cardinality(Counted(q, g))
    BY <1>10, <2>2, <2>3, <2>4
  <2>6. Cardinality(Counted(q, g)) \in Nat
    BY <2>3, Subset DEF IInv, TypeInv
  <2>7. Cardinality(Counted(q, g)) <= q.limit
    BY DEF IInv, WithinQuotas
  <2> QED BY <2>5, <2>6, <2>7, QuotaFields
<1>16. ASSUME NEW q \in PendingQuotas, NEW c \in Call PROVE Cardinality(Waiting(q, c)') <= q.limit
  <2>1. /\ Cardinality(Waiting(q, c)') \in Nat /\ Cardinality(Waiting(q, c)) \in Nat
        /\ Cardinality(Waiting(q, c)') <= Cardinality(Waiting(q, c))
    BY <1>12, CountsAreNumbers
  <2>2. Cardinality(Waiting(q, c)) <= q.limit /\ q.limit \in Nat
    BY QuotaFields DEF IInv, WithinQuotas
  <2> QED BY <2>1, <2>2
<1>17. WithinQuotas'
  BY <1>15, <1>16 DEF WithinQuotas, WindowQuotas, PendingQuotas, Quota, StoreOfCall,
      Requesters, Anyone
<1> QED BY <1>8, <1>9, <1>14, <1>17 DEF IInv

LEMMA TickStep ==
  ASSUME AdmissionAssumption, IInv, Tick
  PROVE  IInv'
<1>1. /\ now' = now + 1 /\ now \in Nat /\ now' \in 0..MaxTime
      /\ UNCHANGED <<plan, tests, call, enabled, answers, failures>>
  BY DEF Tick, IInv, TypeInv, AdmissionAssumption, BoundAssumption
<1>2. Rows \subseteq Rows'
  <2> SUFFICES ASSUME NEW d \in Rows PROVE d \in Rows'
    OBVIOUS
  <2>1. \E c \in Call, t \in 0..now', waits \in BOOLEAN : d = RowOf(c, t, waits)
    BY <1>1 DEF Rows
  <2> QED BY <2>1 DEF Rows, RowOf, DedupeKey, TestDedupeKey
<1>3. Handler \subseteq Handler'
  BY <1>2 DEF Handler
<1>4. TypeInv'
  BY <1>1, <1>2, <1>3 DEF IInv, TypeInv
<1>5. RequestInv'
  BY <1>1 DEF IInv, RequestInv, OneHasLock, InHand, KeyHasOneRow, AnswersNameRows,
              DedupeKey, TestDedupeKey
<1>6. \A c, t : HasRoom(c, t)' <=> HasRoom(c, t)
  BY <1>1 DEF HasRoom, Recent, Waiting
<1>7. ASSUME NEW c \in Call, HasRoom(c, now) PROVE HasRoom(c, now')
  <2>1. ASSUME NEW q \in WindowQuotas PROVE Cardinality(Recent(q, c, now')) < q.limit
    <3>1. Recent(q, c, now') \subseteq Recent(q, c, now)
      <4>1. \A x \in tests : x.createdAt \in Nat
        BY RowFields DEF IInv, TypeInv
      <4>2. q.window \in Nat
        BY QuotaFields
      <4> QED BY <1>1, <4>1, <4>2 DEF Recent
    <3>2. Cardinality(Recent(q, c, now')) <= Cardinality(Recent(q, c, now))
      BY <3>1, CountsAreNumbers, Subset
    <3> QED BY <1>7, <3>2, CountsAreNumbers, QuotaFields DEF HasRoom
  <2> QED BY <1>7, <2>1 DEF HasRoom
<1>8. RoomIsKept'
  <2> SUFFICES ASSUME NEW c \in Call
               PROVE  /\ call[c].phase = "counted" => HasRoom(c, now')
                      /\ call[c].phase = "inserted" =>
                           \E t \in 0..now' : /\ call[c].row = {RowOf(c, t, TRUE)}
                                              /\ HasRoom(c, t)
                                              /\ \A d \in tests : d.createdAt <= t
    BY <1>1, <1>6 DEF RoomIsKept, RowOf, DedupeKey, TestDedupeKey
  <2>1. 0..now \subseteq 0..now'
    BY <1>1
  <2> QED BY <1>7, <2>1 DEF IInv, RoomIsKept
<1>9. WithinQuotas'
  <2>1. \A q, d : Waiting(q, d)' = Waiting(q, d) /\ Counted(q, d)' = Counted(q, d)
    BY <1>1 DEF Waiting, Counted, Within
  <2> QED BY <1>1, <2>1 DEF IInv, WithinQuotas
<1> QED BY <1>4, <1>5, <1>8, <1>9 DEF IInv

LEMMA QuietStep ==
  ASSUME IInv, Disable \/ UNCHANGED vars
  PROVE  IInv'
<1>1. UNCHANGED <<tests, call, answers, now, failures>> /\ enabled' \subseteq enabled
  BY DEF Disable, vars
<1>2. Rows' = Rows /\ Handler' = Handler
  BY <1>1 DEF Rows, Handler, RowOf, DedupeKey, TestDedupeKey
<1>3. TypeInv'
  BY <1>1, <1>2 DEF IInv, TypeInv
<1>4. RequestInv'
  BY <1>1 DEF IInv, RequestInv, OneHasLock, InHand, KeyHasOneRow, AnswersNameRows,
              DedupeKey, TestDedupeKey
<1>5. RoomIsKept'
  <2>1. \A c, t : HasRoom(c, t)' <=> HasRoom(c, t)
    BY <1>1 DEF HasRoom, Recent, Waiting
  <2> QED BY <1>1, <2>1 DEF IInv, RoomIsKept, RowOf, DedupeKey, TestDedupeKey
<1>6. WithinQuotas'
  <2>1. \A q, d : Waiting(q, d)' = Waiting(q, d) /\ Counted(q, d)' = Counted(q, d)
    BY <1>1 DEF Waiting, Counted, Within
  <2> QED BY <1>1, <2>1 DEF IInv, WithinQuotas
<1> QED BY <1>3, <1>4, <1>5, <1>6 DEF IInv

-----------------------------------------------------------------------------
(* Theorems *)

LEMMA NextHolds ==
  ASSUME AdmissionAssumption, IInv, [Next]_vars
  PROVE  IInv'
<1>1. ASSUME NEW c \in Call, Begin(c) \/ CallStep(c) \/ Fail(c) PROVE IInv'
  BY <1>1, BeginStep, LockStep, RefuseDisabledStep, LookUpStep, CountStep, InsertStep,
     CommitStep, FailStep DEF CallStep
<1> QED BY <1>1, SettleStep, TickStep, QuietStep DEF Next

LEMMA InvariantHolds ==
  ASSUME AdmissionAssumption
  PROVE  Spec => []IInv
<1>1. Init => IInv
  BY InitHolds
<1>2. IInv /\ [Next]_vars => IInv'
  BY NextHolds
<1> QED BY <1>1, <1>2, PTL DEF Spec

(* The variables keep their types, for any number of requests              *)
(* (notifications.go 428-482).                                             *)
THEOREM TypesHold ==
  ASSUME AdmissionAssumption
  PROVE  Spec => []TypeOK
<1>1. IInv => TypeOK
  <2> SUFFICES ASSUME IInv PROVE TypeOK
    OBVIOUS
  <2>1. ASSUME NEW d \in tests
        PROVE  /\ d.id \in Call /\ d.endpoint \in Endpoint
               /\ d.createdAt \in 0..MaxTime /\ d.pending \in BOOLEAN
    <3>1. /\ d.id \in Call /\ d.endpoint = EndpointOf[d.id]
          /\ d.createdAt \in 0..now /\ d.pending \in BOOLEAN
      BY RowFields DEF IInv, TypeInv
    <3> QED BY <3>1 DEF IInv, TypeInv, AdmissionAssumption, LimitAssumption, BoundAssumption
  <2>2. \A c \in Call : call[c].phase \in {"quiet", "begun", "locked", "new", "counted", "inserted", "done"}
    BY DEF IInv, TypeInv, Handler
  <2> QED BY <2>1, <2>2 DEF IInv, TypeInv, TypeOK
<1> QED BY <1>1, InvariantHolds, PTL

(* No window of a minute or an hour holds more tests than a limit allows,  *)
(* by endpoint, store, requester and in all, and no more tests wait, for   *)
(* any number of requests and any limits (outbox.go 204-329).              *)
THEOREM QuotasHoldAlways ==
  ASSUME AdmissionAssumption
  PROVE  Spec => []QuotasHold
<1>1. IInv => QuotasHold
  <2> SUFFICES ASSUME IInv PROVE QuotasHold
    OBVIOUS
  <2>1. \A x \in tests : x.id \in Call /\ x.endpoint = EndpointOf[x.id] /\ x.requester = RequesterOf[x.id]
    BY RowFields DEF IInv, TypeInv
  <2>2. ASSUME NEW d \in tests, NEW w, NEW l
        PROVE  /\ Counted(Quota(EndpointOf, w, l), d) = {x \in Within(tests, d, w) : x.endpoint = d.endpoint}
               /\ Counted(Quota(StoreOfCall, w, l), d)
                    = {x \in Within(tests, d, w) : StoreOf[x.endpoint] = StoreOf[d.endpoint]}
               /\ Counted(Quota(Requesters, w, l), d) = {x \in Within(tests, d, w) : x.requester = d.requester}
               /\ Counted(Quota(Anyone, w, l), d) = Within(tests, d, w)
    BY <2>1 DEF Counted, Within, Quota, StoreOfCall, Requesters, Anyone
  <2>3. ASSUME NEW d \in tests
        PROVE  /\ Cardinality(Counted(Quota(EndpointOf, Minute, EndpointPerMinute), d)) <= EndpointPerMinute
               /\ Cardinality(Counted(Quota(EndpointOf, Hour, EndpointPerHour), d)) <= EndpointPerHour
               /\ Cardinality(Counted(Quota(StoreOfCall, Hour, StorePerHour), d)) <= StorePerHour
               /\ Cardinality(Counted(Quota(Requesters, Hour, RequesterPerHour), d)) <= RequesterPerHour
               /\ Cardinality(Counted(Quota(Anyone, Hour, GlobalPerHour), d)) <= GlobalPerHour
    <3>1. \A g, w, l : Quota(g, w, l) \in WindowQuotas =>
            Cardinality(Counted(Quota(g, w, l), d)) <= l
      BY DEF IInv, WithinQuotas, Quota
    <3> QED BY <3>1 DEF WindowQuotas
  <2>4. ASSUME NEW c \in Call
        PROVE  /\ Cardinality(OfEndpoint(Pending(tests), c)) <= EndpointPending
               /\ Cardinality(OfStore(Pending(tests), c)) <= StorePending
               /\ Cardinality(Pending(tests)) <= GlobalPending
    <3>1. \A g, w, l : Quota(g, w, l) \in PendingQuotas =>
            Cardinality(Waiting(Quota(g, w, l), c)) <= l
      BY DEF IInv, WithinQuotas, Quota
    <3>2. /\ Waiting(Quota(EndpointOf, 0, EndpointPending), c) = OfEndpoint(Pending(tests), c)
          /\ Waiting(Quota(StoreOfCall, 0, StorePending), c) = OfStore(Pending(tests), c)
          /\ Waiting(Quota(Anyone, 0, GlobalPending), c) = Pending(tests)
      BY <2>1 DEF Waiting, OfEndpoint, OfStore, Pending, Quota, StoreOfCall, Anyone
    <3> QED BY <3>1, <3>2 DEF PendingQuotas
  <2>5. Cardinality(Pending(tests)) <= GlobalPending
    <3>1. CASE tests = {}
      <4>1. Pending(tests) = {} /\ GlobalPending \in Nat
        BY <3>1 DEF Pending, AdmissionAssumption, LimitAssumption
      <4> QED BY <4>1, FS_EmptySet
    <3>2. CASE tests # {}
      BY <2>1, <2>4, <3>2
    <3> QED BY <3>1, <3>2
  <2> QED BY <2>2, <2>3, <2>4, <2>5 DEF QuotasHold
<1> QED BY <1>1, InvariantHolds, PTL

(* However often and concurrently a request is sent, it is one test, and   *)
(* its repetition is not refused for a limit (outbox.go 195-219).          *)
THEOREM OneRequestIsOneTestAlways ==
  ASSUME AdmissionAssumption
  PROVE  Spec => OneRequestIsOneTest
<1>1. IInv => RequestIsIdempotent
  <2> SUFFICES ASSUME IInv, NEW x \in answers, x.code = 202
               PROVE  /\ \E d \in tests : x.id = {d.id} /\ d.endpoint = EndpointOf[x.call]
                      /\ \A y \in answers : y.code = 202 /\ SameRequest(x.call, y.call) => y.id = x.id
    BY DEF RequestIsIdempotent
  <2>1. PICK d \in tests : x.id = {d.id} /\ d.key = DedupeKey(x.call)
    BY DEF IInv, RequestInv, AnswersNameRows
  <2>2. d.endpoint = EndpointOf[x.call]
    BY <2>1, RowFields DEF IInv, TypeInv, DedupeKey, TestDedupeKey
  <2>3. ASSUME NEW y \in answers, y.code = 202, SameRequest(x.call, y.call) PROVE y.id = x.id
    <3>1. PICK e \in tests : y.id = {e.id} /\ e.key = DedupeKey(y.call)
      BY <2>3 DEF IInv, RequestInv, AnswersNameRows
    <3>2. e.key = d.key
      BY <2>1, <2>3, <3>1, SameKey
    <3> QED BY <2>1, <3>1, <3>2 DEF IInv, RequestInv, KeyHasOneRow
  <2> QED BY <2>1, <2>2, <2>3
<1>2. IInv /\ [Next]_vars =>
        [\A x \in answers' \ answers : x.code = 429 => \A d \in tests : ~SameRequest(d.id, x.call)]_vars
  <2> SUFFICES ASSUME IInv, Next, NEW x \in answers' \ answers, x.code = 429, NEW d \in tests
               PROVE  ~SameRequest(d.id, x.call)
    BY DEF vars
  <2>1. PICK c \in Call : Count(c) /\ x.call = c
    <3>1. ASSUME NEW c, NEW code, NEW id, Answer(c, code, id) PROVE x.call = c /\ x.code = code
      BY <3>1 DEF Answer
    <3>2. ASSUME NEW c, RefuseDisabled(c) \/ Fail(c) PROVE FALSE
      BY <3>1, <3>2 DEF RefuseDisabled, Fail, Refuse
    <3>3. ASSUME NEW c, LookUp(c) \/ Commit(c) PROVE FALSE
      BY <3>1, <3>3 DEF LookUp, Commit
    <3>4. ASSUME NEW c, Begin(c) \/ Lock(c) \/ Insert(c) PROVE FALSE
      BY <3>4 DEF Begin, Lock, Insert
    <3>5. ASSUME Settle \/ Disable \/ Tick PROVE FALSE
      BY <3>5 DEF Settle, Disable, Tick
    <3>6. ASSUME NEW c, Count(c) PROVE x.call = c
      BY <3>1, <3>6 DEF Count, Refuse
    <3> QED BY <3>2, <3>3, <3>4, <3>5, <3>6 DEF Next, CallStep
  <2>2. d.key # DedupeKey(c)
    BY <2>1 DEF Count, IInv, RequestInv, KeyHasOneRow
  <2> QED BY <2>1, <2>2, RowFields, SameKey DEF IInv, TypeInv
<1> QED BY <1>1, <1>2, InvariantHolds, PTL DEF Spec, OneRequestIsOneTest, RepeatIsNotLimited
=============================================================================
