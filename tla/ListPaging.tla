----------------------------- MODULE ListPaging -----------------------------
(***************************************************************************)
(* The two lists that are read page by page while rows are added and       *)
(* change: alerts, ordered by detectedAt alone, and deliveries, ordered by *)
(* createdAt and id.  A reader follows nextCursor until there is none.     *)
(* Only the set of rows on a page and its last row matter here: the rows   *)
(* of one page that the order leaves open come in any order.               *)
(***************************************************************************)
EXTENDS Naturals, FiniteSets

CONSTANTS
  Id,         \* numbers: random identifiers, ordered like UUIDs
  Time,       \* numbers: detectedAt comes from the detector, createdAt from
              \* the start of a transaction: a new row may be an old one
  Status,     \* values of the status filter
  Limit,      \* rows on a page
  MaxChanges  \* bound on changes of a status

PagingAssumption == Limit \in Nat \ {0} /\ Id \subseteq Nat /\ Time \subseteq Nat

VARIABLES
  list,      \* "alerts" or "deliveries": which of them is read
  rows,      \* Id -> [time, status] of the rows there are
  walk,      \* the reader: [phase, filter, cursor]
  page,      \* ids of the last page
  listed,    \* ids of all pages
  steady,    \* ids that have matched the filter since the walk began
  changes

vars == <<list, rows, walk, page, listed, steady, changes>>

Init ==
  /\ list \in {"alerts", "deliveries"}
  /\ rows = << >>
  /\ walk = [phase |-> "no"]
  /\ page = {} /\ listed = {} /\ steady = {}
  /\ changes = 0

Matches(filter, r) == filter = "any" \/ r.status = filter

Matching(filter) == {i \in DOMAIN rows : Matches(filter, rows[i])}

\* ORDER BY: row i is listed after row j.
After(i, j) ==
  \/ rows[i].time < rows[j].time
  \/ list = "deliveries" /\ rows[i].time = rows[j].time /\ i < j

(* Mutant: the cursor is compared with <=.                                 *)
BelowOrAt(i, cursor) ==
  \/ cursor = <<>>
  \/ rows[i].time < cursor[1]
  \/ rows[i].time = cursor[1] /\ (list = "deliveries" => i <= cursor[2])

\* The condition on the cursor <<time, id>>; a first page has none.
Below(i, cursor) ==
  \/ cursor = <<>>
  \/ rows[i].time < cursor[1]
  \/ list = "deliveries" /\ rows[i].time = cursor[1] /\ i < cursor[2]

-----------------------------------------------------------------------------
Add(i) ==
  /\ i \notin DOMAIN rows
  /\ \E t \in Time, s \in Status :
       rows' = [j \in DOMAIN rows \cup {i} |-> IF j = i THEN [time |-> t, status |-> s] ELSE rows[j]]
  /\ UNCHANGED <<list, walk, page, listed, steady, changes>>

\* A decision on an alert, the worker or a receipt on a delivery.
Change(i) ==
  /\ i \in DOMAIN rows /\ changes < MaxChanges
  /\ \E s \in Status \ {rows[i].status} : rows' = [rows EXCEPT ![i].status = s]
  /\ steady' = IF walk.phase = "no" \/ Matches(walk.filter, rows'[i]) THEN steady ELSE steady \ {i}
  /\ changes' = changes + 1
  /\ UNCHANGED <<list, walk, page, listed>>

\* The first request comes without a cursor.
Start(filter) ==
  /\ walk.phase = "no"
  /\ walk' = [phase |-> "more", filter |-> filter, cursor |-> <<>>]
  /\ steady' = Matching(filter)
  /\ UNCHANGED <<list, rows, page, listed, changes>>

PageSize(found) == IF Cardinality(found) > Limit THEN Limit ELSE Cardinality(found)

\* One row more than the page holds was found: there is a next page.
More(shown, found) == shown # found

\* Rows the page may end with, and the cursor may be made of.
Cursor(shown, found) == {c \in shown : \A i \in shown : ~After(i, c)}

(* WHERE filter AND below the cursor ORDER BY ... LIMIT limit+1: shown are *)
(* the first rows of those found.                                          *)
Page ==
  LET found == {i \in Matching(walk.filter) : Below(i, walk.cursor)}
  IN  /\ walk.phase = "more"
      /\ \E shown \in SUBSET found :
           /\ Cardinality(shown) = PageSize(found)
           /\ \A i \in shown, j \in found \ shown : ~After(i, j)
           /\ page' = shown
           /\ listed' = listed \cup shown
           /\ IF More(shown, found)
              THEN \E c \in Cursor(shown, found) : walk' = [walk EXCEPT !.cursor = <<rows[c].time, c>>]
              ELSE walk' = [walk EXCEPT !.phase = "end"]
      /\ UNCHANGED <<list, rows, steady, changes>>

Next ==
  \/ \E i \in Id : Add(i) \/ Change(i)
  \/ \E filter \in Status \cup {"any"} : Start(filter)
  \/ Page

Spec == Init /\ [][Next]_vars /\ WF_vars(Page)

-----------------------------------------------------------------------------
(* The variables have their types; a page holds Limit rows at most, and    *)
(* is full when another follows (notification_runtime.go 174-182).         *)
TypeOK ==
  /\ DOMAIN rows \subseteq Id
  /\ page \subseteq listed /\ listed \subseteq Id /\ steady \subseteq Id
  /\ Cardinality(page) <= Limit
  /\ walk.phase = "more" /\ walk.cursor # <<>> => Cardinality(page) = Limit

(* No row is listed on two pages, whatever is added or changed between     *)
(* them (notification_runtime.go 132-143, alerts.go 101-118).              *)
NoRowTwice == [][walk.phase = "more" /\ walk' # walk => page' \cap listed = {}]_vars

(* A walk of the deliveries that is over has listed every row that matched *)
(* the filter all the time (notification_runtime.go 132-143 and 174-182).  *)
WalkIsComplete == list = "deliveries" /\ walk.phase = "end" => steady \subseteq listed

(* The list of alerts may lose no row but one with the detectedAt of       *)
(* another that it has listed (alerts.go 101-118).                         *)
OnlyTiesAreLost ==
  walk.phase = "end" =>
    \A i \in steady \ listed : \E j \in listed : rows[j].time = rows[i].time

(* The pages together are the list: no row twice, none missing but for the *)
(* ties of alerts (alerts.go 101-118, notification_runtime.go 132-182).    *)
PagesAreSound == NoRowTwice /\ []WalkIsComplete /\ []OnlyTiesAreLost

(* A reader who goes on comes to the end although rows are added.          *)
WalkEnds == []<>(walk.phase # "more")

(* Alerts: "It sorts by `detectedAt` descending with cursor pagination"    *)
(* (docs/api-contract.md:54): the pages together are the list.             *)
AlertPagesAreComplete == list = "alerts" /\ walk.phase = "end" => steady \subseteq listed
=============================================================================
