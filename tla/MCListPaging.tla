---------------------------- MODULE MCListPaging ----------------------------
(***************************************************************************)
(* An instance of ListPaging for TLC: three rows at two times.             *)
(***************************************************************************)
EXTENDS ListPaging

Ids == 1..3
Times == 1..2
Statuses == {"open", "closed"}
=============================================================================
