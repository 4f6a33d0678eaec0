----------------------------- MODULE MCAccounts -----------------------------
(***************************************************************************)
(* Instances of BrowserSession for TLC: three plans.                       *)
(***************************************************************************)
EXTENDS BrowserSession

Tabs == {"a", "b"}
Queries == {<<"a", "q1">>, <<"a", "q2">>, <<"b", "q1">>}
Handlers == Tabs \X {"refresh", "user"} \cup Queries

(* Queries of one tab and of two; nobody logs out and nothing fails.       *)
OneTab == [tabs |-> {"a"}, queries |-> Queries, acts |-> {"login"}, turns |-> 2, faults |-> 0]
TwoTabs == [OneTab EXCEPT !.tabs = Tabs, !.turns = 1]
(* Logins and logouts in two tabs while something fails.                   *)
Faulty == [tabs |-> Tabs, queries |-> {<<"a", "q1">>},
           acts |-> {"login", "logout"}, turns |-> 3, faults |-> 1]
BrowserPlans == {OneTab, TwoTabs, Faulty}
=============================================================================
