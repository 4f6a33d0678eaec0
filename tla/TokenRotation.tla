--------------------------- MODULE TokenRotation ---------------------------
(***************************************************************************)
(* What refresh tokens promise: a login has at most one token that still   *)
(* works; a refresh takes it away and gives one new token in its place;    *)
(* when it is taken away without one, the login is over for good.          *)
(***************************************************************************)
CONSTANTS Login, Token, None

VARIABLES
  valid,   \* Login -> the token that works, None
  used     \* tokens that have worked at some time

Init == valid = [l \in Login |-> None] /\ used = {}

Give(l, t) ==
  /\ t \notin used
  /\ used' = used \cup {t}
  /\ valid' = [valid EXCEPT ![l] = t]

\* The token of a login is named after it.
SignIn(l) == valid[l] = None /\ Give(l, l)

Rotate(l, t) == valid[l] # None /\ Give(l, t)

End(l) == UNCHANGED used /\ valid' = [valid EXCEPT ![l] = None]

Next == \E l \in Login : SignIn(l) \/ End(l) \/ \E t \in Token : Rotate(l, t)

Spec == Init /\ [][Next]_<<valid, used>>
=============================================================================
