------------------------------- MODULE MCHub -------------------------------
(***************************************************************************)
(* Instances of Hub.                                                       *)
(***************************************************************************)
EXTENDS Hub

CONSTANTS c1, c2, u1, u2

\* Both connections may authenticate as u1, and c2 as another user as well: two
\* connections compete for one account, or serve an account each.
MixedAccounts == [c \in Conn |-> IF c = c1 THEN {u1} ELSE {u1, u2}]

=============================================================================
