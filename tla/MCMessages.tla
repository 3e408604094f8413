----------------------------- MODULE MCMessages -----------------------------
(***************************************************************************)
(* Instances of PgMessages: two users write a message each, an             *)
(* administrator and the author of one message delete.                     *)
(***************************************************************************)
EXTENDS PgMessages

CONSTANTS m1, m2, u1, u2, c1, c2

Authors == [m \in Msg |-> IF m = m1 THEN u1 ELSE u2]
Actors  == [c \in Caller |-> IF c = c1 THEN u1 ELSE u2]

=============================================================================
