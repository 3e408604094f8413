------------------------------ MODULE MCRelay ------------------------------
(* u1 speaks and has one connection; u2 only listens, and may come back. *)
EXTENDS VoiceRelay, TLC
CONSTANTS c1, d1, d2, u1, u2
Owners == (c1 :> u1) @@ (d1 :> u2) @@ (d2 :> u2)
\* The speaker joins once, the listener joins and comes back.
Joins == (u1 :> 1) @@ (u2 :> 2)
=============================================================================
