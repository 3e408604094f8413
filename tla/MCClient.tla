------------------------------ MODULE MCClient ------------------------------
(***************************************************************************)
(* Instances of ClientSession.                                             *)
(***************************************************************************)
EXTENDS ClientSession

=============================================================================
