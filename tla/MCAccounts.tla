----------------------------- MODULE MCAccounts -----------------------------
(***************************************************************************)
(* Instances of PgAccounts.  The ids of user rows are fresh uuids and the  *)
(* connections run the same code: both sets are symmetric.                 *)
(***************************************************************************)
EXTENDS PgAccounts, TLC

Symmetry == Permutations(Task) \cup Permutations(User)

=============================================================================
