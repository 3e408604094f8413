------------------------------ MODULE MCTokens ------------------------------
(* Two clients that run at once; the safety properties do not tell them apart. *)
EXTENDS TokenStore, TLC
Processes == Permutations(Process)
=============================================================================
