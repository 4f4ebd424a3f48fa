---------------------------- MODULE MCBootstrap ----------------------------
(* Small instances of Bootstrap for TLC. *)
EXTENDS Bootstrap, TLC

Symmetry == Permutations(CallIds) \cup Permutations(Shares)
=============================================================================
