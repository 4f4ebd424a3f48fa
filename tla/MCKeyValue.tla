----------------------------- MODULE MCKeyValue -----------------------------
(* Small instances of KeyValue for TLC. *)
EXTENDS KeyValue

Symmetry == Permutations(CallIds)
=============================================================================
