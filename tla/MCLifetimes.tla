---------------------------- MODULE MCLifetimes ----------------------------
(* Small instances of Lifetimes for TLC. *)
EXTENDS Lifetimes
=============================================================================
