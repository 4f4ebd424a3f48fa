-------------------------- MODULE MCAuthentication --------------------------
(* Small instances of Authentication for TLC. *)
EXTENDS Authentication, TLC

CONSTANTS w1, w2, w3, s1, s2

\* Two wrapping tokens hold a secret id, the third holds something else.
MCWrapped == w1 :> s1 @@ w2 :> s2 @@ w3 :> NoSecret
=============================================================================
