----------------------------- MODULE AtMostOnce -----------------------------
(***************************************************************************)
(* What one libvault call promises its caller, whatever the network does.  *)
(*                                                                         *)
(* A call is invoked, takes effect on the Vault server at most once, and   *)
(* is settled with one of three verdicts that the caller can tell apart:   *)
(*   "done"     the effect has happened;                                   *)
(*   "refused"  the effect has not happened and never will;                *)
(*   "unknown"  nothing is known: the effect may be past, to come, or      *)
(*              never come.                                                *)
(* Only the last one lets the effect arrive after the call is settled.     *)
(***************************************************************************)
EXTENDS Naturals

CONSTANT CallIds        \* identities of the calls an application makes

VARIABLES verdict,      \* what the caller of each call knows
          effects       \* how often the server carried the call out

vars == <<verdict, effects>>

Verdicts == {"none", "pending", "done", "refused", "unknown"}

TypeOK ==
  /\ verdict \in [CallIds -> Verdicts]
  /\ effects \in [CallIds -> Nat]

Init ==
  /\ verdict = [id \in CallIds |-> "none"]
  /\ effects = [id \in CallIds |-> 0]

Invoke(id) ==
  /\ verdict[id] = "none"
  /\ verdict' = [verdict EXCEPT ![id] = "pending"]
  /\ UNCHANGED effects

\* A slip: the request is repeated after it was answered.
TakeEffect_Repeated(id) ==
  /\ verdict[id] # "none"
  /\ effects' = [effects EXCEPT ![id] = 1]
  /\ UNCHANGED verdict

TakeEffect(id) ==
  /\ verdict[id] \in {"pending", "unknown"}
  /\ effects[id] = 0
  /\ effects' = [effects EXCEPT ![id] = 1]
  /\ UNCHANGED verdict

\* A slip: what is in doubt passes for refused.
Settle_NoDoubt(id, v) ==
  /\ verdict[id] = "pending"
  /\ v = "done" => effects[id] = 1
  /\ verdict' = [verdict EXCEPT ![id] = v]
  /\ UNCHANGED effects

\* A slip: an answer that is no 2xx, a redirect say, passes for one.
Settle_Redirected(id, v) ==
  /\ verdict[id] = "pending"
  /\ v = "refused" => effects[id] = 0
  /\ verdict' = [verdict EXCEPT ![id] = v]
  /\ UNCHANGED effects

Settle(id, v) ==
  /\ verdict[id] = "pending"
  /\ v = "done" => effects[id] = 1
  /\ v = "refused" => effects[id] = 0
  /\ verdict' = [verdict EXCEPT ![id] = v]
  /\ UNCHANGED effects

Next ==
  \E id \in CallIds :
    \/ Invoke(id)
    \/ TakeEffect(id)
    \/ \E v \in {"done", "refused", "unknown"} : Settle(id, v)

Spec == Init /\ [][Next]_vars
=============================================================================
