----------------------------- MODULE MCReadiness -----------------------------
(***************************************************************************)
(* The probe as it is deployed: 10 s in the handler, a kubelet that asks   *)
(* every 10 s and waits for 5 s.                                           *)
(***************************************************************************)
EXTENDS Readiness, TLC

CONSTANTS p1, p2

MCSymmetry == Permutations({p1, p2})
==============================================================================
