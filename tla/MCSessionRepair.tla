-------------------------- MODULE MCSessionRepair --------------------------
(* Model-checking instance of SessionRepair. *)
EXTENDS SessionRepair

Symmetry == Permutations(CallIds)
=============================================================================
