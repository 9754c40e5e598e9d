----------------------------- MODULE MCRunQuota -----------------------------
(* Constants for model checking RunQuota. *)
EXTENDS RunQuota, TLC

Symmetry == Permutations(Runs) \cup Permutations(Callers)
=============================================================================
