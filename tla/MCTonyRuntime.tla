----------------------------- MODULE MCTonyRuntime -----------------------------
(* Instances of TonyRuntime for TLC. *)
EXTENDS TonyRuntime, TLC

CONSTANTS c1, c2, o1, o2

\* Callers are alike and so are objects.
Alike == Permutations(Callers) \cup Permutations(Objects)
=============================================================================
