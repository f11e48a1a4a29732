------------------------- MODULE ConclusionChainMC -------------------------
(* ConclusionChain on small instances, for TLC. *)
EXTENDS ConclusionChain, TLC

CONSTANTS r1, r2

Symmetry == Permutations(Requests)
=============================================================================
