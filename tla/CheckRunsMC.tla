----------------------------- MODULE CheckRunsMC -----------------------------
(* CheckRuns on small instances, for TLC. *)
EXTENDS CheckRuns, TLC

CONSTANTS w1, w2, t1, t2, t3, t4

MCWorkers == {w1, w2}
MCTokens == {t1, t2, t3, t4}

Symmetry == Permutations(MCTokens)
=============================================================================
