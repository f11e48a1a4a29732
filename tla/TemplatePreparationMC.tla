------------------------ MODULE TemplatePreparationMC ------------------------
(* TemplatePreparation on small instances, for TLC. *)
EXTENDS TemplatePreparation, TLC

CONSTANTS w1, w2

Symmetry == Permutations({w1, w2})
=============================================================================
