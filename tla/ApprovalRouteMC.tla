--------------------------- MODULE ApprovalRouteMC ---------------------------
(* ApprovalRoute on small instances, for TLC. *)
EXTENDS ApprovalRoute, TLC

CONSTANTS q1, q2

MCTemplates == {"a", "b", "c"}
MCTemplateOrder == [s \in MCTemplates |-> IF s = "b" THEN 2 ELSE 1]
\* R has the steps a and b, S the step c.
MCRouteSteps == [r \in {"R", "S"} |-> IF r = "R" THEN <<"a", "b">> ELSE <<"c">>]

Symmetry == Permutations({q1, q2})
=============================================================================
