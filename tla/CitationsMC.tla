---------------------------- MODULE CitationsMC ----------------------------
EXTENDS Citations, TLC

CONSTANTS p1, p2, w1, a, b, local_api, hashing

\* One source each, with a mark that the workspace does not recommend.
MCChoices == {{a, "unknown"}, {b, "unknown"}}

\* An index of archives is never built by a request, whatever auto says.
MCSettings == {s \in [archives : BOOLEAN, auto : BOOLEAN] : s.archives => ~s.auto}

Symmetry == Permutations(Processes) \cup Permutations(Sources) \cup Permutations(Spaces)
=============================================================================
