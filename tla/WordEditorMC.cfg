CONSTANTS
    Manuscripts <- MCManuscripts
    Templates <- MCTemplates
    Fragile = {4, 7}
    Lookahead = 8
    MaxCrossed = 2
SPECIFICATION Spec
INVARIANTS EveryPieceStandsOnce LossesAreExplained FlowIsKept WideObjectsHaveThePage
CHECK_DEADLOCK FALSE
