CONSTANTS
    Targets <- MCTargets
    Allowed <- MCAllowed
    Layouts <- MCLayouts
    Findings <- MCFindings
    MaxPasses = 3
SPECIFICATION Spec
INVARIANTS ResultWasAccepted NeverWorse EditsWereSeen
PROPERTIES NothingIsTriedTwice
CHECK_DEADLOCK FALSE
