CONSTANTS
    w1 = w1
    w2 = w2
    Workers = {w1, w2}
    MaxTemplates = 2
    MaxVersions = 2
    MaxFaults = 1
SPECIFICATION FairSpec
INVARIANTS TypeOK SettledRulesAreExtracted
PROPERTIES WaitingChecksStart
CHECK_DEADLOCK FALSE
