CONSTANTS
    Jobs = {1, 2}
    Deadline = 2
    Grace = 1
    LegacyStale = 1
    MaxReports = 2
SPECIFICATION FairSpec
INVARIANTS OneOpenJob
PROPERTIES VerdictsAreFinal JobsInTimeAreKept JobsEnd
CHECK_DEADLOCK FALSE
