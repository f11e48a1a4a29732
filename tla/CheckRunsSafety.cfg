CONSTANTS
    w1 = w1
    w2 = w2
    t1 = t1
    t2 = t2
    t3 = t3
    t4 = t4
    Dog = Dog
    NoToken = NoToken
    Workers = {w1}
    Tokens <- MCTokens
    Verdicts = {"passed"}
    NumChecks = 2
    MaxVersions = 3
    MaxRuns = 2
    MaxCrashes = 1
    MaxAnnouncements = 1
    MaxRequests = 1
    HasTemplate = TRUE
SPECIFICATION Spec
SYMMETRY Symmetry
INVARIANTS SubmittedIsChecked ClaimsAreExclusive
PROPERTIES ResultsArePreserved SupersededWorkersAreSilent LiveClaimsAreKept ImplementsBoard
CHECK_DEADLOCK FALSE
