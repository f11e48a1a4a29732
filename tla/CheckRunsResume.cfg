CONSTANTS
    w1 = w1
    w2 = w2
    t1 = t1
    t2 = t2
    t3 = t3
    t4 = t4
    Dog = Dog
    NoToken = NoToken
    Workers <- MCWorkers
    Tokens <- MCTokens
    Verdicts = {"passed"}
    NumChecks = 1
    MaxVersions = 2
    MaxRuns = 3
    MaxCrashes = 0
    MaxAnnouncements = 0
    MaxRequests = 1
    HasTemplate = FALSE
SPECIFICATION FairSpec
PROPERTIES RevisionReturnsToReview
CHECK_DEADLOCK FALSE
