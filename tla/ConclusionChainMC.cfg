CONSTANTS
    r1 = r1
    r2 = r2
    Requests = {r1, r2}
    MaxTasks = 4
    MaxSignatures = 3
    MaxVersions = 2
    MaxClock = 1
    MaxFiles = 4
    MaxFaults = 1
SPECIFICATION Spec
SYMMETRY Symmetry
INVARIANTS PackagesVerify ChainIsLinear FailuresLeaveOneFile
PROPERTIES PackagesShowSignatures 
CHECK_DEADLOCK FALSE
