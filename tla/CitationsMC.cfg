CONSTANTS
    p1 = p1
    p2 = p2
    w1 = w1
    a = a
    b = b
    local_api = local_api
    hashing = hashing
    Spaces = {local_api, hashing}
    Processes = {p1, p2}
    Workspaces = {w1}
    Sources = {a, b}
    Choices <- MCChoices
    Settings <- MCSettings
    Articles = 2
    MaxKills = 1
    MaxHours = 1
    MaxVersions = 3
SPECIFICATION Spec
SYMMETRY Symmetry
INVARIANTS IndexIsWhole BuildersAreCounted LockIsHeld VersionsFollowTheirSource QuietWorkspacesAgree
CHECK_DEADLOCK FALSE
