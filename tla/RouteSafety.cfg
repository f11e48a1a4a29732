CONSTANTS
    q1 = q1
    q2 = q2
    Slots = {q1}
    Manuals = {"m"}
    MaxRuns = 2
    MaxTasks = 5
    MaxVersions = 3
    Routes = {"R", "S"}
    Templates <- MCTemplates
    TemplateOrder <- MCTemplateOrder
    RouteSteps <- MCRouteSteps
SPECIFICATION RereadSpec
INVARIANTS ActiveRunsHaveOneTask InReviewIsActionable CompletedRunsAreApproved PackagesAreSigned
CHECK_DEADLOCK FALSE
