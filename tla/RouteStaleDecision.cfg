CONSTANTS
    q1 = q1
    q2 = q2
    Slots = {q1, q2}
    Manuals = {}
    MaxRuns = 1
    MaxTasks = 4
    MaxVersions = 1
    Routes = {"R", "S"}
    Templates <- MCTemplates
    TemplateOrder <- MCTemplateOrder
    RouteSteps <- MCRouteSteps
SPECIFICATION Spec
PROPERTIES DecisionsAreOnActiveTasks
CHECK_DEADLOCK FALSE
