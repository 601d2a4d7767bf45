\* A second run of the script over the store of the first one.
CONSTANTS
    NodeChoices = {2}
    NumPods = 3
    NumServices = 2
    DeploymentChoices = {2}
    MaxRuns = 2
    MaxFailures = 1
    BackendChoices = {"bkbase"}
    Absent = Absent
SPECIFICATION Spec
CHECK_DEADLOCK FALSE
INVARIANT
    NoDuplicateRelations
