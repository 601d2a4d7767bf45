\* One run that writes a pod_to_pod relation and attaches the metrics to it.
CONSTANTS
    NodeChoices = {2}
    NumPods = 3
    NumServices = 2
    DeploymentChoices = {2}
    MaxRuns = 2
    MaxFailures = 1
    BackendChoices = {"bkbase"}
    Absent = Absent
SPECIFICATION Spec
CHECK_DEADLOCK FALSE
INVARIANT
    MetricEdgesReferToRelations
