\* Two runs of the script, no failing call: the second run's SELECT also
\* returns the pod_to_pod relations of the first.
CONSTANTS
    NodeChoices = {1}
    NumPods = 2
    NumServices = 1
    DeploymentChoices = {1}
    MaxRuns = 2
    MaxFailures = 0
    BackendChoices = {"native"}
    Absent = Absent
SPECIFICATION Spec
CHECK_DEADLOCK FALSE
INVARIANT
    MetricEdgesMatchTraffic
