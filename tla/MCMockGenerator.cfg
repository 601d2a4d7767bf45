\* Three pods over two nodes, two services and two deployments: round robin
\* wraps, and the last service and deployment take the remainder pod.
\* Two runs of the script, one failing storage call.
CONSTANTS
    NodeChoices = {2}
    NumPods = 3
    NumServices = 2
    DeploymentChoices = {2}
    MaxRuns = 2
    MaxFailures = 1
    BackendChoices = {"native"}
    Absent = Absent
SPECIFICATION Spec
\* The script stops after its last run.
CHECK_DEADLOCK FALSE
INVARIANTS
    TypeOK
    BatchAllOrNothing
    GraphEdgesReferToNodes
    StaticTopologyExact
PROPERTIES
    IdempotentStoreSpec
