\* BKBase or native backend per run: a held BKBase request times out after
\* 60 s and the server may apply it later, during the next run, whichever
\* backend that run uses.  Two pods on one node, one service and one
\* deployment keep every interleaving of the late write with the whole
\* second run within reach.
CONSTANTS
    NodeChoices = {1}
    NumPods = 2
    NumServices = 1
    DeploymentChoices = {1}
    MaxRuns = 2
    MaxFailures = 1
    BackendChoices = {"bkbase", "native"}
    Absent = Absent
SPECIFICATION Spec
\* The script stops after its last run.
CHECK_DEADLOCK FALSE
PROPERTY
    IdempotentStoreSpec
