\* BKBase backend, NUM_NODES and NUM_DEPLOYMENTS changing between runs of
\* the script: a run with no nodes raises ZeroDivisionError at the first
\* pod, one with no deployments skips the chain, one with more deployments
\* than SERVICE_LIST names raises IndexError; the records of an earlier,
\* larger run stay.  A held request times out after 60 s and the server may
\* apply it later, during the next run.  Two runs, one failing storage call.
CONSTANTS
    NodeChoices = {0, 1}
    NumPods = 2
    NumServices = 2
    DeploymentChoices = {0, 1, 3}
    MaxRuns = 2
    MaxFailures = 1
    BackendChoices = {"bkbase"}
    Absent = Absent
\* Weak fairness of the script's own steps only (FairSpec).
SPECIFICATION FairSpec
\* The script stops after its last run.
CHECK_DEADLOCK FALSE
INVARIANTS
    TypeOK
    BatchAllOrNothing
    GraphEdgesReferToNodes
    StaticTopologyExact
PROPERTIES
    RunEnds
