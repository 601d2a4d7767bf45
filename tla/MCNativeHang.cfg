\* Native backend under weak fairness of the script's own steps: the server
\* may hold a request forever and session.post has no timeout.
CONSTANTS
    NodeChoices = {1}
    NumPods = 2
    NumServices = 1
    DeploymentChoices = {1}
    MaxRuns = 2
    MaxFailures = 1
    BackendChoices = {"native"}
    Absent = Absent
SPECIFICATION FairSpec
\* The script stops after its last run.
CHECK_DEADLOCK FALSE
PROPERTY
    RunEnds
