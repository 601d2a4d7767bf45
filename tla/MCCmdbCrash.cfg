\* As MCCmdbLoader.cfg, but one run may die between any two MongoDB calls
\* before the operator runs the script again.
CONSTANTS
    NumBiz = 2
    TotalHosts = 4
    OctetMax = 1
    MaxRuns = 2
    MaxCrashes = 1
SPECIFICATION Spec
\* The script stops after its last run.
CHECK_DEADLOCK FALSE
INVARIANT
    InstIdsUnique
