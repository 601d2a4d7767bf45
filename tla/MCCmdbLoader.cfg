\* Three businesses sharing six hosts; octets wrap after 1 instead of 254 so
\* that six hosts carry into the third octet.  Two runs, one of which may
\* die between any two MongoDB calls.  InstIdsUnique is checked by
\* MCCmdbCrash.cfg, where it fails.
CONSTANTS
    NumBiz = 3
    TotalHosts = 6
    OctetMax = 1
    MaxRuns = 2
    MaxCrashes = 1
SPECIFICATION Spec
\* The script stops after its last run.
CHECK_DEADLOCK FALSE
INVARIANTS
    TypeOK
    HostIpsUniqueInRun
    HostTotalExact
