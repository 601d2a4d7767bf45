\* The command probes the three echo servers and writes one result line per
\* probe; the pipe holds two lines, so the third write blocks while the
\* harness waits for the command to exit.  The harness ends when it has
\* read the output, so a terminal state is not an error.
CONSTANTS
    Probes <- MCProbes
    PipeCap = 2
    DryRun = FALSE
    ChildCodes = {0}
\* Weak fairness of the harness and of the command.
SPECIFICATION FairSpec
CHECK_DEADLOCK FALSE
PROPERTIES
    HarnessEnds
