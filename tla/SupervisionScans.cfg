\* Two jobs in sequence, any of which may hang in any step, and two scans.
CONSTANTS
    NJobs = 2
    Parallel = 1
    Isolated <- LastJob
    Attesting <- FirstJob
    DumpRecords = TRUE
    Verdicts <- AllVerdicts
    MaxRuns = 2
SPECIFICATION FairSpec
PROPERTIES
    IsolatedAsAgreed
    ImplementsContract
    ScanEnds
CHECK_DEADLOCK FALSE
