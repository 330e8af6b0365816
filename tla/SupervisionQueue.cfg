\* Three jobs of the thread backend on two slots: the third waits in the queue.
CONSTANTS
    NJobs = 3
    Parallel = 2
    Isolated <- NoJobs
    Attesting <- NoJobs
    DumpRecords = FALSE
    Verdicts <- OnlyComplete
    MaxRuns = 1
SPECIFICATION Spec
INVARIANTS
    QueueAbandonedForCause
CHECK_DEADLOCK FALSE
