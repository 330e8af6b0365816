\* Two jobs on two slots, one a plugin in its own process, with record exports.
CONSTANTS
    NJobs = 2
    Parallel = 2
    Isolated <- LastJob
    Attesting <- FirstJob
    DumpRecords = TRUE
    Verdicts <- AllVerdicts
    MaxRuns = 1
SPECIFICATION Spec
INVARIANTS
    AcceptedJobIsWhole
    ManifestSound
    ScopeSound
PROPERTIES
    NoLateReplacement
CHECK_DEADLOCK FALSE
