\* A cloning thread, two signals, one of which the process may survive, and the watchdog.
CONSTANTS
    w1 = w1
    sigint = sigint
    sigterm = sigterm
    watchdog = watchdog
    Workers <- OneWorker
    Closers <- AllClosers
    Handlers <- BothSignals
    Survivable <- OnlySigint
    Main = main
    NoOne = none
ACTION_CONSTRAINT SecondSignal
SPECIFICATION FairSpec
INVARIANTS
    SurvivorsWereMissed
    NotRetried
PROPERTIES
    NoDeletionUnderGit
    CloneCallsEnd
    ClosersEnd
CHECK_DEADLOCK FALSE
