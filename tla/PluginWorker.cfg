\* One plugin job that ignores SIGTERM: every interleaving of thread, child and supervisor.
CONSTANTS
    Jobs <- OneJob
    Deaf <- OneJob
    NoJob <- Nobody
SPECIFICATION FairSpec
INVARIANTS
    VerdictSound
    NoLostKill
    NoKillIntoClosing
    NoChildLeftBehind
PROPERTIES
    ImplementsContract
    RunnerReturns
    OrphansEnd
CHECK_DEADLOCK FALSE
