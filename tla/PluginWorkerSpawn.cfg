\* Three plugin jobs that spawn their children side by side.
CONSTANTS
    Jobs <- ThreeJobs
    Deaf <- NoneDeaf
    NoJob <- Nobody
SPECIFICATION Spec
CONSTRAINT SpawnPhase
INVARIANTS
    SpawnEnvironmentSafe
CHECK_DEADLOCK FALSE
