\* All behaviours of one process, from its configuration to its exit.
CONSTANTS
    Files <- MCFiles
    Envs <- MCEnvs
    MaxIO = 2

SPECIFICATION FairSpec

INVARIANTS
    ReturnsLast
    ReportsOnce
PROPERTIES
    LoadIsOverlay
    CreatedIsWarned
    FlushesLast
    StartEnds
    ShutdownEnds
