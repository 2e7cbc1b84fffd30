SPECIFICATION FairSpec
CONSTANTS
    NumSectors = 3
    NumAxes = 1
    MaxParallelism = 2
    Manifest = 2
    MaxFaults = 1
    Units <- PortUnits
    Waves <- PortWaves
    Configs <- PortConfigs
    Resumes <- PortResumes
INVARIANTS
    TypeOK
    DoneIsWritten
    ChunksInOrder
    OvershootBounded
    UnsavedBounded
    RetriesAreForFailures
    CompletedIsWhole
    SweepsAreHonest
PROPERTIES
    RecordGrows
    RunEnds
    MissionSettles
