SPECIFICATION Spec
CONSTANTS
    NumSectors = 2
    NumAxes = 1
    MaxParallelism = 2
    Manifest = 2
    MaxFaults = 1
    Units <- CapUnits
    Waves <- PairWaves
    Configs <- PairConfigs
    Resumes <- PairConfigs
INVARIANT FinishedIsSaved
