SPECIFICATION FairSpec
CONSTANTS
    NumSectors = 2
    NumAxes = 1
    MaxParallelism = 2
    Manifest = 2
    MaxFaults = 0
    Units <- CapUnits
    Waves <- CapWaves
    Configs <- CapConfigs
    Resumes <- CapConfigs
PROPERTY MissionSettles
