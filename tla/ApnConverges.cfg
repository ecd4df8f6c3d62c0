SPECIFICATION FairSpec
CONSTANTS
    Configs <- MCConfigs
    ICCIDs = {"a"}
    ModemPaths = {"p"}
    Profiles <- MCProfiles
    MaxApplyAttempts = 3
    None = None
    Bounds <- ConvergeBounds
PROPERTIES
    Converges
