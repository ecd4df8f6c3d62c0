SPECIFICATION Spec
CONSTANTS
    Configs <- TwoConfigs
    ICCIDs = {a, b}
    ModemPaths = {p, q}
    Profiles <- SafetyProfiles
    MaxApplyAttempts = 2
    None = None
    Bounds <- SafetyBounds
SYMMETRY Anonymous
INVARIANTS
    QuietWhileWriting
    NoForeignCredentials
PROPERTIES
    RollbackRestores
    AutoconnectPreserved
    CommitValidated
