SPECIFICATION MCSpec
CONSTANTS
    MaxConfigRetries = 2
    MaxGPSRecoveries = 1
    MaxDisturbances = 2
INVARIANTS
    ClosedHasNoFix
    ModeNeedsSession
    WatchdogArmed
PROPERTIES
    PipelineRecovers
    StalePositionWithdrawn
    ShutdownCompletes
