SPECIFICATION MCFairSpec
CONSTANTS
    MaxRecoveryAttempts = 1
    MaxCommands = 3
    MaxTicks = 0
    MayTerminate = FALSE
    GpioMayFail = FALSE
    FlushMayFail = TRUE
INVARIANT
    TargetReached
PROPERTIES
    ReleaseOnlyWhenSafe
    TargetSettles
