SPECIFICATION MCFairSpec
CONSTANTS
    MaxRecoveryAttempts = 2
    MaxCommands = 1
    MaxTicks = 2
    MayTerminate = TRUE
    GpioMayFail = TRUE
    FlushMayFail = TRUE
INVARIANTS
    GuardedOperationsCancelled
    AtMostOneLateStep
    HealthMatchesMonitor
PROPERTIES
    ShutdownBounded
