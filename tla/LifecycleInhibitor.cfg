SPECIFICATION MCSpec
CONSTANTS
    MaxRecoveryAttempts = 1
    MaxCommands = 2
    MaxTicks = 0
    MayTerminate = FALSE
    GpioMayFail = FALSE
    FlushMayFail = FALSE
INVARIANT
    InhibitorWhilePowered
