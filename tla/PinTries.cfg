SPECIFICATION FairSpec
CONSTANTS
    PINs = {"1111", "2222"}
    RetryLimits = {3, 5}
    MinRetries = 3
    None = None
    Bounds <- MCBounds
INVARIANTS
    SparesTries
PROPERTIES
    RejectedOnce
    RightPinUnlocks
