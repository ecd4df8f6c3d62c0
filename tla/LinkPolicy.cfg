SPECIFICATION FairSpec
CONSTANTS
    Snapshots <- MCSnapshots
    StableSession = 1
    FlapsBeforeFailing = 2
    Confirmations = 2
    Cooldown <- ShortCooldown
    MaxAttempts = 3
    None = None
PROPERTIES
    Confirmed
    CheapestFirst
    PersistentFaultTreated
