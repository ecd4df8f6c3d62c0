SPECIFICATION MCSpec
CONSTANTS
    None = None
    Paths = {"p", "q"}
    Budgets <- Scenarios
INVARIANTS
    NoneMissed
    StoresAgree
PROPERTIES
    StoredReceived
    RadioRestored
    KeptAlive
