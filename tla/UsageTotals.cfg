SPECIFICATION Spec
CONSTANTS
    Paths = {p1, p2, p3}
    BackstopInterval = 2
    None = None
    Bounds <- MCBounds
SYMMETRY PathSymmetry
INVARIANTS
    NeverOvercounts
    Exact
    CleanIsPersisted
