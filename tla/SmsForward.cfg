SPECIFICATION Spec
CONSTANTS
    m1 = m1  m2 = m2  m3 = m3  p1 = p1  p2 = p2  None = None
    Messages = {m1, m2}
    Content <- ForwardContent
    Identities = {"i1", "i2"}
    Paths = {p1, p2}
    Numbers = {"alice", "bob", "self"}
    Destinations = {"alice", "bob"}
    OwnNumber = "self"
    InboxLimit = 1  InboxMaxAge = 2  ForwardTTL = 1  DayLength = 2  SegmentLimit = 2
    StoreSize = 1  ClockSkew = 1
    Bounds <- ForwardBounds
SYMMETRY Anonymous
INVARIANTS
    ForwardedAtMostOnce
    BudgetCoversSends
    QueuedIsDue
PROPERTIES
    ForwardToCurrent
