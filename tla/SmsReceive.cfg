SPECIFICATION FairSpec
CONSTANTS
    m1 = m1  m2 = m2  m3 = m3  p1 = p1  p2 = p2  None = None
    Messages = {m1, m2, m3}
    Content <- ReceiveContent
    Identities = {"i1", "i2", "i3"}
    Paths = {p1, p2}
    Numbers = {"alice", "bob"}
    Destinations = {}
    OwnNumber = None
    InboxLimit = 2  InboxMaxAge = 2  ForwardTTL = 2  DayLength = 2  SegmentLimit = 2
    StoreSize = 2  ClockSkew = 0
    Bounds <- ReceiveBounds
INVARIANTS
    InFlightSpared
PROPERTIES
    ImplementsMailbox
    ReceivedEventually
