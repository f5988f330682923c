SPECIFICATION MCSpec
CONSTANTS
    Slugs = {"s1", "s2"}
    Fixtures <- MCFixtures
    BIdentities = {x, y}
    Batches = {1, 2}
    MaxRecords = 2
    EscrowIds = {e1}
    Hooks = {w, v}
    HoldTicks = 1
    MaxClock = 1
    MaxDeliveries = 2
    MaxAttempts = 4
    Limiters = {l1, l2}
    Clients = {c}
    MaxRequests = 1
    WindowMs = 2
    MaxCount = 3
    MaxNow = 7
    Kinds <- MCKinds
    PageLimit = 1
    MaxEvents = 3
    MaxLedger = 3
    MaxDelivered = 2
    Pollers = {p1, p2}
    PSlugs <- MCPSlugs
    Filters = {"all", "open"}
    PLimit = 1
    MaxShown = 3
INVARIANTS StatsPublishable BurstBounded NothingMissedBeforeCursor PagesDisjoint
PROPERTIES EveryRequestEnds
CHECK_DEADLOCK FALSE
