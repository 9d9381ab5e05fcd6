SPECIFICATION FairSpec
CONSTANTS
    Client = {c1, c2, c3}
    NoAgent = planner
    WindowLength <- MCWindowLength
    RequestLimit <- MCRequestLimit
    TokenLimit <- MCTokenLimit
    ConcurrentRequests = 2
    Estimate = 1
    Usage = {2}
    MaxRounds = 1
    BaseBackoff = 1
    MaxBackoff = 2
    QueueTimeout = 2
    MaxDelay = 3
INVARIANTS
    ActiveIsHolders
    QueueIsWaiting
    WakeupPending
    IdlePoolWakes
PROPERTIES
    ImplementsSlotPool
    RequestsSettle
CHECK_DEADLOCK FALSE
