SPECIFICATION FairSpec
CONSTANTS
    Caller = {t1, t2}
    Commands <- AllCommands
INVARIANTS
    NeverWaitsForItself
    DeadlockNeedsRegistryFirst
PROPERTIES
    CallsReturn
CHECK_DEADLOCK FALSE
