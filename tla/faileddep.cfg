SPECIFICATION FairSpec
CONSTANTS
    MaxTasks = 2
    MaxSessions = 1
    PlanSize = 2
    MaxDeps = 1
    MaxAttempts = 1
    MaxRetries = 1
    MaxConcurrentAgents = 1
    SlotLimit = 1
    MaxLoads = 0
    MaxRestarts = 0
    RowsMayFail = FALSE
    ServiceCancel = FALSE
PROPERTY SwarmCompletes
CHECK_DEADLOCK FALSE
