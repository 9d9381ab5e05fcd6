SPECIFICATION FairSpec
CONSTANTS
    MaxTasks = 2
    MaxSessions = 1
    PlanSize = 2
    MaxDeps = 1
    MaxAttempts = 2
    MaxRetries = 2
    MaxConcurrentAgents = 2
    SlotLimit = 1
    MaxLoads = 0
    MaxRestarts = 0
    RowsMayFail = FALSE
    ServiceCancel = FALSE
PROPERTIES
    AgentsEnd
    CancelSettles
    PollingSettles
CHECK_DEADLOCK FALSE
