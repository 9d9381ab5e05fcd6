SPECIFICATION Spec
CONSTANTS
    MaxTasks = 1
    MaxSessions = 1
    PlanSize = 1
    MaxDeps = 0
    MaxAttempts = 1
    MaxRetries = 1
    MaxConcurrentAgents = 1
    SlotLimit = 1
    MaxLoads = 0
    MaxRestarts = 0
    RowsMayFail = FALSE
    ServiceCancel = FALSE
PROPERTY CancelledNeverCompletes
CHECK_DEADLOCK FALSE
