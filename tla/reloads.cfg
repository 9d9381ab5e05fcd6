SPECIFICATION Spec
CONSTANTS
    MaxTasks = 2
    MaxSessions = 2
    PlanSize = 1
    MaxDeps = 0
    MaxAttempts = 2
    MaxRetries = 1
    MaxConcurrentAgents = 1
    SlotLimit = 1
    MaxLoads = 1
    MaxRestarts = 1
    RowsMayFail = FALSE
    ServiceCancel = TRUE
INVARIANTS
    TypeOK
    RunningBound
CHECK_DEADLOCK FALSE
