SPECIFICATION Spec
CONSTANTS
    MaxTasks = 2
    MaxSessions = 2
    PlanSize = 2
    MaxDeps = 1
    MaxAttempts = 3
    MaxRetries = 2
    MaxConcurrentAgents = 2
    SlotLimit = 1
    MaxLoads = 0
    MaxRestarts = 0
    RowsMayFail = TRUE
    ServiceCancel = FALSE
INVARIANTS
    OneAgentPerTask
    RunningHasAgent
    DependencyOrder
    AttemptsBounded
    FinalVerdictSound
    SlotsMatchHolders
PROPERTIES
    SettledIsFinal
    DispatchOnlyApproved
    ImplementsSlotPool
CHECK_DEADLOCK FALSE
