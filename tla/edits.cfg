SPECIFICATION Spec
CONSTANTS
    File = {f1, f2}
    Hash = {a, b}
    None = None
    Proc = {p1, p2}
    MaxCalls = 3
    MaxEvents = 1
    MaxEntries = 2
SYMMETRY Symmetry
INVARIANTS
    TypeOK
    CacheHitIsDisk
    FlushedWasWritten
    UndoRestoresFormer
    RegistryFollowsDisk
    ForwardsToLatest
CHECK_DEADLOCK FALSE
