SPECIFICATION Spec
CONSTANTS
    a = a
    c = c
    t = t
    File = {a, c, t}
    None = None
    Lines = 5
    Present = {a, c}
    Above <- MCAbove
    Below <- MCBelow
    Separators <- MCSeparators
    Operations <- MCOperations
    MaxOps = 2
    MaxCalls = 2
    MaxChanges = 1
INVARIANTS RollbackRestores WorkingCopyIsDisk LinesAsAuthored ExtractKeepsCode
CHECK_DEADLOCK FALSE
