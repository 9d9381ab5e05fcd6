SPECIFICATION FairSpec
CONSTANTS
    a = a
    b = b
    v = v
    w = w
    x = x
    File = {a, b}
    Text = {v, w, x}
    None = None
    Walked = {a, b}
    Watched = {a, b}
    Binary = {x}
    Unparsed <- MCUnparsed
    Imports <- MCImports
    MaxChanges = 2
    MaxScans = 1
INVARIANTS StaleIsReported RemovalIsNotLast
PROPERTIES ScanLeavesExact Converges
CHECK_DEADLOCK FALSE
