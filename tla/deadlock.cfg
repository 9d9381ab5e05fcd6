SPECIFICATION FairSpec
CONSTANTS
    Caller = {t1, t2, t3}
    Commands = {"line_edits", "read_lines", "refactor_rollback"}
PROPERTIES
    RollbackReturns
CHECK_DEADLOCK FALSE
