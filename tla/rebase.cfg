CONSTANTS
    FileLines = 4
    MaxEdits = 3
    MaxNew = 2
    Actions = {"insert_before", "insert_after", "replace", "delete", "read"}
    SharedLines = FALSE
    Overlapping = FALSE
SPECIFICATION Spec
CHECK_DEADLOCK FALSE
INVARIANTS
    FileAsAuthored
    TargetsFollow
    StepsApplicable
