SPECIFICATION Spec
CONSTANTS
    Kinds = {"selection"}
    Faults = {"create", "move", "remove"}
    OldCount = 2
    NewCount = 2
    Ahead = 1
    Behind = 1
    MaxAttempts = 2
INVARIANTS NothingLost
CHECK_DEADLOCK FALSE
