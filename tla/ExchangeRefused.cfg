SPECIFICATION Spec

CONSTANTS
    MaxRounds = 2
    MaxRows = 1
    MaxSends = 0
    Refusable = {1}
    MaxReplies = 1
    MaxFaults = 0
    Strict = FALSE

INVARIANT CursorAfterStorage

CHECK_DEADLOCK FALSE
