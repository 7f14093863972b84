SPECIFICATION Spec

CONSTANTS
    Report = 1
    Nudge = 1
    Alert = 2
    Stuck = 2
    Remind = 3
    Start = 100
    MaxTime = 7
    Jumps <- MCJumps
    MaxChanges = 2
    MaxFaults = 1

INVARIANT NoticeTrue
INVARIANT StallTold

CHECK_DEADLOCK FALSE
