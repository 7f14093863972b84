SPECIFICATION Spec

CONSTANTS
    Procs = {p1}
    MaxMsgs = 4
    PageLimit = 3
    PendLimit = 4
    Product = TRUE
    Strict = TRUE
    Verdicts = {"ok", "forged", "future", "stale"}
    Ops = {"age", "peek", "mark", "ackstored", "crash"}

INVARIANT WithinDelivered
INVARIANT NothingLost

CHECK_DEADLOCK FALSE
