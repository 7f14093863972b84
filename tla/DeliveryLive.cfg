SPECIFICATION Spec

CONSTANTS
    Procs = {p1}
    MaxMsgs = 3
    PageLimit = 1
    PendLimit = 4
    Product = TRUE
    Strict = TRUE
    Verdicts = {"ok", "future", "forged"}
    Ops = {"recv", "age", "resend", "peek", "mark", "ackstored", "lossy", "other"}

PROPERTY RecvDelivers
PROPERTY RoundsDeliver

CHECK_DEADLOCK FALSE
