SPECIFICATION Spec

CONSTANTS
    Procs = {p1, p2}
    MaxMsgs = 2
    PageLimit = 2
    PendLimit = 2
    Product = TRUE
    Strict = FALSE
    Verdicts = {"ok"}
    Ops = {"recv", "ack"}

PROPERTY CursorForward

CHECK_DEADLOCK FALSE
