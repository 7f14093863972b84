SPECIFICATION Spec

CONSTANTS
    Procs = {p1, p2}
    MaxMsgs = 4
    PageLimit = 2
    PendLimit = 4
    Product = FALSE
    Strict = FALSE
    Verdicts = {"ok"}
    Ops = {"recv", "ack", "replay", "crash"}

SYMMETRY Symmetry

INVARIANT ReplayLoggedOnce
INVARIANT NoFalseAccusation

CHECK_DEADLOCK FALSE
