SPECIFICATION Spec

CONSTANTS
    Procs = {p1, p2}
    MaxMsgs = 3
    PageLimit = 2
    PendLimit = 3
    Product = TRUE
    Strict = TRUE
    Verdicts = {"ok", "forged", "stale"}
    Ops = {"resend", "age", "recv", "ack", "replay"}

SYMMETRY Symmetry

INVARIANT TypeOK
INVARIANT AtMostOnce
INVARIANT ReplayLoggedOnce
INVARIANT NothingLost
INVARIANT NotStranded
PROPERTY ImplementsMailbox

CHECK_DEADLOCK FALSE
