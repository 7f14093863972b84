SPECIFICATION FairSpec

CONSTANTS
    Pids = {p1, p2}
    Stable = {s1}
    Styles = {"host", "stable"}
    Signals = {"both", "bare"}
    Msgs = {m1}
    MaxBirth = 2
    TTL = 1
    Grace = 1
    ClaimTTL = 1
    Births = TRUE
    Legacy = TRUE

INVARIANT Exclusive
INVARIANT ClaimHolds
PROPERTY LockReclaimed

CHECK_DEADLOCK FALSE
