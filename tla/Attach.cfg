SPECIFICATION FairSpec

CONSTANTS
    Contents = {a, b}
    Procs = {p1, p2, p3}
    Sends <- SendTwo
    N = 2
    MaxWork = 8
    MaxFaults = 2

CONSTRAINT Apart

INVARIANT StoredIsRight
INVARIANT WorkBounded
PROPERTY TransferCompletes

CHECK_DEADLOCK FALSE
