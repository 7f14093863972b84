SPECIFICATION Spec

CONSTANTS
    Writers = {w1, w2}
    Every = 3
    MaxRecords = 6
    MaxSeals = 2
    MaxTears = 2

SYMMETRY Symmetry

INVARIANT HonestVerifies
INVARIANT RecordedKept
INVARIANT TamperEvident
INVARIANT RechainedUntrusted
INVARIANT ForkSeen

CHECK_DEADLOCK FALSE
