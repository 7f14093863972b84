SPECIFICATION Spec

CONSTANTS
    Writers = {w1, w2, w3}
    MaxRows = 5
    MaxLegacy = 2

INVARIANT BranchOrAccepted
INVARIANT TamperEvident

CHECK_DEADLOCK FALSE
