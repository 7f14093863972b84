SPECIFICATION Spec

CONSTANTS
    MaxRounds = 3
    MaxRows = 2
    MaxSends = 1
    Refusable = {1}
    MaxReplies = 1
    MaxFaults = 1
    Strict = FALSE

INVARIANT AckedIsStored
INVARIANT StoredOnce
INVARIANT NotAccused
INVARIANT OmissionEvident
INVARIANT CrossNotAccused
INVARIANT ShortExportEvident

CHECK_DEADLOCK FALSE
