SPECIFICATION Spec

CONSTANTS
    Running <- MCRunning
    Letters <- MCLetters
    RecvLimit = 1
    MaxPerMin = 1
    MaxMail = 2
    MaxChanges = 1
    MaxFaults = 2

PROPERTY Decided
PROPERTY Fed

CHECK_DEADLOCK FALSE
