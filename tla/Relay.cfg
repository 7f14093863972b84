SPECIFICATION Spec
CONSTANTS
    a1 = a1
    a2 = a2
    e1 = e1
    e2 = e2
    e3 = e3
    r1 = r1
    r2 = r2
    Agents = {a1, a2}
    Envs = {e1, e2, e3}
    To <- MCTo
    Reqs = {r1, r2}
    By <- MCBy
    Skews = {1}
    Threads = {t1, t2}
    MaxPending = 2
    MaxSpool = 2
    MaxArchive = 1
    MaxRate = 1
    RateWindow = 1
    Window = 1
    MaxTime = 3
    MaxRestarts = 2
    NonceLoss = TRUE
SYMMETRY Symmetry
INVARIANTS DiskBounded PickedAccounted DeniedStaysOut
CHECK_DEADLOCK FALSE
PROPERTIES AnsweredOnce
