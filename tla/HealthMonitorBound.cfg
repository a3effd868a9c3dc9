CONSTANTS
    Nodes = {1, 2, 3, 4}
    K = 3
    SuspectAfter = 1
    DeadAfter = 2
    MinQuorum = 2
    MaxCrashes <- CrashBounds
    CrashBound = 1
    Watched = {3}
    Lossy <- NoLoss
    Lapsing = {}
    Crashing = {3}
    QueriesFail = FALSE
SPECIFICATION Spec
INVARIANT RecoveriesBounded
