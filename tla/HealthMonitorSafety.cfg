CONSTANTS
    Nodes = {1, 2, 3}
    K = 2
    SuspectAfter = 1
    DeadAfter = 2
    MinQuorum = 2
    MaxCrashes <- CrashBounds
    CrashBound = 1
    Watched = {3}
    Lossy <- OneLink
    Lapsing = {3}
    Crashing = {1, 3}
    QueriesFail = TRUE
SPECIFICATION Spec
INVARIANTS NoFalseDeath RingCovered RecoveriesBounded
