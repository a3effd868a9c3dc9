CONSTANTS
    Nodes = {1, 2, 3}
    K = 2
    SuspectAfter = 1
    DeadAfter = 2
    MinQuorum = 2
    MaxCrashes <- CrashBounds
    CrashBound = 1
    Watched = {3}
    Lossy <- NoLoss
    Lapsing = {}
    Crashing = {3}
    QueriesFail = FALSE
SPECIFICATION FairSpec
PROPERTY ReturnIsNoticed
