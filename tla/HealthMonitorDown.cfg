CONSTANTS
    Nodes = {1, 2, 3}
    K = 2
    SuspectAfter = 1
    DeadAfter = 2
    MinQuorum = 2
    MaxCrashes <- CrashBounds
    CrashBound = 1
    Watched = {3}
    Lossy <- NoLoss
    Lapsing = {}
    Crashing = {1, 3}
    QueriesFail = TRUE
SPECIFICATION FairSpec
PROPERTY DownIsReported
