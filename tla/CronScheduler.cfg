CONSTANTS
    g1 = g1
    g2 = g2
    t1 = t1
    t2 = t2
    Gateways = {g1, g2}
    Rows = {t1, t2}
    Bad = {t2}
    Period = 1
    BatchLimit = 1
    MaxSkew = 1
    MaxTime = 4
    MaxFailures = 1
    MaxStops = 1
SPECIFICATION FairSpec
CHECK_DEADLOCK FALSE
INVARIANTS OncePerRun StatusOfLastRun
PROPERTIES DueIsTaken
