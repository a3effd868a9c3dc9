CONSTANTS
    c1 = c1
    c2 = c2
    Conns = {c1, c2}
    Capacity = 1
    MaxInflight = 1
    MaxFrames = 2
    MaxRefreshes = 1
SPECIFICATION FairSpec
CHECK_DEADLOCK FALSE
CONSTRAINT Tame
INVARIANT SerialGuestCalls
