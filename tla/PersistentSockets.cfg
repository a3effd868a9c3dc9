CONSTANTS
    c1 = c1
    c2 = c2
    Conns = {c1, c2}
    Capacity = 1
    MaxInflight = 2
    MaxFrames = 3
    MaxRefreshes = 1
SPECIFICATION FairSpec
CHECK_DEADLOCK FALSE
CONSTRAINT Tame
INVARIANTS TypeOK SlotsBalanced NothingLeft FramesInOrder FreshIdentity
PROPERTY TeardownEnds
