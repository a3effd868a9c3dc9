CONSTANTS
    c1 = c1
    c2 = c2
    dispatcher = dispatcher
    Clients = {c1, c2}
    Dispatcher = dispatcher
    MaxChanges = 3
    MaxSubscribes = 4
    MaxFailures = 2
SPECIFICATION FairSpec
CHECK_DEADLOCK FALSE
INVARIANTS RefsAreSubscribers Served
PROPERTY FollowsStore
