CONSTANTS
    c1 = c1
    c2 = c2
    dispatcher = dispatcher
    Clients = {c1, c2}
    Dispatcher = dispatcher
    MaxChanges = 3
    MaxSubscribes = 4
    MaxFailures = 1
SPECIFICATION FairSpec
INVARIANT KeysAreSubscribed
