CONSTANTS
    n1 = n1
    n2 = n2
    h1 = h1
    h2 = h2
    Nodes = {n1}
    IPs = {h1}
    IpOf <- SingleNode
    Clusters = {c1, c2, c3}
    Calls = {p1, p2}
    NumBlocks = 2
    MaxRetries = 2
    QueriesFail = TRUE
SPECIFICATION FairSpec
INVARIANTS NoOverlapOnNode FreeBlockFound
PROPERTY LedgerSpec EveryCallEnds
