CONSTANTS
    n1 = n1
    n2 = n2
    h1 = h1
    h2 = h2
    Nodes = {n1, n2}
    IPs = {h1, h2}
    IpOf <- OneHost
    Clusters = {c1, c2}
    Calls = {p1, p2}
    NumBlocks = 2
    MaxRetries = 1
    QueriesFail = FALSE
SPECIFICATION Spec
SYMMETRY Symmetry
INVARIANTS NoOverlapOnHost
