CONSTANTS
    g1 = g1
    g2 = g2
    m1 = m1
    m2 = m2
    Gateways = {g1, g2}
    Messages = {m1, m2}
    MaxHandlers = 2
    DedupSize = 1
    MaxChanges = 1
    MaxFailures = 1
SPECIFICATION FairDispatchSpec
CHECK_DEADLOCK FALSE
CONSTRAINT Tame
INVARIANTS DispatchTypeOK OncePerPublish OncePerGateway
PROPERTY NotDropped
