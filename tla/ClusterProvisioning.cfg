CONSTANTS
    Nodes = {a, b}
    NodeCount = 2
    MaxClusters = 2
    MaxRemovals = 1
    MaxFailures = 1
    MaxCrashes = 2
SPECIFICATION FairSpec
CHECK_DEADLOCK FALSE
CONSTRAINT Tame
INVARIANTS TypeOK ReadyIsServed FailedIsRolledBack GoneIsGone OneGoroutine
PROPERTIES LifecycleSpec ProvisioningEnds
