CONSTANTS
    NodeCount = 2
    TurnCount = 1
    MaxSecrets = 2
    MaxCalls = 3
    MaxFailures = 1
    MaxCrashes = 1
    MaxRewrites = 1
SPECIFICATION Spec
CHECK_DEADLOCK FALSE
CONSTRAINT Tame
INVARIANT ServedAfterRepair
