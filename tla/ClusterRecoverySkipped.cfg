CONSTANTS
    Nodes = {a, b, c, d, e}
    NoNode = NoNode
    Procs = {p}
    Members = {a, b, c}
    MaxFailures = 0
    MaxCrashes = 2
SPECIFICATION Spec
SYMMETRY Symmetry
INVARIANTS ReadyMeansReplaced
