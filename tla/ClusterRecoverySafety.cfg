CONSTANTS
    Nodes = {a, b, c}
    NoNode = NoNode
    Procs = {p}
    Members = {a, b}
    MaxFailures = 1
    MaxCrashes = 2
SPECIFICATION Spec
SYMMETRY Symmetry
INVARIANTS SurvivorsKept PortsHeld ReplacementComplete
