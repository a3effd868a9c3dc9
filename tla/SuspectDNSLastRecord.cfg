CONSTANTS
    m1 = m1
    m2 = m2
    a = a
    b = b
    x = x
    y = y
    Monitors = {m1}
    Members = {a, b}
    Namespaces = {x, y}
    NoNamespace = NoNamespace
    Hosts <- AllOnBoth
    Suspectable = {a, b}
    StatementsFail = FALSE
    MaxFlaps = 1
    MaxForgets = 0
SPECIFICATION SuspectSpec
INVARIANTS LastRecordKept
CHECK_DEADLOCK FALSE
