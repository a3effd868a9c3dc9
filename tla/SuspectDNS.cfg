CONSTANTS
    m1 = m1
    m2 = m2
    a = a
    b = b
    x = x
    y = y
    Monitors = {m1, m2}
    Members = {a, b}
    Namespaces = {x, y}
    NoNamespace = NoNamespace
    Hosts <- TwoAndOne
    Suspectable = {a, b}
    StatementsFail = TRUE
    MaxFlaps = 2
    MaxForgets = 1
SPECIFICATION SuspectSpec
INVARIANTS LostOnlyInRace UndisturbedRecovery
CONSTRAINT Twice
CHECK_DEADLOCK FALSE
