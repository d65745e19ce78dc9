SPECIFICATION Spec
CONSTANTS
    p1 = p1
    p2 = p2
    p3 = p3
    v = v
    w = w
    None = None
    Process = {p1, p2, p3}
    Value = {v, w}
    Protocols <- AllProtocols
    MaxOps = 3
    MaxFaults = 2
    MaxCrashes = 1
    MaxRemovals = 1
    MaxForeign = 1
CHECK_DEADLOCK FALSE
SYMMETRY Interchangeable
INVARIANTS
    TypeOK
    UndisturbedLeavesNothing
PROPERTY
    ImplementsAtomicFile
