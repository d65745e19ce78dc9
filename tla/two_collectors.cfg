SPECIFICATION Spec
CONSTANTS
    old = old
    new = new
    config = config
    weights = weights
    dc = dc
    dw1 = dw1
    dw2 = dw2
    None = None
    Commit = {old}
    Path = {config, weights}
    Digest = {dc, dw1}
    Content <- MCContent
    Rank <- MCRank
    Client = {c1}
    Collector = {g1, g2}
    Revision = {main}
    Selection <- TwoSelections
    Retained = {}
    MinAge = 1
    KeepFloor = 1
    MaxClock = 1
    MaxRequests = 2
    MaxPasses = 1
SYMMETRY CollectorSymmetry
CHECK_DEADLOCK FALSE
INVARIANT IInv
INVARIANT VerdictStands
PROPERTY FloorKept
PROPERTY GraceRespected
