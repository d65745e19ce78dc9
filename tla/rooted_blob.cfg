SPECIFICATION Spec
CONSTANTS
    old = old
    new = new
    config = config
    weights = weights
    dc = dc
    dw1 = dw1
    dw2 = dw2
    None = None
    Commit = {old, new}
    Path = {config, weights}
    Digest = {dc, dw1, dw2}
    Content <- MCContent
    Rank <- MCRank
    Client = {c1}
    Collector = {g1}
    Revision = {main}
    Selection <- OnlyWeights
    Retained = {}
    MinAge = 1
    KeepFloor = 0
    MaxClock = 1
    MaxRequests = 2
    MaxPasses = 1
CHECK_DEADLOCK FALSE
INVARIANT ReachableContentKept
