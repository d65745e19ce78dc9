SPECIFICATION Spec
CONSTANTS
    old = old
    new = new
    config = config
    weights = weights
    dc = dc
    dw1 = dw1
    dw2 = dw2
    None = None
    Commit = {old, new}
    Path = {config, weights}
    Digest = {dc, dw1, dw2}
    Content <- MCContent
    Rank <- MCRank
    Client = {c1, c2}
    Collector = {g1}
    Revision = {main}
    Selection <- Whole
    Retained = {}
    MinAge = 0
    KeepFloor = 0
    MaxClock = 0
    MaxRequests = 1
    MaxPasses = 1
SYMMETRY ClientSymmetry
CHECK_DEADLOCK FALSE
INVARIANT TypeOK
INVARIANT SealedIsComplete
INVARIANT HeldIsComplete
INVARIANT PublicationKept
INVARIANT NamedIsAvailable
PROPERTY BlobRemovalJustified
PROPERTY StoreSpec
