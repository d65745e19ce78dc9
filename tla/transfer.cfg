SPECIFICATION FairSpec
CONSTANTS
    o1 = o1
    o2 = o2
    fa = fa
    fb = fb
    g1 = g1
    good = good
    other = other
    None = None
    Fetch = {o1, o2}
    File = {fa, fb}
    Scenarios <- Transfers
    Version = {good, other}
    Expected = good
    Size = 2
    Collector = {g1}
    MinAge = 1
CHECK_DEADLOCK FALSE
INVARIANTS
    TypeOK
    PublishedMatchesEntry
    PublishedIsOneVersion
    ResumableRecordIsTrue
    CompleteMeansPublished
    NoJobOutlivesFetch
    TrashHasTombstone
PROPERTIES
    TouchedPartialKept
    OperationsReturn
