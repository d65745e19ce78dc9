SPECIFICATION FairSpec
CONSTANTS
    o1 = o1
    o2 = o2
    fa = fa
    fb = fb
    g1 = g1
    good = good
    other = other
    None = None
    Fetch = {o1, o2}
    File = {fa, fb}
    Scenarios <- TwoIdentical
    Version = {good}
    Expected = good
    Size = 1
    Collector = {g1}
    MinAge = 1
CHECK_DEADLOCK FALSE
PROPERTY
    FetchesReturn
