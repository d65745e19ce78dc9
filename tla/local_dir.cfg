SPECIFICATION FairSpec
CONSTANTS
    p1 = p1
    p2 = p2
    c1 = c1
    c2 = c2
    a = a
    b = b
    w = w
    Missing = Missing
    Directory = Directory
    Special = Special
    None = None
    Process = {p1, p2}
    Files = 2
    Commit = {c1, c2}
    Content = {a, b, w}
    Tree <- Trees
    Available = {a, b}
    Openings <- AllOpenings
CHECK_DEADLOCK FALSE
INVARIANTS
    TypeOK
    ErrorsTellOfChange
PROPERTIES
    OwnerBytesKept
    CompleteBeforeChange
    CompletionIsExact
    OpenedIsExact
    ImplementsLocalDirectory
    OperationsReturn
