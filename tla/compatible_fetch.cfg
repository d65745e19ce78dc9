SPECIFICATION FairFetchSpec
CONSTANTS
    p1 = p1
    p2 = p2
    c1 = c1
    c2 = c2
    None = None
    Directory = Directory
    Malformed = Malformed
    Process = {p1, p2}
    Commit = {c1, c2}
    Paths = 2
    Keys = 2
    Tree <- Trees
    Opaque = {2}
    Openings <- AllOpenings
    Character <- Letters
    Name <- Names
    Separator = "/"
    Url <- Urls
    TreeUrl <- FirstPage
    RevisionUrl <- Revisions
    MaxPages = 2
    MaxFiles = 3
    MaxRedirects = 1
    Requests <- AllRequests
    PageEntries <- Pages
    Asked <- Asking
CHECK_DEADLOCK FALSE
INVARIANTS
    FetchTypeOK
    ErrorsTellOfPublication
    OpensAgree
PROPERTIES
    RefPublishedLast
    ManifestsStand
    PythonBytesKept
    PlanIsExact
    OperationsReturn
