\* One board whose session reconnects.
CONSTANTS
    h1 = h1
    h2 = h2
    h3 = h3
    m1 = m1
    m2 = m2
    Ids <- AllIds
    Prov <- TwoHosts
    RemovalId <- RemovedAs
    Canon <- TwoBoards
    Incs = {i1, i2}
    NoId = NoId
    NoInc = NoInc
    MAX_DISCOVERED = 2
    SessionCap = 2
    MaxMail = 2
    Events = {}
SYMMETRY IncSymmetry
SPECIFICATION Spec
CHECK_DEADLOCK FALSE
INVARIANT OwnerKeepsSession
