\* Three records of one board, one of them out of a removal's reach, room for two sessions; every event.
CONSTANTS
    h1 = h1
    h2 = h2
    h3 = h3
    m1 = m1
    m2 = m2
    Ids <- AllIds
    Prov <- ThreeHosts
    RemovalId <- RemovedAs
    Canon <- SameBoard
    Incs = {i1, i2}
    NoId = NoId
    NoInc = NoInc
    MAX_DISCOVERED = 3
    SessionCap = 2
    MaxMail = 2
    Events = {"removal", "ageing", "seed", "stop"}
SYMMETRY HostSymmetry
SPECIFICATION Spec
CHECK_DEADLOCK FALSE
INVARIANTS
    MapsInverse
    RecordsCoverSessions
    NoLeakedSession
    QuiescentStatus
