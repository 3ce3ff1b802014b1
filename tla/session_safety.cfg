\* Every fault, one entity, up to two reconnect chains at once.
CONSTANTS
    Conns = {c1, c2, c3}
    Entities = {e1}
    NoConn = NoConn
    NoEntity = NoEntity
    Faults = {"silence", "badInfo", "password", "overCap", "noDevice", "malformed", "unexpected"}
    MaxFrames = 1
    MaxChains = 2
    MaxAttempts = 1
    MaxTickers = 2
SYMMETRY ConnSymmetry
SPECIFICATION Spec
CHECK_DEADLOCK FALSE
INVARIANTS
    WriterHasReader
    ReconnectPending
    ReportMatchesFsm
    FirmwareEntriesAreShown
    StoppedMeansUnavailable
PROPERTY FollowsLifecycle
