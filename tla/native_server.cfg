\* Two clients for one slot, one subscription, questions, silence and shutdown.
\* Every update stores Unavailable: no property here depends on the value.
CONSTANTS
    Conns = {c1, c2}
    Values = {}
    Unavailable = Unavailable
    Nothing = Nothing
    MAX_CONNECTIONS = 1
    Frames = {"hello", "subscribe", "disconnect", "ask", "other"}
    MaxWatch = 1
    MaxMail = 1
SPECIFICATION FairSpec
CHECK_DEADLOCK FALSE
PROPERTIES
    SilentClientDropped
    WatchersReleased
    StopEndsConnections
