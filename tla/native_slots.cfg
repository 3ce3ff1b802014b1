\* Two clients for one slot, one after the other.
CONSTANTS
    Conns = {c1, c2}
    Values = {on}
    Unavailable = Unavailable
    Nothing = Nothing
    MAX_CONNECTIONS = 1
    Frames = {"hello", "disconnect"}
    MaxWatch = 1
    MaxMail = 1
SPECIFICATION Spec
CHECK_DEADLOCK FALSE
PROPERTY RefusedOnlyWhenFull
