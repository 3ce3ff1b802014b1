\* One connection that may subscribe twice.
CONSTANTS
    Conns = {c1}
    Values = {on, off}
    Unavailable = Unavailable
    Nothing = Nothing
    MAX_CONNECTIONS = 1
    Frames = {"hello", "subscribe", "disconnect", "ask", "other"}
    MaxWatch = 2
    MaxMail = 1
SYMMETRY Symmetry
SPECIFICATION Spec
CHECK_DEADLOCK FALSE
INVARIANTS
    PushedIsCurrent
    LastPushWins
