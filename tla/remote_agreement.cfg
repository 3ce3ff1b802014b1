\* Pushes, commands, dispatched commands, connection losses and replaced connections.
CONSTANTS
    Values = {on, off}
    Unavailable = Unavailable
    NoValue = NoValue
    Inputs = {"command", "dispatch", "physical", "drop", "overlap"}
    MaxQueue = 3
SYMMETRY ValueSymmetry
SPECIFICATION Spec
CHECK_DEADLOCK FALSE
INVARIANTS
    QuiescentAgreement
    TableCurrent
