\* Well-behaved firmware, connections that may be lost, connects that may fail.
CONSTANTS
    Conns = {c1, c2, c3}
    Entities = {e1}
    NoConn = NoConn
    NoEntity = NoEntity
    Faults = {"malformed","noDevice","password"}
    MaxFrames = 2
    MaxChains = 1
    MaxAttempts = 1
    MaxTickers = 2
SPECIFICATION FairSpec
CHECK_DEADLOCK FALSE
INVARIANT SingleChain
PROPERTY Recovery
