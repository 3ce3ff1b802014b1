\* A restarted child beside an all-for-one child; one restart allowed in two ticks.
CONSTANTS
    c1 = c1
    c2 = c2
    Children <- TwoChildren
    Supervision <- RestartBesideAll
    max_restarts = 1
    within_secs = 2
    MaxIncs = 3
    MaxMail = 1
    MaxTime = 2
SPECIFICATION FairSpec
CHECK_DEADLOCK FALSE
INVARIANTS
    OneLoopPerActor
    TableExact
    RestartRateBounded
PROPERTIES
    StopReachesChildren
    ShutdownEndsActors
