\* A pipeline and two machines, one of them without states, on one entity; two runs.
CONSTANTS
    e1 = e1
    pipeline = pipeline
    machine = machine
    empty = empty
    Entities <- OneEntity
    Workflows <- WfIds
    Definition <- Defs
    Events <- EventTypes
    MaxRuns = 2
SPECIFICATION FairSpec
CHECK_DEADLOCK FALSE
INVARIANTS
    StatusTrue
    DeletedIsQuiet
    OwnWritesSeen
PROPERTIES
    KeepsLedger
    PipelinesEnd
