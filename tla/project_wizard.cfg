\* The catalogue's graphs, and workspaces of up to three boards.
CONSTANTS
    Registry <- DefaultComponents
    Solutions <- AllSolutions
    Uplinks <- UplinkNames
    Offered <- SomeProfiles
    Selections <- SomeSelections
    MaxProfiles = 3
SPECIFICATION FairSpec
CHECK_DEADLOCK TRUE
INVARIANTS
    CleanWorkspaceWorks
    LayoutSound
PROPERTY EveryGraphDrawn
