SPECIFICATION FairSpec
CONSTANTS
    MaxPid = 4
    MaxTicks = 1
    AllocFails = FALSE
    Strays <- NoStray
INVARIANTS
    FamilyConsistent
    WaiterHasLiveChild
PROPERTIES
    ExitWakesParent
    ReadyRuns
    DelayEnds
