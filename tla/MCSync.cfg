SPECIFICATION Spec
CONSTANTS
    LastPid = 3
    AllocFails = TRUE
    MaxObj = 3
    MaxHalf = 1
INVARIANTS
    TypeOK
    SingleResidence
    MutualExclusion
    WakeupOnTheWay
PROPERTY
    OnlyHolderLetsGo
