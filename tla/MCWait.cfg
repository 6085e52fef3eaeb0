SPECIFICATION Spec
CONSTANTS
    MaxPid = 4
    MaxTicks = 1
    AllocFails = FALSE
    Strays <- NoStray
INVARIANT
    WaitFindsChild
