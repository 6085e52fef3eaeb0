SPECIFICATION Spec
CONSTANTS
    LastPid = 3
    AllocFails = FALSE
    MaxObj = 1
    MaxHalf = 0
INVARIANT
    WaitersUnblocked
