SPECIFICATION Spec
CONSTANTS
    LastPid = 4
    MaxSem = 2
    MaxSignal = 2
    AllocFails = TRUE
    BadIds = TRUE
INVARIANTS
    TypeOK
    WaitersCounted
    OneReturnPerSignal
    SingleResidence
PROPERTY
    FirstComeFirstServed
CHECK_DEADLOCK FALSE
