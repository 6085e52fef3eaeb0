SPECIFICATION Spec
CONSTANTS
    LastPid = 2
    NUM_TERMINALS = 2
    Ids <- GoodIds
    Fills = {FALSE, TRUE}
    AllocFails = FALSE
    MaxInput = 2
    MaxWrite = 1
    MaxWrites = 0
INVARIANT
    InputDelivered
CHECK_DEADLOCK FALSE
