SPECIFICATION FairSpec
CONSTANTS
    LastPid = 2
    NUM_TERMINALS = 1
    Ids <- GoodIds
    Fills = {TRUE, FALSE}
    AllocFails = FALSE
    MaxInput = 0
    MaxWrite = 1
    MaxWrites = 2
PROPERTY
    WriteEnds
CHECK_DEADLOCK FALSE
