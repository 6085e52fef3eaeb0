SPECIFICATION Spec
CONSTANTS
    LastPid = 3
    NUM_TERMINALS = 2
    Ids <- AcceptedIds
    Fills = {FALSE}
    AllocFails = TRUE
    MaxInput = 1
    MaxWrite = 2
    MaxWrites = 2
INVARIANTS
    TypeOK
    SingleResidence
    BusyWhileSending
    BlockedWhileSending
CHECK_DEADLOCK FALSE
PROPERTIES
    NoDupWriting
    WokenByOwnTerminal
