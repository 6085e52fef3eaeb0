SPECIFICATION Spec
CONSTANTS
    LastPid = 3
    PIPE_BUF_SIZE = 2
    MaxPipe = 2
    MaxByte = 3
    MaxLen = 2
    AllocFails = TRUE
INVARIANTS
    TypeOK
    SingleResidence
    FirstInFirstOut
    LoneReaderWoken
CHECK_DEADLOCK FALSE
