SPECIFICATION Spec
CONSTANTS
    LastPid = 3
    PIPE_BUF_SIZE = 2
    MaxPipe = 1
    MaxByte = 2
    MaxLen = 2
    AllocFails = FALSE
INVARIANT
    WaitsForBytes
CHECK_DEADLOCK FALSE
