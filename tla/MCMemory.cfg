SPECIFICATION Spec
CONSTANTS
    MaxPid = 3
    PAGESIZE = 2
    NPages = 5
    KPages = 6
    TotalFrames = 17
    BootBrk = 4
    UserAddrs <- Addrs
    KernelBrks = {6, 7}
    MaxCalls = 2
    Programs <- BothPrograms
    InitProgram <- Small
    IdleProgram <- Small
INVARIANTS
    TypeOK
    FramesExclusive
    OwnStack
    KernelHeapMapped
PROPERTIES
    ZeroOnlyWhenExhausted
    FramesReturned
CHECK_DEADLOCK FALSE
