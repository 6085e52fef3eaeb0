SPECIFICATION Spec
CONSTANTS
    MaxPid = 4
    MaxTicks = 2
    AllocFails = TRUE
    Strays <- OneStray
INVARIANTS
    TypeOK
    SingleResidence
    IdleReady
    SleepExact
PROPERTIES
    IdleIsLastResort
    NoOvertaking
    DispatcherSpec
