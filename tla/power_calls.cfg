SPECIFICATION Spec
CONSTANTS
    NumCores = 3
    Callers <- Secondaries
INVARIANTS
    TypeOK
    OffIsHalted
    UartExclusive
    BootingIsWoken
PROPERTIES
    AcceptedCoreArrives
CHECK_DEADLOCK FALSE
