SPECIFICATION Spec
CONSTANTS
    NumCores = 1
    MaxTasks = 4
    BootTasks = 3
    TaskCalls <- AllServices
INVARIANTS
    TypeOK
    TasksAccountedFor
    ActiveIsRunning
    StackNotFreed
    LocksHeldOnce
    SpinsOnlyOnInterrupted
PROPERTIES
    NoOvertaking
    NeverWokenEarly
    ZombieOnlyReaped
CHECK_DEADLOCK FALSE
