SPECIFICATION Spec
CONSTANTS
    NumCores = 2
    MaxTasks = 3
    BootTasks = 2
    TaskCalls <- SmpServices
INVARIANTS
    TasksAccountedFor
    OneCorePerThread
    LocksHeldOnce
PROPERTIES
    NoOvertaking
CHECK_DEADLOCK FALSE
