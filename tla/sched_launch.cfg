SPECIFICATION Spec
CONSTANTS
    NumCores = 1
    MaxTasks = 3
    BootTasks = 2
    TaskCalls <- ShippedServices
INVARIANTS
    EretReachesApp
CHECK_DEADLOCK FALSE
