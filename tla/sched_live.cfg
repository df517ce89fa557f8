SPECIFICATION Spec
CONSTANTS
    NumCores = 1
    MaxTasks = 3
    BootTasks = 2
    TaskCalls <- AllServices
PROPERTIES
    ReadyRuns
    SleeperWakes
    ZombieReaped
CHECK_DEADLOCK FALSE
