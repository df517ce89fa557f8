SPECIFICATION Spec
CONSTANTS
    NumCores = 1
    MaxTasks = 3
    BootTasks = 2
    TaskCalls <- ConsoleServices
PROPERTIES
    ReaperReturns
CHECK_DEADLOCK FALSE
