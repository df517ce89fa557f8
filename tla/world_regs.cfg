SPECIFICATION CmdSpec
CONSTANTS
    Threads = {t1, t2}
    NoThread = NoThread
    ResumesCalls = FALSE
INVARIANTS
    ServiceKeepsRegisters
CHECK_DEADLOCK FALSE
