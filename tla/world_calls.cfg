SPECIFICATION CmdSpec
CONSTANTS
    Threads = {t1, t2, t3}
    NoThread = NoThread
    ResumesCalls = TRUE
SYMMETRY Symmetry
INVARIANTS
    TypeOK
    SecureContinues
    NeverLost
    ResponseOwn
PROPERTIES
    ReturnsToCaller
CHECK_DEADLOCK FALSE
