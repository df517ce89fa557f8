SPECIFICATION Spec
CONSTANTS
    NumCores = 2
    Callers <- NoCallers
PROPERTIES
    MainThreadProceeds
CHECK_DEADLOCK FALSE
