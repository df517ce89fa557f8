SPECIFICATION Spec
CONSTANTS
    NumCores = 3
    StackEnd = 515
INVARIANTS
    TypeOK
    TablesBeforeUse
    KeysBeforeService
PROPERTIES
    AcceptedCoreStarts
