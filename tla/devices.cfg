SPECIFICATION Spec
CONSTANTS
    Devices = {disk, timer}
    NoDevice = NoDevice
    MAX_DRIVERS = 2
    Disk = disk
    Sectors <- TwoSectors
    BadSectors <- OneBad
    VIRTQ_ENTRY_NUM = 2
    QueueMaxes <- Queues
    INDEX_MOD = 3
    Commands = {map, move}
    MoveCommands = {move}
    NoCommand = NoCommand
    QUEUE_SLOTS = 3
INVARIANTS
    TypeOK
    EnabledHasHandler
    ReadsItsSector
PROPERTIES
    CarriedOutOnce
    DevicesAnswer
CHECK_DEADLOCK FALSE
