SPECIFICATION LiveSpec
CONSTANTS
    SeqMod = 16
    Faults = {"lost", "damaged", "late", "dos", "offline"}
    FaultMax = 4
    BusyMax = 2
    Chunks = 4
    DiskSize = 3
INVARIANTS
    AckedIsWritten
PROPERTIES
    CopySpec
    Finishes
CHECK_DEADLOCK FALSE
