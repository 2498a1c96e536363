SPECIFICATION Spec
CONSTANTS
    SeqMod = 128
    Faults = {"late", "busylate"}
    FaultMax = 1
    BusyMax = 3
    Chunks = 3
    DiskSize = 3
INVARIANTS
    OkMeansWhole
CHECK_DEADLOCK FALSE
