SPECIFICATION LiveSpec
CONSTANTS
    SeqMod = 8
    FaultMax = 4
    BusyMax = 3
    DirFaults = {"lost", "damaged", "late"}
    DumpFaults = {"lost", "damaged", "offline"}
    CopyFaults = {"lost", "damaged", "late", "dos", "offline"}
    Entries = 6
    Blocks = 4
    LastIsShort = TRUE
    Chunks = 3
INVARIANTS
    NoGap
    FinishedMeansToTheEnd
    DumpIsMemory
PROPERTIES
    DownloadCopies
    Finishes
CHECK_DEADLOCK FALSE
