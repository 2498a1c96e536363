SPECIFICATION LiveSpec
CONSTANTS
    WriteMod = 256
    HdrSize = 5
    ReadMax = 252
    Requests <- AnyRequest
    SentMax = 300
INVARIANTS
    TypeOK
    InOrder
    SentWhole
PROPERTIES
    ReplyEnds
CHECK_DEADLOCK FALSE
