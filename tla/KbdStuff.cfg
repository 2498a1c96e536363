SPECIFICATION LiveSpec
CONSTANTS
    Keys <- ShortString
    RingBases = {30, 128}
    TypedMax = 2
INVARIANTS
    TypeOK
    NoKeyLost
PROPERTIES
    AllArrive
CHECK_DEADLOCK FALSE
