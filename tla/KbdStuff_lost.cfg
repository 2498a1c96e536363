SPECIFICATION Spec
CONSTANTS
    Keys <- LongString
    RingBases = {30}
    TypedMax = 2
INVARIANTS
    NoKeyLost
CHECK_DEADLOCK FALSE
