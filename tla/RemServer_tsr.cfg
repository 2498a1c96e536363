SPECIFICATION LiveSpec
CONSTANTS
    Commands <- AllOfThem
    Handles = {5, 6}
    Resident = TRUE
    UseInterrupts = TRUE
    IcDelay = TRUE
    RxMax = 1
INVARIANTS
    TypeOK
    NoDosReentry
    PspAndDtaRestored
    OneOpenFile
    NestingBounded
PROPERTIES
    PacketProtected
    ReplyNotCutShort
    ReplyNotOverwritten
    HaltHoldsMachine
    Unhalted
