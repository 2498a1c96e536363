SPECIFICATION Spec
CONSTANTS
    Commands <- FewCommands
    Handles = {5, 6}
    Resident = TRUE
    UseInterrupts = TRUE
    IcDelay = FALSE
    RxMax = 1
INVARIANTS
    HaltLoopCanEnd
