SPECIFICATION LiveSpec
CONSTANTS
    Commands <- LiveCommands
    Handles = {5, 6}
    Resident = FALSE
    UseInterrupts = TRUE
    IcDelay = TRUE
    RxMax = 1
PROPERTIES
    Answered
