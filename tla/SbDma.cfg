SPECIFICATION LiveSpec
CONSTANTS
    Size = 5
    Ambiguous = FALSE
INVARIANTS
    TypeOK
    PositionHonest
PROPERTIES
    ReadsInOrder
    KeepsReading
