SPECIFICATION Spec
CONSTANTS
    Size = 4
    MinLoad = 1
    LoadBlock = 2
    FileLen = 3
    MaxRebase = 4
    Span = 1
    StallSpan = 5
    MaxMishaps = 1
    CounterMax = 10
INVARIANTS
    TypeOK
    QueueInOrder
    PositionShown
PROPERTIES
    NoSpuriousClamp
    SoonAudible
