SPECIFICATION Spec
CONSTANTS
    WriteMod = 256
    HdrSize = 5
    Mark = 1
    FloodByte = 255
    FloodLen = 300
    PacketLens <- Lens
    DataBytes <- Bytes
INVARIANTS
    TypeOK
    InStep
    Tracking
PROPERTIES
    FloodSkipped
