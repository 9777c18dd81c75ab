\* Header of 3 bytes, payloads of 0 to 3 and one too long, a socket of 4 bytes.
CONSTANTS
    HeaderSize = 3
    MaxPayload = 3
    Lengths = {0, 1, 2, 3, 4}
    Buffer = 4
    MaxPackets = 3
SPECIFICATION FairSpec
CHECK_DEADLOCK FALSE
INVARIANTS
    TypeOK
PROPERTIES
    ImplementsPacketChannel
    InStep
    PacketsArrive
