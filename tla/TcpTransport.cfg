\* Two channels, of which one may break or be polled.
SPECIFICATION FairSpec
CONSTANTS
    m1 = m1
    m2 = m2
    Messages = {m1, m2}
    NumPackets <- MCNumPackets
    NumChannels = 2
    MaxTroubles = 1
INVARIANTS
    OneWriter
    NoPacketStranded
    CommitFindsMessage
PROPERTIES
    ImplementsDelivery
    AllArrive
\* Everything sent has arrived or is lost.
CHECK_DEADLOCK FALSE
