\* Both directions and both channels in the middle of a connection.
CONSTANTS
    SeqCycle = 16
    RingSize = 8
    AckWindow = 2
    MAX_PACKET_SIZE_BYTES = 1350
    PacketHeaderSizeBytes = 9
    MessageHeaderSizeBytes = 5
    SizeCycle = 65536
    MaxPackets <- BothPackets
    MaxReliable <- BothReliable
    MaxUnreliable <- BothUnreliable
    MessageSizes <- BothSizes
SPECIFICATION EstablishedSpec
INVARIANTS
    
    EstablishedInv
PROPERTIES
    ImplementsOrderedChannel
    SendLoopDrains
    SendLoopProgress
