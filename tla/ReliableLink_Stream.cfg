\* End 0 sends three reliable messages, end 1 one: its packets bring the acks.
CONSTANTS
    SeqCycle = 16
    RingSize = 8
    AckWindow = 2
    MAX_PACKET_SIZE_BYTES = 1350
    PacketHeaderSizeBytes = 9
    MessageHeaderSizeBytes = 5
    SizeCycle = 65536
    MessageSizes <- StreamSizes
    MaxPackets <- StreamPackets
    MaxReliable <- StreamReliable
    MaxUnreliable <- StreamUnreliable
SPECIFICATION Spec
INVARIANTS
    TypeOK
    DeliveredContiguous
    ReadNotForgotten
    StoredWaitsForGap
    RetiredAfterRead
    LinkInv
