\* A message of 1330 bytes: updateSend never ends.
CONSTANTS
    SeqCycle = 16
    RingSize = 8
    AckWindow = 2
    MAX_PACKET_SIZE_BYTES = 1350
    PacketHeaderSizeBytes = 9
    MessageHeaderSizeBytes = 5
    SizeCycle = 65536
    MessageSizes <- LargeSizes
    MaxPackets <- LargePackets
    MaxReliable <- LargeReliable
    MaxUnreliable <- LargeUnreliable
SPECIFICATION Spec
PROPERTY
    SendLoopProgress
