\* No ring wrap: each end sends no more packets than the ring has slots.
CONSTANTS
    SeqCycle = 16
    RingSize = 4
    AckWindow = 2
    MaxPackets = 4
SPECIFICATION Spec
INVARIANTS
    TypeOK
    AckTruthful
    AckedOnce
    NewestIsLatest
    Inductive
    BitsAgree
PROPERTY
    ImplementsPacketAcks
