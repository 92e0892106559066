\* The client connects again; the server's end of the first session may stand.
CONSTANTS
    server = server
    client = client
    Servers = {server}
    Clients = {client}
    IdCycle = 4
    Attempts = 2
    MaxConnections <- ClientsTwice
    SeqCycle = 8
    RingSize = 4
    AckWindow = 2
    MAX_PACKET_SIZE_BYTES = 1350
    PacketHeaderSizeBytes = 9
    MessageHeaderSizeBytes = 5
    SizeCycle = 65536
    MaxPackets = 2
    MaxReliable = 1
    MessageSize = 32
SPECIFICATION SessionSpec
INVARIANT
    RetiredWasGiven
