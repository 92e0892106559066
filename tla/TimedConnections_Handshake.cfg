\* The server's application talks as soon as it is told of the client.
CONSTANTS
    s = s
    c = c
    Servers = {s}
    Clients = {c}
    Process = {s, c}
    IdCycle = 4
    Attempts = 5
    MaxConnections <- Once
    PortCycle = 4
    BindAttempts = 2
    ConfigPort <- SamePort
    OccupiedPorts = {3}
    DropChance <- NoDrops
    RetryTime = 12
    HeartbeatTime = 8
    HeartbeatTimeout = 40
    FrameTime = 1
    Latency = 1
    MaxLosses <- ServerLosses
    Senders = {s}
SPECIFICATION TimedSpec
INVARIANT
    HandshakeSucceeds
