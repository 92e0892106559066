\* The times of the code in ticks of 125 ms; the client's application talks.
CONSTANTS
    s = s
    c = c
    Servers = {s}
    Clients = {c}
    Process = {s, c}
    IdCycle = 4
    Attempts = 5
    MaxConnections <- Once
    PortCycle = 4
    BindAttempts = 2
    ConfigPort <- SamePort
    OccupiedPorts = {3}
    DropChance <- ClientDrops
    RetryTime = 12
    HeartbeatTime = 8
    HeartbeatTimeout = 40
    FrameTime = 1
    Latency = 1
    MaxLosses <- ServerLosses
    Senders = {c}
SPECIFICATION TimedSpec
INVARIANTS
    TimedTypeOK
    
    HandshakeSucceeds
    StopNoticed
    BindEnds
    TimedInv
    
