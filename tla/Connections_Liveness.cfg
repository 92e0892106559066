\* Attempts and disconnects end; two sessions of one client, with a retry.
CONSTANTS
    s = s
    c = c
    Servers = {s}
    Clients = {c}
    IdCycle = 8
    Attempts = 3
    MaxConnections <- Twice
SPECIFICATION FairSpec
PROPERTIES
    AttemptsEnd
    DisconnectsEnd
