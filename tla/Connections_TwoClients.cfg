\* One server and two clients, which may also ask each other.
CONSTANTS
    s = s
    c1 = c1
    c2 = c2
    Servers = {s}
    Clients = {c1, c2}
    IdCycle = 8
    Attempts = 2
    MaxConnections <- ServersTwice
SYMMETRY ClientSymmetry
SPECIFICATION Spec
INVARIANTS
    TypeOK
    PeersMatchConnections
    NoAssertFails
    ConnectedWasAccepted
    IInv
