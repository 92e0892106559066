-------------------------- MODULE KeptConnections --------------------------
(***************************************************************************)
(* Why connections come about and are kept as long as all processes run:   *)
(* the two ends of a connection between a client c and a server s, and     *)
(* the packets under way between them.                                     *)
(*                                                                         *)
(* While the client asks, the time it has asked for is that of requests    *)
(* lost in a row, then of one under way, then of the server's silence.     *)
(* Whoever is silent has waited for packets that were lost in a row, then  *)
(* for one under way or about to be sent.                                  *)
(***************************************************************************)
EXTENDS TimedConnectionsInvariant

\* Servers do not send before their clients can listen (see
\* HandshakeSucceeds), and there are attempts enough for a handshake.
ASSUME HandshakeAssumption ==
    /\ Senders \cap Servers = {}
    /\ \A s \in Servers, c \in Clients :
        LossesInARow(c) * RetryTime
            + (LossesInARow(s) + 1) * (HeartbeatTime + FrameTime)
            + 2 * (Latency + FrameTime) < (Attempts - 1) * RetryTime

\* Clients ask, servers answer.
Partners ==
    /\ \A n, a \in Node : Has(n, a) => n # a /\ (n \in Servers => a \in Clients)
    /\ \A w \in wire : w.packet.type = "CONNECT_REQUEST" => w.packet.from \in Clients

\* A drop counter begins a round with the packet after a drop.
LossesCounted ==
    \A n \in Node : \A a \in Node \ {n} :
        /\ losses[n][a] <= LossesInARow(n)
        /\ DropChance[n] # 0 =>
            /\ countToDrop[n] > 0
            /\ losses[n][a] = 1 => countToDrop[n] = DropChance[n]

UnderWay(n, a, types) ==
    {w \in wire : w.packet.from = n /\ w.packet.to = a /\ w.packet.type \in types}

\* How old a packet may be, and how long ago the last one was sent; their ages
\* are followed to a bound only.
Age(w) == IF w.age < Latency THEN w.age ELSE Latency + frame[w.packet.to]

SendGap(n, a) ==
    IF since[n][a].sent <= HeartbeatTime THEN since[n][a].sent
    ELSE HeartbeatTime + frame[n]

Beat == HeartbeatTime + FrameTime

\* A time t of waiting for packets of n, beyond the first `before` of it, is
\* that of the packets lost in a row and of the next.
Waited(n, a, types, t, before) ==
    \/ t <= before + losses[n][a] * Beat + SendGap(n, a)
    \/ \E w \in UnderWay(n, a, types) :
            t <= before + (LossesInARow(n) + 1) * Beat + Age(w)

\* The longest a handshake takes from the request's arrival on.
Answered(s) == (LossesInARow(s) + 1) * Beat + Latency + FrameTime

\* Requests sent, and the time since the first.
Asked(c, s) == Attempts - conns[c][s].attemptsLeft

AskingTime(c, s) == (Asked(c, s) - 1) * RetryTime + since[c][s].request

\* A request has not been lost.
RequestUnderWay(c, s) ==
    \/ Asked(c, s) <= losses[c][s]
    \/ \E w \in UnderWay(c, s, {"CONNECT_REQUEST"}) :
            AskingTime(c, s) <= LossesInARow(c) * RetryTime + Age(w)

RequestRead(c, s) ==
    AskingTime(c, s) <= LossesInARow(c) * RetryTime + Latency + FrameTime + since[s][c].heard

Asking(c, s) ==
    /\ conns[c][s].requested \/ Asked(c, s) = 0
    /\ IF conns[s][c].state = "None" THEN RequestUnderWay(c, s) ELSE RequestRead(c, s)

\* The client is a step behind the server on the way up.
EndsAgree(c, s) ==
    \/ conns[c][s].state = "None" /\ conns[s][c].state = "None"
    \/ /\ conns[c][s].state = "REQUESTING_CONNECTION"
       /\ conns[s][c].state \in {"None", "DECIDING_CONNECTION", "CONNECTED"}
    \/ conns[c][s].state = "CONNECTED" /\ conns[s][c].state = "CONNECTED"

OnlyExpected(c, s) ==
    \A w \in wire :
        /\ w.packet.from = c /\ w.packet.to = s =>
                \/ w.packet.type = "CONNECT_REQUEST" /\ conns[c][s].state # "None"
                \/ /\ w.packet.type \in {"HEARTBEAT", "USER_PACKET"}
                   /\ conns[c][s].state = "CONNECTED"
        /\ w.packet.from = s /\ w.packet.to = c =>
                /\ w.packet.type \in {"CONNECT_ACCEPT", "HEARTBEAT"}
                /\ conns[s][c].state = "CONNECTED"

BothEnds(c, s) ==
    /\ EndsAgree(c, s)
    /\ OnlyExpected(c, s)
    /\ conns[c][s].state = "REQUESTING_CONNECTION" =>
        /\ Asking(c, s)
        /\ conns[s][c].state = "CONNECTED" =>
                Waited(s, c, {"CONNECT_ACCEPT", "HEARTBEAT"}, since[s][c].heard, 0)
    /\ conns[c][s].state = "CONNECTED" =>
        /\ Waited(s, c, {"HEARTBEAT"}, since[c][s].heard, 0)
        /\ Waited(c, s, {"HEARTBEAT", "USER_PACKET"}, since[s][c].heard, Answered(s))

Kept ==
    /\ Partners
    /\ LossesCounted
    /\ \A c \in Clients, s \in Servers : BothEnds(c, s)

\* The inductive invariant, beside IInv and TimedInv.
KeptInv == Everyone => Kept

=============================================================================
