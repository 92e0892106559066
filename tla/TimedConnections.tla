-------------------------- MODULE TimedConnections --------------------------
(***************************************************************************)
(* ConnectionManager over its UdpSocket with time.  ConnectionManager      *)
(* leaves open which timers have elapsed when a pass over the connections  *)
(* begins and which packets arrive; here a clock ticks, every process      *)
(* passes over its connections at least every FrameTime ticks, and the     *)
(* network delivers within Latency ticks, once, what it does not lose.     *)
(* Every step is a step of ConnectionManager, or leaves it alone but for   *)
(* the phase, which a packet that is dropped changes too.                  *)
(*                                                                         *)
(* A frame takes no time, and a tick is the shortest time between frames.  *)
(* A process may stop (crash) between two frames, for good; what was its   *)
(* own, or was meant for it, goes with it.  Ages are followed only as far  *)
(* as they matter.                                                         *)
(***************************************************************************)
EXTENDS ConnectionManager, UdpSocket, SequencesExt, FiniteSets

CONSTANTS
    RetryTime,          \* DEFAULT_TIME_AFTER_RETRY_CONNECT_ms, 1500
    HeartbeatTime,      \* DEFAULT_TIME_AFTER_SEND_HEARTBEAT_ms, 1000
    HeartbeatTimeout,   \* DEFAULT_HEARTBEAT_TIMEOUT_ms, 5000
    FrameTime,          \* a frame comes at least this often
    Latency,            \* a packet that is not lost arrives within this time
    MaxLosses,          \* packets from each process the network loses in a row
    Senders             \* bound: processes whose application sends messages

\* A process with a drop counter loses no two packets of its only connection in
\* a row to it; the network then loses none.
LossesInARow(n) == IF DropChance[n] = 0 THEN MaxLosses[n] ELSE 1

\* A server counts the silence of a client from its request on, but the client
\* sends heartbeats only after it has heard the server: within one timeout both
\* directions may lose packets that are a beat apart.
ASSUME TimesAssumption ==
    /\ {RetryTime, HeartbeatTime, HeartbeatTimeout, FrameTime} \subseteq Nat \ {0}
    /\ Latency \in Nat
    /\ Process = Node /\ IsFiniteSet(Node)
    /\ MaxLosses \in [Node -> Nat]
    /\ Senders \subseteq Node
    /\ \A n \in Node : DropChance[n] # 0 =>
            DropChance[n] > 1 /\ MaxLosses[n] = 0 /\ Cardinality(Node) = 2
    /\ \A s \in Servers, c \in Clients :
        (LossesInARow(s) + LossesInARow(c) + 2) * (HeartbeatTime + FrameTime)
            + 2 * (Latency + FrameTime) <= HeartbeatTimeout

VARIABLES
    alive,          \* processes that have not stopped
    since,          \* for each connection, ticks since m_connectionRequestSent,
                    \* m_heartbeatSent and m_heartbeatReceived
    frame,          \* ticks since each process's last pass
    wire,           \* packets under way, with their age
    losses,         \* packets lost in a row, by sender and receiver
    stopped         \* ticks since a process stopped

timeVars == <<alive, since, frame, wire, losses, stopped>>
timedVars == <<vars, socketVars, timeVars>>

Times == [request : 0 .. RetryTime,
          sent    : 0 .. HeartbeatTime + 1,
          heard   : 0 .. HeartbeatTimeout + FrameTime + 1]

NoTimes == [request |-> 0, sent |-> 0, heard |-> 0]

\* The time by which a process that has stopped must have been noticed.
NoticeTime == Latency + HeartbeatTimeout + 2 * FrameTime

TimedInit ==
    /\ Init
    /\ SocketInit
    /\ alive = Node
    /\ since = [n \in Node |-> [a \in Node |-> NoTimes]]
    /\ frame = [n \in Node |-> 0]
    /\ wire = {}
    /\ losses = [n \in Node |-> [a \in Node |-> 0]]
    /\ stopped = [n \in Node |-> 0]

-----------------------------------------------------------------------------
(***************************************************************************)
(* Packets leave through UdpSocket::send, in some order.  The drop counter *)
(* takes some of them, the network others.                                 *)
(***************************************************************************)
Send(n, sent, staying) ==
    \E order \in SetToSeqs(sent) : \E lost \in SUBSET DOMAIN order :
        LET gone == lost \cup {k \in DOMAIN order : Drops(n, k)}
        IN  /\ \A k \in lost : losses[n][order[k].to] < MaxLosses[n]
            /\ wire' = staying \cup
                    {[packet |-> order[k], age |-> 0] :
                        k \in {j \in DOMAIN order \ gone : order[j].to \in alive}}
            /\ losses' = [losses EXCEPT ![n] = [a \in Node |->
                    IF a \notin alive \/ \A k \in DOMAIN order : order[k].to # a THEN @[a]
                    ELSE IF \E k \in gone : order[k].to = a THEN @[a] + 1 ELSE 0]]
            /\ countToDrop' = [countToDrop EXCEPT ![n] = CountAfter(n, Len(order))]
            /\ UNCHANGED <<port, attemptsLeft, bound>>

NothingSent == UNCHANGED <<socketVars, losses>>

-----------------------------------------------------------------------------
Runs(n) == n \in alive /\ bound[n]

Bind(n) ==
    /\ n \in alive
    /\ bindSucceeds(n) \/ bindFails(n)
    /\ UNCHANGED <<vars, timeVars>>

\* m_heartbeatSentTimeMs of a requested connection is 0: the client has not
\* sent a packet since its clock started, just now or long ago.
Connect(n, a) ==
    /\ Runs(n)
    /\ connect(n, a)
    /\ \E up \in {0, HeartbeatTime + 1} :
        since' = [since EXCEPT ![n][a] = [NoTimes EXCEPT !.sent = up]]
    /\ NothingSent /\ UNCHANGED <<alive, frame, wire, stopped>>

\* A user packet, lost or not, postpones the next heartbeat.  At most one is
\* sent after a pass, and none after a heartbeat: more change no timer.
UpdateSend(n, a) ==
    /\ n \in Senders
    /\ Runs(n) /\ frame[n] = 0 /\ since[n][a].sent > 0
    /\ updateSend(n, a)
    /\ Send(n, {Packet("USER_PACKET", n, a)}, wire)
    /\ since' = [since EXCEPT ![n][a].sent = 0]
    /\ UNCHANGED <<alive, frame, stopped>>

-----------------------------------------------------------------------------
(***************************************************************************)
(* updateReceive.                                                          *)
(***************************************************************************)
\* Packets that a handler of onReceivePacket drops.
Ignored(n, a, type) ==
    LET state == conns[n][a].state
    IN  \/ type = "CONNECT_REQUEST" /\ (Has(n, a) \/ n \notin Servers)
        \/ type = "CONNECT_ACCEPT"  /\ state # "REQUESTING_CONNECTION"
        \/ type = "HEARTBEAT"       /\ state \notin {"REQUESTING_CONNECTION", "CONNECTED"}
        \/ type = "USER_PACKET"     /\ state # "CONNECTED"
        \/ type = "DISCONNECT"      /\ state \in {"None", "DISCONNECTED"}

\* Heartbeats count for a connection already made only.
HeardUnlessBeat(n, a, type) ==
    since' = IF type \in {"DISCONNECT", "HEARTBEAT"} THEN since
             ELSE [since EXCEPT ![n][a].heard = 0]

\* m_heartbeatReceivedTimeMs
Heard(n, a, type) ==
    since' = IF type = "DISCONNECT" THEN since ELSE [since EXCEPT ![n][a].heard = 0]

Read(n, w) ==
    /\ Runs(n) /\ frame[n] > 0
    /\ w.packet.to = n
    /\ LET a == w.packet.from
           type == w.packet.type
       IN  \/ /\ \/ onConnectRequest(n, a) /\ type = "CONNECT_REQUEST"
                 \/ onConnectAccept(n, a)  /\ type = "CONNECT_ACCEPT"
                 \/ onHeartbeat(n, a)      /\ type = "HEARTBEAT"
                 \/ onUserPacket(n, a)     /\ type = "USER_PACKET"
                 \/ onDisconnect(n, a)     /\ type = "DISCONNECT"
                 \/ /\ type = "HEARTBEAT" /\ conns[n][a].state = "CONNECTED"
                    /\ phase' = [phase EXCEPT ![n] = "receive"]
                    /\ UNCHANGED <<conns, created, peers, net, asserts>>
              /\ Heard(n, a, type)
           \/ /\ Ignored(n, a, type)
              /\ phase' = [phase EXCEPT ![n] = "receive"]
              /\ UNCHANGED <<conns, created, peers, net, asserts, since>>
    /\ wire' = wire \ {w}
    /\ NothingSent /\ UNCHANGED <<alive, frame, stopped>>

\* Silence is measured from the last packet sent.
TimersOfSender(n) ==
    Elapsed({a \in Node : since[n][a].request >= RetryTime},
            {a \in Node : since[n][a].sent > HeartbeatTime},
            {a \in Node : since[n][a].sent > HeartbeatTimeout})

\* Requests are repeated in every pass.
TimersWithoutRetry(n) ==
    Elapsed(Node,
            {a \in Node : since[n][a].sent > HeartbeatTime},
            {a \in Node : since[n][a].heard > HeartbeatTimeout})

Timers(n) ==
    Elapsed({a \in Node : since[n][a].request >= RetryTime},
            {a \in Node : since[n][a].sent > HeartbeatTime},
            {a \in Node : since[n][a].heard > HeartbeatTimeout})

\* What a pass sends, and the times it notes: a request, and the two packets
\* that count as signs of life.
PassSends(n) ==
    UNION {{Packet(type, n, a) : type \in SentTypes(conns[n][a], Timers(n)[a])} : a \in Node}

TimesAfterPass(n, a) ==
    LET sent == {p.type : p \in {q \in PassSends(n) : q.to = a}}
    IN  IF conns'[n][a] = NoConnection THEN NoTimes
        ELSE [since[n][a] EXCEPT
                !.request = IF "CONNECT_REQUEST" \in sent THEN 0 ELSE @,
                !.sent    = IF sent \cap {"CONNECT_ACCEPT", "HEARTBEAT"} # {} THEN 0 ELSE @]

\* The socket has been emptied of everything that has arrived.
Pass(n) ==
    /\ Runs(n) /\ frame[n] > 0
    /\ \A w \in wire : w.packet.to = n => w.age < Latency
    /\ UpdateConnections(n, Timers(n))
    /\ since' = [since EXCEPT ![n] = [a \in Node |-> TimesAfterPass(n, a)]]
    /\ Send(n, PassSends(n), wire)
    /\ frame' = [frame EXCEPT ![n] = 0]
    /\ UNCHANGED <<alive, stopped>>

-----------------------------------------------------------------------------
(***************************************************************************)
(* The environment.                                                        *)
(***************************************************************************)
UpTo(bound_, t) == IF t < bound_ THEN t + 1 ELSE bound_

\* Time passes between frames, never past a frame that is due.
Tick ==
    /\ \A n \in alive : Runs(n) /\ phase[n] = "app" /\ frame[n] < FrameTime
    /\ frame' = [n \in Node |-> IF n \in alive THEN UpTo(FrameTime, frame[n]) ELSE 0]
    /\ since' = [n \in Node |-> [a \in Node |->
            IF n \notin alive \/ ~ Has(n, a) THEN NoTimes
            ELSE [request |-> UpTo(RetryTime, since[n][a].request),
                  sent    |-> UpTo(HeartbeatTime + 1, since[n][a].sent),
                  heard   |-> UpTo(HeartbeatTimeout + FrameTime + 1, since[n][a].heard)]]]
    /\ wire' = {[w EXCEPT !.age = UpTo(Latency, @)] : w \in wire}
    /\ stopped' = [n \in Node |->
            IF n \in alive THEN 0 ELSE UpTo(NoticeTime + 1, stopped[n])]
    /\ UNCHANGED <<vars, socketVars, alive, losses>>

Crash(n) ==
    /\ Runs(n) /\ phase[n] = "app"
    /\ alive' = alive \ {n}
    /\ since' = [since EXCEPT ![n] = [a \in Node |-> NoTimes]]
    /\ frame' = [frame EXCEPT ![n] = 0]
    /\ wire' = {w \in wire : w.packet.to # n}
    /\ losses' = [m \in Node |-> [a \in Node |-> IF n \in {m, a} THEN 0 ELSE losses[m][a]]]
    /\ UNCHANGED <<vars, socketVars, stopped>>

TimedNext ==
    \/ \E n \in Node : Bind(n) \/ Pass(n) \/ Crash(n)
    \/ \E n, a \in Node : Connect(n, a) \/ UpdateSend(n, a)
    \/ \E w \in wire : Read(w.packet.to, w)
    \/ Tick

TimedSpec == TimedInit /\ [][TimedNext]_timedVars

-----------------------------------------------------------------------------
(***************************************************************************)
(* Properties.                                                             *)
(***************************************************************************)

\* Types of the times, the wire and the socket's counters; what is under way
\* was sent, to a process that runs.
TimedTypeOK ==
    /\ alive \subseteq Node
    /\ since \in [Node -> [Node -> Times]]
    /\ frame \in [Node -> 0 .. FrameTime]
    /\ stopped \in [Node -> 0 .. NoticeTime + 1]
    /\ losses \in [Node -> [Node -> Nat]]
    /\ wire \subseteq [packet : net, age : 0 .. Latency]
    /\ \A w \in wire : w.packet.to \in alive
    /\ countToDrop \in [Node -> Nat]
    /\ \A n \in Node : countToDrop[n] <= DropChance[n]
    /\ port \in [Node -> Port] /\ bound \in [Node -> BOOLEAN]

Everyone == alive = Node

\* While both processes run, a connection is never given up for silence: the
\* heartbeats and user packets that set each end's timers, some of them lost,
\* are frequent enough, from the acceptance on.  (Not if a server talks at
\* once: see HandshakeSucceeds.)
KeptAlive ==
    Everyone => \A n, a \in Node :
        conns[n][a].state = "CONNECTED" => since[n][a].heard <= HeartbeatTimeout

\* An attempt to connect to a server that runs does not fail.  When the
\* acceptance is lost a heartbeat of the server stands for it; a repeated
\* request is ignored, and so are the server's user packets, which postpone the
\* heartbeat.
HandshakeSucceeds ==
    Everyone => \A n \in Clients, a \in Servers : conns[n][a].state # "CONNECTION_FAILED"

\* A process that has stopped is noticed by whoever is connected to it.
StopNoticed ==
    \A n \in alive, a \in Node \ alive :
        stopped[a] > NoticeTime => conns[n][a].state # "CONNECTED"

\* The search for a port never uses up its attempts: createHost, whose loop
\* could not end after that, returns.
BindEnds == \A n \in Node : attemptsLeft[n] >= 0

=============================================================================
