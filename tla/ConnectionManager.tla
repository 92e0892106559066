------------------------- MODULE ConnectionManager -------------------------
(***************************************************************************)
(* Connection management (class ConnectionManager) at every process, the   *)
(* peers it makes the PacketManager, the ChannelManager and the            *)
(* application know through its callbacks, and the datagrams between the   *)
(* processes.                                                              *)
(*                                                                         *)
(* Each process is one thread: it is in the application, or inside         *)
(* updateReceive, where packets are taken from the socket one by one       *)
(* before the connections are updated in a single pass.  The network is    *)
(* the set of packets ever sent: any of them may arrive late, repeatedly   *)
(* or never.  Time is abstracted to which timers have elapsed when the     *)
(* connections are updated.  Application callbacks only take note of what  *)
(* they are told, and m_systemClock is past its first millisecond (a       *)
(* m_connectionRequestSentTimeMs of 0 means "never").                      *)
(***************************************************************************)
EXTENDS Integers

CONSTANTS
    Servers,            \* processes with Config::isServer
    Clients,            \* the others
    IdCycle,            \* number of ConnectionIDs, 2^16 in the code
    Attempts,           \* m_connectionAttemptsLeft of a new request, 5
    MaxConnections      \* bound: connections created, for each process

Node == Servers \cup Clients

ASSUME NodesAssumption == Servers \cap Clients = {}
ASSUME CountsAssumption ==
    /\ IdCycle \in Nat \ {0, 1}
    /\ Attempts \in Nat \ {0}
    /\ MaxConnections \in [Node -> Nat]

VARIABLES
    phase,          \* "app" | "receive": where each process's thread is
    conns,          \* m_connections of each process, by remote address
    created,        \* connections created; the id generator is this, wrapped
    peers,          \* ids in PacketManager::m_peers and ChannelManager::m_peers,
                    \* which the application was told are connected
    net,            \* every packet sent: [type, from, to]
    asserts         \* the NSF_ASSERTs that have failed

vars == <<phase, conns, created, peers, net, asserts>>

ConnectionID == 0 .. IdCycle - 1
CONNECTION_ID_INVALID == IdCycle - 1

State == {"None", "REQUESTING_CONNECTION", "DECIDING_CONNECTION", "CONNECTED",
          "CONNECTION_FAILED", "DISCONNECTING", "DISCONNECTED"}

PacketType == {"CONNECT_REQUEST", "CONNECT_ACCEPT", "DISCONNECT", "HEARTBEAT",
               "USER_PACKET"}

\* requested stands for m_connectionRequestSentTimeMs # 0.
Connection ==
    [id : ConnectionID, state : State, attemptsLeft : 0 .. Attempts,
     requested : BOOLEAN, accepted : BOOLEAN, wasConnected : BOOLEAN]

\* A default-constructed Connection also marks an address without one.
NoConnection ==
    [id |-> CONNECTION_ID_INVALID, state |-> "None", attemptsLeft |-> 0,
     requested |-> FALSE, accepted |-> FALSE, wasConnected |-> FALSE]

Has(n, a) == conns[n][a].state # "None"

Remotes(n) == {a \in Node : Has(n, a)}

\* ++m_connectionIdGenerator
NextId(n) == (created[n] + 1) % IdCycle

Packet(type, from, to) == [type |-> type, from |-> from, to |-> to]

Init ==
    /\ phase = [n \in Node |-> "app"]
    /\ conns = [n \in Node |-> [a \in Node |-> NoConnection]]
    /\ created = [n \in Node |-> 0]
    /\ peers = [n \in Node |-> {}]
    /\ net = {}
    /\ asserts = {}

-----------------------------------------------------------------------------
(***************************************************************************)
(* The callbacks NSFImpl hangs between the managers: PacketManager,        *)
(* ChannelManager and application are told, in this order, of the ids that *)
(* connect and of those that disconnect.                                   *)
(***************************************************************************)
PeersFollow(n, connected, disconnected) ==
    /\ peers' = [peers EXCEPT ![n] = (@ \cup connected) \ disconnected]
    /\ asserts' = asserts
        \cup {"Peer already exists" : id \in connected \cap peers[n]}
        \cup {"Peer doesn't exist" : id \in disconnected \ peers[n]}

PeersUnchanged == UNCHANGED <<peers, asserts>>

-----------------------------------------------------------------------------
(***************************************************************************)
(* The application.                                                        *)
(***************************************************************************)
connect(n, a) ==
    /\ phase[n] = "app"
    /\ n \in Clients /\ a # n /\ ~ Has(n, a) /\ created[n] < MaxConnections[n]
    /\ conns' = [conns EXCEPT ![n][a] =
            [NoConnection EXCEPT !.id = NextId(n),
                                 !.state = "REQUESTING_CONNECTION",
                                 !.attemptsLeft = Attempts]]
    /\ created' = [created EXCEPT ![n] = @ + 1]
    /\ PeersUnchanged
    /\ UNCHANGED <<phase, net>>

\* Only a server looks at the id; a client disconnects from everyone.  (Ids
\* name one connection as long as they do not wrap.)
disconnect(n, id) ==
    /\ phase[n] = "app"
    /\ LET all == id = CONNECTION_ID_INVALID \/ n \notin Servers
       IN  conns' = [conns EXCEPT ![n] = [a \in Node |->
            IF Has(n, a) /\ (all \/ @[a].id = id)
            THEN [@[a] EXCEPT !.state = "DISCONNECTING"]
            ELSE @[a]]]
    /\ PeersUnchanged
    /\ UNCHANGED <<phase, created, net>>

\* User packets go to every connection with a peer that has data to send,
\* whatever the state of the connection.
updateSend(n, a) ==
    /\ phase[n] = "app"
    /\ Has(n, a) /\ conns[n][a].id \in peers[n]
    /\ net' = net \cup {Packet("USER_PACKET", n, a)}
    /\ PeersUnchanged
    /\ UNCHANGED <<phase, conns, created>>

-----------------------------------------------------------------------------
(***************************************************************************)
(* updateReceive, the socket loop: one action per packet type of           *)
(* onReceivePacket.  A packet a handler drops changes nothing.             *)
(***************************************************************************)
Receives(n, a, type) ==
    /\ phase' = [phase EXCEPT ![n] = "receive"]
    /\ Packet(type, a, n) \in net

\* Everyone answers requests.
onConnectRequestAnywhere(n, a) ==
    /\ Receives(n, a, "CONNECT_REQUEST")
    /\ ~ Has(n, a) /\ created[n] < MaxConnections[n]
    /\ conns' = [conns EXCEPT ![n][a] =
            [NoConnection EXCEPT !.id = NextId(n), !.state = "DECIDING_CONNECTION"]]
    /\ created' = [created EXCEPT ![n] = @ + 1]
    /\ PeersUnchanged
    /\ UNCHANGED net

onConnectRequest(n, a) ==
    /\ Receives(n, a, "CONNECT_REQUEST")
    /\ ~ Has(n, a) /\ n \in Servers /\ created[n] < MaxConnections[n]
    /\ conns' = [conns EXCEPT ![n][a] =
            [NoConnection EXCEPT !.id = NextId(n), !.state = "DECIDING_CONNECTION"]]
    /\ created' = [created EXCEPT ![n] = @ + 1]
    /\ PeersUnchanged
    /\ UNCHANGED net

\* m_wasConnected is not set.
BecomesAcceptedUnmarked(n, a) ==
    /\ conns[n][a].state = "REQUESTING_CONNECTION"
    /\ conns' = [conns EXCEPT ![n][a] = [@ EXCEPT !.state = "CONNECTED", !.accepted = TRUE]]
    /\ PeersFollow(n, {conns[n][a].id}, {})
    /\ UNCHANGED <<created, net>>

BecomesAccepted(n, a) ==
    /\ conns[n][a].state = "REQUESTING_CONNECTION"
    /\ conns' = [conns EXCEPT ![n][a] =
            [@ EXCEPT !.state = "CONNECTED", !.accepted = TRUE, !.wasConnected = TRUE]]
    /\ PeersFollow(n, {conns[n][a].id}, {})
    /\ UNCHANGED <<created, net>>

onConnectAccept(n, a) == Receives(n, a, "CONNECT_ACCEPT") /\ BecomesAccepted(n, a)

\* A heartbeat that overtook the acceptance stands for it; any other only
\* restarts the silence timer.
onHeartbeat(n, a) == Receives(n, a, "HEARTBEAT") /\ BecomesAccepted(n, a)

\* The connection is only marked; the pass over the connections that ends
\* updateReceive tells the other managers and erases it.
onDisconnect(n, a) ==
    /\ Receives(n, a, "DISCONNECT")
    /\ Has(n, a) /\ conns[n][a].state # "DISCONNECTED"
    /\ conns' = [conns EXCEPT ![n][a].state = "DISCONNECTED"]
    /\ PeersUnchanged
    /\ UNCHANGED <<created, net>>

onUserPacket(n, a) ==
    /\ Receives(n, a, "USER_PACKET")
    /\ conns[n][a].state = "CONNECTED"
    /\ asserts' = asserts \cup
            {"There is no peer with such id" : id \in {conns[n][a].id} \ peers[n]}
    /\ UNCHANGED <<conns, created, peers, net>>

-----------------------------------------------------------------------------
(***************************************************************************)
(* updateReceive, the pass over the connections, then the erasure of the   *)
(* disconnected ones.                                                      *)
(***************************************************************************)

In(n, state) == {a \in Node : conns[n][a].state = state}

\* Which timers have elapsed, for each remote address: "retry" since the last
\* request, "beat" since the last packet out, "silence" since the last one in.
Elapsed(retry, beat, silence) ==
    [a \in Node |-> {t \in {"retry", "beat", "silence"} :
        \/ t = "retry"   /\ a \in retry
        \/ t = "beat"    /\ a \in beat
        \/ t = "silence" /\ a \in silence}]

\* One request only.
AsksOnce(c, t) == ~ c.accepted /\ ~ c.requested

Asks(c, t) == ~ c.accepted /\ (~ c.requested \/ "retry" \in t)

\* The last attempt is not recognised.
UpdatedEndlessly(c, t) ==
    CASE c.state = "REQUESTING_CONNECTION" /\ Asks(c, t) ->
            [c EXCEPT !.attemptsLeft = @ - 1, !.requested = TRUE]
      [] c.state = "DECIDING_CONNECTION" ->
            [c EXCEPT !.state = "CONNECTED", !.wasConnected = TRUE]
      [] c.state = "CONNECTED" /\ "silence" \in t -> [c EXCEPT !.state = "DISCONNECTED"]
      [] c.state = "DISCONNECTING" -> [c EXCEPT !.state = "DISCONNECTED"]
      [] OTHER -> c

\* A disconnecting connection repeats its DISCONNECT instead of going.
UpdatedLingering(c, t) ==
    CASE c.state = "REQUESTING_CONNECTION" /\ Asks(c, t) ->
            IF c.attemptsLeft <= 1
            THEN [c EXCEPT !.attemptsLeft = @ - 1, !.state = "CONNECTION_FAILED"]
            ELSE [c EXCEPT !.attemptsLeft = @ - 1, !.requested = TRUE]
      [] c.state = "DECIDING_CONNECTION" ->
            [c EXCEPT !.state = "CONNECTED", !.wasConnected = TRUE]
      [] c.state = "CONNECTED" /\ "silence" \in t -> [c EXCEPT !.state = "DISCONNECTED"]
      [] OTHER -> c

Updated(c, t) ==
    CASE c.state = "REQUESTING_CONNECTION" /\ Asks(c, t) ->
            IF c.attemptsLeft <= 1
            THEN [c EXCEPT !.attemptsLeft = @ - 1, !.state = "CONNECTION_FAILED"]
            ELSE [c EXCEPT !.attemptsLeft = @ - 1, !.requested = TRUE]
      [] c.state = "DECIDING_CONNECTION" ->
            [c EXCEPT !.state = "CONNECTED", !.wasConnected = TRUE]
      [] c.state = "CONNECTED" /\ "silence" \in t -> [c EXCEPT !.state = "DISCONNECTED"]
      [] c.state = "DISCONNECTING" -> [c EXCEPT !.state = "DISCONNECTED"]
      [] OTHER -> c

\* An acceptance is left to the heartbeats.
SentTypesSilent(c, t) ==
    CASE c.state = "REQUESTING_CONNECTION" /\ Asks(c, t) /\ c.attemptsLeft > 1 ->
            {"CONNECT_REQUEST"}
      [] c.state = "CONNECTED" /\ "beat" \in t -> {"HEARTBEAT"}
      [] c.state = "DISCONNECTING"            -> {"DISCONNECT"}
      [] OTHER                                -> {}

SentTypes(c, t) ==
    CASE c.state = "REQUESTING_CONNECTION" /\ Asks(c, t) /\ c.attemptsLeft > 1 ->
            {"CONNECT_REQUEST"}
      [] c.state = "DECIDING_CONNECTION"      -> {"CONNECT_ACCEPT"}
      [] c.state = "CONNECTED" /\ "beat" \in t -> {"HEARTBEAT"}
      [] c.state = "DISCONNECTING"            -> {"DISCONNECT"}
      [] OTHER                                -> {}

\* Every connection that goes is announced, m_wasConnected or not.
UpdateConnectionsAnnounceAll(n, timers) ==
    LET after == [a \in Node |-> Updated(conns[n][a], timers[a])]
        gone  == {a \in Node : after[a].state = "DISCONNECTED"}
    IN  /\ phase' = [phase EXCEPT ![n] = "app"]
        /\ conns' = [conns EXCEPT ![n] =
                [a \in Node |-> IF a \in gone THEN NoConnection ELSE after[a]]]
        /\ net' = net \cup UNION {{Packet(type, n, a) :
                type \in SentTypes(conns[n][a], timers[a])} : a \in Node}
        /\ PeersFollow(n,
                {after[a].id : a \in {b \in Node : conns[n][b].state = "DECIDING_CONNECTION"}},
                {after[a].id : a \in gone})
        /\ UNCHANGED created

\* The pass, for given elapsed timers of each connection.
UpdateConnections(n, timers) ==
    LET after == [a \in Node |-> Updated(conns[n][a], timers[a])]
        gone  == {a \in Node : after[a].state = "DISCONNECTED"}
    IN  /\ phase' = [phase EXCEPT ![n] = "app"]
        /\ conns' = [conns EXCEPT ![n] =
                [a \in Node |-> IF a \in gone THEN NoConnection ELSE after[a]]]
        /\ net' = net \cup UNION {{Packet(type, n, a) :
                type \in SentTypes(conns[n][a], timers[a])} : a \in Node}
        /\ PeersFollow(n,
                {after[a].id : a \in {b \in Node : conns[n][b].state = "DECIDING_CONNECTION"}},
                {after[a].id : a \in {b \in gone : after[b].wasConnected}})
        /\ UNCHANGED created

updateConnections(n) ==
    \E retry \in SUBSET In(n, "REQUESTING_CONNECTION") :
    \E beat \in SUBSET In(n, "CONNECTED") :
    \E silence \in SUBSET In(n, "CONNECTED") :
        UpdateConnections(n, Elapsed(retry, beat, silence))

-----------------------------------------------------------------------------

Next ==
    \E n \in Node :
        \/ \E a \in Node : connect(n, a) \/ updateSend(n, a)
        \/ \E id \in ConnectionID : disconnect(n, id)
        \/ \E a \in Node : \/ onConnectRequest(n, a)
                           \/ onConnectAccept(n, a)
                           \/ onHeartbeat(n, a)
                           \/ onDisconnect(n, a)
                           \/ onUserPacket(n, a)
        \/ updateConnections(n)

Spec == Init /\ [][Next]_vars

\* An application calls updateReceive again and again, every updateReceive
\* comes to the end of what the socket holds, and time passes: sooner or
\* later a pass finds a request older than the retry time.  Nothing is
\* assumed of the network or of the application's other calls.
RetryElapsed(n) ==
    \E beat \in SUBSET In(n, "CONNECTED") :
    \E silence \in SUBSET In(n, "CONNECTED") :
        UpdateConnections(n, Elapsed(In(n, "REQUESTING_CONNECTION"), beat, silence))

FairSpec == Spec /\ \A n \in Node : WF_vars(RetryElapsed(n))

-----------------------------------------------------------------------------
(***************************************************************************)
(* Properties.                                                             *)
(***************************************************************************)

\* Connections are well formed, absent ones are NoConnection, and peers are
\* named by ids.
TypeOK ==
    /\ phase \in [Node -> {"app", "receive"}]
    /\ conns \in [Node -> [Node -> Connection]]
    /\ \A n, a \in Node : Has(n, a) \/ conns[n][a] = NoConnection
    /\ created \in [Node -> Nat]
    /\ \A n \in Node : created[n] <= MaxConnections[n]
    /\ peers \in [Node -> SUBSET ConnectionID]
    /\ net \subseteq [type : PacketType, from : Node, to : Node]

\* The managers and the application have a peer for exactly the connections
\* that have been connected and are not erased yet, under their ids: through
\* timeouts, refused and repeated handshakes, disconnects from either side
\* and frames that read several packets of one connection.
PeersMatchConnections ==
    \A n \in Node :
        peers[n] = {conns[n][a].id : a \in {b \in Remotes(n) : conns[n][b].wasConnected}}

\* No NSF_ASSERT of the PacketManager fails: none is told twice that a peer
\* connects or that one disconnects, and no packet is handed on for a
\* connection without a peer.
NoAssertFails == asserts = {}

\* Whoever a client is connected to is a server that has accepted it at some
\* time; crossing requests of two clients never connect them.
ConnectedWasAccepted ==
    \A n \in Clients : \A a \in Remotes(n) : conns[n][a].wasConnected =>
        a \in Servers /\ Packet("CONNECT_ACCEPT", a, n) \in net

Pending(n, a) ==
    conns[n][a].state \in {"REQUESTING_CONNECTION", "DECIDING_CONNECTION"}

\* A connection attempt ends, connected or failed or erased, even if the
\* network loses everything.
AttemptsEnd == \A n, a \in Node : Pending(n, a) ~> ~ Pending(n, a)

\* A disconnect the application asked for takes effect without the other
\* end's help.
DisconnectsEnd ==
    \A n, a \in Node :
        conns[n][a].state = "DISCONNECTING" ~> conns[n][a].state # "DISCONNECTING"

=============================================================================
