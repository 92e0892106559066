------------------------------ MODULE Session ------------------------------
(***************************************************************************)
(* NSFImpl: the managers of every process together.  ConnectionManager     *)
(* makes and ends connections; behind each id it has announced stand a     *)
(* PacketPeer and the channels of a Peer, made and erased by the callbacks *)
(* that NSFImpl wires.  A step of ConnectionManager moves all of them.     *)
(*                                                                         *)
(* User packets carry no name of the connection they were sent for, only   *)
(* addresses: whatever arrives from an address is taken for the connection *)
(* that the address has now.                                               *)
(*                                                                         *)
(* Messages are small and reliable.  Everything due fits one packet, so    *)
(* updateSend's loop over the packets of a connection is one step.         *)
(***************************************************************************)
EXTENDS ConnectionManager, PacketPeer, ChannelPeer

CONSTANTS
    MaxPackets,     \* bound: packets an end sends for one connection
    MaxReliable,    \* bound: messages an end's application sends over one
    MessageSize     \* their size

ASSUME SessionAssumption ==
    /\ MaxPackets \in 0 .. RingSize
    /\ {MaxReliable, MessageSize} \subseteq Nat
    /\ PacketHeaderSizeBytes + MaxReliable * (MessageHeaderSizeBytes + MessageSize)
            <= MaxMessageSizeBytes

VARIABLES
    link,       \* for each process, the peers behind its announced ids
    data,       \* every user packet sent; session, the sender's id for its
                \* connection, is history and not in the packet
    taken,      \* history: messages a channel took, with their session
    given       \* history: those given to the application

dataVars == <<link, data, taken, given>>
sessionVars == <<vars, dataVars>>

NewLink == [packets |-> NewPacketPeer, chan |-> NewChannelPeer]

SessionInit ==
    /\ Init
    /\ link = [n \in Node |-> [id \in peers[n] |-> NewLink]]
    /\ data = {}
    /\ taken = [n \in Node |-> {}]
    /\ given = [n \in Node |-> {}]

\* No peer is erased.
LinksKept(n, after) ==
    link' = [link EXCEPT ![n] = [id \in peers[n] \cup peers'[n] |->
                IF id \in peers[n] THEN after[id] ELSE NewLink]]

\* onConnected and onDisconnected of the PacketManager and the ChannelManager
\* make and erase peers; `after` is what becomes of those that stay.
LinksFollow(n, after) ==
    link' = [link EXCEPT ![n] = [id \in peers'[n] |->
                IF id \in peers[n] THEN after[id] ELSE NewLink]]

-----------------------------------------------------------------------------
(***************************************************************************)
(* The application.                                                        *)
(***************************************************************************)
Connect(n, a) == connect(n, a) /\ UNCHANGED dataVars

Disconnect(n, id) == disconnect(n, id) /\ UNCHANGED dataVars

\* ChannelManager::send to one peer, to all of them, or to all but one.
Recipients(n) ==
    {{id} : id \in peers[n]} \cup {peers[n]} \cup {peers[n] \ {id} : id \in peers[n]}

send(n, to) ==
    /\ phase[n] = "app"
    /\ to # {} /\ \A id \in to : link[n][id].chan.generator < MaxReliable
    /\ link' = [link EXCEPT ![n] = [id \in peers[n] |->
            IF id \in to THEN [link[n][id] EXCEPT !.chan = SendReliable(@, MessageSize)]
            ELSE link[n][id]]]
    /\ UNCHANGED <<vars, data, taken, given>>

\* The resend time passes for what was written up to some packet.
resendTime(n, id) ==
    /\ phase[n] = "app"
    /\ LET c == link[n][id].chan
       IN  \E m \in c.reliable :
            /\ ~ m.due
            /\ link' = [link EXCEPT ![n][id].chan = AfterResendTime(c, m.packet)]
    /\ UNCHANGED <<vars, data, taken, given>>

-----------------------------------------------------------------------------
(***************************************************************************)
(* updateSend for the connection to a, when its channels have data.        *)
(***************************************************************************)
UpdateSend(n, a) ==
    /\ updateSend(n, a)
    /\ LET id == conns[n][a].id
           l  == link[n][id]
           p  == l.packets
       IN  /\ HasDataToSend(l.chan)
           /\ p.generator < MaxPackets
           /\ data' = data \cup {[from     |-> n,
                                  to       |-> a,
                                  session  |-> id,
                                  seq      |-> p.generator,
                                  ack      |-> p.newest,
                                  ackBits  |-> GenerateAckBits(p),
                                  reliable |-> WrittenReliable(l.chan)]}
           /\ link' = [link EXCEPT ![n][id] =
                            [packets |-> RecordSentPacket(p),
                             chan    |-> AfterWrite(l.chan, p.generator)]]
    /\ UNCHANGED <<taken, given>>

-----------------------------------------------------------------------------
(***************************************************************************)
(* updateReceive.  Packets that are not user packets may make a peer; user *)
(* packets are read and acknowledge for the connection of their address.   *)
(***************************************************************************)
ControlPacket(n, a) ==
    /\ \/ onConnectRequest(n, a)
       \/ onConnectAccept(n, a)
       \/ onHeartbeat(n, a)
       \/ onDisconnect(n, a)
    /\ LinksFollow(n, link[n])
    /\ UNCHANGED <<data, taken, given>>

InOrder(c) == {c.toDeliver[i] : i \in DOMAIN c.toDeliver}

Holds(c) == InOrder(c) \cup c.stored

\* The packet's acks are handled but its messages are lost.
UserPacketUnread(n, a, p) ==
    /\ onUserPacket(n, a)
    /\ p.from = a /\ p.to = n
    /\ LET id    == conns[n][a].id
           l     == link[n][id]
           noted == RecordReceivedPacket(l.packets, p.seq)
           acks  == NewlyAcked(noted, p.ack, p.ackBits)
       IN  /\ link' = [link EXCEPT ![n][id] = [packets |-> MarkAcked(noted, acks),
                                               chan    |-> AfterAcks(l.chan, acks)]]
    /\ UNCHANGED <<data, taken, given>>

UserPacket(n, a, p) ==
    /\ onUserPacket(n, a)
    /\ p.from = a /\ p.to = n
    /\ LET id    == conns[n][a].id
           l     == link[n][id]
           noted == RecordReceivedPacket(l.packets, p.seq)
           acks  == NewlyAcked(noted, p.ack, p.ackBits)
           read  == AfterRead(l.chan, p.reliable, {})
       IN  /\ link' = [link EXCEPT ![n][id] = [packets |-> MarkAcked(noted, acks),
                                               chan    |-> AfterAcks(read, acks)]]
           /\ taken' = [taken EXCEPT ![n] = @ \cup
                {[from |-> a, session |-> p.session, seq |-> s, by |-> id] :
                    s \in p.reliable \cap (Holds(read) \ Holds(l.chan))}]
    /\ UNCHANGED <<data, given>>

\* The pass over the connections ends updateReceive of the ConnectionManager;
\* the ChannelManager then delivers what the peers that are left hold.
FrameEnds(n) ==
    /\ LinksFollow(n, [id \in peers[n] |->
            [link[n][id] EXCEPT !.chan = AfterDeliver(@)]])
    /\ given' = [given EXCEPT ![n] = @ \cup {t \in taken[n] :
            t.by \in peers[n] \cap peers'[n] /\ t.seq \in InOrder(link[n][t.by].chan)}]
    /\ UNCHANGED <<data, taken>>

UpdateReceiveEnds(n) == updateConnections(n) /\ FrameEnds(n)

-----------------------------------------------------------------------------

SessionNext ==
    \E n \in Node :
        \/ \E a \in Node : Connect(n, a) \/ UpdateSend(n, a) \/ ControlPacket(n, a)
        \/ \E id \in ConnectionID : Disconnect(n, id)
        \/ \E to \in Recipients(n) : send(n, to)
        \/ \E id \in peers[n] : resendTime(n, id)
        \/ \E a \in Node, p \in data : UserPacket(n, a, p)
        \/ UpdateReceiveEnds(n)

SessionSpec == SessionInit /\ [][SessionNext]_sessionVars

-----------------------------------------------------------------------------
(***************************************************************************)
(* Properties.                                                             *)
(***************************************************************************)

Link == [packets : PacketPeerType, chan : ChannelPeerType]

UserData ==
    [from : Node, to : Node, session : ConnectionID,
     seq : SequenceNumber, ack : SequenceNumber,
     ackBits : SUBSET AckDistance, reliable : SUBSET SequenceNumber]

\* Exactly the announced connections have the peers of the other managers, of
\* their types, user packets are well formed, and what was given had been taken.
SessionTypeOK ==
    /\ DOMAIN link = Node /\ \A n \in Node : link[n] \in [peers[n] -> Link]
    /\ data \subseteq UserData
    /\ DOMAIN taken = Node /\ DOMAIN given = Node
    /\ \A n \in Node : given[n] \subseteq taken[n]

\* The messages of the connection with this id that its sender no longer keeps.
Retired(n, id) ==
    LET c == link[n][id].chan
    IN  0 .. c.generator - 1 \ {m.seq : m \in c.reliable}

\* A reliable message that its sender no longer keeps, while its connection
\* stands, has been given to the application at the other end, or waits there
\* behind a missing one.  A handshake whose packets overtake one another, a
\* timeout or disconnect between reading a message and delivering it, packets
\* for a connection not yet or no longer there: none of them lets a message
\* be acknowledged that nobody gets.
RetiredWasGiven ==
    \A n \in Node : \A a \in Remotes(n) :
        conns[n][a].id \in peers[n] =>
            \A s \in Retired(n, conns[n][a].id) : \E t \in taken[a] :
                /\ t.from = n /\ t.session = conns[n][a].id /\ t.seq = s
                /\ \/ t \in given[a]
                   \/ t.by \in peers[a] /\ s \in link[a][t.by].chan.stored

=============================================================================
