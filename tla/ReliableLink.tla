---------------------------- MODULE ReliableLink ----------------------------
(***************************************************************************)
(* One established connection: the channels (ChannelPeer) over the packet  *)
(* layer (PacketPeer) at both ends, and the datagrams between them, which  *)
(* may be lost, late, reordered or duplicated.                             *)
(*                                                                         *)
(* Each end is one thread.  It is in the application, in updateReceive's   *)
(* loop over the socket, or in updateSend's loop over the packets; the     *)
(* other end and the network may move at any time.  What the application   *)
(* does inside onReceived is the same as doing it right after              *)
(* updateReceive, because the frame ends with the delivery.                *)
(***************************************************************************)
EXTENDS PacketPeer, ChannelPeer

CONSTANTS
    MaxPackets,     \* bound: packets, for each end
    MaxReliable,    \* bound: reliable messages, for each end
    MaxUnreliable,  \* bound: unreliable messages, for each end
    MessageSizes    \* sizes of the messages each end's application sends

End == {0, 1}
Other(e) == 1 - e

ASSUME BoundsAssumption ==
    /\ MaxPackets \in [End -> 0 .. RingSize]
    /\ MaxReliable \in [End -> 0 .. HALF_MAX_SEQUENCE_NUMBER - 1]
    /\ MaxUnreliable \in [End -> Nat]
    /\ MessageSizes \in [End -> SUBSET Nat]

VARIABLES
    phase,      \* where each end's thread is
    peer,       \* its packet layer
    chan,       \* its channels
    net,        \* every packet sent
    loose,      \* number of unreliable messages each end has sent
    read,       \* history: reliable messages handed to onMessageReceived
    delivered   \* history: reliable messages given to the application

vars == <<phase, peer, chan, net, loose, read, delivered>>

Init ==
    /\ phase = [e \in End |-> "app"]
    /\ peer = [e \in End |-> NewPacketPeer]
    /\ chan = [e \in End |-> NewChannelPeer]
    /\ net = {}
    /\ loose = [e \in End |-> 0]
    /\ read = [e \in End |-> {}]
    /\ delivered = [e \in End |-> <<>>]

-----------------------------------------------------------------------------
(***************************************************************************)
(* The application: INSF::send.  A message that is too large is refused.   *)
(***************************************************************************)
sendReliable(e, size) ==
    /\ phase[e] = "app"
    /\ SizeAccepted(size)
    /\ chan[e].generator < MaxReliable[e]
    /\ chan' = [chan EXCEPT ![e] = SendReliable(@, size)]
    /\ UNCHANGED <<phase, peer, net, loose, read, delivered>>

sendUnreliable(e, size) ==
    /\ phase[e] = "app"
    /\ SizeAccepted(size)
    /\ loose[e] < MaxUnreliable[e]
    /\ chan' = [chan EXCEPT ![e] = SendUnreliable(@, loose[e], size)]
    /\ loose' = [loose EXCEPT ![e] = @ + 1]
    /\ UNCHANGED <<phase, peer, net, read, delivered>>

\* Time passes: the messages written up to packet n become due again.  The
\* clock is the same for all of them, so the oldest are due first.  Time that
\* passes inside updateReceive is only read by the next updateSend.
resendTime(e) ==
    /\ phase[e] \in {"app", "send"}
    /\ \E m \in chan[e].reliable :
        /\ ~ m.due
        /\ chan' = [chan EXCEPT ![e] = AfterResendTime(@, m.packet)]
    /\ UNCHANGED <<phase, peer, net, loose, read, delivered>>

-----------------------------------------------------------------------------
(***************************************************************************)
(* updateSend: packets go out while there is data to send.                 *)
(***************************************************************************)
sendPacket(e) ==
    /\ phase[e] \in {"app", "send"}
    /\ HasDataToSend(chan[e])
    /\ peer[e].generator < MaxPackets[e]
    /\ LET p       == peer[e]
           c       == chan[e]
           written == AfterWrite(c, p.generator)
       IN  /\ net' = net \cup {[from       |-> e,
                                seq        |-> p.generator,
                                ack        |-> p.newest,
                                ackBits    |-> GenerateAckBits(p),
                                reliable   |-> WrittenReliable(c),
                                unreliable |-> WrittenUnreliable(c),
                                size       |-> PacketSize(c)]}
           /\ peer' = [peer EXCEPT ![e] = RecordSentPacket(p)]
           /\ chan' = [chan EXCEPT ![e] = written]
           /\ phase' = [phase EXCEPT ![e] =
                            IF HasDataToSend(written) THEN "send" ELSE "app"]
    /\ UNCHANGED <<loose, read, delivered>>

(***************************************************************************)
(* updateReceive: one step per packet taken from the socket (the messages  *)
(* are read first, then the acks), then delivery to the application.       *)
(***************************************************************************)
onReceivePacket(e, p) ==
    /\ phase[e] \in {"app", "receive"}
    /\ p.from = Other(e)
    /\ LET noted == RecordReceivedPacket(peer[e], p.seq)
           acks  == NewlyAcked(noted, p.ack, p.ackBits)
       IN  /\ peer' = [peer EXCEPT ![e] = MarkAcked(noted, acks)]
           /\ chan' = [chan EXCEPT ![e] =
                            AfterAcks(AfterRead(@, p.reliable, p.unreliable), acks)]
    /\ phase' = [phase EXCEPT ![e] = "receive"]
    /\ read' = [read EXCEPT ![e] = @ \cup p.reliable]
    /\ UNCHANGED <<net, loose, delivered>>

updateReceiveEnds(e) ==
    /\ phase[e] \in {"app", "receive"}
    /\ delivered' = [delivered EXCEPT ![e] = @ \o chan[e].toDeliver]
    /\ chan' = [chan EXCEPT ![e] = AfterDeliver(@)]
    /\ phase' = [phase EXCEPT ![e] = "app"]
    /\ UNCHANGED <<peer, net, loose, read>>

Next ==
    \E e \in End :
        \/ \E size \in MessageSizes[e] : sendReliable(e, size) \/ sendUnreliable(e, size)
        \/ resendTime(e)
        \/ sendPacket(e)
        \/ \E p \in net : onReceivePacket(e, p)
        \/ updateReceiveEnds(e)

Spec == Init /\ [][Next]_vars

-----------------------------------------------------------------------------
(***************************************************************************)
(* Properties.                                                             *)
(***************************************************************************)

\* Types of both layers at both ends, of the packets and of the histories.
TypeOK ==
    /\ phase \in [End -> {"app", "receive", "send"}]
    /\ peer \in [End -> PacketPeerType]
    /\ chan \in [End -> ChannelPeerType]
    /\ \A p \in net :
        /\ p.from \in End /\ {p.seq, p.ack} \subseteq SequenceNumber
        /\ p.ackBits \subseteq AckDistance
        /\ p.reliable \subseteq SequenceNumber /\ p.unreliable \subseteq Nat
    /\ loose \in [End -> Nat]
    /\ read \in [End -> SUBSET SequenceNumber]
    /\ delivered \in [End -> Seq(SequenceNumber)]

Outstanding(e) == {m.seq : m \in chan[e].reliable}

Accepted(e) == 0 .. chan[e].generator - 1

Written(e) == UNION {p.reliable : p \in {q \in net : q.from = e}}

\* What has reached the end of the receiving side, in order.
Arrived(e) == delivered[e] \o chan[e].toDeliver

\* Whatever is lost, reordered, duplicated or sent again, the application
\* gets reliable messages in the order they were sent, each once and without
\* a gap, from the first one it gets.
DeliveredContiguous ==
    \A e \in End : \A i \in DOMAIN delivered[e] :
        delivered[e][i] = delivered[e][1] + i - 1

\* A reliable message an end has taken from a packet is not forgotten: it was
\* or will be delivered, it waits in m_messagesToStore, or it lies before the
\* first message delivered.  (Its sender may have retired it already.)
ReadNotForgotten ==
    \A e \in End : \A s \in read[e] :
        \/ \E i \in DOMAIN Arrived(e) : Arrived(e)[i] = s
        \/ s \in chan[e].stored
        \/ Arrived(e) # <<>> /\ s < Arrived(e)[1]

\* No stored message is deliverable: each waits for a missing one before it.
StoredWaitsForGap ==
    \A e \in End : chan[e].stored # {} =>
        /\ chan[e].lastDelivered + 1 \notin read[e]
        /\ \A s \in chan[e].stored : s > chan[e].lastDelivered + 1

\* A message that has travelled in a packet leaves the resend list only after
\* the other end has read it.
RetiredAfterRead ==
    \A e \in End : Written(e) \ Outstanding(e) \subseteq read[Other(e)]

\* When updateSend's loop over the packets of a connection ends, every message
\* that was due has been written and no unreliable one is left: a packet that
\* is full does not end the loop for the messages behind it.
SendLoopDrains ==
    [][\A e \in End :
        peer'[e].generator # peer[e].generator /\ phase'[e] = "app" =>
            /\ \A m \in chan'[e].reliable : ~ m.due
            /\ chan'[e].unreliable = {}]_vars

\* While updateSend's loop over the packets of a connection goes on, it gets
\* somewhere: a packet after which there is still data to send has taken a
\* message.  One that takes none leaves the loop where it was, for good; send
\* refuses what is "too large to fit one packet" so that this does not happen.
SendLoopProgress ==
    [][\A e \in End :
        peer'[e].generator # peer[e].generator /\ phase'[e] = "send" =>
            \E p \in net' \ net : p.reliable # {} \/ p.unreliable # {}]_vars

\* No datagram is larger than MAX_PACKET_SIZE_BYTES, however messages are
\* combined in it.
PacketWithinLimit == \A p \in net : p.size <= MAX_PACKET_SIZE_BYTES

\* Reliable delivery from the first message on: what the application gets is
\* an initial part of what was sent.
DeliveredFromFirst ==
    \A e \in End : delivered[e] # <<>> => delivered[e][1] = 0

=============================================================================
