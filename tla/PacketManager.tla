--------------------------- MODULE PacketManager ---------------------------
(***************************************************************************)
(* PacketManager at the two ends of one connection, with the datagrams     *)
(* between them.  The network is the set of packets ever sent: a packet    *)
(* may arrive late, out of order, more than once or never.  An end's       *)
(* actions run to completion because each process is single-threaded.      *)
(*                                                                         *)
(* Packets are followed for less than one cycle of sequence numbers, so a  *)
(* sequence number names one packet; the rings, which are much smaller,    *)
(* do wrap when MaxPackets exceeds RingSize.                               *)
(***************************************************************************)
EXTENDS PacketPeer

CONSTANT MaxPackets     \* bound: packets each end sends

ASSUME MaxPacketsAssumption == MaxPackets \in Nat /\ MaxPackets < SeqCycle

VARIABLES
    peer,       \* the PacketPeer of each end
    net,        \* every packet sent: header, sender, and what the sender had
                \* received at that moment (seen, history only)
    got,        \* history: packets each end's onReceivePacket has handled
    reports     \* history: how often onPacketAcked named each own packet

vars == <<peer, net, got, reports>>

End == {0, 1}
Other(e) == 1 - e

PacketNum == 0 .. MaxPackets - 1

Packet ==
    [from : End, seq : PacketNum, ack : SequenceNumber,
     ackBits : SUBSET AckDistance, seen : SUBSET PacketNum]

Init ==
    /\ peer = [e \in End |-> NewPacketPeer]
    /\ net = {}
    /\ got = [e \in End |-> {}]
    /\ reports = [e \in End |-> [n \in PacketNum |-> 0]]

onSendPacket(e) ==
    /\ peer[e].generator < MaxPackets
    /\ peer' = [peer EXCEPT ![e] = RecordSentPacket(@)]
    /\ net' = net \cup {[from    |-> e,
                         seq     |-> peer[e].generator,
                         ack     |-> peer[e].newest,
                         ackBits |-> GenerateAckBits(peer[e]),
                         seen    |-> got[e]]}
    /\ UNCHANGED <<got, reports>>

onReceivePacket(e, p) ==
    /\ p.from = Other(e)
    /\ LET noted == RecordReceivedPacket(peer[e], p.seq)
           acks  == NewlyAcked(noted, p.ack, p.ackBits)
       IN  /\ peer' = [peer EXCEPT ![e] = MarkAcked(noted, acks)]
           /\ reports' = [reports EXCEPT ![e] =
                [n \in PacketNum |-> IF n \in acks THEN @[n] + 1 ELSE @[n]]]
    /\ got' = [got EXCEPT ![e] = @ \cup {p.seq}]
    /\ UNCHANGED net

Next == \E e \in End : onSendPacket(e) \/ \E p \in net : onReceivePacket(e, p)

Spec == Init /\ [][Next]_vars

-----------------------------------------------------------------------------
(***************************************************************************)
(* Properties.                                                             *)
(***************************************************************************)

\* The types of the two peers, of every packet in the network and of the
\* history variables.
TypeOK ==
    /\ peer \in [End -> PacketPeerType]
    /\ net \subseteq Packet
    /\ got \in [End -> SUBSET PacketNum]
    /\ reports \in [End -> [PacketNum -> Nat]]

Acked(e) == {n \in PacketNum : reports[e][n] > 0}

\* onPacketAcked only ever names packets the other end has really received:
\* the ring slots the receiver advertises and the slots the sender matches
\* them against speak of the same packets, whatever was lost, duplicated or
\* reordered in between.  (The reliable channel forgets a message on the
\* strength of this callback.)
AckTruthful == \A e \in End : Acked(e) \subseteq got[Other(e)]

\* onPacketAcked names a packet at most once, although the same packet is
\* advertised by up to AckWindow + 1 headers and headers are duplicated.
AckedOnce == \A e \in End, n \in PacketNum : reports[e][n] <= 1

\* m_receivedSequenceNumber is the newest packet received, from the
\* artificial start value MAX_SEQUENCE_NUMBER on and in every arrival order.
NewestIsLatest ==
    \A e \in End : got[e] # {} =>
        /\ peer[e].newest \in got[e]
        /\ \A n \in got[e] : n <= peer[e].newest

\* The packet layer implements what PacketAcks promises: true news only, and
\* every packet that is handled brings the news of all packets its sender had
\* received within the ack window below its newest.  Neither the loops over the
\* ack bits nor the rings lose any of it, at either end of the window.
Abs == INSTANCE PacketAcks WITH
    Window   <- AckWindow,
    sent     <- [e \in End |-> peer[e].generator],
    inFlight <- {[from |-> p.from, num |-> p.seq, seen |-> p.seen] : p \in net},
    acked    <- [e \in End |-> Acked(e)]

ImplementsPacketAcks == Abs!Spec

=============================================================================
