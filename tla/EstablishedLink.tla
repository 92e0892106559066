--------------------------- MODULE EstablishedLink ---------------------------
(***************************************************************************)
(* ReliableLink from the middle of a connection on: each end has sent      *)
(* three messages in its packet 0, they have been delivered, and both      *)
(* packets 0 have been acknowledged, end 0's by end 1's packet 0 and end   *)
(* 1's by a packet 1 with an unreliable message.  Copies of these packets  *)
(* do not come again.  The start of a connection, where message 0 may be   *)
(* overtaken (DeliveredFromFirst) and the ack of packet 0 may come while   *)
(* messages with that number wait to be sent (RetiredWasGiven of Session), *)
(* is behind.                                                              *)
(***************************************************************************)
EXTENDS ReliableLinkInvariant

Delivered == 3

\* The bounds leave room for what has happened already.
ASSUME EstablishedAssumption ==
    /\ MaxPackets[0] >= 2 /\ MaxPackets[1] >= 1
    /\ \A e \in End : MaxReliable[e] >= Delivered

EstablishedPeer(e) ==
    IF e = 0
    THEN [NewPacketPeer EXCEPT !.generator = 2, !.newest = 0,
              !.sent[0] = [sequence |-> 0, acked |-> TRUE],
              !.sent[1] = [sequence |-> 1, acked |-> FALSE],
              !.received = {0}]
    ELSE [NewPacketPeer EXCEPT !.generator = 1, !.newest = 1,
              !.sent[0] = [sequence |-> 0, acked |-> TRUE],
              !.received = {0, 1}]

InitEstablished ==
    /\ phase = [e \in End |-> "app"]
    /\ peer = [e \in End |-> EstablishedPeer(e)]
    /\ chan = [e \in End |-> [NewChannelPeer EXCEPT !.generator = Delivered,
                                                    !.lastDelivered = Delivered - 1]]
    /\ net = {}
    /\ loose = [e \in End |-> 1 - e]
    /\ read = [e \in End |-> 0 .. Delivered - 1]
    /\ delivered = [e \in End |-> [i \in 1 .. Delivered |-> i - 1]]

EstablishedSpec == InitEstablished /\ [][Next]_vars

-----------------------------------------------------------------------------

\* The channels implement OrderedChannel once a connection has got over its
\* start: whatever is lost, late, reordered, repeated or sent again, and however
\* messages share packets with the unreliable channel, the application is given
\* exactly the initial part of what was sent that has arrived, without waiting
\* for more, and a message is forgotten only after it has arrived.
Abs == INSTANCE OrderedChannel WITH
    accepted  <- [e \in End |-> chan[e].generator],
    arrived   <- read,
    delivered <- delivered,
    retired   <- [e \in End |-> Accepted(e) \ Outstanding(e)]

ImplementsOrderedChannel == Abs!InitAfter(Delivered) /\ [][Abs!Next]_Abs!vars

-----------------------------------------------------------------------------
(***************************************************************************)
(* Why it does: beyond LinkInv, packet 0 is acknowledged for good, so that *)
(* an ack can only name the packet a message was really written in, and    *)
(* the first message has been handed over.                                 *)
(***************************************************************************)
FirstPacketAcked(e) == peer[e].generator >= 1 /\ peer[e].sent[0].acked

FiledMeansWritten(e) ==
    \A m \in chan[e].reliable : m.packet # 0 => m.seq \in Written(e)

FirstDelivered(e) == delivered[e] # <<>> /\ delivered[e][1] = 0

EstablishedInv ==
    /\ LinkInv
    /\ \A e \in End : FirstPacketAcked(e) /\ FiledMeansWritten(e) /\ FirstDelivered(e)

=============================================================================
