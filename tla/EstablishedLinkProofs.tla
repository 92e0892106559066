------------------------ MODULE EstablishedLinkProofs ------------------------
(***************************************************************************)
(* Proofs that LinkInv holds from the middle of a connection on as well,   *)
(* and that the two ends then implement OrderedChannel, step by step, for  *)
(* all constants that satisfy the named assumptions.                       *)
(***************************************************************************)
EXTENDS EstablishedLink, ReliableLinkProofs, TLAPS

-----------------------------------------------------------------------------
(***************************************************************************)
(* The start.                                                              *)
(***************************************************************************)

\* The rings have room for the packets sent already, the cycle for the messages.
LEMMA RoomFacts ==
    /\ 0 \in Slot /\ 1 \in Slot
    /\ 0 .. 3 \subseteq SequenceNumber
    /\ HALF_MAX_SEQUENCE_NUMBER \in Nat /\ HALF_MAX_SEQUENCE_NUMBER >= 4
    /\ \A e \in End : MaxReliable[e] \in Nat /\ MaxReliable[e] >= 3
<1>1. /\ MaxPackets[0] \in 0 .. RingSize /\ MaxPackets[0] >= 2
      /\ \A e \in End : /\ MaxReliable[e] \in 0 .. HALF_MAX_SEQUENCE_NUMBER - 1
                        /\ MaxReliable[e] >= 3
      /\ 0 \in End
  BY BoundsAssumption, EstablishedAssumption DEF End, Delivered
<1>2. HALF_MAX_SEQUENCE_NUMBER \in Nat /\ 2 * HALF_MAX_SEQUENCE_NUMBER = SeqCycle
  BY HalfIsHalf
<1> QED
  BY <1>1, <1>2, RingAssumption, SeqCycleAssumption DEF Slot, SequenceNumber

\* The packet side of an end where the model begins.
LEMMA EstablishedPeerFacts ==
    ASSUME NEW e \in End
    PROVE  LET p == EstablishedPeer(e)
           IN  /\ p \in PacketPeerType
               /\ p.generator = 2 - e
               /\ p.newest = e
               /\ p.received = 0 .. e
               /\ p.sent[0].acked
               /\ \A i \in Slot : p.sent[i].sequence \in {0, i}
<1> DEFINE N == [i \in Slot |-> [sequence |-> 0, acked |-> FALSE]]
           A == [N EXCEPT ![0] = [sequence |-> 0, acked |-> TRUE]]
           B == [A EXCEPT ![1] = [sequence |-> 1, acked |-> FALSE]]
           P == EstablishedPeer(e)
<1>1. /\ A \in [Slot -> [sequence : SequenceNumber, acked : BOOLEAN]]
      /\ A[0].acked
      /\ \A i \in Slot : A[i].sequence = 0
  <2>1. \A i \in Slot : A[i] = IF i = 0 THEN [sequence |-> 0, acked |-> TRUE]
                                        ELSE [sequence |-> 0, acked |-> FALSE]
    OBVIOUS
  <2>2. A = [i \in Slot |-> A[i]]
    OBVIOUS
  <2> HIDE DEF A
  <2>3. 0 \in Slot /\ 0 \in SequenceNumber
    BY RoomFacts
  <2>4. \A i \in Slot : A[i] \in [sequence : SequenceNumber, acked : BOOLEAN]
    <3>1. \A b \in BOOLEAN :
            [sequence |-> 0, acked |-> b] \in [sequence : SequenceNumber, acked : BOOLEAN]
      BY <2>3
    <3> QED
      BY <2>1, <3>1
  <2>5. A \in [Slot -> [sequence : SequenceNumber, acked : BOOLEAN]]
    BY <2>2, <2>4
  <2>6. A[0].acked
    BY <2>1, <2>3
  <2>7. \A i \in Slot : A[i].sequence = 0
    BY <2>1
  <2> QED
    BY <2>5, <2>6, <2>7
<1> HIDE DEF A
<1>4. /\ B \in [Slot -> [sequence : SequenceNumber, acked : BOOLEAN]]
      /\ B[0].acked
      /\ \A i \in Slot : B[i].sequence \in {0, i}
  <2>1. \A i \in Slot : B[i] = IF i = 1 THEN [sequence |-> 1, acked |-> FALSE] ELSE A[i]
    BY <1>1
  <2> QED
    BY <2>1, <1>1, RoomFacts
<1>2. CASE e = 0
  <2>1. P = [generator |-> 2, newest |-> 0, sent |-> B, received |-> {0}]
    BY <1>2 DEF EstablishedPeer, NewPacketPeer, A
  <2>2. {0} = 0 .. e /\ {0} \subseteq Slot /\ {0, 2} \subseteq SequenceNumber
    BY <1>2, RoomFacts
  <2> HIDE DEF A, B, P
  <2> QED
    BY <2>1, <2>2, <1>4, <1>2 DEF PacketPeerType, P
<1>3. CASE e = 1
  <2>1. P = [generator |-> 1, newest |-> 1, sent |-> A, received |-> {0, 1}]
    <3>1. e # 0
      BY <1>3
    <3> QED
      BY <3>1 DEF EstablishedPeer, NewPacketPeer, A
  <2>2. {0, 1} = 0 .. e /\ {0, 1} \subseteq Slot /\ {0, 1} \subseteq SequenceNumber
    BY <1>3, RoomFacts
  <2> HIDE DEF A, B, P
  <2> QED
    BY <2>1, <2>2, <1>1, <1>3 DEF PacketPeerType, P
<1> QED
  BY <1>2, <1>3 DEF End

\* Its messages: those before Delivered have been sent, read and retired.
LEMMA EstablishedChannelFacts ==
    LET c == [NewChannelPeer EXCEPT !.generator = Delivered,
                                    !.lastDelivered = Delivered - 1]
    IN  /\ c \in ChannelPeerType
        /\ c.generator = 3 /\ c.lastDelivered = 2
        /\ c.reliable = {} /\ c.toDeliver = <<>> /\ c.stored = {}
<1> DEFINE c == [NewChannelPeer EXCEPT !.generator = Delivered,
                                       !.lastDelivered = Delivered - 1]
<1>1. 2 \in SequenceNumber /\ 3 \in SequenceNumber /\ Delivered = 3 /\ Delivered - 1 = 2
  BY RoomFacts DEF Delivered
<1>2. c \in ChannelPeerType /\ c.generator = 3 /\ c.lastDelivered = 2
  BY <1>1, NewChannelPeerFacts DEF ChannelPeerType
<1>3. c.reliable = {} /\ c.toDeliver = <<>> /\ c.stored = {}
  BY DEF NewChannelPeer
<1> QED
  BY <1>2, <1>3

\* Three messages each way are behind both ends.
THEOREM InitEstablishedInv == InitEstablished => EstablishedInv
<1> SUFFICES ASSUME InitEstablished PROVE EstablishedInv
  OBVIOUS
<1>1. \A e \in End :
        /\ peer[e] \in PacketPeerType
        /\ peer[e].generator = 2 - e
        /\ peer[e].newest = e
        /\ peer[e].received = 0 .. e
        /\ peer[e].sent[0].acked
        /\ SentRing(e)
  <2> SUFFICES ASSUME NEW e \in End
               PROVE  /\ peer[e] \in PacketPeerType
                      /\ peer[e].generator = 2 - e
                      /\ peer[e].newest = e
                      /\ peer[e].received = 0 .. e
                      /\ peer[e].sent[0].acked
                      /\ SentRing(e)
    OBVIOUS
  <2>1. peer[e] = EstablishedPeer(e)
    BY DEF InitEstablished
  <2> QED
    BY <2>1, EstablishedPeerFacts DEF SentRing
<1>2. \A e \in End :
        /\ chan[e] \in ChannelPeerType
        /\ chan[e].generator = 3 /\ chan[e].lastDelivered = 2
        /\ chan[e].reliable = {} /\ chan[e].toDeliver = <<>> /\ chan[e].stored = {}
  BY EstablishedChannelFacts DEF InitEstablished
<1>3. \A e \in End : read[e] = 0 .. 2 /\ delivered[e] = Run(0, 3)
  BY DEF InitEstablished, Delivered, Run
<1>4. ASSUME NEW e \in End
      PROVE  /\ Other(e) \in End
             /\ \/ e = 0 /\ Other(e) = 1
                \/ e = 1 /\ Other(e) = 0
  BY DEF End, Other
<1>5. net = {} /\ \A e \in End : Written(e) = {}
  BY DEF InitEstablished, Written
<1>6. Run(0, 3) \in Seq(SequenceNumber) /\ Len(Run(0, 3)) = 3 /\ Run(0, 3)[1] = 0
  <2>1. Run(0, 3) \in [1 .. 3 -> SequenceNumber]
    BY RoomFacts DEF Run
  <2>2. Run(0, 3) \in Seq(SequenceNumber)
    BY <2>1, SeqDef
  <2>3. Len(Run(0, 3)) = 3
    BY RunFacts
  <2>4. 1 \in 1 .. 3 /\ Run(0, 3)[1] = 0
    BY DEF Run
  <2> QED
    BY <2>2, <2>3, <2>4
<1>7. TypeOK
  <2>1. /\ peer \in [End -> PacketPeerType]
        /\ chan \in [End -> ChannelPeerType]
    BY <1>1, <1>2 DEF InitEstablished
  <2>2. /\ phase \in [End -> {"app", "receive", "send"}]
        /\ loose \in [End -> Nat]
    BY DEF InitEstablished, End
  <2>3. /\ read \in [End -> SUBSET SequenceNumber]
        /\ delivered \in [End -> Seq(SequenceNumber)]
    <3>1. 0 .. 2 \in SUBSET SequenceNumber
      BY RoomFacts
    <3>2. read = [e \in End |-> 0 .. 2] /\ delivered = [e \in End |-> Run(0, 3)]
      BY DEF InitEstablished, Delivered, Run
    <3> QED
      BY <3>1, <3>2, <1>6
  <2> QED
    BY <2>1, <2>2, <2>3, <1>5 DEF TypeOK
<1>8. ASSUME NEW e \in End PROVE InStep(chan[e], delivered[e], read[e])
  <2>1. Len(chan[e].toDeliver) = 0 /\ chan[e].toDeliver = Run(3, 0)
    BY <1>2 DEF Run
  <2>2. InStepFrom(0, chan[e], delivered[e], read[e])
    <3>1. /\ Len(delivered[e]) = 3
          /\ 0 .. 3 - 1 \subseteq read[e] /\ 3 \notin read[e] /\ read[e] # {}
          /\ chan[e].stored = {s \in read[e] : s > 3}
      <4>1. Len(delivered[e]) = 3
        BY <1>3, <1>6
      <4>2. \A s \in 0 .. 2 : ~ (s > 3)
        OBVIOUS
      <4>3. 0 .. 3 - 1 = 0 .. 2 /\ 3 \notin 0 .. 2 /\ 0 \in 0 .. 2
        OBVIOUS
      <4> QED
        BY <4>1, <4>2, <4>3, <1>2, <1>3
    <3> QED
      BY <2>1, <3>1, <1>2, <1>3 DEF InStepFrom
  <2> QED
    BY <2>2, RoomFacts DEF InStep
<1>9. ASSUME NEW e \in End PROVE NumbersAccepted(e)
  <2>1. peer[e].generator <= MaxPackets[e]
    BY <1>1, <1>4, EstablishedAssumption
  <2>2. chan[e].generator <= MaxReliable[e]
    BY <1>2, RoomFacts
  <2> QED
    BY <2>1, <2>2, <1>2, <1>3, <1>4, <1>5 DEF NumbersAccepted, Outstanding, Accepted
<1>10. ASSUME NEW e \in End PROVE FiledUnderCarrier(e) /\ FiledMeansWritten(e)
  BY <1>2 DEF FiledUnderCarrier, FiledMeansWritten
<1>11. ASSUME NEW e \in End PROVE ReceivedRead(e)
  BY <1>1, <1>4, <1>5 DEF ReceivedRead
<1>12. RetiredAfterRead
  BY <1>5 DEF RetiredAfterRead
<1>13. LinkInv
  BY <1>1, <1>5, <1>7, <1>8, <1>9, <1>10, <1>11, <1>12 DEF LinkInv, NumberedOnce
<1>14. ASSUME NEW e \in End PROVE FirstPacketAcked(e) /\ FirstDelivered(e)
  BY <1>1, <1>3, <1>4, <1>6 DEF FirstPacketAcked, FirstDelivered
<1> QED
  BY <1>10, <1>13, <1>14 DEF EstablishedInv

-----------------------------------------------------------------------------
(***************************************************************************)
(* EstablishedInv is inductive.                                            *)
(***************************************************************************)

\* Packet 0 stays acknowledged: its number is not used again.
LEMMA FirstPacketStaysAcked ==
    ASSUME EstablishedInv, [Next]_vars, NEW e \in End
    PROVE  FirstPacketAcked(e)'
<1>1. /\ peer[e] \in PacketPeerType
      /\ peer[e].generator \in Nat /\ peer[e].generator >= 1
      /\ peer[e].sent[0].acked
      /\ 0 \in Slot
      /\ LinkInv /\ TypeOK
  <2>1. LinkInv /\ TypeOK /\ FirstPacketAcked(e)
    BY DEF EstablishedInv, LinkInv
  <2>2. peer[e] \in PacketPeerType /\ peer[e].generator \in Nat
    BY <2>1, SeqCycleAssumption DEF TypeOK, PacketPeerType, SequenceNumber
  <2> QED
    BY <2>1, <2>2, RoomFacts DEF FirstPacketAcked
<1>2. ASSUME peer'[e] = peer[e] PROVE FirstPacketAcked(e)'
  BY <1>1, <1>2 DEF FirstPacketAcked
<1>3. CASE sendPacket(e)
  <2>1. /\ peer'[e] = RecordSentPacket(peer[e])
        /\ peer[e].generator < MaxPackets[e]
        /\ MaxPackets[e] \in 0 .. RingSize
    BY <1>1, <1>3, BoundsAssumption DEF sendPacket, TypeOK
  <2>2. /\ peer[e].generator \in Slot /\ SlotOf(peer[e].generator) = peer[e].generator
        /\ SeqIncrement(peer[e].generator) = peer[e].generator + 1
    <3>1. peer[e].generator \in Slot
      BY <1>1, <2>1, RingAssumption DEF Slot
    <3> QED
      BY <3>1, <1>1, SlotOfFacts, RingAssumption, SeqCycleAssumption
         DEF Slot, SeqIncrement, MAX_SEQUENCE_NUMBER
  <2>3. /\ RecordSentPacket(peer[e]).generator = peer[e].generator + 1
        /\ RecordSentPacket(peer[e]).sent[0] = peer[e].sent[0]
    <3>1. \A i \in Slot : RecordSentPacket(peer[e]).sent[i] =
                IF i = SlotOf(peer[e].generator)
                THEN [sequence |-> peer[e].generator, acked |-> FALSE]
                ELSE peer[e].sent[i]
      BY <1>1, RecordSentPacketFacts
    <3>2. 0 # SlotOf(peer[e].generator)
      BY <1>1, <2>2
    <3>3. RecordSentPacket(peer[e]).generator = SeqIncrement(peer[e].generator)
      BY <1>1, RecordSentPacketFacts
    <3> QED
      BY <3>1, <3>2, <3>3, <1>1, <2>2
  <2> QED
    BY <1>1, <2>1, <2>3 DEF FirstPacketAcked
<1>4. ASSUME NEW p \in net, onReceivePacket(e, p) PROVE FirstPacketAcked(e)'
  <2> DEFINE noted == RecordReceivedPacket(peer[e], p.seq)
             acks  == NewlyAcked(noted, p.ack, p.ackBits)
             q     == MarkAcked(noted, acks)
  <2>1. peer'[e] = q /\ p.seq \in SequenceNumber
    BY <1>1, <1>4 DEF onReceivePacket, TypeOK
  <2>2. /\ noted \in PacketPeerType
        /\ noted.generator = peer[e].generator
        /\ noted.sent = peer[e].sent
    BY <1>1, <2>1, RecordReceivedPacketFacts
  <2> HIDE DEF noted, acks
  <2>3. /\ q.generator = noted.generator
        /\ q.sent[0] = IF \E s \in acks : SlotOf(s) = 0
                       THEN [sequence |-> noted.sent[0].sequence, acked |-> TRUE]
                       ELSE noted.sent[0]
    BY <1>1, <2>2, MarkAckedFacts
  <2>4. q.sent[0].acked
    BY <1>1, <2>2, <2>3
  <2> QED
    BY <1>1, <2>1, <2>2, <2>3, <2>4 DEF FirstPacketAcked
<1>5. CASE UNCHANGED vars
  BY <1>2, <1>5 DEF vars
<1>6. ASSUME NEW f \in End, NEW size \in MessageSizes[f],
             sendReliable(f, size) \/ sendUnreliable(f, size)
      PROVE  FirstPacketAcked(e)'
  BY <1>2, <1>6 DEF sendReliable, sendUnreliable
<1>7. ASSUME NEW f \in End, resendTime(f) \/ updateReceiveEnds(f)
      PROVE  FirstPacketAcked(e)'
  BY <1>2, <1>7 DEF resendTime, updateReceiveEnds
<1>8. ASSUME NEW f \in End, f # e,
             sendPacket(f) \/ \E p \in net : onReceivePacket(f, p)
      PROVE  FirstPacketAcked(e)'
  <2>1. peer'[e] = peer[e]
    BY <1>1, <1>8 DEF sendPacket, onReceivePacket, TypeOK
  <2> QED
    BY <2>1, <1>2
<1> QED
  BY <1>3, <1>4, <1>5, <1>6, <1>7, <1>8 DEF Next

\* What a step of the receiving end does to the messages kept: the ones it
\* drops have been read by the other end.
LEMMA DroppedHaveBeenRead ==
    ASSUME EstablishedInv, NEW e \in End, NEW p \in net, onReceivePacket(e, p)
    PROVE  /\ chan'[e].generator = chan[e].generator
           /\ chan'[e].reliable \subseteq chan[e].reliable
           /\ \A m \in chan[e].reliable \ chan'[e].reliable : m.seq \in read[Other(e)]
           /\ \A f \in End : f # e => chan'[f] = chan[f]
           /\ p.reliable \subseteq Accepted(Other(e))
<1> DEFINE noted == RecordReceivedPacket(peer[e], p.seq)
           acks  == NewlyAcked(noted, p.ack, p.ackBits)
           d     == AfterAcks(AfterRead(chan[e], p.reliable, p.unreliable), acks)
<1>1. /\ peer[e] \in PacketPeerType /\ chan[e] \in ChannelPeerType
      /\ p.seq \in SequenceNumber /\ p.ack \in SequenceNumber
      /\ p.ackBits \in SUBSET AckDistance /\ p.unreliable \in SUBSET Nat
      /\ chan' = [chan EXCEPT ![e] = d]
      /\ \A f \in End : chan'[f] = IF f = e THEN d ELSE chan[f]
      /\ p.from = Other(e) /\ Other(e) \in End
      /\ HeaderTrue(p)
      /\ LinkInv
  BY EndFacts DEF EstablishedInv, LinkInv, TypeOK, onReceivePacket
<1>2. noted \in PacketPeerType /\ noted.sent = peer[e].sent
  BY <1>1, RecordReceivedPacketFacts
<1> HIDE DEF noted
<1>3. \A s \in acks : s # 0 /\ s \in peer[Other(e)].received
  <2> SUFFICES ASSUME NEW s \in acks PROVE s # 0 /\ s \in peer[Other(e)].received
    OBVIOUS
  <2>1. \A i \in Slot : noted.sent[i].sequence \in {0, i}
    BY <1>1, <1>2 DEF LinkInv, SentRing
  <2>2. /\ SlotOf(s) = s
        /\ s # MAX_SEQUENCE_NUMBER
        /\ ~ noted.sent[s].acked
        /\ s = p.ack \/ \E i \in p.ackBits : s = SeqMinus(p.ack, i)
    BY <2>1, <1>1, <1>2, NewlyAckedFacts
  <2>3. s # 0
    BY <2>2, <1>2 DEF EstablishedInv, FirstPacketAcked
  <2> QED
    BY <2>2, <2>3, <1>1 DEF HeaderTrue
<1> HIDE DEF acks
<1>4. /\ d.generator = chan[e].generator
      /\ d.reliable = {m \in chan[e].reliable : m.packet \notin acks}
  BY <1>1, AfterReadAndAcksFacts
<1> HIDE DEF d
<1>5. ASSUME NEW m \in chan[e].reliable, m \notin chan'[e].reliable
      PROVE  m.seq \in read[Other(e)]
  <2>1. m.packet \in acks
    BY <1>1, <1>4, <1>5
  <2>2. m.seq \in Written(e)
    BY <2>1, <1>3 DEF EstablishedInv, FiledMeansWritten
  <2>3. PICK r \in net : r.from = e /\ r.seq = m.packet /\ m.seq \in r.reliable
    BY <2>2, <1>1 DEF LinkInv, FiledUnderCarrier
  <2>4. r.seq \in peer[Other(e)].received /\ Other(Other(e)) = e
    BY <2>1, <2>3, <1>3, EndFacts
  <2> QED
    BY <2>3, <2>4, <1>1 DEF LinkInv, ReceivedRead
<1>6. p.reliable \subseteq Accepted(Other(e))
  <2>1. p.reliable \subseteq Written(Other(e))
    BY <1>1 DEF Written
  <2> QED
    BY <2>1, <1>1 DEF LinkInv, NumbersAccepted
<1> QED
  BY <1>1, <1>4, <1>5, <1>6

\* What is filed under a packet other than 0 has been written.
LEMMA FiledStaysWritten ==
    ASSUME EstablishedInv, [Next]_vars, NEW e \in End
    PROVE  FiledMeansWritten(e)'
<1>1. /\ LinkInv /\ TypeOK /\ FiledMeansWritten(e)
      /\ chan[e] \in ChannelPeerType
      /\ net \subseteq net' => Written(e) \subseteq Written(e)'
  BY DEF EstablishedInv, LinkInv, TypeOK, Written
<1>2. ASSUME net \subseteq net', chan'[e].reliable \subseteq chan[e].reliable
      PROVE  FiledMeansWritten(e)'
  BY <1>1, <1>2 DEF FiledMeansWritten
<1>3. ASSUME NEW size \in MessageSizes[e], sendReliable(e, size)
      PROVE  FiledMeansWritten(e)'
  <2>1. /\ chan'[e].reliable = chan[e].reliable \cup
                {[seq |-> chan[e].generator, size |-> size, packet |-> 0, due |-> TRUE]}
        /\ net' = net
    BY <1>1, <1>3 DEF sendReliable, SendReliable, TypeOK, ChannelPeerType
  <2> QED
    BY <1>1, <2>1 DEF FiledMeansWritten
<1>4. ASSUME NEW size \in MessageSizes[e], sendUnreliable(e, size)
      PROVE  FiledMeansWritten(e)'
  <2>1. chan'[e].reliable = chan[e].reliable /\ net' = net
    BY <1>1, <1>4 DEF sendUnreliable, SendUnreliable, TypeOK, ChannelPeerType
  <2> QED
    BY <1>2, <2>1
<1>5. CASE resendTime(e)
  <2>1. PICK n : chan'[e] = AfterResendTime(chan[e], n) /\ net' = net
    BY <1>1, <1>5 DEF resendTime, TypeOK
  <2>2. \A m \in chan'[e].reliable : \E o \in chan[e].reliable :
            m = [o EXCEPT !.due = @ \/ o.packet <= n]
    BY <1>1, <2>1, AfterResendTimeFacts
  <2>3. ASSUME NEW o \in chan[e].reliable,
               NEW m, m = [o EXCEPT !.due = @ \/ o.packet <= n]
        PROVE  m.seq = o.seq /\ m.packet = o.packet
    BY <1>1, <2>3 DEF ChannelPeerType, ReliableEntry
  <2>4. \A m \in chan'[e].reliable : \E o \in chan[e].reliable :
            m.seq = o.seq /\ m.packet = o.packet
    BY <2>2, <2>3
  <2> QED
    BY <1>1, <2>1, <2>4 DEF FiledMeansWritten
<1>6. CASE sendPacket(e)
  <2> DEFINE c == chan[e]
             n == peer[e].generator
  <2>1. /\ chan'[e] = AfterWrite(c, n)
        /\ n \in SequenceNumber
        /\ net \subseteq net'
        /\ \E p \in net' : p.from = e /\ p.reliable = WrittenReliable(c)
    <3>1. chan'[e] = AfterWrite(c, n) /\ n \in SequenceNumber
      BY <1>1, <1>6 DEF sendPacket, TypeOK, PacketPeerType
    <3>2. PICK p : /\ p.from = e /\ p.reliable = WrittenReliable(c)
                   /\ net' = net \cup {p}
      BY <1>6 DEF sendPacket
    <3> QED
      BY <3>1, <3>2
  <2>2. WrittenReliable(c) \subseteq Written(e)'
    BY <2>1 DEF Written
  <2> SUFFICES ASSUME NEW o \in chan'[e].reliable, o.packet # 0
               PROVE  o.seq \in Written(e)'
    BY DEF FiledMeansWritten
  <2>3. PICK m \in c.reliable :
            /\ o.seq = m.seq
            /\ o = IF m \in Taken(c) THEN [m EXCEPT !.packet = n, !.due = FALSE] ELSE m
    <3>1. \A x \in AfterWrite(c, n).reliable : \E m \in c.reliable :
            /\ x.seq = m.seq
            /\ x = IF m \in Taken(c) THEN [m EXCEPT !.packet = n, !.due = FALSE] ELSE m
      <4> HIDE DEF n
      <4> QED
        BY <1>1, <2>1, AfterWriteFacts
    <3> QED
      BY <3>1, <2>1
  <2>4. CASE m \in Taken(c)
    BY <2>2, <2>3, <2>4 DEF WrittenReliable
  <2>5. CASE m \notin Taken(c)
    BY <1>1, <2>1, <2>3, <2>5 DEF FiledMeansWritten
  <2> QED
    BY <2>4, <2>5
<1>7. ASSUME NEW p \in net, onReceivePacket(e, p) PROVE FiledMeansWritten(e)'
  <2>1. net' = net
    BY <1>7 DEF onReceivePacket
  <2> QED
    BY <1>2, <1>7, <2>1, DroppedHaveBeenRead
<1>8. CASE updateReceiveEnds(e)
  <2>1. chan'[e].reliable = chan[e].reliable /\ net' = net
    BY <1>1, <1>8, AfterDeliverFacts DEF updateReceiveEnds, TypeOK
  <2> QED
    BY <1>2, <2>1
<1>9. ASSUME net \subseteq net', chan'[e] = chan[e] PROVE FiledMeansWritten(e)'
  BY <1>2, <1>9
<1>10. CASE UNCHANGED vars
  BY <1>9, <1>10 DEF vars
<1>11. ASSUME NEW f \in End, f # e, NEW size \in MessageSizes[f],
              sendReliable(f, size) \/ sendUnreliable(f, size)
       PROVE  FiledMeansWritten(e)'
  BY <1>1, <1>9, <1>11 DEF sendReliable, sendUnreliable, TypeOK
<1>12. ASSUME NEW f \in End, f # e,
              \/ resendTime(f) \/ sendPacket(f) \/ updateReceiveEnds(f)
              \/ \E p \in net : onReceivePacket(f, p)
       PROVE  FiledMeansWritten(e)'
  <2>1. net \subseteq net' /\ chan'[e] = chan[e]
    BY <1>1, <1>12
       DEF resendTime, sendPacket, updateReceiveEnds, onReceivePacket, TypeOK
  <2> QED
    BY <1>9, <2>1
<1> QED
  BY <1>3, <1>4, <1>5, <1>6, <1>7, <1>8, <1>10, <1>11, <1>12 DEF Next

\* Handing over at an end whose first message was 0 hands over an initial part
\* of what the other end accepted, up to the first number that is missing.
LEMMA HandOverFacts ==
    ASSUME EstablishedInv, NEW e \in End, updateReceiveEnds(e)
    PROVE  \E n \in Nat \ {0} :
            /\ n <= chan[Other(e)].generator
            /\ 0 .. n - 1 \subseteq read[e]
            /\ n \notin read[e]
            /\ delivered' = [delivered EXCEPT ![e] = Run(0, n)]
<1> DEFINE c == chan[e]
           d == Len(delivered[e])
           t == Len(c.toDeliver)
<1>1. /\ LinkInv /\ FirstDelivered(e)
      /\ c.toDeliver \in Seq(SequenceNumber) /\ delivered[e] \in Seq(SequenceNumber)
      /\ Other(e) \in End /\ Other(Other(e)) = e
      /\ chan[Other(e)].generator \in Nat
  BY EndFacts, NumbersInFirstHalf
     DEF EstablishedInv, LinkInv, TypeOK, ChannelPeerType
<1>2. PICK f \in 0 .. HALF_MAX_SEQUENCE_NUMBER : InStepFrom(f, c, delivered[e], read[e])
  BY <1>1 DEF LinkInv, InStep
<1> DEFINE next == f + d + t
<1>3. /\ delivered[e] = Run(f, d)
      /\ c.toDeliver = Run(f + d, t)
      /\ f .. next - 1 \subseteq read[e]
      /\ next \notin read[e]
  BY <1>2 DEF InStepFrom
<1>4. d \in Nat /\ t \in Nat /\ f \in Nat
  BY <1>1, LenProperties, HalfIsHalf
<1> HIDE DEF d, t
<1>5. d # 0
  BY <1>1, <1>3 DEF FirstDelivered, Run
<1>6. f = 0
  <2>1. 1 \in 1 .. d
    BY <1>4, <1>5
  <2>2. Run(f, d)[1] = f
    BY <2>1, <1>4 DEF Run
  <2> QED
    BY <2>2, <1>1, <1>3 DEF FirstDelivered
<1>7. Run(0, d) \o Run(0 + d, t) = Run(0, d + t)
  BY <1>4, RunConcat
<1>8. delivered' = [delivered EXCEPT ![e] = Run(0, d + t)]
  BY <1>3, <1>6, <1>7 DEF updateReceiveEnds
<1>9. d + t \in Nat \ {0} /\ next = d + t
  BY <1>4, <1>5, <1>6
<1>10. d + t <= chan[Other(e)].generator
  <2>1. d + t - 1 \in read[e]
    <3>1. d + t - 1 \in f .. next - 1
      BY <1>4, <1>5, <1>6
    <3> QED
      BY <3>1, <1>3
  <2>2. d + t - 1 \in 0 .. chan[Other(e)].generator - 1
    BY <2>1, <1>1 DEF LinkInv, NumbersAccepted, Accepted
  <2> QED
    BY <2>2, <1>1, <1>4
<1>11. 0 .. (d + t) - 1 \subseteq read[e] /\ d + t \notin read[e]
  BY <1>3, <1>6, <1>9
<1> QED
  BY <1>8, <1>9, <1>10, <1>11

\* Every step of either end keeps the invariant.
THEOREM StepEstablishedInv == EstablishedInv /\ [Next]_vars => EstablishedInv'
<1> SUFFICES ASSUME EstablishedInv, [Next]_vars PROVE EstablishedInv'
  OBVIOUS
<1>1. LinkInv'
  BY StepLinkInv DEF EstablishedInv
<1>2. \A e \in End : FirstPacketAcked(e)' /\ FiledMeansWritten(e)'
  BY FirstPacketStaysAcked, FiledStaysWritten
<1>3. ASSUME NEW e \in End PROVE FirstDelivered(e)'
  <2>1. FirstDelivered(e) /\ TypeOK
    BY DEF EstablishedInv, LinkInv
  <2>2. CASE updateReceiveEnds(e)
    <3>1. PICK n \in Nat \ {0} : delivered' = [delivered EXCEPT ![e] = Run(0, n)]
      BY <2>2, HandOverFacts
    <3>2. delivered'[e] = Run(0, n)
      BY <2>1, <3>1 DEF TypeOK
    <3>3. 1 \in 1 .. n
      OBVIOUS
    <3>4. Run(0, n)[1] = 0 /\ Run(0, n) # <<>>
      BY <3>3 DEF Run
    <3> QED
      BY <3>2, <3>4 DEF FirstDelivered
  <2>3. CASE delivered'[e] = delivered[e]
    BY <2>1, <2>3 DEF FirstDelivered
  <2>4. updateReceiveEnds(e) \/ delivered'[e] = delivered[e]
    <3>1. ASSUME NEW f \in End, updateReceiveEnds(f), f # e
          PROVE  delivered'[e] = delivered[e]
      BY <2>1, <3>1 DEF updateReceiveEnds, TypeOK
    <3>2. delivered' = delivered \/ \E f \in End : updateReceiveEnds(f)
      BY <2>1, Zenon
         DEF Next, vars, sendReliable, sendUnreliable, resendTime, sendPacket, onReceivePacket
    <3> QED
      BY <3>1, <3>2
  <2> QED
    BY <2>2, <2>3, <2>4
<1> QED
  BY <1>1, <1>2, <1>3 DEF EstablishedInv

\* EstablishedInv, with LinkInv in it, always holds.
THEOREM EstablishedInvariance == EstablishedSpec => []EstablishedInv
<1>1. InitEstablished => EstablishedInv
  BY InitEstablishedInv
<1>2. EstablishedInv /\ [Next]_vars => EstablishedInv'
  BY StepEstablishedInv
<1> QED
  BY <1>1, <1>2, PTL DEF EstablishedSpec

-----------------------------------------------------------------------------
(***************************************************************************)
(* The two ends implement OrderedChannel.                                  *)
(***************************************************************************)

\* What the abstract specification sees of a state.
Retired(e) == Accepted(e) \ Outstanding(e)

\* sendReliable accepts the next message of the abstract channel.
LEMMA AcceptStep ==
    ASSUME EstablishedInv, NEW e \in End, NEW size \in MessageSizes[e], sendReliable(e, size)
    PROVE  Abs!Accept(e)
<1>1. /\ chan \in [End -> ChannelPeerType]
      /\ chan[e].generator \in Nat
      /\ \A s \in Outstanding(e) : s \in 0 .. chan[e].generator - 1
      /\ chan[e].generator < MaxReliable[e]
      /\ MaxReliable[e] \in Nat /\ MaxReliable[e] < HALF_MAX_SEQUENCE_NUMBER
  BY NumbersInFirstHalf
     DEF EstablishedInv, LinkInv, TypeOK, NumbersAccepted, Accepted, sendReliable
<1>2. SeqIncrement(chan[e].generator) = chan[e].generator + 1
  BY <1>1, HalfIsHalf DEF SeqIncrement, MAX_SEQUENCE_NUMBER
<1>3. /\ \A f \in End : chan'[f] = IF f = e THEN SendReliable(chan[e], size) ELSE chan[f]
      /\ UNCHANGED <<read, delivered>>
  BY <1>1 DEF sendReliable
<1>4. /\ chan'[e].generator = chan[e].generator + 1
      /\ chan'[e].reliable = chan[e].reliable \cup
            {[seq |-> chan[e].generator, size |-> size, packet |-> 0, due |-> TRUE]}
  BY <1>1, <1>2, <1>3 DEF SendReliable, ChannelPeerType
<1>5. Outstanding(e)' = Outstanding(e) \cup {chan[e].generator}
  <2> DEFINE m == [seq |-> chan[e].generator, size |-> size, packet |-> 0, due |-> TRUE]
  <2>1. m.seq = chan[e].generator /\ chan'[e].reliable = chan[e].reliable \cup {m}
    BY <1>4
  <2> HIDE DEF m
  <2> QED
    BY <2>1 DEF Outstanding
<1>6. Accepted(e)' = Accepted(e) \cup {chan[e].generator}
  BY <1>1, <1>4 DEF Accepted
<1>7. Retired(e)' = Retired(e)
  <2>1. chan[e].generator \notin Accepted(e)
    BY <1>1 DEF Accepted
  <2> QED
    BY <2>1, <1>5, <1>6 DEF Retired
<1>8. \A f \in End : f # e => Retired(f)' = Retired(f) /\ chan'[f].generator = chan[f].generator
  BY <1>3 DEF Retired, Accepted, Outstanding
<1>9. [f \in End |-> chan'[f].generator]
        = [[f \in End |-> chan[f].generator] EXCEPT ![e] = @ + 1]
  BY <1>4, <1>8
<1>10. [f \in End |-> Retired(f)'] = [f \in End |-> Retired(f)]
  BY <1>7, <1>8
<1> QED
  BY <1>3, <1>9, <1>10 DEF Abs!Accept, Retired

\* A packet retires, at most, messages that the other end has read.
LEMMA PacketStep ==
    ASSUME EstablishedInv, NEW e \in End, NEW p \in net, onReceivePacket(e, p)
    PROVE  Abs!Packet(e)
<1> DEFINE dropped == {m.seq : m \in chan[e].reliable \ chan'[e].reliable}
<1>1. /\ chan'[e].generator = chan[e].generator
      /\ chan'[e].reliable \subseteq chan[e].reliable
      /\ \A m \in chan[e].reliable \ chan'[e].reliable : m.seq \in read[Other(e)]
      /\ \A f \in End : f # e => chan'[f] = chan[f]
      /\ p.reliable \subseteq Accepted(Other(e))
      /\ Other(e) \in End
  BY DroppedHaveBeenRead, EndFacts
<1>2. read' = [read EXCEPT ![e] = @ \cup p.reliable] /\ delivered' = delivered
  BY DEF onReceivePacket
<1>3. dropped \subseteq read[Other(e)]
  BY <1>1
<1>4. \A m, o \in chan[e].reliable : m.seq = o.seq => m = o
  BY KeptFacts DEF EstablishedInv
<1>5. /\ dropped \subseteq Outstanding(e)
      /\ Outstanding(e)' = Outstanding(e) \ dropped
  BY <1>1, <1>4 DEF Outstanding
<1>6. Outstanding(e) \subseteq Accepted(e) /\ Accepted(e)' = Accepted(e)
  BY <1>1 DEF EstablishedInv, LinkInv, NumbersAccepted, Accepted
<1>7. Retired(e)' = Retired(e) \cup dropped
  BY <1>5, <1>6 DEF Retired
<1>8. \A f \in End : f # e => Retired(f)' = Retired(f)
  BY <1>1 DEF Retired, Accepted, Outstanding
<1>9. [f \in End |-> Retired(f)'] = [[f \in End |-> Retired(f)] EXCEPT ![e] = @ \cup dropped]
  BY <1>7, <1>8
<1>10. [f \in End |-> chan'[f].generator] = [f \in End |-> chan[f].generator]
  BY <1>1
<1>11. p.reliable \in SUBSET (0 .. [f \in End |-> chan[f].generator][Other(e)] - 1)
  BY <1>1 DEF Accepted
<1> HIDE DEF dropped
<1>12. Other(e) = Abs!Other(e) /\ End = Abs!End
  BY DEF Other, End, Abs!Other, Abs!End
<1>13. dropped \in SUBSET read[Other(e)]
  BY <1>3
<1> QED
  BY <1>2, <1>9, <1>10, <1>11, <1>12, <1>13 DEF Abs!Packet, Retired

\* An updateReceive hands over the messages of the abstract channel in order.
LEMMA HandOverStep ==
    ASSUME EstablishedInv, NEW e \in End, updateReceiveEnds(e)
    PROVE  Abs!HandOver(e)
<1>1. PICK n \in Nat \ {0} :
        /\ n <= chan[Other(e)].generator
        /\ 0 .. n - 1 \subseteq read[e]
        /\ n \notin read[e]
        /\ delivered' = [delivered EXCEPT ![e] = Run(0, n)]
  BY HandOverFacts
<1>2. /\ Other(e) \in End /\ Other(e) = Abs!Other(e) /\ End = Abs!End
      /\ chan[Other(e)].generator \in Nat
  BY EndFacts, NumbersInFirstHalf DEF EstablishedInv, Other, End, Abs!Other, Abs!End
<1>3. n \in 0 .. [f \in End |-> chan[f].generator][Other(e)]
  BY <1>1, <1>2
<1>4. Run(0, n) = [i \in 1 .. n |-> i - 1]
  <2>1. \A i \in 1 .. n : 0 + i - 1 = i - 1
    OBVIOUS
  <2> QED
    BY <2>1 DEF Run
<1>5. \A f \in End : /\ chan'[f].generator = chan[f].generator
                     /\ chan'[f].reliable = chan[f].reliable
  BY AfterDeliverFacts DEF EstablishedInv, LinkInv, TypeOK, updateReceiveEnds
<1>6. /\ [f \in End |-> chan'[f].generator] = [f \in End |-> chan[f].generator]
      /\ [f \in End |-> Retired(f)'] = [f \in End |-> Retired(f)]
  BY <1>5 DEF Retired, Accepted, Outstanding
<1>7. read' = read
  BY DEF updateReceiveEnds
<1> QED
  BY <1>1, <1>2, <1>3, <1>4, <1>6, <1>7 DEF Abs!HandOver, Retired

\* The steps the abstract specification does not see: they neither number nor
\* drop a message, and read and deliver none.
LEMMA HiddenStep ==
    ASSUME \A f \in End : /\ chan'[f].generator = chan[f].generator
                          /\ Outstanding(f)' = Outstanding(f),
           UNCHANGED <<read, delivered>>
    PROVE  UNCHANGED Abs!vars
<1>1. /\ [f \in End |-> chan'[f].generator] = [f \in End |-> chan[f].generator]
      /\ [f \in End |-> Retired(f)'] = [f \in End |-> Retired(f)]
  BY DEF Retired, Accepted
<1> QED
  BY <1>1 DEF Abs!vars, Retired

\* Each step of the two ends is one step of the abstract channels or none.
THEOREM StepIsAbstract == EstablishedInv /\ [Next]_vars => [Abs!Next]_Abs!vars
<1> SUFFICES ASSUME EstablishedInv, [Next]_vars PROVE [Abs!Next]_Abs!vars
  OBVIOUS
<1>1. /\ End = Abs!End /\ LinkInv /\ TypeOK
      /\ chan \in [End -> ChannelPeerType]
  BY DEF End, Abs!End, EstablishedInv, LinkInv, TypeOK
<1>2. ASSUME NEW e \in End, NEW size \in MessageSizes[e], sendReliable(e, size)
      PROVE  Abs!Next
  BY <1>1, <1>2, AcceptStep DEF Abs!Next
<1>3. ASSUME NEW e \in End, NEW p \in net, onReceivePacket(e, p) PROVE Abs!Next
  BY <1>1, <1>3, PacketStep DEF Abs!Next
<1>4. ASSUME NEW e \in End, updateReceiveEnds(e) PROVE Abs!Next
  BY <1>1, <1>4, HandOverStep DEF Abs!Next
<1>5. ASSUME NEW e \in End, NEW d, chan' = [chan EXCEPT ![e] = d],
             d.generator = chan[e].generator,
             {m.seq : m \in d.reliable} = {m.seq : m \in chan[e].reliable},
             UNCHANGED <<read, delivered>>
      PROVE  UNCHANGED Abs!vars
  <2>1. \A f \in End : chan'[f] = IF f = e THEN d ELSE chan[f]
    BY <1>1, <1>5
  <2>2. \A f \in End : chan'[f].generator = chan[f].generator
    BY <2>1, <1>5
  <2>3. \A f \in End : Outstanding(f)' = Outstanding(f)
    BY <2>1, <1>5 DEF Outstanding
  <2> QED
    BY <2>2, <2>3, <1>5, HiddenStep
<1>6. ASSUME NEW e \in End, NEW size \in MessageSizes[e], sendUnreliable(e, size)
      PROVE  UNCHANGED Abs!vars
  <2> DEFINE d == SendUnreliable(chan[e], loose[e], size)
  <2>1. d.generator = chan[e].generator /\ d.reliable = chan[e].reliable
    BY <1>1 DEF SendUnreliable, ChannelPeerType
  <2>2. chan' = [chan EXCEPT ![e] = d] /\ UNCHANGED <<read, delivered>>
    BY <1>6 DEF sendUnreliable
  <2> HIDE DEF d
  <2> QED
    BY <2>1, <2>2, <1>5
<1>7. ASSUME NEW e \in End, resendTime(e) PROVE UNCHANGED Abs!vars
  <2>1. PICK n : chan' = [chan EXCEPT ![e] = AfterResendTime(chan[e], n)]
                 /\ UNCHANGED <<read, delivered>>
    BY <1>7 DEF resendTime
  <2> DEFINE d == AfterResendTime(chan[e], n)
  <2>2. /\ d.generator = chan[e].generator
        /\ \A m \in chan[e].reliable : \E o \in d.reliable :
                o.seq = m.seq /\ o.packet = m.packet
        /\ \A o \in d.reliable : \E m \in chan[e].reliable :
                o = [m EXCEPT !.due = @ \/ m.packet <= n]
    BY <1>1, AfterResendTimeFacts
  <2>3. ASSUME NEW m \in chan[e].reliable,
               NEW o, o = [m EXCEPT !.due = @ \/ m.packet <= n]
        PROVE  o.seq = m.seq
    BY <1>1, <2>3 DEF ChannelPeerType, ReliableEntry
  <2> HIDE DEF d
  <2>4. {m.seq : m \in d.reliable} = {m.seq : m \in chan[e].reliable}
    <3>1. \A o \in d.reliable : \E m \in chan[e].reliable : o.seq = m.seq
      BY <2>2, <2>3
    <3>2. \A m \in chan[e].reliable : \E o \in d.reliable : o.seq = m.seq
      BY <2>2, <2>3
    <3> QED
      BY <3>1, <3>2
  <2>5. chan' = [chan EXCEPT ![e] = d]
    BY <2>1 DEF d
  <2> QED
    BY <2>1, <2>2, <2>4, <2>5, <1>5
<1>8. ASSUME NEW e \in End, sendPacket(e) PROVE UNCHANGED Abs!vars
  <2> DEFINE n == peer[e].generator
             d == AfterWrite(chan[e], n)
  <2>1. n \in SequenceNumber /\ chan[e] \in ChannelPeerType
    BY <1>1 DEF TypeOK, PacketPeerType
  <2> HIDE DEF n
  <2>2. /\ d.generator = chan[e].generator
        /\ \A m \in chan[e].reliable : \E o \in d.reliable : o.seq = m.seq
        /\ \A o \in d.reliable : \E m \in chan[e].reliable : o.seq = m.seq
    BY <2>1, AfterWriteFacts, ZenonT(60)
  <2>3. chan' = [chan EXCEPT ![e] = d] /\ UNCHANGED <<read, delivered>>
    BY <1>8 DEF sendPacket, n
  <2> HIDE DEF d
  <2>4. {m.seq : m \in d.reliable} = {m.seq : m \in chan[e].reliable}
    BY <2>2
  <2> QED
    BY <2>2, <2>3, <2>4, <1>5
<1>9. CASE UNCHANGED vars
  BY <1>9, HiddenStep DEF vars, Outstanding
<1> QED
  BY <1>2, <1>3, <1>4, <1>6, <1>7, <1>8, <1>9 DEF Next

\* From the middle of a connection on, the two channels implement the ordered
\* channel: whatever is lost, late, reordered, repeated or sent again, the
\* application is given exactly the initial part of what was sent that has
\* arrived, and a message is forgotten only after it has arrived.
THEOREM Refinement == EstablishedSpec => ImplementsOrderedChannel
<1>1. InitEstablished => Abs!InitAfter(Delivered)
  <2> SUFFICES ASSUME InitEstablished PROVE Abs!InitAfter(Delivered)
    OBVIOUS
  <2>1. \A e \in End : chan[e].generator = Delivered /\ chan[e].reliable = {}
    BY EstablishedChannelFacts DEF InitEstablished, Delivered
  <2>2. \A e \in End : Retired(e) = 0 .. Delivered - 1
    BY <2>1 DEF Retired, Accepted, Outstanding
  <2>3. End = Abs!End
    BY DEF End, Abs!End
  <2>4. /\ [e \in End |-> chan[e].generator] = [e \in End |-> Delivered]
        /\ [e \in End |-> Retired(e)] = [e \in End |-> 0 .. Delivered - 1]
    BY <2>1, <2>2
  <2> QED
    BY <2>3, <2>4 DEF InitEstablished, Abs!InitAfter, Retired
<1>2. EstablishedInv /\ [Next]_vars => [Abs!Next]_Abs!vars
  BY StepIsAbstract
<1>3. EstablishedSpec => [][Abs!Next]_Abs!vars
  BY <1>2, EstablishedInvariance, PTL DEF EstablishedSpec
<1>4. EstablishedSpec => InitEstablished
  BY DEF EstablishedSpec
<1> QED
  BY <1>1, <1>3, <1>4 DEF ImplementsOrderedChannel

-----------------------------------------------------------------------------
(***************************************************************************)
(* What fits a packet.                                                     *)
(***************************************************************************)

\* Nothing waits to be sent and nothing travels where the model begins.
LEMMA InitEstablishedSizesInv ==
    InitEstablished => SizesInv /\ PacketWithinLimit
<1> SUFFICES ASSUME InitEstablished PROVE SizesInv /\ PacketWithinLimit
  OBVIOUS
<1>1. \A e \in End : chan[e] = [NewChannelPeer EXCEPT !.generator = Delivered,
                                                    !.lastDelivered = Delivered - 1]
  BY DEF InitEstablished
<1>2. \A e \in End : chan[e].reliable = {} /\ chan[e].unreliable = {}
  BY <1>1 DEF NewChannelPeer
<1>3. net = {}
  BY DEF InitEstablished
<1> QED
  BY <1>2, <1>3, StartSizesInv DEF PacketWithinLimit

\* From the middle of a connection on, too, no datagram is larger than the
\* limit as long as no packet can be filled to within a message header.
THEOREM EstablishedDatagramsWithinLimit ==
    ASSUME \A e \in End : NeverNearlyFull(e)
    PROVE  EstablishedSpec => []PacketWithinLimit
<1>1. InitEstablished => SizesInv /\ PacketWithinLimit
  BY InitEstablishedSizesInv
<1>2. LinkInv /\ SizesInv /\ PacketWithinLimit /\ [Next]_vars => SizesInv' /\ PacketWithinLimit'
  BY StepSizesInv, StepWithinLimit
<1>3. EstablishedInv => LinkInv
  BY DEF EstablishedInv
<1> QED
  BY <1>1, <1>2, <1>3, EstablishedInvariance, PTL DEF EstablishedSpec

\* And the loop over the packets gets somewhere if every message fits a packet.
THEOREM EstablishedLoopMakesProgress ==
    ASSUME EachFitsAlone
    PROVE  EstablishedSpec => SendLoopProgress
<1> DEFINE Progress ==
        \A e \in End :
            peer'[e].generator # peer[e].generator /\ phase'[e] = "send" =>
                \E p \in net' \ net : p.reliable # {} \/ p.unreliable # {}
<1>1. InitEstablished => SizesInv
  BY InitEstablishedSizesInv
<1>2. LinkInv /\ SizesInv /\ [Next]_vars => SizesInv'
  BY StepSizesInv
<1>3. LinkInv /\ SizesInv /\ [Next]_vars => [Progress]_vars
  <2> SUFFICES ASSUME LinkInv, SizesInv, Next PROVE Progress
    OBVIOUS
  <2> QED
    BY StepProgress
<1>4. EstablishedInv => LinkInv
  BY DEF EstablishedInv
<1>5. EstablishedSpec => [][Progress]_vars
  BY <1>1, <1>2, <1>3, <1>4, EstablishedInvariance, PTL DEF EstablishedSpec
<1> QED
  BY <1>5 DEF SendLoopProgress

=============================================================================
