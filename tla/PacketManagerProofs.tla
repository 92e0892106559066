------------------------ MODULE PacketManagerProofs ------------------------
(***************************************************************************)
(* Proofs that PacketManagerInvariant's Inductive is an invariant of       *)
(* PacketManager, and what follows from it - the properties and the        *)
(* refinement of PacketAcks - for all constants that satisfy the named     *)
(* assumptions.                                                            *)
(***************************************************************************)
EXTENDS PacketManagerInvariant, AckBits, PacketPeerProofs, TLAPS

-----------------------------------------------------------------------------
(***************************************************************************)
(* The step that matters: what a header acknowledges has arrived.          *)
(***************************************************************************)

\* A number the sender finds in its ring is one the other end has got, and
\* one it has sent and not heard of before.
LEMMA NewlyAckedTrue ==
    ASSUME IInv, NEW e \in End, NEW p \in net, p.from = Other(e),
           NEW s \in NewlyAcked(RecordReceivedPacket(peer[e], p.seq), p.ack, p.ackBits)
    PROVE  /\ s \in got[Other(e)]
           /\ s \in Slot
           /\ s = SlotOf(s)
           /\ s < peer[e].generator
           /\ ~ peer[e].sent[s].acked
<1> DEFINE i == SlotOf(s)
<1>1. /\ peer[e] \in PacketPeerType
      /\ p.seq \in SequenceNumber
      /\ p.ack \in SequenceNumber
      /\ p.ackBits \subseteq AckDistance
      /\ Other(e) \in End
      /\ Other(Other(e)) = e
      /\ got[Other(e)] \subseteq PacketNum
  BY MaxPacketsAssumption, SeqCycleAssumption
     DEF IInv, TypeOK, Packet, PacketNum, SequenceNumber, End, Other
<1>2. /\ peer[e].sent[i].sequence = s
      /\ ~ peer[e].sent[i].acked
      /\ s \in AckCandidates(p.ack, p.ackBits)
  BY <1>1, RecordReceivedPacketFacts DEF NewlyAcked
<1>3. s \in SequenceNumber
  BY <1>1, <1>2, SeqMinusType DEF AckCandidates
<1>4. /\ i \in Slot
      /\ s \in Slot => i = s
  BY <1>3, SlotOfFacts DEF SequenceNumber
<1>5. s = i \/ s = 0
  BY <1>2, <1>4 DEF IInv, SentRing
<1>6. s \in Slot /\ s = i
  BY <1>4, <1>5, RingAssumption DEF Slot
<1>7. HeaderTrue(p)
  BY DEF IInv
<1>8. s # MAX_SEQUENCE_NUMBER
  BY <1>6, RingAssumption, SeqCycleAssumption DEF Slot, MAX_SEQUENCE_NUMBER
<1>9. s \in got[Other(e)]
  <2>1. CASE s = p.ack
    BY <2>1, <1>7, <1>8 DEF HeaderTrue
  <2>2. CASE \E d \in p.ackBits : s = SeqMinus(p.ack, d)
    BY <2>2, <1>6, <1>7 DEF HeaderTrue
  <2> QED
    BY <2>1, <2>2, <1>2 DEF AckCandidates
<1>10. s < peer[e].generator
  BY <1>1, <1>9 DEF IInv, ReceivedRing
<1> QED
  BY <1>2, <1>6, <1>9, <1>10

-----------------------------------------------------------------------------
(***************************************************************************)
(* IInv is inductive.                                                      *)
(***************************************************************************)

\* Nothing has been sent, received or reported at the start.
THEOREM InitIInv == Init => IInv
<1> SUFFICES ASSUME Init PROVE IInv
  OBVIOUS
<1> USE DEF Init
<1>1. \A e \in End :
        /\ peer[e] = NewPacketPeer
        /\ peer[e] \in PacketPeerType
        /\ got[e] = {}
        /\ reports[e] = [n \in PacketNum |-> 0]
  BY NewPacketPeerFacts
<1>2. TypeOK
  BY <1>1 DEF TypeOK
<1>3. \A e \in End : /\ peer[e].generator <= MaxPackets
                     /\ SentRing(e)
                     /\ ReceivedRing(e)
  <2> SUFFICES ASSUME NEW e \in End
               PROVE  /\ peer[e].generator <= MaxPackets
                      /\ SentRing(e)
                      /\ ReceivedRing(e)
    OBVIOUS
  <2>1. /\ peer[e].generator = 0
        /\ peer[e].newest = MAX_SEQUENCE_NUMBER
        /\ peer[e].received = {}
        /\ \A i \in Slot : peer[e].sent[i] = [sequence |-> 0, acked |-> FALSE]
    BY <1>1 DEF NewPacketPeer
  <2>2. \A i \in Slot : ~ (i < 0)
    BY RingAssumption DEF Slot
  <2> QED
    BY <2>1, <2>2, <1>1, MaxPacketsAssumption DEF SentRing, ReceivedRing
<1>4. \A e \in End : ReportedAcked(e)
  BY <1>1 DEF ReportedAcked
<1>5. AckTruthful
  BY <1>1 DEF AckTruthful, Acked
<1> QED
  BY <1>2, <1>3, <1>4, <1>5 DEF IInv

\* Sending a packet: the new header repeats the rings of its sender.
LEMMA SendKeepsIInv ==
    ASSUME IInv, NEW e \in End, onSendPacket(e)
    PROVE  IInv'
<1> DEFINE q == RecordSentPacket(peer[e])
           g == peer[e].generator
           new == [from    |-> e,
                   seq     |-> g,
                   ack     |-> peer[e].newest,
                   ackBits |-> GenerateAckBits(peer[e]),
                   seen    |-> got[e]]
<1>1. /\ peer \in [End -> PacketPeerType]
      /\ peer' = [peer EXCEPT ![e] = q]
      /\ net' = net \cup {new}
      /\ UNCHANGED <<got, reports>>
      /\ g < MaxPackets
  BY DEF IInv, TypeOK, onSendPacket
<1>2. g \in PacketNum /\ g \in Slot /\ SlotOf(g) = g
  <2>1. g \in SequenceNumber
    BY <1>1 DEF PacketPeerType
  <2>2. g \in PacketNum /\ g \in Slot
    BY <2>1, <1>1, NoWrapAssumption, MaxPacketsAssumption, RingAssumption
       DEF SequenceNumber, PacketNum, Slot
  <2> QED
    BY <2>2, SlotOfFacts DEF Slot
<1>3. /\ q \in PacketPeerType
      /\ q.generator = g + 1
      /\ q.newest = peer[e].newest
      /\ q.received = peer[e].received
      /\ \A i \in Slot : q.sent[i] = IF i = g
                                      THEN [sequence |-> g, acked |-> FALSE]
                                      ELSE peer[e].sent[i]
  <2>1. SeqIncrement(g) = g + 1
    BY <1>2, MaxPacketsAssumption, SeqCycleAssumption
       DEF SeqIncrement, MAX_SEQUENCE_NUMBER, PacketNum
  <2> QED
    BY <2>1, <1>1, <1>2, RecordSentPacketFacts
<1>4. \A f \in End : peer'[f] = IF f = e THEN q ELSE peer[f]
  BY <1>1
<1>5. new \in Packet
  BY <1>1, <1>2 DEF IInv, TypeOK, Packet, PacketPeerType, GenerateAckBits
<1>6. TypeOK'
  BY <1>1, <1>3, <1>5 DEF IInv, TypeOK
<1>7. \A f \in End : peer'[f].generator <= MaxPackets /\ SentRing(f)'
  <2> SUFFICES ASSUME NEW f \in End
               PROVE  peer'[f].generator <= MaxPackets /\ SentRing(f)'
    OBVIOUS
  <2>1. CASE f = e
    <3>1. SentRing(e)
      BY DEF IInv
    <3> QED
      BY <2>1, <3>1, <1>1, <1>2, <1>3, <1>4, MaxPacketsAssumption
         DEF SentRing, Slot, PacketNum
  <2>2. CASE f # e
    BY <2>2, <1>4 DEF IInv, SentRing
  <2> QED
    BY <2>1, <2>2
<1>8. \A f \in End : peer[f].generator \in Nat /\ peer[f].generator <= peer'[f].generator
  BY <1>1, <1>2, <1>3, <1>4 DEF PacketPeerType, SequenceNumber, PacketNum
<1>9. \A f \in End : ReceivedRing(f)'
  <2> SUFFICES ASSUME NEW f \in End PROVE ReceivedRing(f)'
    OBVIOUS
  <2>1. Other(f) \in End
    BY DEF End, Other
  <2>2. got[f] \subseteq Nat
    BY DEF IInv, TypeOK, PacketNum
  <2>3. \A n \in got[f] : n < peer'[Other(f)].generator
    BY <2>1, <2>2, <1>8, <1>3, <1>4, <1>2 DEF IInv, ReceivedRing, PacketNum
  <2> QED
    BY <2>3, <1>1, <1>3, <1>4 DEF IInv, ReceivedRing
<1>10. \A p \in net' : HeaderTrue(p)'
  <2> SUFFICES ASSUME NEW p \in net' PROVE HeaderTrue(p)'
    OBVIOUS
  <2>1. CASE p \in net
    <3>1. p.from \in End /\ p.seq \in Nat
      BY <2>1 DEF IInv, TypeOK, Packet, PacketNum
    <3>2. HeaderTrue(p)
      BY <2>1 DEF IInv
    <3> QED
      BY <3>1, <3>2, <1>1, <1>8, <1>3, <1>4, <1>2 DEF HeaderTrue, PacketNum
  <2>2. CASE p = new
    <3>1. ReceivedRing(e)
      BY DEF IInv
    <3>2. \A i \in new.ackBits : SlotOf(SeqMinus(new.ack, i)) \in got[e]
      BY <3>1 DEF GenerateAckBits, ReceivedRing
    <3>3. new.seq < peer'[e].generator /\ new.from = e
      BY <1>2, <1>3, <1>4 DEF PacketNum
    <3> QED
      BY <2>2, <3>1, <3>2, <3>3, <1>1 DEF HeaderTrue, ReceivedRing
  <2> QED
    BY <2>1, <2>2, <1>1
<1>11. \A f \in End : ReportedAcked(f)'
  <2> SUFFICES ASSUME NEW f \in End, NEW n \in PacketNum, reports[f][n] > 0
               PROVE  /\ reports[f][n] = 1
                      /\ n < peer'[f].generator
                      /\ peer'[f].sent[n].acked
    BY <1>1 DEF ReportedAcked
  <2>1. /\ reports[f][n] = 1
        /\ n < peer[f].generator
        /\ peer[f].sent[n].acked
    BY DEF IInv, ReportedAcked
  <2>2. n \in Slot
    BY NoWrapAssumption, MaxPacketsAssumption, RingAssumption DEF PacketNum, Slot
  <2> QED
    BY <2>1, <2>2, <1>2, <1>3, <1>4 DEF PacketNum
<1>12. AckTruthful'
  BY <1>1 DEF IInv, AckTruthful, Acked
<1> QED
  BY <1>6, <1>7, <1>9, <1>10, <1>11, <1>12 DEF IInv

\* Receiving a packet: its sender's slots are noted, its acks are true.
LEMMA ReceiveKeepsIInv ==
    ASSUME IInv, NEW e \in End, NEW p \in net, onReceivePacket(e, p)
    PROVE  IInv'
<1> DEFINE noted == RecordReceivedPacket(peer[e], p.seq)
           acks  == NewlyAcked(noted, p.ack, p.ackBits)
           q     == MarkAcked(noted, acks)
<1>1. /\ peer \in [End -> PacketPeerType]
      /\ peer' = [peer EXCEPT ![e] = q]
      /\ reports' = [reports EXCEPT ![e] =
            [n \in PacketNum |-> IF n \in acks THEN @[n] + 1 ELSE @[n]]]
      /\ got' = [got EXCEPT ![e] = @ \cup {p.seq}]
      /\ net' = net
      /\ p.from = Other(e)
  BY DEF IInv, TypeOK, onReceivePacket
<1>2. /\ Other(e) \in End /\ Other(e) # e
      /\ \A f \in End : Other(f) \in End
  BY DEF End, Other
<1>3. p.seq \in PacketNum /\ p.seq \in Slot /\ p.seq \in SequenceNumber
      /\ SlotOf(p.seq) = p.seq
  <2>1. p.seq \in PacketNum
    BY DEF IInv, TypeOK, Packet
  <2>2. p.seq \in Slot /\ p.seq \in SequenceNumber
    BY <2>1, NoWrapAssumption, MaxPacketsAssumption, RingAssumption, SeqCycleAssumption
       DEF PacketNum, Slot, SequenceNumber
  <2> QED
    BY <2>1, <2>2, SlotOfFacts DEF Slot
<1>4. /\ noted \in PacketPeerType
      /\ noted.generator = peer[e].generator
      /\ noted.newest \in {peer[e].newest, p.seq}
      /\ noted.received = peer[e].received \cup {p.seq}
      /\ noted.sent = peer[e].sent
  BY <1>1, <1>3, RecordReceivedPacketFacts
<1>5. \A s \in acks : /\ s \in got[Other(e)]
                     /\ s \in Slot
                     /\ s = SlotOf(s)
                     /\ s < peer[e].generator
                     /\ ~ peer[e].sent[s].acked
  BY <1>1, NewlyAckedTrue
<1>6. /\ q \in PacketPeerType
      /\ q.generator = peer[e].generator
      /\ q.newest \in {peer[e].newest, p.seq}
      /\ q.received = peer[e].received \cup {p.seq}
      /\ \A i \in Slot : q.sent[i] =
            IF i \in acks
            THEN [sequence |-> peer[e].sent[i].sequence, acked |-> TRUE]
            ELSE peer[e].sent[i]
  <2>1. \A i \in Slot : (\E s \in acks : SlotOf(s) = i) <=> i \in acks
    BY <1>5
  <2> HIDE DEF noted, acks
  <2> QED
    BY <2>1, <1>4, MarkAckedFacts
<1> HIDE DEF noted, acks, q
<1>7. /\ \A f \in End : peer'[f] = IF f = e THEN q ELSE peer[f]
      /\ \A f \in End : got'[f] = IF f = e THEN got[e] \cup {p.seq} ELSE got[f]
      /\ \A f \in End : \A n \in PacketNum : reports'[f][n] =
            IF f = e /\ n \in acks THEN reports[f][n] + 1 ELSE reports[f][n]
  BY <1>1 DEF IInv, TypeOK
<1>8. TypeOK'
  BY <1>1, <1>3, <1>6 DEF IInv, TypeOK
<1>9. \A f \in End : peer'[f].generator <= MaxPackets /\ SentRing(f)'
  <2> SUFFICES ASSUME NEW f \in End
               PROVE  peer'[f].generator <= MaxPackets /\ SentRing(f)'
    OBVIOUS
  <2>1. peer[f].generator <= MaxPackets /\ SentRing(f)
    BY DEF IInv
  <2>2. CASE f = e
    <3>1. peer'[f] = q /\ q.generator = peer[f].generator
      BY <2>2, <1>6, <1>7
    <3>2. \A i \in Slot : IF i < q.generator
                          THEN q.sent[i].sequence = i
                          ELSE q.sent[i] = [sequence |-> 0, acked |-> FALSE]
      <4> SUFFICES ASSUME NEW i \in Slot
                   PROVE  IF i < q.generator
                          THEN q.sent[i].sequence = i
                          ELSE q.sent[i] = [sequence |-> 0, acked |-> FALSE]
        OBVIOUS
      <4>1. CASE i \in acks
        <5>1. i < peer[e].generator
          BY <4>1, <1>5
        <5>2. peer[e].sent[i].sequence = i
          BY <5>1, <2>1, <2>2 DEF SentRing
        <5>3. q.sent[i] = [sequence |-> peer[e].sent[i].sequence, acked |-> TRUE]
          BY <4>1, <1>6
        <5>4. q.sent[i].sequence = i
          BY <5>2, <5>3
        <5> QED
          BY <5>1, <5>4, <1>6
      <4>2. CASE i \notin acks
        BY <4>2, <2>1, <2>2, <1>6 DEF SentRing
      <4> QED
        BY <4>1, <4>2
    <3> QED
      BY <3>1, <3>2, <2>1 DEF SentRing
  <2>3. CASE f # e
    BY <2>1, <2>3, <1>7 DEF SentRing
  <2> QED
    BY <2>2, <2>3
<1>10. \A f \in End : peer'[f].generator = peer[f].generator
  BY <1>6, <1>7
<1>11. HeaderTrue(p)
  BY DEF IInv
<1>12. \A f \in End : ReceivedRing(f)'
  <2> SUFFICES ASSUME NEW f \in End PROVE ReceivedRing(f)'
    OBVIOUS
  <2>1. ReceivedRing(f)
    BY DEF IInv
  <2>2. CASE f = e
    <3>1. p.seq < peer[Other(e)].generator
      BY <1>1, <1>11 DEF HeaderTrue
    <3>2. /\ peer'[f].received = got'[f]
          /\ peer'[f].newest \in got'[f] \cup {MAX_SEQUENCE_NUMBER}
      BY <2>1, <2>2, <1>6, <1>7 DEF ReceivedRing
    <3>3. \A n \in got'[f] : n < peer'[Other(f)].generator
      BY <3>1, <2>1, <2>2, <1>2, <1>7, <1>10 DEF ReceivedRing
    <3> QED
      BY <3>2, <3>3 DEF ReceivedRing
  <2>3. CASE f # e
    BY <2>1, <2>3, <1>2, <1>7, <1>10 DEF ReceivedRing
  <2> QED
    BY <2>2, <2>3
<1>13. \A r \in net' : HeaderTrue(r)'
  <2> SUFFICES ASSUME NEW r \in net PROVE HeaderTrue(r)'
    BY <1>1
  <2>1. r.from \in End /\ HeaderTrue(r)
    BY DEF IInv, TypeOK, Packet
  <2> QED
    BY <2>1, <1>7, <1>10 DEF HeaderTrue
<1>14. \A f \in End : ReportedAcked(f)'
  <2> SUFFICES ASSUME NEW f \in End, NEW n \in PacketNum, reports'[f][n] > 0
               PROVE  /\ reports'[f][n] = 1
                      /\ n < peer'[f].generator
                      /\ peer'[f].sent[n].acked
    BY DEF ReportedAcked
  <2>1. ReportedAcked(f) /\ reports[f][n] \in Nat
    BY DEF IInv, TypeOK
  <2>2. n \in Slot
    BY NoWrapAssumption, MaxPacketsAssumption, RingAssumption DEF PacketNum, Slot
  <2>3. CASE f = e /\ n \in acks
    <3>1. reports[f][n] = 0
      BY <2>1, <2>3, <1>5 DEF ReportedAcked
    <3>2. n < peer'[f].generator
      BY <2>3, <1>5, <1>10
    <3>3. peer'[f].sent[n].acked
      <4>1. peer'[f] = q
        BY <2>3, <1>7
      <4>2. q.sent[n] = [sequence |-> peer[e].sent[n].sequence, acked |-> TRUE]
        BY <2>2, <2>3, <1>6
      <4> QED
        BY <4>1, <4>2
    <3>4. reports'[f][n] = 1
      BY <3>1, <2>3, <1>7
    <3> QED
      BY <3>2, <3>3, <3>4
  <2>4. CASE ~ (f = e /\ n \in acks)
    <3>1. reports'[f][n] = reports[f][n]
      BY <2>4, <1>7
    <3>2. /\ reports[f][n] = 1
          /\ n < peer[f].generator
          /\ peer[f].sent[n].acked
      BY <2>1, <3>1 DEF ReportedAcked
    <3> QED
      BY <3>1, <3>2, <2>2, <2>4, <1>6, <1>7, <1>10
  <2> QED
    BY <2>3, <2>4
<1>15. AckTruthful'
  <2> SUFFICES ASSUME NEW f \in End, NEW n \in PacketNum, reports'[f][n] > 0
               PROVE  n \in got'[Other(f)]
    BY DEF AckTruthful, Acked
  <2>1. got[Other(f)] \subseteq got'[Other(f)]
    BY <1>2, <1>7
  <2>2. CASE f = e /\ n \in acks
    BY <2>1, <2>2, <1>5
  <2>3. CASE ~ (f = e /\ n \in acks)
    BY <2>1, <2>3, <1>7 DEF IInv, AckTruthful, Acked
  <2> QED
    BY <2>2, <2>3
<1> QED
  BY <1>8, <1>9, <1>12, <1>13, <1>14, <1>15 DEF IInv

\* Every step of the specification, and every stutter, keeps IInv.
THEOREM NextKeepsIInv == IInv /\ [Next]_vars => IInv'
<1> SUFFICES ASSUME IInv, [Next]_vars PROVE IInv'
  OBVIOUS
<1>1. ASSUME NEW e \in End, onSendPacket(e) PROVE IInv'
  BY <1>1, SendKeepsIInv
<1>2. ASSUME NEW e \in End, NEW p \in net, onReceivePacket(e, p) PROVE IInv'
  BY <1>2, ReceiveKeepsIInv
<1>3. CASE UNCHANGED vars
  BY <1>3 DEF vars, IInv, TypeOK, SentRing, ReceivedRing, HeaderTrue,
              ReportedAcked, AckTruthful, Acked
<1> QED
  BY <1>1, <1>2, <1>3 DEF Next

-----------------------------------------------------------------------------
(***************************************************************************)
(* The newest packet.                                                      *)
(***************************************************************************)

\* The first packet is newer than the start value, and a packet of the first
\* half cycle is newer than another exactly if its number is greater.
LEMMA NewerIsGreater ==
    /\ \A s \in PacketNum : sequenceGreaterThan(s, MAX_SEQUENCE_NUMBER)
    /\ \A s, t \in PacketNum : sequenceGreaterThan(s, t) <=> s > t
<1> HALF_MAX_SEQUENCE_NUMBER \in Nat /\ 2 * HALF_MAX_SEQUENCE_NUMBER = SeqCycle
  BY HalfIsHalf
<1> QED
  BY NoWrapAssumption, MaxPacketsAssumption, RingAssumption, SeqCycleAssumption
     DEF sequenceGreaterThan, PacketNum, MAX_SEQUENCE_NUMBER

\* NewestInv holds before any packet.
THEOREM InitNewestInv == Init => NewestInv
BY DEF Init, NewestInv, NewPacketPeer

\* newest follows exactly the packets that are newer.
THEOREM NextKeepsNewestInv == IInv /\ NewestInv /\ [Next]_vars => NewestInv'
<1> SUFFICES ASSUME IInv, NewestInv, [Next]_vars PROVE NewestInv'
  OBVIOUS
<1>1. peer \in [End -> PacketPeerType] /\ got \in [End -> SUBSET PacketNum]
  BY DEF IInv, TypeOK
<1>2. ASSUME NEW e \in End, onSendPacket(e) PROVE NewestInv'
  <2>1. /\ got' = got
        /\ peer' = [peer EXCEPT ![e] = RecordSentPacket(peer[e])]
    BY <1>2 DEF onSendPacket
  <2>2. \A f \in End : peer'[f].newest = peer[f].newest
    BY <2>1, <1>1, RecordSentPacketFacts
  <2> QED
    BY <2>1, <2>2 DEF NewestInv
<1>3. ASSUME NEW e \in End, NEW p \in net, onReceivePacket(e, p) PROVE NewestInv'
  <2> DEFINE noted == RecordReceivedPacket(peer[e], p.seq)
             acks  == NewlyAcked(noted, p.ack, p.ackBits)
             s     == p.seq
  <2>1. /\ peer' = [peer EXCEPT ![e] = MarkAcked(noted, acks)]
        /\ got' = [got EXCEPT ![e] = got[e] \cup {s}]
    BY <1>1, <1>3 DEF onReceivePacket
  <2>2. s \in PacketNum /\ s \in SequenceNumber
    <3>1. s \in PacketNum
      BY DEF IInv, TypeOK, Packet
    <3> QED
      BY <3>1, MaxPacketsAssumption, SeqCycleAssumption DEF PacketNum, SequenceNumber
  <2>3. noted \in PacketPeerType
    BY <1>1, <2>2, RecordReceivedPacketFacts
  <2>4. noted.newest = IF sequenceGreaterThan(s, peer[e].newest)
                       THEN s ELSE peer[e].newest
    <3>1. DOMAIN peer[e] = {"generator", "newest", "sent", "received"}
      BY <1>1 DEF PacketPeerType
    <3> QED
      BY <3>1 DEF RecordReceivedPacket
  <2> HIDE DEF noted, acks, s
  <2>5. MarkAcked(noted, acks).newest = noted.newest
    BY <2>3, MarkAckedFacts
  <2>6. /\ \A f \in End : f # e => peer'[f] = peer[f] /\ got'[f] = got[f]
        /\ peer'[e].newest = noted.newest
        /\ got'[e] = got[e] \cup {s}
    BY <1>1, <2>1, <2>5
  <2>7. /\ peer'[e].newest \in got'[e]
        /\ \A n \in got'[e] : n <= peer'[e].newest
    <3>1. CASE got[e] = {}
      <4>1. peer'[e].newest = s
        BY <3>1, <2>2, <2>4, <2>6, NewerIsGreater DEF NewestInv
      <4>2. got'[e] = {s}
        BY <3>1, <2>6
      <4> QED
        BY <4>1, <4>2, <2>2 DEF PacketNum
    <3>2. CASE got[e] # {}
      <4>1. /\ peer[e].newest \in got[e] /\ peer[e].newest \in PacketNum
            /\ \A n \in got[e] : n <= peer[e].newest
            /\ got[e] \subseteq PacketNum
        BY <3>2, <1>1 DEF NewestInv
      <4>2. peer'[e].newest = IF s > peer[e].newest THEN s ELSE peer[e].newest
        BY <4>1, <2>2, <2>4, <2>6, NewerIsGreater
      <4> QED
        BY <4>1, <4>2, <2>2, <2>6 DEF PacketNum
    <3> QED
      BY <3>1, <3>2
  <2> QED
    BY <2>6, <2>7 DEF NewestInv
<1>4. CASE UNCHANGED vars
  BY <1>4 DEF vars, NewestInv
<1> QED
  BY <1>2, <1>3, <1>4 DEF Next

-----------------------------------------------------------------------------
(***************************************************************************)
(* No news is lost: the other half of the refinement of PacketAcks.        *)
(***************************************************************************)

\* A packet number below RingSize is its own slot.
LEMMA PacketSlot ==
    \A n \in PacketNum : n \in Nat /\ n \in Slot /\ SlotOf(n) = n
<1>1. \A n \in PacketNum : n \in Nat /\ n \in Slot
  BY NoWrapAssumption, MaxPacketsAssumption, RingAssumption DEF PacketNum, Slot
<1> QED
  BY <1>1, SlotOfFacts

\* NewsInv holds before any packet.
THEOREM InitNewsInv == Init => NewsInv
<1> SUFFICES ASSUME Init, NEW e \in End PROVE AckedReported(e)
  BY DEF Init, NewsInv
<1>1. peer[e].generator = 0
  BY DEF Init, NewPacketPeer
<1> QED
  BY <1>1, PacketSlot DEF AckedReported

\* The header being built names every packet got within its window.
LEMMA SendKeepsNewsInv ==
    ASSUME IInv, NewestInv, NewsInv, NEW e \in End, onSendPacket(e)
    PROVE  NewsInv'
<1> DEFINE q == RecordSentPacket(peer[e])
           g == peer[e].generator
           new == [from    |-> e,
                   seq     |-> g,
                   ack     |-> peer[e].newest,
                   ackBits |-> GenerateAckBits(peer[e]),
                   seen    |-> got[e]]
<1>1. /\ peer \in [End -> PacketPeerType]
      /\ peer' = [peer EXCEPT ![e] = q]
      /\ net' = net \cup {new}
      /\ UNCHANGED <<got, reports>>
      /\ g < MaxPackets
      /\ got[e] \subseteq PacketNum
  BY DEF IInv, TypeOK, onSendPacket
<1>2. g \in PacketNum
  BY <1>1, MaxPacketsAssumption DEF PacketNum, PacketPeerType, SequenceNumber
<1>3. /\ q.generator = g + 1
      /\ \A i \in Slot : q.sent[i] = IF i = g
                                      THEN [sequence |-> g, acked |-> FALSE]
                                      ELSE peer[e].sent[i]
  <2>1. SeqIncrement(g) = g + 1
    BY <1>2, MaxPacketsAssumption, SeqCycleAssumption
       DEF SeqIncrement, MAX_SEQUENCE_NUMBER, PacketNum
  <2>2. SlotOf(g) = g
    BY <1>2, PacketSlot
  <2> QED
    BY <2>1, <2>2, <1>1, RecordSentPacketFacts
<1>4. \A f \in End : peer'[f] = IF f = e THEN q ELSE peer[f]
  BY <1>1
<1> HIDE DEF q
<1>5. ASSUME NEW p, p = new PROVE HeaderComplete(p)'
  <2>1. got[e] # {} => /\ peer[e].newest \in got[e]
                       /\ \A n \in got[e] : n <= peer[e].newest
    BY DEF NewestInv
  <2>2. ASSUME NEW i \in AckDistance, i <= peer[e].newest,
               peer[e].newest - i \in got[e]
        PROVE  i \in GenerateAckBits(peer[e])
    <3>1. SeqMinus(peer[e].newest, i) = peer[e].newest - i
      BY <2>2 DEF SeqMinus
    <3>2. SlotOf(peer[e].newest - i) = peer[e].newest - i
      BY <2>2, <1>1, PacketSlot
    <3>3. peer[e].received = got[e]
      BY DEF IInv, ReceivedRing
    <3> QED
      BY <2>2, <3>1, <3>2, <3>3 DEF GenerateAckBits
  <2> QED
    BY <2>1, <2>2, <1>1, <1>5 DEF HeaderComplete
<1>6. \A p \in net' : HeaderComplete(p)'
  <2>1. \A p \in net : HeaderComplete(p)'
    BY <1>1 DEF NewsInv, HeaderComplete
  <2> QED
    BY <2>1, <1>1, <1>5
<1>7. \A f \in End : AckedReported(f)'
  <2> SUFFICES ASSUME NEW f \in End, NEW n \in PacketNum,
                      n < peer'[f].generator, peer'[f].sent[n].acked
               PROVE  reports[f][n] > 0
    BY <1>1 DEF AckedReported
  <2>1. AckedReported(f)
    BY DEF NewsInv
  <2>2. n \in Slot /\ n \in Nat
    BY PacketSlot
  <2>3. CASE f = e
    <3>1. n # g
      <4>1. n = g => peer'[f].sent[n] = [sequence |-> g, acked |-> FALSE]
        BY <2>2, <2>3, <1>3, <1>4
      <4> QED
        BY <4>1
    <3>2. n < peer[f].generator
      BY <3>1, <2>2, <2>3, <1>2, <1>3, <1>4 DEF PacketNum
    <3>3. peer[f].sent[n].acked
      BY <3>1, <2>2, <2>3, <1>3, <1>4
    <3> QED
      BY <3>2, <3>3, <2>1 DEF AckedReported
  <2>4. CASE f # e
    BY <2>1, <2>4, <1>4 DEF AckedReported
  <2> QED
    BY <2>3, <2>4
<1> QED
  BY <1>6, <1>7 DEF NewsInv

\* A slot becomes ACKED only with the report of the packet it holds.
LEMMA ReceiveKeepsNewsInv ==
    ASSUME IInv, NewsInv, NEW e \in End, NEW p \in net, onReceivePacket(e, p)
    PROVE  NewsInv'
<1> DEFINE noted == RecordReceivedPacket(peer[e], p.seq)
           acks  == NewlyAcked(noted, p.ack, p.ackBits)
           q     == MarkAcked(noted, acks)
<1>1. /\ peer \in [End -> PacketPeerType]
      /\ peer' = [peer EXCEPT ![e] = q]
      /\ reports' = [reports EXCEPT ![e] =
            [n \in PacketNum |-> IF n \in acks THEN @[n] + 1 ELSE @[n]]]
      /\ got' = [got EXCEPT ![e] = @ \cup {p.seq}]
      /\ net' = net
      /\ p.from = Other(e)
  BY DEF IInv, TypeOK, onReceivePacket
<1>2. p.seq \in SequenceNumber
  <2>1. p.seq \in PacketNum
    BY DEF IInv, TypeOK, Packet
  <2> QED
    BY <2>1, MaxPacketsAssumption, SeqCycleAssumption DEF PacketNum, SequenceNumber
<1>3. /\ noted \in PacketPeerType
      /\ noted.generator = peer[e].generator
      /\ noted.sent = peer[e].sent
  BY <1>1, <1>2, RecordReceivedPacketFacts
<1>4. \A s \in acks : s = SlotOf(s)
  BY <1>1, NewlyAckedTrue
<1>5. /\ q.generator = peer[e].generator
      /\ \A i \in Slot : i \notin acks => q.sent[i] = peer[e].sent[i]
  <2>1. \A i \in Slot : (\E s \in acks : SlotOf(s) = i) => i \in acks
    BY <1>4
  <2> HIDE DEF noted, acks
  <2>2. /\ q.generator = noted.generator
        /\ \A i \in Slot : q.sent[i] =
              IF \E s \in acks : SlotOf(s) = i
              THEN [sequence |-> noted.sent[i].sequence, acked |-> TRUE]
              ELSE noted.sent[i]
    BY <1>3, MarkAckedFacts
  <2> QED
    BY <2>1, <2>2, <1>3
<1> HIDE DEF noted, acks, q
<1>6. /\ \A f \in End : peer'[f] = IF f = e THEN q ELSE peer[f]
      /\ \A f \in End : got[f] \subseteq got'[f]
      /\ \A f \in End : \A n \in PacketNum : reports'[f][n] =
            IF f = e /\ n \in acks THEN reports[f][n] + 1 ELSE reports[f][n]
  BY <1>1 DEF IInv, TypeOK
<1>7. \A r \in net' : HeaderComplete(r)'
  <2> SUFFICES ASSUME NEW r \in net PROVE HeaderComplete(r)'
    BY <1>1
  <2>1. r.from \in End /\ HeaderComplete(r)
    BY DEF IInv, TypeOK, Packet, NewsInv
  <2> QED
    BY <2>1, <1>6 DEF HeaderComplete
<1>8. \A f \in End : AckedReported(f)'
  <2> SUFFICES ASSUME NEW f \in End, NEW n \in PacketNum,
                      n < peer'[f].generator, peer'[f].sent[n].acked
               PROVE  reports'[f][n] > 0
    BY DEF AckedReported
  <2>1. AckedReported(f) /\ reports[f][n] \in Nat
    BY DEF NewsInv, IInv, TypeOK
  <2>2. CASE f = e /\ n \in acks
    BY <2>1, <2>2, <1>6
  <2>3. CASE ~ (f = e /\ n \in acks)
    <3>1. n \in Slot
      BY PacketSlot
    <3>2. n < peer[f].generator /\ peer[f].sent[n].acked
      BY <3>1, <2>3, <1>5, <1>6
    <3> QED
      BY <3>2, <2>1, <2>3, <1>6 DEF AckedReported
  <2> QED
    BY <2>2, <2>3
<1> QED
  BY <1>7, <1>8 DEF NewsInv

\* Every step and every stutter keeps NewsInv.
THEOREM NextKeepsNewsInv == IInv /\ NewestInv /\ NewsInv /\ [Next]_vars => NewsInv'
<1> SUFFICES ASSUME IInv, NewestInv, NewsInv, [Next]_vars PROVE NewsInv'
  OBVIOUS
<1>1. ASSUME NEW e \in End, onSendPacket(e) PROVE NewsInv'
  BY <1>1, SendKeepsNewsInv
<1>2. ASSUME NEW e \in End, NEW p \in net, onReceivePacket(e, p) PROVE NewsInv'
  BY <1>2, ReceiveKeepsNewsInv
<1>3. CASE UNCHANGED vars
  BY <1>3 DEF vars, NewsInv, HeaderComplete, AckedReported
<1> QED
  BY <1>1, <1>2, <1>3 DEF Next

-----------------------------------------------------------------------------
(***************************************************************************)
(* PacketManager implements PacketAcks.                                    *)
(***************************************************************************)

\* Every recent packet a header's sender had seen is known to have arrived
\* once that header has been handled.
LEMMA NewsArrives ==
    ASSUME Inductive, NEW e \in End, NEW p \in net, p.from = Other(e),
           NEW n \in Abs!Recent(p.seen), n \notin Acked(e)
    PROVE  n \in NewlyAcked(RecordReceivedPacket(peer[e], p.seq), p.ack, p.ackBits)
<1>1. /\ peer[e] \in PacketPeerType
      /\ p.seq \in SequenceNumber
      /\ p.seen \subseteq PacketNum
      /\ reports[e] \in [PacketNum -> Nat]
      /\ Other(e) \in End
      /\ Other(Other(e)) = e
  <2>1. TypeOK
    BY DEF Inductive, IInv
  <2>2. p.seq \in PacketNum /\ p.seen \subseteq PacketNum
    BY <2>1 DEF TypeOK, Packet
  <2>3. p.seq \in SequenceNumber
    BY <2>2, MaxPacketsAssumption, SeqCycleAssumption DEF PacketNum, SequenceNumber
  <2> QED
    BY <2>1, <2>2, <2>3 DEF TypeOK, End, Other
<1>2. n \in p.seen /\ \A m \in p.seen : m - n <= AckWindow
  BY DEF Abs!Recent
<1>3. /\ n \in PacketNum /\ n \in Nat /\ n \in Slot /\ SlotOf(n) = n
      /\ p.ack \in p.seen /\ p.ack \in Nat
      /\ n <= p.ack
      /\ p.seen \subseteq got[Other(e)]
      /\ \A i \in AckDistance :
            i <= p.ack /\ p.ack - i \in p.seen => i \in p.ackBits
  <2>1. HeaderComplete(p)
    BY DEF Inductive, NewsInv
  <2> QED
    BY <2>1, <1>1, <1>2, PacketSlot DEF HeaderComplete
<1>4. n < peer[e].generator
  BY <1>1, <1>2, <1>3 DEF Inductive, IInv, ReceivedRing
<1>5. /\ peer[e].sent[n].sequence = n
      /\ ~ peer[e].sent[n].acked
  <2>1. SentRing(e) /\ AckedReported(e)
    BY DEF Inductive, IInv, NewsInv
  <2>2. ~ (reports[e][n] > 0)
    BY <1>3 DEF Acked
  <2> QED
    BY <2>1, <2>2, <1>3, <1>4 DEF SentRing, AckedReported
<1>6. n \in AckCandidates(p.ack, p.ackBits)
  <2>1. CASE n = p.ack
    BY <2>1 DEF AckCandidates
  <2>2. CASE n # p.ack
    <3>1. /\ p.ack - n \in AckDistance
          /\ p.ack - n <= p.ack
          /\ p.ack - (p.ack - n) = n
      BY <2>2, <1>2, <1>3, RingAssumption DEF AckDistance
    <3>2. p.ack - n \in p.ackBits
      BY <3>1, <1>2, <1>3
    <3>3. SeqMinus(p.ack, p.ack - n) = n
      BY <3>1 DEF SeqMinus
    <3> QED
      BY <3>2, <3>3 DEF AckCandidates
  <2> QED
    BY <2>1, <2>2
<1>7. RecordReceivedPacket(peer[e], p.seq).sent = peer[e].sent
  BY <1>1, RecordReceivedPacketFacts
<1> QED
  BY <1>3, <1>5, <1>6, <1>7 DEF NewlyAcked

\* Sending a packet is Send.
LEMMA SendImplements ==
    ASSUME Inductive, NEW e \in End, onSendPacket(e)
    PROVE  Abs!Send(e)
<1> DEFINE g == peer[e].generator
           new == [from    |-> e,
                   seq     |-> g,
                   ack     |-> peer[e].newest,
                   ackBits |-> GenerateAckBits(peer[e]),
                   seen    |-> got[e]]
<1>1. /\ peer \in [End -> PacketPeerType]
      /\ peer' = [peer EXCEPT ![e] = RecordSentPacket(peer[e])]
      /\ net' = net \cup {new}
      /\ UNCHANGED <<got, reports>>
      /\ g < MaxPackets
  BY DEF Inductive, IInv, TypeOK, onSendPacket
<1>2. RecordSentPacket(peer[e]).generator = g + 1
  <2>1. SeqIncrement(g) = g + 1
    BY <1>1, MaxPacketsAssumption, SeqCycleAssumption
       DEF SeqIncrement, MAX_SEQUENCE_NUMBER, PacketPeerType, SequenceNumber
  <2> QED
    BY <2>1, <1>1, RecordSentPacketFacts
<1>3. [f \in End |-> peer'[f].generator] =
        [[f \in End |-> peer[f].generator] EXCEPT ![e] = @ + 1]
  <2>1. \A f \in End : peer'[f].generator =
            IF f = e THEN peer[f].generator + 1 ELSE peer[f].generator
    BY <1>1, <1>2
  <2> QED
    BY <2>1
<1>4. {[from |-> p.from, num |-> p.seq, seen |-> p.seen] : p \in net'} =
        {[from |-> p.from, num |-> p.seq, seen |-> p.seen] : p \in net}
            \cup {[from |-> e, num |-> g, seen |-> got[e]]}
  <2>1. [from |-> new.from, num |-> new.seq, seen |-> new.seen] =
            [from |-> e, num |-> g, seen |-> got[e]]
    OBVIOUS
  <2> HIDE DEF new
  <2> QED
    BY <2>1, <1>1
<1>5. [f \in End |-> peer[f].generator][e] = g
  OBVIOUS
<1>6. [f \in End |-> Acked(f)]' = [f \in End |-> Acked(f)]
  BY <1>1 DEF Acked
<1> QED
  BY <1>1, <1>3, <1>4, <1>5, <1>6 DEF Abs!Send

\* Handling a packet is Deliver, and the news are the packets newly acked.
LEMMA ReceiveImplements ==
    ASSUME Inductive, NEW e \in End, NEW p \in net, onReceivePacket(e, p)
    PROVE  Abs!Deliver(e, [from |-> p.from, num |-> p.seq, seen |-> p.seen])
<1> DEFINE noted == RecordReceivedPacket(peer[e], p.seq)
           acks  == NewlyAcked(noted, p.ack, p.ackBits)
           q     == MarkAcked(noted, acks)
<1>1. /\ IInv
      /\ peer \in [End -> PacketPeerType]
      /\ peer' = [peer EXCEPT ![e] = q]
      /\ reports' = [reports EXCEPT ![e] =
            [n \in PacketNum |-> IF n \in acks THEN @[n] + 1 ELSE @[n]]]
      /\ got' = [got EXCEPT ![e] = @ \cup {p.seq}]
      /\ net' = net
      /\ p.from = Other(e)
  BY DEF Inductive, IInv, TypeOK, onReceivePacket
<1>2. p.seq \in SequenceNumber
  <2>1. p.seq \in PacketNum
    BY <1>1 DEF IInv, TypeOK, Packet
  <2> QED
    BY <2>1, MaxPacketsAssumption, SeqCycleAssumption DEF PacketNum, SequenceNumber
<1>3. noted \in PacketPeerType /\ noted.generator = peer[e].generator
  BY <1>1, <1>2, RecordReceivedPacketFacts
<1>4. /\ acks \subseteq got[Other(e)]
      /\ got[Other(e)] \subseteq PacketNum
  <2>1. got[Other(e)] \subseteq PacketNum
    BY <1>1 DEF IInv, TypeOK, End, Other
  <2> QED
    BY <2>1, <1>1, NewlyAckedTrue
<1>5. Abs!Recent(p.seen) \subseteq Acked(e) \cup acks
  BY <1>1, NewsArrives
<1>6. q.generator = peer[e].generator
  <2> HIDE DEF noted, acks
  <2> QED
    BY <1>3, MarkAckedFacts
<1> HIDE DEF noted, acks, q
<1>7. [f \in End |-> peer'[f].generator] = [f \in End |-> peer[f].generator]
  <2>1. \A f \in End : peer'[f].generator = peer[f].generator
    BY <1>1, <1>6
  <2> QED
    BY <2>1
<1>8. [f \in End |-> Acked(f)]' = [[f \in End |-> Acked(f)] EXCEPT ![e] = @ \cup acks]
  <2>1. \A f \in End : \A n \in PacketNum :
          /\ reports[f][n] \in Nat
          /\ reports'[f][n] =
                IF f = e /\ n \in acks THEN reports[f][n] + 1 ELSE reports[f][n]
    BY <1>1 DEF IInv, TypeOK
  <2>2. \A f \in End : \A n \in PacketNum :
          reports'[f][n] > 0 <=> reports[f][n] > 0 \/ (f = e /\ n \in acks)
    BY <2>1
  <2>3. \A f \in End :
          Acked(f)' = IF f = e THEN Acked(f) \cup acks ELSE Acked(f)
    BY <2>2, <1>4 DEF Acked
  <2> QED
    BY <2>3
<1>9. Abs!Other(e) = Other(e)
  BY DEF Abs!Other, Other
<1> QED
  BY <1>1, <1>4, <1>5, <1>7, <1>8, <1>9 DEF Abs!Deliver

\* The initial states are PacketAcks's.
THEOREM InitImplements == Init => Abs!Init
<1> SUFFICES ASSUME Init PROVE Abs!Init
  OBVIOUS
<1>1. \A e \in End : peer[e].generator = 0 /\ Acked(e) = {}
  BY DEF Init, NewPacketPeer, Acked
<1>2. net = {} /\ got = [e \in End |-> {}]
  BY DEF Init
<1>3. End = Abs!End
  BY DEF End, Abs!End
<1> QED
  BY <1>1, <1>2, <1>3 DEF Abs!Init

\* Every step is a step of PacketAcks or a stutter.
THEOREM NextImplements == Inductive /\ [Next]_vars => [Abs!Next]_Abs!absVars
<1> SUFFICES ASSUME Inductive, [Next]_vars PROVE [Abs!Next]_Abs!absVars
  OBVIOUS
<1>1. End = Abs!End
  BY DEF End, Abs!End
<1>2. ASSUME NEW e \in End, onSendPacket(e) PROVE Abs!Next
  BY <1>1, <1>2, SendImplements DEF Abs!Next
<1>3. ASSUME NEW e \in End, NEW p \in net, onReceivePacket(e, p) PROVE Abs!Next
  <2>1. Abs!Deliver(e, [from |-> p.from, num |-> p.seq, seen |-> p.seen])
    BY <1>3, ReceiveImplements
  <2> QED
    BY <2>1, <1>1, <1>3 DEF Abs!Next
<1>4. CASE UNCHANGED vars
  BY <1>4 DEF vars, Abs!absVars, Acked
<1> QED
  BY <1>2, <1>3, <1>4 DEF Next

-----------------------------------------------------------------------------
(***************************************************************************)
(* The theorems.                                                           *)
(***************************************************************************)

\* The inductive invariant holds throughout.
THEOREM Invariance == Spec => []Inductive
<1>1. Init => Inductive
  BY InitIInv, InitNewestInv, InitNewsInv DEF Inductive
<1>2. Inductive /\ [Next]_vars => Inductive'
  BY NextKeepsIInv, NextKeepsNewestInv, NextKeepsNewsInv DEF Inductive
<1> QED
  BY <1>1, <1>2, PTL DEF Spec

\* The rings, the packets and the histories keep their types.
THEOREM TypeCorrect == Spec => []TypeOK
<1>1. Inductive => TypeOK
  BY DEF Inductive, IInv
<1> QED
  BY <1>1, Invariance, PTL

\* Whatever the network does, onPacketAcked names only packets that arrived.
THEOREM AcksAreTrue == Spec => []AckTruthful
<1>1. Inductive => AckTruthful
  BY DEF Inductive, IInv
<1> QED
  BY <1>1, Invariance, PTL

\* Whatever the network does, onPacketAcked names a packet at most once.
THEOREM AcksComeOnce == Spec => []AckedOnce
<1>1. Inductive => AckedOnce
  BY DEF Inductive, IInv, TypeOK, ReportedAcked, AckedOnce
<1> QED
  BY <1>1, Invariance, PTL

\* Whatever the order of arrival, the ack field of the next header is the
\* newest packet received.
THEOREM NewestIsNewest == Spec => []NewestIsLatest
<1>1. Inductive => NewestIsLatest
  BY DEF Inductive, NewestInv, NewestIsLatest
<1> QED
  BY <1>1, Invariance, PTL

\* The packet layer implements PacketAcks: what it reports is true, and no
\* packet within the window goes unreported once a header names it.
THEOREM Refinement == Spec => ImplementsPacketAcks
<1> QED
  BY InitImplements, NextImplements, Invariance, PTL
     DEF Spec, ImplementsPacketAcks, Abs!Spec

-----------------------------------------------------------------------------
(***************************************************************************)
(* The ack field as a word of bits.                                        *)
(***************************************************************************)

\* n bits have twice as many values as n - 1.
LEMMA WordValuesSteps ==
    /\ WordValues[0] = 1
    /\ \A n \in 1 .. AckWindow : WordValues[n] = 2 * WordValues[n - 1]
    /\ \A n \in 0 .. AckWindow : WordValues[n] \in Nat
<1> DEFINE Rec(f) == f = [n \in 0 .. AckWindow |-> IF n = 0 THEN 1 ELSE 2 * f[n - 1]]
           step   == [n \in 1 .. AckWindow |-> [x \in Nat |-> 2 * x]]
<1>1. AckWindow \in Nat
  BY RingAssumption
<1>2. PICK f : Recurs(f, AckWindow, Nat, 1, step)
  <2>1. step \in [1 .. AckWindow -> [Nat -> Nat]]
    OBVIOUS
  <2>2. 1 \in Nat
    OBVIOUS
  <2> HIDE DEF step
  <2> QED
    BY <1>1, <2>1, <2>2, Recursion
<1>3. Rec(f)
  <2>1. f \in [0 .. AckWindow -> Nat]
    BY <1>2 DEF Recurs
  <2>2. \A n \in 1 .. AckWindow : f[n - 1] \in Nat
    BY <1>1, <2>1
  <2>3. \A n \in 1 .. AckWindow : \A x \in Nat : step[n][x] = 2 * x
    OBVIOUS
  <2> HIDE DEF step
  <2>4. \A n \in 0 .. AckWindow : f[n] = IF n = 0 THEN 1 ELSE 2 * f[n - 1]
    <3>1. f[0] = 1 /\ \A n \in 1 .. AckWindow : f[n] = 2 * f[n - 1]
      BY <1>2, <2>2, <2>3 DEF Recurs
    <3>2. \A n \in 0 .. AckWindow : n = 0 \/ (n # 0 /\ n \in 1 .. AckWindow)
      BY <1>1
    <3> QED
      BY <3>1, <3>2
  <2>5. f = [n \in 0 .. AckWindow |-> f[n]]
    BY <2>1
  <2> QED
    BY <2>4, <2>5
<1>4. WordValues = CHOOSE g : Rec(g)
  BY DEF WordValues
<1>5. Rec(WordValues)
  <2> HIDE DEF Rec
  <2> QED
    BY <1>3, <1>4
<1>6. /\ WordValues[0] = 1
      /\ \A n \in 1 .. AckWindow : WordValues[n] = 2 * WordValues[n - 1]
  <2>1. \A n \in 0 .. AckWindow : WordValues[n] = IF n = 0 THEN 1 ELSE 2 * WordValues[n - 1]
    BY <1>5
  <2> QED
    BY <2>1, <1>1
<1> DEFINE T == {n \in 0 .. AckWindow : WordValues[n] \in Nat}
<1>7. \A n \in 0 .. AckWindow : n \in T
  <2> SUFFICES ASSUME NEW m \in 0 .. AckWindow PROVE m \in T
    OBVIOUS
  <2>1. 0 \in T
    BY <1>1, <1>6
  <2>2. \A n \in 0 .. m - 1 : n \in T => n + 1 \in T
    <3> SUFFICES ASSUME NEW n \in 0 .. m - 1, WordValues[n] \in Nat PROVE n + 1 \in T
      OBVIOUS
    <3>1. WordValues[n + 1] = 2 * WordValues[n]
      BY <1>1, <1>6
    <3> QED
      BY <1>1, <3>1
  <2> HIDE DEF T
  <2> QED
    BY <2>1, <2>2, SetInduction
<1> QED
  BY <1>6, <1>7

\* A narrower word has no more values.
LEMMA WordValuesGrow ==
    ASSUME NEW n \in 0 .. AckWindow
    PROVE  /\ WordValues[n] \in Nat \ {0}
           /\ WordValues[n] <= WordValues[AckWindow]
<1>1. AckWindow \in Nat
  BY RingAssumption
<1> DEFINE T == {m \in 0 .. AckWindow :
                    \A i \in 0 .. m : /\ WordValues[i] \in Nat \ {0}
                                       /\ WordValues[i] <= WordValues[m]}
<1>2. 0 \in T
  BY <1>1, WordValuesSteps
<1>3. ASSUME NEW m \in 0 .. AckWindow - 1, m \in T PROVE m + 1 \in T
  <2>1. WordValues[m + 1] = 2 * WordValues[m] /\ WordValues[m] \in Nat \ {0}
    BY <1>1, <1>3, WordValuesSteps
  <2>2. \A i \in 0 .. m : WordValues[i] \in Nat \ {0} /\ WordValues[i] <= WordValues[m]
    BY <1>3
  <2>3. \A i \in 0 .. m + 1 : i \in 0 .. m \/ i = m + 1
    OBVIOUS
  <2>4. \A i \in 0 .. m + 1 : WordValues[i] \in Nat \ {0} /\ WordValues[i] <= WordValues[m + 1]
    BY <2>1, <2>2, <2>3
  <2> QED
    BY <1>1, <2>4
<1>4. AckWindow \in T
  <2> HIDE DEF T
  <2> QED
    BY <1>1, <1>2, <1>3, SetInduction
<1> QED
  BY <1>4

\* The writing loop: nothing is shifted out, and distance i leaves the last bit
\* after i iterations.
LEMMA AckWordSteps ==
    ASSUME NEW received
    PROVE  \E after :
            /\ after[0] = 0
            /\ \A i \in 0 .. AckWindow : after[i] \in Nat
            /\ \A i \in 1 .. AckWindow :
                    after[i] = 2 * after[i - 1] + IF i \in received THEN 1 ELSE 0
            /\ AckWord(received) = after[AckWindow]
<1> DEFINE Bit(i) == IF i \in received THEN 1 ELSE 0
           Rec(f) == f = [i \in 0 .. AckWindow |->
                            IF i = 0 THEN 0 ELSE ShiftLeft(f[i - 1]) + Bit(i)]
           step   == [i \in 1 .. AckWindow |-> [x \in Nat |-> ShiftLeft(x) + Bit(i)]]
           after  == CHOOSE f : Rec(f)
<1>1. AckWindow \in Nat
  BY RingAssumption
<1>2. \A x \in Nat : ShiftLeft(x) \in Nat
  <2>1. WordValues[AckWindow] \in Nat \ {0}
    BY <1>1, WordValuesGrow
  <2> QED
    BY <2>1 DEF ShiftLeft
<1>3. \A i : Bit(i) \in {0, 1}
  OBVIOUS
<1> HIDE DEF Bit
<1>4. \E f \in [0 .. AckWindow -> Nat] : Rec(f)
  <2>1. step \in [1 .. AckWindow -> [Nat -> Nat]]
    BY <1>2, <1>3
  <2>2. \A n \in 1 .. AckWindow : \A x \in Nat : step[n][x] = ShiftLeft(x) + Bit(n)
    OBVIOUS
  <2> HIDE DEF step
  <2>3. 0 \in Nat
    OBVIOUS
  <2>4. PICK f : Recurs(f, AckWindow, Nat, 0, step)
    BY <1>1, <2>1, <2>3, Recursion
  <2>5. f \in [0 .. AckWindow -> Nat]
    BY <2>4 DEF Recurs
  <2>6. \A n \in 1 .. AckWindow : f[n - 1] \in Nat
    BY <1>1, <2>5
  <2>7. \A n \in 0 .. AckWindow : f[n] = IF n = 0 THEN 0 ELSE ShiftLeft(f[n - 1]) + Bit(n)
    <3>1. f[0] = 0 /\ \A n \in 1 .. AckWindow : f[n] = ShiftLeft(f[n - 1]) + Bit(n)
      BY <2>2, <2>4, <2>6 DEF Recurs
    <3>2. \A n \in 0 .. AckWindow : n = 0 \/ (n # 0 /\ n \in 1 .. AckWindow)
      BY <1>1
    <3> QED
      BY <3>1, <3>2
  <2>8. f = [n \in 0 .. AckWindow |-> f[n]]
    BY <2>5
  <2>9. Rec(f)
    BY <2>7, <2>8
  <2> QED
    BY <2>5, <2>9
<1>5. Rec(after)
  <2> HIDE DEF Rec
  <2> QED
    BY <1>4
<1>6. AckWord(received) = after[AckWindow]
  BY DEF AckWord, Bit
<1> HIDE DEF after
<1>7. \A n \in 0 .. AckWindow :
        after[n] = IF n = 0 THEN 0 ELSE ShiftLeft(after[n - 1]) + Bit(n)
  BY <1>5
<1>8. after[0] = 0 /\ \A n \in 1 .. AckWindow : after[n] = ShiftLeft(after[n - 1]) + Bit(n)
  BY <1>1, <1>7
<1> HIDE DEF Rec
<1> DEFINE Good(i) == /\ after[i] \in Nat /\ after[i] < WordValues[i]
                      /\ i # 0 => after[i] = 2 * after[i - 1] + Bit(i)
           T == {n \in 0 .. AckWindow : \A i \in 0 .. n : Good(i)}
<1>9. 0 \in T
  BY <1>1, <1>8, WordValuesSteps
<1>10. ASSUME NEW n \in 0 .. AckWindow - 1, n \in T PROVE n + 1 \in T
  <2>1. after[n] \in Nat /\ after[n] < WordValues[n]
    BY <1>10
  <2>2. /\ WordValues[n + 1] = 2 * WordValues[n]
        /\ WordValues[n] \in Nat /\ WordValues[AckWindow] \in Nat
        /\ WordValues[n + 1] <= WordValues[AckWindow]
    BY <1>1, WordValuesSteps, WordValuesGrow
  <2>3. after[n] * 2 \in 0 .. WordValues[AckWindow] - 1
    BY <2>1, <2>2
  <2>4. ShiftLeft(after[n]) = 2 * after[n]
    BY <2>1, <2>2, <2>3 DEF ShiftLeft
  <2>5. after[n + 1] = 2 * after[n] + Bit(n + 1)
    <3>1. n + 1 \in 1 .. AckWindow /\ (n + 1) - 1 = n
      BY <1>1
    <3>2. after[n + 1] = ShiftLeft(after[(n + 1) - 1]) + Bit(n + 1)
      BY <1>8, <3>1
    <3> QED
      BY <2>4, <3>1, <3>2
  <2>6. after[n + 1] \in Nat /\ after[n + 1] < WordValues[n + 1]
    BY <1>3, <2>1, <2>2, <2>5
  <2>7. \A i \in 0 .. n + 1 : i \in 0 .. n \/ i = n + 1
    OBVIOUS
  <2>8. Good(n + 1)
    BY <2>5, <2>6
  <2> HIDE DEF Good
  <2>9. \A i \in 0 .. n + 1 : Good(i)
    BY <1>10, <2>7, <2>8
  <2>10. n + 1 \in 0 .. AckWindow
    BY <1>1
  <2> QED
    BY <2>9, <2>10
<1>11. AckWindow \in T
  <2> HIDE DEF T
  <2> QED
    BY <1>1, <1>9, <1>10, SetInduction
<1>12. /\ \A i \in 0 .. AckWindow : after[i] \in Nat
       /\ \A i \in 1 .. AckWindow : after[i] = 2 * after[i - 1] + Bit(i)
  BY <1>11
<1> QED
  BY <1>6, <1>8, <1>12 DEF Bit

\* The reading loop: each iteration sees half of what the one before it saw.
LEMMA AckedDistancesSteps ==
    ASSUME NEW word \in Nat
    PROVE  \E shifted :
            /\ shifted[0] = word
            /\ \A k \in 1 .. AckWindow : shifted[k] = shifted[k - 1] \div 2
            /\ AckedDistances(word) = {i \in AckDistance : shifted[AckWindow - i] % 2 = 1}
<1> DEFINE Rec(f)  == f = [k \in 0 .. AckWindow |-> IF k = 0 THEN word ELSE f[k - 1] \div 2]
           step    == [k \in 1 .. AckWindow |-> [x \in Nat |-> x \div 2]]
           shifted == CHOOSE f : Rec(f)
<1>1. AckWindow \in Nat
  BY RingAssumption
<1>2. \E f \in [0 .. AckWindow -> Nat] : Rec(f)
  <2>1. step \in [1 .. AckWindow -> [Nat -> Nat]]
    OBVIOUS
  <2>2. \A n \in 1 .. AckWindow : \A x \in Nat : step[n][x] = x \div 2
    OBVIOUS
  <2> HIDE DEF step
  <2>3. PICK f : Recurs(f, AckWindow, Nat, word, step)
    BY <1>1, <2>1, Recursion
  <2>4. f \in [0 .. AckWindow -> Nat]
    BY <2>3 DEF Recurs
  <2>5. \A n \in 1 .. AckWindow : f[n - 1] \in Nat
    BY <1>1, <2>4
  <2>6. \A n \in 0 .. AckWindow : f[n] = IF n = 0 THEN word ELSE f[n - 1] \div 2
    <3>1. f[0] = word /\ \A n \in 1 .. AckWindow : f[n] = f[n - 1] \div 2
      BY <2>2, <2>3, <2>5 DEF Recurs
    <3>2. \A n \in 0 .. AckWindow : n = 0 \/ (n # 0 /\ n \in 1 .. AckWindow)
      BY <1>1
    <3> QED
      BY <3>1, <3>2
  <2>7. f = [n \in 0 .. AckWindow |-> f[n]]
    BY <2>4
  <2>8. Rec(f)
    BY <2>6, <2>7
  <2> QED
    BY <2>4, <2>8
<1>3. Rec(shifted)
  <2> HIDE DEF Rec
  <2> QED
    BY <1>2
<1>4. AckedDistances(word) = {i \in AckDistance : shifted[AckWindow - i] % 2 = 1}
  BY DEF AckedDistances
<1> HIDE DEF shifted
<1>5. \A n \in 0 .. AckWindow : shifted[n] = IF n = 0 THEN word ELSE shifted[n - 1] \div 2
  BY <1>3
<1>6. shifted[0] = word /\ \A k \in 1 .. AckWindow : shifted[k] = shifted[k - 1] \div 2
  BY <1>1, <1>5
<1> QED
  BY <1>4, <1>6

\* The two loops undo each other: no distance is lost, added or displaced.
THEOREM AckWordRoundTrip ==
    ASSUME NEW received \in SUBSET AckDistance
    PROVE  AckedDistances(AckWord(received)) = received
<1>1. AckWindow \in Nat
  BY RingAssumption
<1> DEFINE Bit(i) == IF i \in received THEN 1 ELSE 0
<1>2. PICK after :
        /\ after[0] = 0
        /\ \A i \in 0 .. AckWindow : after[i] \in Nat
        /\ \A i \in 1 .. AckWindow : after[i] = 2 * after[i - 1] + Bit(i)
        /\ AckWord(received) = after[AckWindow]
  BY AckWordSteps
<1>3. AckWord(received) \in Nat
  BY <1>1, <1>2
<1>4. PICK shifted :
        /\ shifted[0] = AckWord(received)
        /\ \A k \in 1 .. AckWindow : shifted[k] = shifted[k - 1] \div 2
        /\ AckedDistances(AckWord(received))
                = {i \in AckDistance : shifted[AckWindow - i] % 2 = 1}
  BY <1>3, AckedDistancesSteps
<1>5. \A i : Bit(i) \in {0, 1} /\ (Bit(i) = 1 <=> i \in received)
  OBVIOUS
<1> HIDE DEF Bit
<1>6. ASSUME NEW m \in 0 .. AckWindow PROVE shifted[m] = after[AckWindow - m]
  <2> DEFINE T == {k \in 0 .. m : shifted[k] = after[AckWindow - k]}
  <2>1. 0 \in T
    BY <1>1, <1>2, <1>4
  <2>2. ASSUME NEW k \in 0 .. m - 1, k \in T PROVE k + 1 \in T
    <3> DEFINE i == AckWindow - k
    <3>1. i \in 1 .. AckWindow /\ i - 1 \in 0 .. AckWindow /\ AckWindow - (k + 1) = i - 1
      BY <1>1
    <3>2. after[i] = 2 * after[i - 1] + Bit(i) /\ after[i - 1] \in Nat
      BY <1>2, <3>1
    <3>3. after[i] \div 2 = after[i - 1]
      BY <1>5, <3>2
    <3>4. shifted[k + 1] = shifted[k] \div 2
      BY <1>1, <1>4
    <3> QED
      BY <2>2, <3>1, <3>3, <3>4
  <2>3. m \in T
    <3> HIDE DEF T
    <3> QED
      BY <1>1, <2>1, <2>2, SetInduction
  <2> QED
    BY <2>3
<1>7. ASSUME NEW i \in AckDistance
      PROVE  shifted[AckWindow - i] % 2 = 1 <=> i \in received
  <2>1. i \in 1 .. AckWindow /\ i - 1 \in 0 .. AckWindow /\ AckWindow - i \in 0 .. AckWindow
    BY <1>1 DEF AckDistance
  <2>2. shifted[AckWindow - i] = after[i]
    <3>1. AckWindow - (AckWindow - i) = i
      BY <1>1, <2>1
    <3> QED
      BY <1>6, <2>1, <3>1
  <2>3. after[i] = 2 * after[i - 1] + Bit(i) /\ after[i - 1] \in Nat
    BY <1>2, <2>1
  <2>4. after[i] % 2 = Bit(i)
    BY <1>5, <2>3
  <2> QED
    BY <1>5, <2>2, <2>4
<1> QED
  BY <1>4, <1>7

\* Every header tells the reading loop the distances the writing loop put in it,
\* whatever the width of the word.
THEOREM HeaderBitsAgree == Spec => []BitsAgree
<1>1. TypeOK => BitsAgree
  BY AckWordRoundTrip DEF TypeOK, Packet, BitsAgree
<1> QED
  BY <1>1, TypeCorrect, PTL

=============================================================================
