---------------------------- MODULE SessionProofs ----------------------------
(***************************************************************************)
(* Proofs about the managers together: a session of NSFImpl is a behaviour *)
(* of ConnectionManager, whatever the other managers do; exactly the       *)
(* announced connections have peers in the other managers; and the one     *)
(* message of a session is forgotten only when it has been given.          *)
(***************************************************************************)
EXTENDS SessionInvariant, ConnectionManagerProofs, PacketPeerProofs, ChannelPeerProofs

\* A step of a session is a step of ConnectionManager or leaves it alone.
LEMMA SessionStepIsStep == [SessionNext]_sessionVars => [Next]_vars
<1> SUFFICES ASSUME [SessionNext]_sessionVars PROVE [Next]_vars
  OBVIOUS
<1>1. ASSUME NEW n \in Node, NEW a \in Node, Connect(n, a) PROVE Next
  BY <1>1, Zenon DEF Connect, Next
<1>2. ASSUME NEW n \in Node, NEW a \in Node, UpdateSend(n, a) PROVE Next
  BY <1>2, Zenon DEF UpdateSend, Next
<1>3. ASSUME NEW n \in Node, NEW a \in Node, ControlPacket(n, a) PROVE Next
  BY <1>3, Zenon DEF ControlPacket, Next
<1>4. ASSUME NEW n \in Node, NEW id \in ConnectionID, Disconnect(n, id) PROVE Next
  BY <1>4, Zenon DEF Disconnect, Next
<1>5. ASSUME NEW n \in Node, NEW to, send(n, to) PROVE UNCHANGED vars
  BY <1>5, Zenon DEF send
<1>6. ASSUME NEW n \in Node, NEW id, resendTime(n, id) PROVE UNCHANGED vars
  BY <1>6, Zenon DEF resendTime
<1>7. ASSUME NEW n \in Node, NEW a \in Node, NEW p, UserPacket(n, a, p) PROVE Next
  BY <1>7, Zenon DEF UserPacket, Next
<1>8. ASSUME NEW n \in Node, UpdateReceiveEnds(n) PROVE Next
  BY <1>8, Zenon DEF UpdateReceiveEnds, Next
<1>9. CASE UNCHANGED sessionVars
  BY <1>9 DEF sessionVars, vars
<1> QED
  BY <1>1, <1>2, <1>3, <1>4, <1>5, <1>6, <1>7, <1>8, <1>9 DEF SessionNext

\* The callbacks add nothing to what ConnectionManager does: they never hold a
\* handler up, and the connections do not depend on what travels over them.
THEOREM SessionIsConnections == SessionSpec => Spec
<1>1. SessionInit => Init
  BY DEF SessionInit
<1> QED
  BY <1>1, SessionStepIsStep, PTL DEF SessionSpec, Spec

-----------------------------------------------------------------------------
(***************************************************************************)
(* The peers of the other managers.                                        *)
(***************************************************************************)

LEMMA NewLinkType == NewLink \in Link
BY NewPacketPeerFacts, NewChannelPeerFacts DEF NewLink, Link

\* A message of MessageSize fits a packet, if any is sent.
LEMMA MessageSizeAccepted ==
    ASSUME MaxReliable > 0
    PROVE  MessageSize \in Nat /\ SizeAccepted(MessageSize)
<1>1. PICK k \in Nat : MaxReliable = k + 1
  BY SessionAssumption
<1> DEFINE b == MessageHeaderSizeBytes + MessageSize
<1>2. b \in Nat /\ MessageSize \in Nat /\ MessageSize <= b
  BY SessionAssumption, SizesAssumption
<1>3. PacketHeaderSizeBytes + (k + 1) * b <= MaxMessageSizeBytes
  BY <1>1, SessionAssumption
<1>4. k * b \in Nat /\ (k + 1) * b = k * b + b
  BY <1>1, <1>2
<1>5. MaxMessageSizeBytes \in Int /\ PacketHeaderSizeBytes \in Nat
  BY SizesAssumption DEF MaxMessageSizeBytes
<1> HIDE DEF b
<1> QED
  BY <1>2, <1>3, <1>4, <1>5 DEF SizeAccepted

\* Peers come and go at one process only.
LEMMA LinksFollowType ==
    ASSUME SessionTypeOK, NEW n \in Node, NEW after, LinksFollow(n, after),
           \A id \in peers[n] \cap peers'[n] : after[id] \in Link,
           \A m \in Node \ {n} : peers'[m] = peers[m]
    PROVE  DOMAIN link' = Node /\ \A m \in Node : link'[m] \in [peers'[m] -> Link]
<1> DEFINE new == [id \in peers'[n] |-> IF id \in peers[n] THEN after[id] ELSE NewLink]
<1>1. new \in [peers'[n] -> Link]
  BY NewLinkType
<1> HIDE DEF new
<1>2. link' = [link EXCEPT ![n] = new]
  BY DEF LinksFollow, new
<1> QED
  BY <1>1, <1>2 DEF SessionTypeOK

\* The peer behind one id changes.
LEMMA LinkChangeType ==
    ASSUME SessionTypeOK, NEW n \in Node, NEW id \in peers[n], NEW l \in Link,
           link' = [link EXCEPT ![n][id] = l], peers' = peers
    PROVE  DOMAIN link' = Node /\ \A m \in Node : link'[m] \in [peers'[m] -> Link]
BY DEF SessionTypeOK

\* The types of the links and their messages are kept by every step.
LEMMA SessionStepType ==
    ASSUME IInv, SessionTypeOK, [SessionNext]_sessionVars
    PROVE  SessionTypeOK'
<1>1. /\ peers \in [Node -> SUBSET ConnectionID]
      /\ DOMAIN link = Node /\ \A n \in Node : link[n] \in [peers[n] -> Link]
  BY DEF IInv, TypeOK, SessionTypeOK
<1>2. ASSUME NEW n \in Node, NEW a \in Node, Connect(n, a) \/ \E id \in ConnectionID : Disconnect(n, id)
      PROVE  SessionTypeOK'
  BY <1>2 DEF Connect, Disconnect, connect, disconnect, PeersUnchanged, dataVars, SessionTypeOK
<1>3. ASSUME NEW n \in Node, NEW to \in Recipients(n), send(n, to) PROVE SessionTypeOK'
  <2> DEFINE L(id) == IF id \in to
                      THEN [link[n][id] EXCEPT !.chan = SendReliable(@, MessageSize)]
                      ELSE link[n][id]
  <2>1. ASSUME NEW id \in peers[n] PROVE L(id) \in Link
    <3>1. link[n][id] \in Link
      BY <1>1
    <3>2. CASE id \in to
      <4>1. link[n][id].chan \in ChannelPeerType /\ link[n][id].chan.generator \in Nat
        BY <3>1, SeqCycleAssumption DEF Link, ChannelPeerType, SequenceNumber
      <4>2. link[n][id].chan.generator < MaxReliable
        BY <1>3, <3>2 DEF send
      <4>3. MessageSize \in Nat /\ SizeAccepted(MessageSize)
        BY <4>1, <4>2, MessageSizeAccepted, SessionAssumption
      <4>4. SendReliable(link[n][id].chan, MessageSize) \in ChannelPeerType
        BY <4>1, <4>3, SendReliableFacts
      <4> QED
        BY <3>1, <3>2, <4>4 DEF Link
    <3> QED
      BY <3>1, <3>2
  <2>2. link' = [link EXCEPT ![n] = [id \in peers[n] |-> L(id)]]
    BY <1>3 DEF send
  <2> HIDE DEF L
  <2>3. DOMAIN link' = Node /\ \A m \in Node : link'[m] \in [peers[m] -> Link]
    BY <1>1, <2>1, <2>2
  <2>4. peers' = peers /\ UNCHANGED <<data, taken, given>>
    BY <1>3 DEF send, vars
  <2> QED
    BY <2>3, <2>4 DEF SessionTypeOK
<1>4. ASSUME NEW n \in Node, NEW id \in peers[n], resendTime(n, id) PROVE SessionTypeOK'
  <2> DEFINE l == link[n][id]
  <2>1. PICK k : /\ link' = [link EXCEPT ![n][id].chan = AfterResendTime(l.chan, k)]
                 /\ peers' = peers /\ UNCHANGED <<data, taken, given>>
    BY <1>4 DEF resendTime, vars
  <2>2. l \in Link /\ l.chan \in ChannelPeerType
    BY <1>1 DEF Link
  <2>3. AfterResendTime(l.chan, k) \in ChannelPeerType
    BY <2>2, AfterResendTimeFacts
  <2> DEFINE d == [l EXCEPT !.chan = AfterResendTime(l.chan, k)]
  <2>4. d \in Link
    BY <2>2, <2>3 DEF Link
  <2>5. link' = [link EXCEPT ![n][id] = d]
    BY <2>1
  <2> HIDE DEF d
  <2> QED
    BY <2>1, <2>4, <2>5, LinkChangeType DEF SessionTypeOK
<1>5. ASSUME NEW n \in Node, NEW a \in Node, UpdateSend(n, a) PROVE SessionTypeOK'
  <2> DEFINE id == conns[n][a].id
             l  == link[n][id]
             p  == l.packets
             d  == [packets |-> RecordSentPacket(p), chan |-> AfterWrite(l.chan, p.generator)]
             q  == [from |-> n, to |-> a, session |-> id, seq |-> p.generator,
                    ack |-> p.newest, ackBits |-> GenerateAckBits(p),
                    reliable |-> WrittenReliable(l.chan)]
  <2>1. id \in peers[n] /\ peers' = peers /\ id \in ConnectionID
    BY <1>1, <1>5 DEF UpdateSend, updateSend, PeersUnchanged
  <2>2. p \in PacketPeerType /\ l.chan \in ChannelPeerType
    BY <1>1, <2>1, SMTT(40) DEF Link
  <2>3. p.generator \in SequenceNumber /\ p.newest \in SequenceNumber
    BY <2>2, SMTT(40) DEF PacketPeerType
  <2>4. d \in Link
    BY <2>2, <2>3, RecordSentPacketFacts, AfterWriteFacts DEF Link
  <2>5. q \in UserData
    <3>1. GenerateAckBits(p) \subseteq AckDistance
      BY DEF GenerateAckBits
    <3>2. WrittenReliable(l.chan) \subseteq SequenceNumber
      BY <2>2 DEF WrittenReliable, Taken, ChannelPeerType, ReliableEntry
    <3> QED
      BY <2>1, <2>3, <3>1, <3>2 DEF UserData
  <2>6. /\ link' = [link EXCEPT ![n][id] = d]
        /\ data' = data \cup {q}
        /\ UNCHANGED <<taken, given>>
    BY <1>5 DEF UpdateSend
  <2> HIDE DEF d, q, id
  <2> QED
    BY <2>1, <2>4, <2>5, <2>6, LinkChangeType, SMTT(40) DEF SessionTypeOK
<1>6. ASSUME NEW n \in Node, NEW a \in Node, ControlPacket(n, a) PROVE SessionTypeOK'
  <2>1. \A m \in Node \ {n} : peers'[m] = peers[m]
    BY <1>1, <1>6 DEF ControlPacket, onConnectRequest, onConnectAccept, onHeartbeat,
       onDisconnect, BecomesAccepted, PeersUnchanged, PeersFollow
  <2>2. /\ LinksFollow(n, link[n])
        /\ \A id \in peers[n] \cap peers'[n] : link[n][id] \in Link
        /\ UNCHANGED <<data, taken, given>>
    BY <1>1, <1>6 DEF ControlPacket
  <2> QED
    BY <2>1, <2>2, LinksFollowType DEF SessionTypeOK
<1>7. ASSUME NEW n \in Node, NEW a \in Node, NEW p \in data, UserPacket(n, a, p)
      PROVE  SessionTypeOK'
  <2> DEFINE id    == conns[n][a].id
             l     == link[n][id]
             noted == RecordReceivedPacket(l.packets, p.seq)
             acks  == NewlyAcked(noted, p.ack, p.ackBits)
             read  == AfterRead(l.chan, p.reliable, {})
             d     == [packets |-> MarkAcked(noted, acks), chan |-> AfterAcks(read, acks)]
  <2>1. id \in peers[n] /\ peers' = peers
    <3>1. a \in Remotes(n) /\ conns[n][a].wasConnected
      BY <1>7 DEF UserPacket, onUserPacket, IInv, StateSettles, Remotes, Has
    <3> QED
      BY <1>7, <3>1 DEF UserPacket, onUserPacket, IInv, PeersMatchConnections
  <2>2. l.packets \in PacketPeerType /\ l.chan \in ChannelPeerType
    BY <1>1, <2>1 DEF Link
  <2>3. p.seq \in SequenceNumber
    BY DEF SessionTypeOK, UserData
  <2>4. MarkAcked(noted, acks) \in PacketPeerType
    BY <2>2, <2>3, RecordReceivedPacketFacts, MarkAckedFacts
  <2>5. AfterAcks(read, acks) \in ChannelPeerType
    BY <2>2, AfterReadAndAcksFacts
  <2>6. d \in Link
    BY <2>4, <2>5, SMTT(40) DEF Link
  <2>7. /\ link' = [link EXCEPT ![n][id] = d]
        /\ DOMAIN taken' = DOMAIN taken
        /\ \A m \in DOMAIN taken : taken[m] \subseteq taken'[m]
        /\ UNCHANGED <<data, given>>
    BY <1>7 DEF UserPacket
  <2> HIDE DEF d, id
  <2>8. \A m \in Node : given'[m] \subseteq taken'[m]
    BY <2>7 DEF SessionTypeOK
  <2> QED
    BY <2>1, <2>6, <2>7, <2>8, LinkChangeType, SMTT(40) DEF SessionTypeOK
<1>8. ASSUME NEW n \in Node, UpdateReceiveEnds(n) PROVE SessionTypeOK'
  <2> DEFINE after == [id \in peers[n] |-> [link[n][id] EXCEPT !.chan = AfterDeliver(@)]]
  <2>1. \A m \in Node \ {n} : peers'[m] = peers[m]
    <3>1. PICK timers : UpdateConnections(n, timers)
      BY <1>8 DEF UpdateReceiveEnds, updateConnections
    <3>2. PICK made, lost : PeersFollow(n, made, lost)
      BY <3>1 DEF UpdateConnections
    <3> QED
      BY <1>1, <3>2 DEF PeersFollow
  <2>2. ASSUME NEW id \in peers[n] PROVE after[id] \in Link
    <3>1. link[n][id] \in Link /\ link[n][id].chan \in ChannelPeerType
      BY <1>1 DEF Link
    <3>2. AfterDeliver(link[n][id].chan) \in ChannelPeerType
      BY <3>1, AfterDeliverFacts
    <3> QED
      BY <3>1, <3>2 DEF Link
  <2>3. /\ LinksFollow(n, after)
        /\ UNCHANGED <<data, taken>>
    BY <1>8 DEF UpdateReceiveEnds, FrameEnds
  <2>4. /\ DOMAIN given' = DOMAIN given
        /\ \A m \in Node : given'[m] \subseteq given[m] \cup taken[m]
    BY <1>8 DEF UpdateReceiveEnds, FrameEnds, SessionTypeOK
  <2> HIDE DEF after
  <2> QED
    BY <2>1, <2>2, <2>3, <2>4, LinksFollowType DEF SessionTypeOK
<1>9. CASE UNCHANGED sessionVars
  BY <1>9 DEF sessionVars, vars, dataVars, SessionTypeOK
<1> QED
  BY <1>2, <1>3, <1>4, <1>5, <1>6, <1>7, <1>8, <1>9 DEF SessionNext

\* Whatever the network and the applications do, the peers of the PacketManager
\* and the ChannelManager are those of the connections that were announced.
THEOREM SessionTypeCorrect == SessionSpec => []SessionTypeOK
<1>1. SessionInit => SessionTypeOK
  <2>1. ASSUME SessionInit, NEW n \in Node PROVE link[n] \in [peers[n] -> Link]
    BY <2>1, NewLinkType DEF SessionInit
  <2> QED
    BY <2>1 DEF SessionInit, SessionTypeOK
<1>2. IInv /\ SessionTypeOK /\ [SessionNext]_sessionVars => SessionTypeOK'
  BY SessionStepType
<1> QED
  BY <1>1, <1>2, SessionIsConnections, ConnectionsInvariance, PTL DEF SessionSpec

\* No assertion of the PacketManager fails in a session, and clients are
\* connected to servers that have accepted them only.
THEOREM SessionAssertsHold == SessionSpec => [](NoAssertFails /\ ConnectedWasAccepted)
BY SessionIsConnections, AssertsHold, ConnectedMeansAccepted, PTL

-----------------------------------------------------------------------------
(***************************************************************************)
(* The one message of a link, operation by operation.                      *)
(***************************************************************************)

\* The first message to arrive is put in line, and once only.
LEMMA FirstMessageFacts ==
    ASSUME NEW c \in ChannelPeerType, NEW messages \in SUBSET {0},
           c.lastDelivered \in {0, MAX_SEQUENCE_NUMBER}, c.stored = {}
    PROVE  LET r == AfterMessages(c, messages)
           IN  IF 0 \in messages /\ c.lastDelivered # 0
               THEN r.lastDelivered = 0 /\ r.stored = {} /\ InOrder(r) = InOrder(c) \cup {0}
               ELSE r = c
<1>0. /\ SeqCycle \in Nat /\ SeqCycle >= 4 /\ MAX_SEQUENCE_NUMBER = SeqCycle - 1
      /\ 0 \in SequenceNumber /\ MAX_SEQUENCE_NUMBER \in SequenceNumber
  BY SeqCycleAssumption DEF MAX_SEQUENCE_NUMBER, SequenceNumber
<1> DEFINE d == OnMessageReceived(c, 0)
<1>1. PICK after :
        /\ after[0] = c
        /\ \A k \in 0 .. SeqCycle - 1 : after[k + 1] =
                IF k \in messages THEN OnMessageReceived(after[k], k) ELSE after[k]
        /\ AfterMessages(c, messages) = after[SeqCycle]
  BY AfterMessagesSteps
<1>2. after[1] = IF 0 \in messages THEN d ELSE c
  <2>1. 0 \in 0 .. SeqCycle - 1 /\ 0 + 1 = 1
    BY <1>0
  <2> QED
    BY <1>1, <2>1
<1>3. after[SeqCycle] = after[1]
  <2> DEFINE T == {k \in 0 .. SeqCycle : k = 0 \/ after[k] = after[1]}
  <2>1. ASSUME NEW k \in 0 .. SeqCycle - 1, k \in T PROVE k + 1 \in T
    <3>1. CASE k = 0
      BY <1>0, <3>1
    <3>2. CASE k # 0
      <4>1. k \notin messages
        BY <3>2
      <4> QED
        BY <1>0, <1>1, <2>1, <3>2, <4>1
    <3> QED
      BY <3>1, <3>2
  <2>2. 0 \in T
    BY <1>0
  <2> HIDE DEF T
  <2>3. SeqCycle \in T
    BY <1>0, <2>1, <2>2, SetInduction
  <2> QED
    BY <1>0, <2>3 DEF T
<1>4. CASE c.lastDelivered = 0
  <2>1. d = c
    BY <1>4 DEF OnMessageReceived, sequenceEqualOrGreaterThan
  <2> QED
    BY <1>1, <1>2, <1>3, <1>4, <2>1
<1>5. CASE c.lastDelivered # 0
  <2>1. ~ sequenceEqualOrGreaterThan(c.lastDelivered, 0)
    <3> HALF_MAX_SEQUENCE_NUMBER \in Nat /\ 2 * HALF_MAX_SEQUENCE_NUMBER = SeqCycle
      BY HalfIsHalf
    <3> QED
      BY <1>0, <1>5 DEF sequenceEqualOrGreaterThan, sequenceGreaterThan
  <2>2. ~ (0 - c.lastDelivered > 1)
    BY <1>0, <1>5
  <2>3. LastOfRun(c.stored, 0) = 0
    BY <1>0, LastOfRunFacts DEF ChannelPeerType
  <2>4. d = [c EXCEPT !.lastDelivered = 0,
                      !.toDeliver     = @ \o [i \in 1 .. 0 - 0 + 1 |-> 0 + i - 1],
                      !.stored        = {k \in @ : k > 0}]
    BY <2>1, <2>2, <2>3 DEF OnMessageReceived
  <2> DEFINE tail == [i \in 1 .. 0 - 0 + 1 |-> 0 + i - 1]
  <2>5. tail = <<0>>
    <3>1. tail = [i \in 1 .. 1 |-> 0]
      OBVIOUS
    <3>2. [i \in 1 .. 1 |-> 0] = <<0>>
      OBVIOUS
    <3> QED
      BY <3>1, <3>2
  <2>6. c.toDeliver \in Seq(SequenceNumber)
    BY DEF ChannelPeerType
  <2>7. d.lastDelivered = 0 /\ d.stored = {} /\ d.toDeliver = c.toDeliver \o tail
    BY <2>4 DEF ChannelPeerType
  <2> HIDE DEF tail, d
  <2>9. d.toDeliver = Append(c.toDeliver, 0)
    BY <1>0, <2>5, <2>6, <2>7
  <2>8. InOrder(d) = InOrder(c) \cup {0}
    <3> DEFINE n == Len(c.toDeliver)
    <3>0. /\ n \in Nat /\ DOMAIN c.toDeliver = 1 .. n /\ DOMAIN d.toDeliver = 1 .. n + 1
          /\ \A i \in 1 .. n : d.toDeliver[i] = c.toDeliver[i]
          /\ d.toDeliver[n + 1] = 0
      BY <1>0, <2>6, <2>9
    <3> HIDE DEF n
    <3>1. InOrder(d) \subseteq InOrder(c) \cup {0}
      <4>1. ASSUME NEW i \in 1 .. n + 1 PROVE d.toDeliver[i] \in InOrder(c) \cup {0}
        <5>1. CASE i = n + 1
          BY <3>0, <5>1
        <5>2. CASE i \in 1 .. n
          BY <3>0, <5>2 DEF InOrder
        <5> QED
          BY <3>0, <5>1, <5>2
      <4> QED
        BY <3>0, <4>1 DEF InOrder
    <3>2. InOrder(c) \subseteq InOrder(d)
      <4>1. 1 .. n \subseteq 1 .. n + 1
        BY <3>0
      <4> QED
        BY <3>0, <4>1 DEF InOrder
    <3>3. 0 \in InOrder(d)
      <4>1. n + 1 \in DOMAIN d.toDeliver
        BY <3>0
      <4> QED
        BY <3>0, <4>1 DEF InOrder
    <3> QED
      BY <3>1, <3>2, <3>3
  <2> QED
    BY <1>1, <1>2, <1>3, <1>5, <2>7, <2>8
<1> QED
  BY <1>4, <1>5

\* A new link has nothing to send and has got nothing.
LEMMA NewLinkMessage ==
    ASSUME NEW wasGiven \in BOOLEAN, NEW in
    PROVE  MessageKept(NewLink, {}, wasGiven) /\ MessageTaken(NewLink, in)
<1>1. InOrder(NewChannelPeer) = {}
  BY DEF InOrder, NewChannelPeer
<1>2. MAX_SEQUENCE_NUMBER \notin Slot /\ MAX_SEQUENCE_NUMBER # 0
  BY RingAssumption, SeqCycleAssumption DEF MAX_SEQUENCE_NUMBER, Slot
<1>3. 0 <= MaxPackets
  BY SessionAssumption, RingAssumption
<1>4. MessageKept(NewLink, {}, wasGiven)
  <2> DEFINE k == NewLink.packets
             c == NewLink.chan
  <2>1. /\ k.generator = 0 /\ c.generator = 0 /\ c.unreliable = {}
        /\ c.reliable = {} /\ c.hasReliable = FALSE
    BY DEF NewLink, NewPacketPeer, NewChannelPeer
  <2> HIDE DEF k, c
  <2> QED
    BY <1>3, <2>1, SessionAssumption DEF MessageKept, k, c
<1>5. MessageTaken(NewLink, in)
  BY <1>1, <1>2 DEF MessageTaken, NewLink, NewPacketPeer, NewChannelPeer
<1> QED
  BY <1>4, <1>5

LEMMA SendMessage ==
    ASSUME OneMessage, NEW l \in Link, l.chan.generator < MaxReliable,
           NEW out, NEW in, NEW wasGiven \in BOOLEAN,
           MessageKept(l, out, wasGiven), MessageTaken(l, in)
    PROVE  LET d == [l EXCEPT !.chan = SendReliable(@, MessageSize)]
           IN  /\ MessageKept(d, out, wasGiven) /\ MessageTaken(d, in)
               /\ InOrder(d.chan) = InOrder(l.chan)
               /\ d.chan.lastDelivered = l.chan.lastDelivered
<1> DEFINE c == l.chan
           d == [l EXCEPT !.chan = SendReliable(@, MessageSize)]
           m == [seq |-> 0, size |-> MessageSize, packet |-> 0, due |-> TRUE]
<1>1. /\ l.packets \in PacketPeerType /\ c \in ChannelPeerType
      /\ d.packets = l.packets /\ d.chan = SendReliable(c, MessageSize)
  BY DEF Link
<1>2. c.generator = 0 /\ c.reliable = {} /\ ~ c.hasReliable /\ ~ (l.packets.generator > 0)
  BY SessionAssumption DEF OneMessage, MessageKept
<1>3. l.packets.generator = 0
  BY <1>1, <1>2, SeqCycleAssumption DEF PacketPeerType, SequenceNumber
<1>4. SeqIncrement(0) = 1
  BY SeqCycleAssumption DEF SeqIncrement, MAX_SEQUENCE_NUMBER
<1>5. /\ d.chan.generator = 1 /\ d.chan.reliable = {m} /\ d.chan.unreliable = c.unreliable
      /\ d.chan.lastDelivered = c.lastDelivered /\ d.chan.stored = c.stored
      /\ d.chan.toDeliver = c.toDeliver
  <2> HIDE DEF c, d
  <2>1. d.chan = [c EXCEPT !.generator   = SeqIncrement(@),
                           !.hasReliable = TRUE,
                           !.reliable    = @ \cup {m}]
    BY <1>1, <1>2 DEF SendReliable
  <2> HIDE DEF m
  <2> QED
    BY <1>1, <1>2, <1>4, <2>1 DEF ChannelPeerType
<1>6. InOrder(d.chan) = InOrder(c)
  BY <1>5 DEF InOrder
<1> HIDE DEF d
<1>7. MessageKept(d, out, wasGiven)
  <2>1. /\ l.packets.generator <= MaxPackets
        /\ \A p \in out : p.seq < l.packets.generator
        /\ c.unreliable = {}
    BY DEF MessageKept
  <2>2. m.seq = 0 /\ m.size = MessageSize /\ m.due /\ m.packet = 0
    OBVIOUS
  <2> HIDE DEF m
  <2>3. d.chan.reliable # {} /\ 1 \in 0 .. MaxReliable
    BY <1>2, <1>5, SessionAssumption
  <2> QED
    BY <1>1, <1>3, <1>5, <2>1, <2>2, <2>3 DEF MessageKept
<1>8. MessageTaken(d, in)
  BY <1>1, <1>5, <1>6 DEF MessageTaken
<1> QED
  BY <1>5, <1>6, <1>7, <1>8 DEF d

LEMMA ResendMessage ==
    ASSUME NEW l \in Link, NEW s, NEW out, NEW in, NEW wasGiven \in BOOLEAN,
           MessageKept(l, out, wasGiven), MessageTaken(l, in)
    PROVE  LET d == [l EXCEPT !.chan = AfterResendTime(l.chan, s)]
           IN  /\ MessageKept(d, out, wasGiven) /\ MessageTaken(d, in)
               /\ InOrder(d.chan) = InOrder(l.chan)
               /\ d.chan.lastDelivered = l.chan.lastDelivered
<1> DEFINE c == l.chan
           d == [l EXCEPT !.chan = AfterResendTime(l.chan, s)]
<1>1. /\ l.packets \in PacketPeerType /\ c \in ChannelPeerType
      /\ d.packets = l.packets /\ d.chan = AfterResendTime(c, s)
  BY DEF Link
<1>2. /\ d.chan.generator = c.generator /\ d.chan.unreliable = c.unreliable
      /\ d.chan.hasReliable = c.hasReliable
      /\ d.chan.lastDelivered = c.lastDelivered /\ d.chan.stored = c.stored
      /\ d.chan.toDeliver = c.toDeliver
      /\ d.chan.reliable = {[m EXCEPT !.due = @ \/ m.packet <= s] : m \in c.reliable}
  BY <1>1 DEF AfterResendTime, ChannelPeerType
<1>3. ASSUME NEW o \in d.chan.reliable
      PROVE  \E m \in c.reliable : /\ o.seq = m.seq /\ o.size = m.size
                                   /\ o.packet = m.packet /\ (m.due => o.due)
  <2>1. PICK m \in c.reliable : o = [m EXCEPT !.due = @ \/ m.packet <= s]
    BY <1>2
  <2>2. m \in ReliableEntry
    BY <1>1 DEF ChannelPeerType
  <2> QED
    BY <2>1, <2>2 DEF ReliableEntry
<1>4. d.chan.reliable = {} <=> c.reliable = {}
  BY <1>2
<1>5. InOrder(d.chan) = InOrder(c)
  BY <1>2 DEF InOrder
<1> HIDE DEF d
<1>6. MessageKept(d, out, wasGiven)
  <2>1. ASSUME NEW o \in d.chan.reliable
        PROVE  /\ o.seq = 0 /\ o.size = MessageSize
               /\ IF l.packets.generator = 0 THEN o.due /\ o.packet = 0
                  ELSE \E p \in out : p.seq = o.packet /\ 0 \in p.reliable
    BY <1>3 DEF MessageKept
  <2> QED
    BY <1>1, <1>2, <1>4, <2>1 DEF MessageKept
<1>7. MessageTaken(d, in)
  BY <1>1, <1>2, <1>5 DEF MessageTaken
<1> QED
  BY <1>2, <1>5, <1>6, <1>7 DEF d

\* A packet takes the message if it is due; the first one always does.
LEMMA WriteMessage ==
    ASSUME OneMessage, NEW l \in Link, HasDataToSend(l.chan),
           l.packets.generator < MaxPackets,
           NEW out, NEW in, NEW wasGiven \in BOOLEAN,
           MessageKept(l, out, wasGiven), MessageTaken(l, in),
           \A p \in out : p.seq \in Nat,
           NEW q, q.seq = l.packets.generator, q.reliable = WrittenReliable(l.chan)
    PROVE  LET d == [packets |-> RecordSentPacket(l.packets),
                     chan    |-> AfterWrite(l.chan, l.packets.generator)]
           IN  /\ MessageKept(d, out \cup {q}, wasGiven) /\ MessageTaken(d, in)
               /\ InOrder(d.chan) = InOrder(l.chan)
               /\ d.chan.lastDelivered = l.chan.lastDelivered
               /\ q.reliable \subseteq {0}
<1> DEFINE c == l.chan
           k == l.packets
           d == [packets |-> RecordSentPacket(k), chan |-> AfterWrite(c, k.generator)]
<1>1. /\ k \in PacketPeerType /\ c \in ChannelPeerType
      /\ d.packets = RecordSentPacket(k) /\ d.chan = AfterWrite(c, k.generator)
      /\ k.generator \in SequenceNumber
  BY DEF Link, PacketPeerType
<1>2. k.generator \in Nat /\ SeqIncrement(k.generator) = k.generator + 1
  BY <1>1, SessionAssumption, RingAssumption, SeqCycleAssumption
     DEF SequenceNumber, SeqIncrement, MAX_SEQUENCE_NUMBER
<1>3. /\ d.packets.generator = k.generator + 1
      /\ d.packets.newest = k.newest /\ d.packets.received = k.received
  BY <1>1, <1>2, RecordSentPacketFacts
<1>4. /\ d.chan.generator = c.generator
      /\ d.chan.lastDelivered = c.lastDelivered /\ d.chan.stored = c.stored
      /\ d.chan.toDeliver = c.toDeliver
      /\ d.chan.unreliable = c.unreliable \ LooseTaken(c)
  <2>1. ReceivingSide(d.chan) = ReceivingSide(c) /\ d.chan.generator = c.generator
    BY <1>1, AfterWriteFacts
  <2> HIDE DEF c, k, d
  <2>2. d.chan.unreliable = c.unreliable \ LooseTaken(c)
    BY <1>1 DEF AfterWrite, ChannelPeerType
  <2> QED
    BY <2>1, <2>2 DEF ReceivingSide
<1>5. /\ d.chan.reliable = {} => c.reliable = {}
      /\ \A o \in d.chan.reliable : \E m \in c.reliable :
                o = IF m \in Taken(c)
                    THEN [m EXCEPT !.packet = k.generator, !.due = FALSE]
                    ELSE m
  <2>1. ASSUME NEW m \in c.reliable PROVE d.chan.reliable # {}
    BY <1>1, AfterWriteFacts
  <2>2. ASSUME NEW o \in d.chan.reliable
        PROVE  \E m \in c.reliable : o = IF m \in Taken(c)
                    THEN [m EXCEPT !.packet = k.generator, !.due = FALSE]
                    ELSE m
    <3> HIDE DEF c, k, d
    <3>1. \E m \in c.reliable :
            /\ o.seq = m.seq
            /\ o = IF m \in Taken(c)
                   THEN [m EXCEPT !.packet = k.generator, !.due = FALSE]
                   ELSE m
      <4>1. PICK n \in SequenceNumber : n = k.generator
        BY <1>1
      <4>2. o \in AfterWrite(c, n).reliable
        BY <1>1, <4>1
      <4> QED
        BY <1>1, <4>1, <4>2, AfterWriteFacts
    <3> QED
      BY <3>1, Zenon
  <2> QED
    BY <2>1, <2>2, Zenon
<1>6. InOrder(d.chan) = InOrder(c)
  BY <1>4 DEF InOrder
<1>7. c.generator = 1 /\ MaxReliable = 1
  BY SessionAssumption DEF HasDataToSend, MessageKept, OneMessage
<1>8. ASSUME NEW m \in c.reliable PROVE Fits(c, m)
  <2>1. {o \in c.reliable : o.due /\ o.seq < m.seq} = {}
    BY DEF MessageKept
  <2>2. m.size = MessageSize
    BY DEF MessageKept
  <2>3. PacketHeaderSizeBytes + Bytes({}) = PacketHeaderSizeBytes
    BY NothingBefore, SizesAssumption
  <2>4. MessageSize <= MaxMessageSizeBytes - PacketHeaderSizeBytes
    BY <1>7, SessionAssumption, SizesAssumption DEF MaxMessageSizeBytes
  <2>6. /\ MessageSize \in Nat /\ SizeCycle \in Nat \ {0}
        /\ MaxMessageSizeBytes - PacketHeaderSizeBytes \in Int
        /\ MaxMessageSizeBytes - PacketHeaderSizeBytes < SizeCycle
    BY SessionAssumption, SizesAssumption DEF MaxMessageSizeBytes
  <2>7. MaxMessageSizeBytes - PacketHeaderSizeBytes \in 0 .. SizeCycle - 1
    BY <2>4, <2>6
  <2>5. (MaxMessageSizeBytes - PacketHeaderSizeBytes) % SizeCycle
            = MaxMessageSizeBytes - PacketHeaderSizeBytes
    BY <2>6, <2>7
  <2> QED
    BY <2>1, <2>2, <2>3, <2>4, <2>5 DEF Fits, HasRoom
<1>9. q.reliable \subseteq {0}
  BY DEF WrittenReliable, Taken, MessageKept
<1>10. ASSUME NEW o \in d.chan.reliable
       PROVE  /\ o.seq = 0 /\ o.size = MessageSize
              /\ \E p \in out \cup {q} : p.seq = o.packet /\ 0 \in p.reliable
  <2>1. PICK m \in c.reliable : o = IF m \in Taken(c)
                    THEN [m EXCEPT !.packet = k.generator, !.due = FALSE]
                    ELSE m
    BY <1>5
  <2>2. /\ m \in ReliableEntry /\ m.seq = 0 /\ m.size = MessageSize
        /\ IF k.generator = 0 THEN m.due /\ m.packet = 0
           ELSE \E p \in out : p.seq = m.packet /\ 0 \in p.reliable
    BY <1>1 DEF MessageKept, ChannelPeerType
  <2>3. CASE m \in Taken(c)
    <3>1. o.seq = 0 /\ o.size = MessageSize /\ o.packet = k.generator
      BY <2>1, <2>2, <2>3 DEF ReliableEntry
    <3>2. 0 \in q.reliable
      BY <2>2, <2>3 DEF WrittenReliable
    <3> QED
      BY <3>1, <3>2
  <2>4. CASE m \notin Taken(c)
    <3>1. ~ m.due
      BY <1>8, <2>4 DEF Taken
    <3> QED
      BY <2>1, <2>2, <2>4, <3>1
  <2> QED
    BY <2>3, <2>4
<1> HIDE DEF d
<1>11. MessageKept(d, out \cup {q}, wasGiven)
  <2>1. /\ d.packets.generator <= MaxPackets /\ d.packets.generator # 0
    BY <1>2, <1>3, SessionAssumption, RingAssumption
  <2>2. \A p \in out \cup {q} : p.seq < d.packets.generator
    <3>1. \A p \in out : p.seq < k.generator
      BY DEF MessageKept
    <3> QED
      BY <1>2, <1>3, <3>1
  <2>3. d.chan.generator = 1 /\ d.chan.generator \in 0 .. MaxReliable /\ d.chan.unreliable = {}
    BY <1>4, <1>7 DEF MessageKept
  <2>4. d.chan.reliable = {} => wasGiven
    BY <1>5, <1>7 DEF MessageKept
  <2> QED
    BY <1>10, <2>1, <2>2, <2>3, <2>4 DEF MessageKept
<1>12. MessageTaken(d, in)
  BY <1>3, <1>4, <1>6 DEF MessageTaken
<1> QED
  BY <1>4, <1>6, <1>9, <1>11, <1>12 DEF d

\* Reading a packet: its number is noted, its message put in line, and what
\* its header acknowledges is forgotten, if the header is true.
LEMMA ReceiveMessage ==
    ASSUME OneMessage, NEW l \in Link, NEW p, p \in UserData,
           p.seq < MaxPackets, p.reliable \subseteq {0},
           NEW out, NEW in, p \in in, NEW wasGiven \in BOOLEAN,
           MessageKept(l, out, wasGiven), MessageTaken(l, in),
           out \subseteq UserData, NumbersDiffer(out), HeaderTrue(p, out, wasGiven)
    PROVE  LET noted == RecordReceivedPacket(l.packets, p.seq)
               acks  == NewlyAcked(noted, p.ack, p.ackBits)
               read  == AfterRead(l.chan, p.reliable, {})
               d     == [packets |-> MarkAcked(noted, acks), chan |-> AfterAcks(read, acks)]
           IN  /\ MessageKept(d, out, wasGiven) /\ MessageTaken(d, in)
               /\ InOrder(l.chan) \subseteq InOrder(d.chan)
               /\ d.chan.lastDelivered = 0 /\ l.chan.lastDelivered # 0 =>
                    /\ 0 \in InOrder(d.chan)
                    /\ 0 \in p.reliable \cap (Holds(read) \ Holds(l.chan))
<1> DEFINE c     == l.chan
           k     == l.packets
           noted == RecordReceivedPacket(k, p.seq)
           acks  == NewlyAcked(noted, p.ack, p.ackBits)
           r     == AfterMessages(c, p.reliable)
           read  == AfterRead(c, p.reliable, {})
           d     == [packets |-> MarkAcked(noted, acks), chan |-> AfterAcks(read, acks)]
<1>1. /\ k \in PacketPeerType /\ c \in ChannelPeerType
      /\ d.packets = MarkAcked(noted, acks) /\ d.chan = AfterAcks(read, acks)
  BY DEF Link
<1>2. /\ p.seq \in SequenceNumber /\ p.seq \in Slot /\ SlotOf(p.seq) = p.seq
  <2>1. p.seq \in SequenceNumber
    BY DEF UserData
  <2>2. p.seq \in Slot /\ p.seq \in Nat
    BY <2>1, SessionAssumption, RingAssumption, SeqCycleAssumption DEF Slot, SequenceNumber
  <2> QED
    BY <2>1, <2>2, SlotOfFacts
<1>3. /\ d.packets.generator = k.generator
      /\ d.packets.newest \in {k.newest, p.seq}
      /\ d.packets.received = k.received \cup {p.seq}
  <2>1. /\ noted \in PacketPeerType /\ noted.generator = k.generator
        /\ noted.newest \in {k.newest, p.seq}
        /\ noted.received = k.received \cup {p.seq}
    BY <1>1, <1>2, RecordReceivedPacketFacts
  <2> HIDE DEF noted, acks, d
  <2> QED
    BY <1>1, <2>1, MarkAckedFacts
<1>4. IF 0 \in p.reliable /\ c.lastDelivered # 0
      THEN r.lastDelivered = 0 /\ r.stored = {} /\ InOrder(r) = InOrder(c) \cup {0}
      ELSE r = c
  <2>1. p.reliable \in SUBSET {0} /\ c.stored = {}
            /\ c.lastDelivered \in {0, MAX_SEQUENCE_NUMBER}
    BY DEF MessageTaken
  <2> HIDE DEF r
  <2> QED
    BY <1>1, <2>1, FirstMessageFacts DEF r
<1>5. /\ d.chan.generator = c.generator
      /\ d.chan.reliable = {m \in c.reliable : m.packet \notin acks}
      /\ d.chan.lastDelivered = r.lastDelivered /\ d.chan.stored = r.stored
      /\ d.chan.toDeliver = r.toDeliver
  <2> HIDE DEF acks
  <2> QED
    BY <1>1, AfterReadAndAcksFacts
<1>6. d.chan.hasReliable = c.hasReliable /\ d.chan.unreliable = c.unreliable
      /\ read.toDeliver = r.toDeliver /\ read.stored = r.stored
  <2>1. /\ r \in ChannelPeerType /\ r.hasReliable = c.hasReliable
        /\ r.unreliable = c.unreliable
    BY <1>1, AfterMessagesFacts DEF SendingSide
  <2> HIDE DEF r
  <2>2. read = [r EXCEPT !.looseToDeliver = @ \cup {}]
    BY DEF AfterRead, r
  <2>3. /\ read.hasReliable = r.hasReliable /\ read.unreliable = r.unreliable
        /\ read.toDeliver = r.toDeliver /\ read.stored = r.stored
        /\ read = [read EXCEPT !.generator = @]
    BY <2>1, <2>2 DEF ChannelPeerType
  <2>4. d.chan = [read EXCEPT !.reliable = {m \in @ : m.packet \notin acks}]
    BY DEF AfterAcks
  <2> HIDE DEF read, acks, d
  <2> QED
    BY <2>1, <2>3, <2>4
<1>7. InOrder(d.chan) = InOrder(r) /\ Holds(read) = InOrder(r) \cup r.stored
  BY <1>5, <1>6 DEF InOrder, Holds
<1>8. acks \subseteq AckCandidates(p.ack, p.ackBits)
  BY DEF NewlyAcked
<1> HIDE DEF d, r, read, acks, noted
<1>9. ASSUME NEW m \in c.reliable, m.packet \in acks PROVE wasGiven
  <2>1. CASE k.generator = 0
    <3>1. m.packet = 0 /\ 0 \in Slot
      BY <2>1, RingAssumption DEF MessageKept, Slot
    <3>2. PICK q \in out : q.seq = 0
      BY <1>8, <1>9, <3>1 DEF HeaderTrue
    <3> QED
      BY <2>1, <3>2 DEF MessageKept
  <2>2. CASE k.generator # 0
    <3>1. PICK q \in out : q.seq = m.packet /\ 0 \in q.reliable
      BY <2>2 DEF MessageKept
    <3>2. m.packet \in Slot
      <4>1. q.seq < k.generator /\ k.generator <= MaxPackets /\ k.generator \in Nat
        BY <1>1, SeqCycleAssumption DEF MessageKept, PacketPeerType, SequenceNumber
      <4>2. q.seq \in Nat
        BY SeqCycleAssumption DEF UserData, SequenceNumber
      <4> QED
        BY <3>1, <4>1, <4>2, SessionAssumption, RingAssumption DEF Slot
    <3>3. PICK t \in out : t.seq = m.packet /\ (0 \in t.reliable => wasGiven)
      BY <1>8, <1>9, <3>2 DEF HeaderTrue
    <3>4. q = t
      BY <3>1, <3>3 DEF NumbersDiffer
    <3> QED
      BY <3>1, <3>3, <3>4
  <2> QED
    BY <2>1, <2>2
<1>10. MessageKept(d, out, wasGiven)
  <2>1. ASSUME d.chan.generator = 1, d.chan.reliable = {} PROVE wasGiven
    <3>1. CASE c.reliable = {}
      BY <1>5, <2>1, <3>1 DEF MessageKept
    <3>2. CASE c.reliable # {}
      <4>1. PICK m \in c.reliable : m.packet \in acks
        BY <1>5, <2>1, <3>2
      <4> QED
        BY <1>9, <4>1
    <3> QED
      BY <3>1, <3>2
  <2>2. d.chan.reliable \subseteq c.reliable
    BY <1>5
  <2>3. /\ d.packets.generator <= MaxPackets
        /\ \A q \in out : q.seq < d.packets.generator
        /\ d.chan.generator \in 0 .. MaxReliable /\ d.chan.unreliable = {}
    BY <1>3, <1>5, <1>6 DEF MessageKept
  <2>4. d.packets.generator > 0 \/ d.chan.hasReliable \/ d.chan.reliable # {}
            => d.chan.generator = 1
    BY <1>3, <1>5, <1>6, <2>2 DEF MessageKept
  <2>5. ASSUME NEW m \in d.chan.reliable
        PROVE  /\ m.seq = 0 /\ m.size = MessageSize
               /\ IF d.packets.generator = 0 THEN m.due /\ m.packet = 0
                  ELSE \E q \in out : q.seq = m.packet /\ 0 \in q.reliable
    BY <1>3, <2>2 DEF MessageKept
  <2> QED
    BY <2>1, <2>3, <2>4, <2>5 DEF MessageKept
<1>11. /\ d.chan.lastDelivered \in {0, MAX_SEQUENCE_NUMBER} /\ d.chan.stored = {}
       /\ InOrder(d.chan) \subseteq {0} /\ InOrder(c) \subseteq InOrder(d.chan)
       /\ InOrder(d.chan) # {} => d.chan.lastDelivered = 0
       /\ 0 \in p.reliable \/ c.lastDelivered = 0 => d.chan.lastDelivered = 0
  BY <1>4, <1>5, <1>7 DEF MessageTaken
<1>12. MessageTaken(d, in)
  <2>1. d.packets.newest \in Slot => d.packets.newest \in d.packets.received
    BY <1>3 DEF MessageTaken
  <2>2. ASSUME NEW s \in d.packets.received
        PROVE  \E q \in in : q.seq = s /\ (0 \in q.reliable => d.chan.lastDelivered = 0)
    BY <1>3, <1>11 DEF MessageTaken
  <2> QED
    BY <1>11, <2>1, <2>2 DEF MessageTaken
<1>13. ASSUME d.chan.lastDelivered = 0, c.lastDelivered # 0
       PROVE  /\ 0 \in InOrder(d.chan)
              /\ 0 \in p.reliable \cap (Holds(read) \ Holds(c))
  <2>1. 0 \in p.reliable
    BY <1>4, <1>5, <1>13
  <2>2. 0 \notin InOrder(c) /\ c.stored = {}
    BY <1>13 DEF MessageTaken
  <2> QED
    BY <1>4, <1>7, <1>13, <2>1, <2>2 DEF Holds
<1> QED
  BY <1>10, <1>11, <1>12, <1>13 DEF d, read, acks, noted

\* At the end of a frame nothing is in line any more.
LEMMA DeliverMessage ==
    ASSUME NEW l \in Link, NEW out, NEW in, NEW wasGiven \in BOOLEAN,
           MessageKept(l, out, wasGiven), MessageTaken(l, in)
    PROVE  LET d == [l EXCEPT !.chan = AfterDeliver(@)]
           IN  /\ MessageKept(d, out, wasGiven) /\ MessageTaken(d, in)
               /\ InOrder(d.chan) = {}
               /\ d.chan.lastDelivered = l.chan.lastDelivered
<1> DEFINE c == l.chan
           d == [l EXCEPT !.chan = AfterDeliver(@)]
<1>1. /\ c \in ChannelPeerType
      /\ d.packets = l.packets /\ d.chan = AfterDeliver(c)
  BY DEF Link
<1>2. /\ d.chan.generator = c.generator /\ d.chan.reliable = c.reliable
      /\ d.chan.toDeliver = <<>> /\ d.chan.lastDelivered = c.lastDelivered
      /\ d.chan.stored = c.stored
  BY <1>1, AfterDeliverFacts
<1>3. d.chan.unreliable = c.unreliable /\ (d.chan.hasReliable => c.reliable # {})
  <2> HIDE DEF c, d
  <2> QED
    BY <1>1 DEF AfterDeliver, ChannelPeerType
<1>4. InOrder(d.chan) = {}
  BY <1>2 DEF InOrder
<1> HIDE DEF d
<1>5. MessageKept(d, out, wasGiven)
  BY <1>1, <1>2, <1>3 DEF MessageKept
<1>6. MessageTaken(d, in)
  BY <1>1, <1>2, <1>4 DEF MessageTaken
<1> QED
  BY <1>2, <1>4, <1>5, <1>6 DEF d

-----------------------------------------------------------------------------
(***************************************************************************)
(* Which links there are after a step: a connection that stays keeps its   *)
(* id and its peer, a new one gets an id that no packet bears.             *)
(***************************************************************************)

\* Exactly the connections that have been connected have peers.
LEMMA JoinedConnections ==
    ASSUME IInv
    PROVE  /\ \A n, a \in Node : Joined(n, a) <=> Has(n, a) /\ conns[n][a].wasConnected
           /\ \A n, a, b \in Node : Joined(n, a) /\ Has(n, b) /\ conns[n][a].id = conns[n][b].id
                    => a = b
           /\ \A n \in Node : peers[n] \subseteq 1 .. created[n]
           /\ \A n \in Node : \A id \in peers[n] : \E a \in Node :
                    Joined(n, a) /\ conns[n][a].id = id
<1>1. ASSUME NEW n \in Node
      PROVE  /\ peers[n] = {conns[n][a].id : a \in {b \in Remotes(n) : conns[n][b].wasConnected}}
             /\ \A a \in Remotes(n) : conns[n][a].id \in 1 .. created[n]
             /\ \A a, b \in Remotes(n) : conns[n][a].id = conns[n][b].id => a = b
             /\ \A a \in Node : a \in Remotes(n) <=> Has(n, a)
             /\ Remotes(n) \subseteq Node
  BY DEF IInv, PeersMatchConnections, IdsDiffer, Remotes
<1>2. ASSUME NEW n \in Node, NEW a \in Node
      PROVE  Joined(n, a) <=> Has(n, a) /\ conns[n][a].wasConnected
  <2>1. ASSUME Joined(n, a) PROVE conns[n][a].wasConnected
    <3>1. PICK b \in Remotes(n) : conns[n][b].wasConnected /\ conns[n][a].id = conns[n][b].id
      BY <1>1, <2>1 DEF Joined
    <3>2. a = b
      BY <1>1, <2>1, <3>1 DEF Joined
    <3> QED
      BY <3>1, <3>2
  <2> QED
    BY <1>1, <2>1 DEF Joined
<1>3. ASSUME NEW n \in Node, NEW id \in peers[n]
      PROVE  \E a \in Node : Joined(n, a) /\ conns[n][a].id = id
  BY <1>1, <1>3 DEF Joined
<1> QED
  BY <1>1, <1>2, <1>3 DEF Joined

\* A step keeps a connection, with its id, or makes one with a new id.
LEMMA ConnectionsStep ==
    ASSUME IInv, [Next]_vars
    PROVE  /\ \A n \in Node : created'[n] \in Nat /\ created[n] <= created'[n]
           /\ \A n, a \in Node : Has(n, a)' =>
                \/ /\ Has(n, a) /\ conns'[n][a].id = conns[n][a].id
                   /\ conns[n][a].wasConnected => conns'[n][a].wasConnected
                \/ conns'[n][a].id = created[n] + 1
<1> DEFINE Kept(n, a) ==
        /\ Has(n, a) /\ conns'[n][a].id = conns[n][a].id
        /\ conns[n][a].wasConnected => conns'[n][a].wasConnected
           Goal == /\ \A n \in Node : created'[n] \in Nat /\ created[n] <= created'[n]
                   /\ \A n, a \in Node : Has(n, a)' =>
                        Kept(n, a) \/ conns'[n][a].id = created[n] + 1
<1>0. /\ conns \in [Node -> [Node -> Connection]] /\ created \in [Node -> Nat]
      /\ \A n \in Node : created[n] <= MaxConnections[n]
  BY DEF IInv, TypeOK
<1>1. ASSUME conns' = conns, created' = created PROVE Goal
  BY <1>0, <1>1 DEF Has
<1>2. ASSUME NEW n \in Node, NEW a \in Node, NEW d, d.id = NextId(n),
             created[n] < MaxConnections[n],
             conns' = [conns EXCEPT ![n][a] = d], created' = [created EXCEPT ![n] = @ + 1]
      PROVE  Goal
  <2>1. NextId(n) = created[n] + 1
    BY <1>0, <1>2, NextIdFacts
  <2>2. \A m \in Node : created'[m] \in Nat /\ created[m] <= created'[m]
    BY <1>0, <1>2
  <2>3. conns'[n][a].id = created[n] + 1
    BY <1>0, <1>2, <2>1
  <2>4. ASSUME NEW m \in Node, NEW b \in Node, <<m, b>> # <<n, a>> PROVE conns'[m][b] = conns[m][b]
    BY <1>0, <1>2, <2>4
  <2> QED
    BY <2>2, <2>3, <2>4 DEF Has
<1>3. ASSUME created' = created, conns' \in [Node -> [Node -> Connection]],
             \A m, b \in Node : /\ conns'[m][b].id = conns[m][b].id
                                /\ Has(m, b)' => Has(m, b)
                                /\ conns[m][b].wasConnected => conns'[m][b].wasConnected
      PROVE  Goal
  BY <1>0, <1>3
<1>4. ASSUME NEW n \in Node, NEW a \in Node, connect(n, a) \/ onConnectRequest(n, a) PROVE Goal
  <2> DEFINE d == IF connect(n, a)
                  THEN [NoConnection EXCEPT !.id = NextId(n),
                                            !.state = "REQUESTING_CONNECTION",
                                            !.attemptsLeft = Attempts]
                  ELSE [NoConnection EXCEPT !.id = NextId(n), !.state = "DECIDING_CONNECTION"]
  <2>1. d.id = NextId(n)
    BY DEF NoConnection
  <2>2. /\ created[n] < MaxConnections[n]
        /\ conns' = [conns EXCEPT ![n][a] = d] /\ created' = [created EXCEPT ![n] = @ + 1]
    BY <1>4 DEF connect, onConnectRequest
  <2> HIDE DEF d
  <2> QED
    BY <1>2, <2>1, <2>2
<1>5. ASSUME NEW n \in Node, NEW a \in Node,
             updateSend(n, a) \/ onUserPacket(n, a) \/ UNCHANGED vars
      PROVE  Goal
  BY <1>1, <1>5 DEF updateSend, onUserPacket, vars
<1>6. ASSUME NEW n \in Node, NEW id \in ConnectionID, disconnect(n, id) PROVE Goal
  <2>1. created' = created
    BY <1>6 DEF disconnect
  <2>2. ASSUME NEW m \in Node, NEW b \in Node
        PROVE  /\ conns'[m][b].id = conns[m][b].id
               /\ Has(m, b)' => Has(m, b)
               /\ conns[m][b].wasConnected => conns'[m][b].wasConnected
               /\ conns'[m][b] \in Connection
    <3>1. conns'[m][b] \in {conns[m][b], [conns[m][b] EXCEPT !.state = "DISCONNECTING"]}
      BY <1>0, <1>6 DEF disconnect
    <3>2. Has(m, b) \/ conns'[m][b] = conns[m][b]
      BY <1>0, <1>6 DEF disconnect
    <3>3. conns[m][b] \in Connection
      BY <1>0
    <3> DEFINE d == [conns[m][b] EXCEPT !.state = "DISCONNECTING"]
    <3>4. /\ d \in Connection /\ d.id = conns[m][b].id
          /\ d.wasConnected = conns[m][b].wasConnected
      BY <3>3, StateChange DEF State
    <3> HIDE DEF d
    <3>5. conns'[m][b] \in {conns[m][b], d}
      BY <3>1 DEF d
    <3> QED
      BY <3>2, <3>3, <3>4, <3>5 DEF Has
  <2>3. Goal
    BY <1>0, <2>1, <2>2
  <2> QED
    BY <2>3
<1>7. ASSUME NEW n \in Node, NEW a \in Node,
             onConnectAccept(n, a) \/ onHeartbeat(n, a) \/ onDisconnect(n, a)
      PROVE  Goal
  <2>1. created' = created
    BY <1>7 DEF onConnectAccept, onHeartbeat, onDisconnect, BecomesAccepted
  <2>2. ASSUME NEW m \in Node, NEW b \in Node
        PROVE  /\ conns'[m][b].id = conns[m][b].id
               /\ Has(m, b)' => Has(m, b)
               /\ conns[m][b].wasConnected => conns'[m][b].wasConnected
    <3>1. CASE <<m, b>> # <<n, a>>
      <4>1. conns'[m][b] = conns[m][b]
        BY <1>0, <1>7, <3>1 DEF onConnectAccept, onHeartbeat, onDisconnect, BecomesAccepted
      <4> QED
        BY <4>1 DEF Has
    <3>2. CASE m = n /\ b = a
      <4>1. Has(n, a)
        BY <1>7 DEF onConnectAccept, onHeartbeat, onDisconnect, BecomesAccepted, Has
      <4>2. /\ conns'[n][a].id = conns[n][a].id
            /\ conns[n][a].wasConnected => conns'[n][a].wasConnected
        <5>1. conns[n][a] \in Connection
          BY <1>0
        <5>2. conns'[n][a] \in
                {[conns[n][a] EXCEPT !.state = "DISCONNECTED"],
                 [conns[n][a] EXCEPT !.state = "CONNECTED", !.accepted = TRUE,
                                     !.wasConnected = TRUE]}
          BY <1>0, <1>7 DEF onConnectAccept, onHeartbeat, onDisconnect, BecomesAccepted
        <5> QED
          BY <5>1, <5>2 DEF Connection
      <4> QED
        BY <3>2, <4>1, <4>2
    <3> QED
      BY <3>1, <3>2
  <2> QED
    BY <1>0, <2>1, <2>2
<1>8. ASSUME NEW n \in Node, updateConnections(n) PROVE Goal
  <2>1. PICK timers : UpdateConnections(n, timers)
    BY <1>8 DEF updateConnections
  <2>2. created' = created
    BY <2>1 DEF UpdateConnections
  <2>3. ASSUME NEW m \in Node, NEW b \in Node, Has(m, b)' PROVE Kept(m, b)
    <3>1. CASE m # n
      <4>1. conns'[m] = conns[m]
        BY <1>0, <2>1, <3>1 DEF UpdateConnections
      <4> QED
        BY <2>3, <4>1 DEF Has
    <3>2. CASE m = n
      <4> DEFINE e == Updated(conns[n][b], timers[b])
      <4>1. conns'[n][b] \in {NoConnection, e}
        BY <1>0, <2>1 DEF UpdateConnections
      <4>2. conns'[n][b] = e
        BY <2>3, <3>2, <4>1 DEF Has, NoConnection
      <4>3. /\ conns[n][b] \in Connection
            /\ conns[n][b].state = "REQUESTING_CONNECTION" => conns[n][b].attemptsLeft > 0
        BY <1>0 DEF IInv, StateSettles
      <4> HIDE DEF e
      <4>4. /\ e.id = conns[n][b].id
            /\ conns[n][b].wasConnected => e.wasConnected
            /\ e.state = "None" <=> conns[n][b].state = "None"
        BY <4>3, UpdatedFacts DEF e
      <4> QED
        BY <2>3, <3>2, <4>2, <4>4 DEF Has
    <3> QED
      BY <3>1, <3>2
  <2> QED
    BY <1>0, <2>2, <2>3
<1> QED
  BY <1>1, <1>4, <1>5, <1>6, <1>7, <1>8 DEF Next, vars

\* After a step a link is an old one, under its id, or its id is new.
LEMMA JoinedStep ==
    ASSUME IInv, IInv', SessionTypeOK, SessionsKnown, [Next]_vars,
           NEW n \in Node, NEW a \in Node, Joined(n, a)'
    PROVE  \/ Joined(n, a) /\ conns'[n][a].id = conns[n][a].id
           \/ /\ conns'[n][a].id \notin peers[n]
              /\ \A p \in FromTo(n, a) : p.session # conns'[n][a].id
<1>1. Has(n, a)'
  BY DEF Joined, Remotes
<1>2. created[n] \in Nat /\ peers[n] \subseteq 1 .. created[n]
  BY JoinedConnections DEF IInv, TypeOK
<1>3. \A p \in FromTo(n, a) :
        /\ p.session \in 1 .. created[n]
        /\ Has(n, a) /\ conns[n][a].id = p.session => p.session \in peers[n]
  BY DEF SessionsKnown, FromTo, Remotes
<1>4. CASE Has(n, a) /\ conns'[n][a].id = conns[n][a].id
  <2>1. CASE conns[n][a].id \in peers[n]
    BY <1>4, <2>1 DEF Joined, Remotes
  <2>2. CASE conns[n][a].id \notin peers[n]
    BY <1>3, <1>4, <2>2
  <2> QED
    BY <2>1, <2>2
<1>5. CASE conns'[n][a].id = created[n] + 1
  <2>1. ASSUME NEW i \in 1 .. created[n] PROVE i # created[n] + 1
    BY <1>2
  <2> QED
    BY <1>2, <1>3, <1>5, <2>1
<1> QED
  BY <1>1, <1>4, <1>5, ConnectionsStep

\* What a packet of n to a looks like when it is sent, and the link after it.
Outgoing(n, a) ==
    LET p == LinkTo(n, a).packets
    IN  [from |-> n, to |-> a, session |-> conns[n][a].id, seq |-> p.generator,
         ack |-> p.newest, ackBits |-> GenerateAckBits(p),
         reliable |-> WrittenReliable(LinkTo(n, a).chan)]

AfterSending(n, a) ==
    LET l == LinkTo(n, a)
    IN  [packets |-> RecordSentPacket(l.packets),
         chan    |-> AfterWrite(l.chan, l.packets.generator)]

LEMMA UpdateSendSteps ==
    ASSUME IInv, SessionTypeOK, NEW n \in Node, NEW a \in Node, UpdateSend(n, a)
    PROVE  /\ Joined(n, a) /\ LinkTo(n, a) \in Link
           /\ HasDataToSend(LinkTo(n, a).chan) /\ LinkTo(n, a).packets.generator < MaxPackets
           /\ phase[n] = "app" /\ UNCHANGED <<phase, conns, created, peers, taken, given>>
           /\ data' = data \cup {Outgoing(n, a)}
           /\ link' = [link EXCEPT ![n][conns[n][a].id] = AfterSending(n, a)]
<1>1. conns[n][a].id \in peers[n] /\ Has(n, a) /\ peers' = peers
  BY DEF UpdateSend, updateSend, PeersUnchanged
<1>2. Joined(n, a)
  BY <1>1 DEF Joined, Remotes
<1>3. LinkTo(n, a) \in Link
  BY <1>1 DEF SessionTypeOK, LinkTo
<1> QED
  BY <1>1, <1>2, <1>3, Zenon DEF UpdateSend, updateSend, LinkTo, Outgoing, AfterSending

\* The link after packet p of a has been read, and what its channel has taken.
AfterReading(n, a, p) ==
    LET l     == LinkTo(n, a)
        noted == RecordReceivedPacket(l.packets, p.seq)
        acks  == NewlyAcked(noted, p.ack, p.ackBits)
    IN  [packets |-> MarkAcked(noted, acks),
         chan    |-> AfterAcks(AfterRead(l.chan, p.reliable, {}), acks)]

NewlyTaken(n, a, p) ==
    LET c == LinkTo(n, a).chan
    IN  {[from |-> a, session |-> p.session, seq |-> s, by |-> conns[n][a].id] :
            s \in p.reliable \cap (Holds(AfterRead(c, p.reliable, {})) \ Holds(c))}

LEMMA UserPacketSteps ==
    ASSUME IInv, SessionTypeOK, NEW n \in Node, NEW a \in Node, NEW p \in data,
           UserPacket(n, a, p)
    PROVE  /\ Joined(n, a) /\ LinkTo(n, a) \in Link
           /\ p \in FromTo(a, n) /\ p \in UserData
           /\ phase' = [phase EXCEPT ![n] = "receive"]
           /\ UNCHANGED <<conns, created, peers, data, given>>
           /\ link' = [link EXCEPT ![n][conns[n][a].id] = AfterReading(n, a, p)]
           /\ taken' = [taken EXCEPT ![n] = @ \cup NewlyTaken(n, a, p)]
<1>1. conns[n][a].wasConnected /\ Has(n, a)
  BY DEF UserPacket, onUserPacket, IInv, StateSettles, Has
<1>2. Joined(n, a)
  BY <1>1, JoinedConnections
<1>3. LinkTo(n, a) \in Link
  BY <1>2 DEF SessionTypeOK, LinkTo, Joined
<1>4. p \in FromTo(a, n) /\ p \in UserData
  BY DEF UserPacket, FromTo, SessionTypeOK
<1>5. /\ phase' = [phase EXCEPT ![n] = "receive"]
      /\ UNCHANGED <<conns, created, peers, data, given>>
  BY DEF UserPacket, onUserPacket, Receives
<1> QED
  BY <1>2, <1>3, <1>4, <1>5, Zenon DEF UserPacket, LinkTo, AfterReading, NewlyTaken

\* Nothing else sends user packets.
LEMMA OnlySendingSends ==
    ASSUME [SessionNext]_sessionVars
    PROVE  data' = data \/ \E n, a \in Node : UpdateSend(n, a)
<1>1. ASSUME NEW n \in Node, NEW a \in Node,
             Connect(n, a) \/ ControlPacket(n, a) \/ \E p : UserPacket(n, a, p)
      PROVE  data' = data
  BY <1>1 DEF Connect, ControlPacket, UserPacket, dataVars
<1>2. ASSUME NEW n \in Node, NEW id, NEW to,
             Disconnect(n, id) \/ send(n, to) \/ resendTime(n, id) \/ UpdateReceiveEnds(n)
      PROVE  data' = data
  BY <1>2 DEF Disconnect, send, resendTime, UpdateReceiveEnds, FrameEnds, dataVars
<1>3. CASE UNCHANGED sessionVars
  BY <1>3 DEF sessionVars, dataVars
<1> QED
  BY <1>1, <1>2, <1>3, Zenon DEF SessionNext

-----------------------------------------------------------------------------
(***************************************************************************)
(* The invariant of the sessions, part by part.                            *)
(***************************************************************************)

\* A packet bears the id of an announced connection, whatever the sessions.
LEMMA StepSessionsKnown ==
    ASSUME IInv, IInv', SessionTypeOK, SessionsKnown, [SessionNext]_sessionVars
    PROVE  SessionsKnown'
<1>0. [Next]_vars
  BY SessionStepIsStep
<1>1. ASSUME NEW p \in data
      PROVE  /\ p.session \in 1 .. created'[p.from]
             /\ p.to \in Remotes(p.from)' /\ conns'[p.from][p.to].id = p.session =>
                    p.session \in peers'[p.from]
  <2>0. PICK n \in Node, a \in Node : n = p.from /\ a = p.to
    BY DEF SessionTypeOK, UserData
  <2>1. /\ created[n] \in Nat /\ created'[n] \in Nat /\ created[n] <= created'[n]
        /\ p.session \in 1 .. created[n]
        /\ Has(n, a) /\ conns[n][a].id = p.session => p.session \in peers[n]
    BY <1>0, <2>0, ConnectionsStep DEF SessionsKnown, IInv, TypeOK, Remotes
  <2>2. p.session \in 1 .. created'[n]
    BY <2>1
  <2>3. ASSUME Has(n, a)', conns'[n][a].id = p.session PROVE p.session \in peers'[n]
    <3>1. p.session # created[n] + 1
      BY <2>1
    <3>2. /\ Has(n, a) /\ conns[n][a].id = p.session
          /\ conns[n][a].wasConnected => conns'[n][a].wasConnected
      BY <1>0, <2>3, <3>1, ConnectionsStep
    <3>3. Joined(n, a)
      BY <2>1, <3>2 DEF Joined, Remotes
    <3>4. conns'[n][a].wasConnected
      BY <3>2, <3>3, JoinedConnections
    <3> QED
      BY <2>3, <3>4 DEF IInv, PeersMatchConnections, Remotes
  <2> QED
    BY <2>0, <2>2, <2>3 DEF Remotes
<1>2. CASE data' = data
  BY <1>1, <1>2 DEF SessionsKnown
<1>3. ASSUME NEW n \in Node, NEW a \in Node, UpdateSend(n, a) PROVE SessionsKnown'
  <2>1. Joined(n, a) /\ peers' = peers /\ created' = created
        /\ data' = data \cup {Outgoing(n, a)}
    BY <1>3, UpdateSendSteps
  <2>2. conns[n][a].id \in peers[n] /\ conns[n][a].id \in 1 .. created[n]
    BY <2>1, JoinedConnections DEF Joined
  <2>3. Outgoing(n, a).from = n /\ Outgoing(n, a).to = a
        /\ Outgoing(n, a).session = conns[n][a].id
    BY DEF Outgoing
  <2> HIDE DEF Outgoing
  <2> QED
    BY <1>1, <2>1, <2>2, <2>3 DEF SessionsKnown
<1> QED
  BY <1>2, <1>3, OnlySendingSends

\* What has been sent, taken and given stays so.
Grows ==
    /\ data \subseteq data'
    /\ \A m \in Node : taken[m] \subseteq taken'[m] /\ given[m] \subseteq given'[m]

\* Whether the message has been given is a matter of yes or no, and what grows
\* does not hurt.
LEMMA MessageGrows ==
    ASSUME NEW l, NEW out, NEW in, NEW wasGiven \in BOOLEAN,
           NEW more, in \subseteq more, NEW nowGiven \in BOOLEAN, wasGiven => nowGiven
    PROVE  /\ MessageKept(l, out, wasGiven) => MessageKept(l, out, nowGiven)
           /\ MessageTaken(l, in) => MessageTaken(l, more)
<1>1. MessageKept(l, out, wasGiven) => MessageKept(l, out, nowGiven)
  BY Zenon DEF MessageKept
<1>2. ASSUME MessageTaken(l, in) PROVE MessageTaken(l, more)
  <2>1. ASSUME NEW s \in l.packets.received
        PROVE  \E p \in more : p.seq = s /\ (0 \in p.reliable => l.chan.lastDelivered = 0)
    BY <1>2 DEF MessageTaken
  <2> QED
    BY <1>2, <2>1 DEF MessageTaken
<1> QED
  BY <1>1, <1>2

LEMMA GivenOrNot ==
    ASSUME NEW n \in Node, NEW a \in Node
    PROVE  /\ WasGiven(n, a) \in BOOLEAN
           /\ Grows => WasGiven(n, a)' \in BOOLEAN /\ (WasGiven(n, a) => WasGiven(n, a)')
                       /\ FromTo(n, a) \subseteq FromTo(n, a)'
BY DEF WasGiven, Grows, FromTo

\* A step that puts nothing in line and takes nothing out of it.
LEMMA LinkKept ==
    ASSUME NEW n \in Node, NEW a \in Node, NEW l, l = LinkTo(n, a), MessageGiven(n, a),
           NEW d, LinkTo(n, a)' = d, conns'[n][a].id = conns[n][a].id,
           MessageKept(d, FromTo(n, a)', WasGiven(n, a)), MessageTaken(d, FromTo(a, n)),
           InOrder(d.chan) = InOrder(l.chan),
           d.chan.lastDelivered = l.chan.lastDelivered,
           Grows, phase'[n] = "app" => phase[n] = "app"
    PROVE  LinkHolds(n, a)'
<1>1. MessageKept(d, FromTo(n, a)', WasGiven(n, a)')
  BY GivenOrNot, MessageGrows
<1>2. MessageTaken(d, FromTo(a, n)')
  BY GivenOrNot, MessageGrows
<1>3. MessageGiven(n, a)'
  BY DEF MessageGiven, Grows
<1> QED
  BY <1>1, <1>2, <1>3 DEF LinkHolds

LEMMA LinkUnchanged ==
    ASSUME NEW n \in Node, NEW a \in Node, LinkHolds(n, a),
           LinkTo(n, a)' = LinkTo(n, a), conns'[n][a].id = conns[n][a].id,
           FromTo(n, a)' = FromTo(n, a), Grows, phase'[n] = "app" => phase[n] = "app"
    PROVE  LinkHolds(n, a)'
BY LinkKept DEF LinkHolds

\* A new link: the other end has not got anything from it, because no packet
\* of an earlier connection is about.
LEMMA LinkMade ==
    ASSUME OneSession', NEW n \in Node, NEW a \in Node, Joined(n, a)', UNCHANGED data,
           \A p \in FromTo(n, a) : p.session # conns'[n][a].id,
           LinkTo(n, a)' = NewLink
    PROVE  LinkHolds(n, a)'
<1>1. FromTo(n, a)' = {}
  <2>1. FromTo(n, a)' = FromTo(n, a)
    BY DEF FromTo
  <2>2. \A p \in FromTo(n, a)' : conns'[n][a].id = p.session
    BY DEF OneSession
  <2> QED
    BY <2>1, <2>2
<1>2. WasGiven(n, a)' \in BOOLEAN
  BY DEF WasGiven
<1>3. MessageKept(NewLink, {}, WasGiven(n, a)') /\ MessageTaken(NewLink, FromTo(a, n)')
  BY <1>2, NewLinkMessage
<1>4. InOrder(NewLink.chan) = {} /\ NewLink.chan.lastDelivered = MAX_SEQUENCE_NUMBER
  BY DEF InOrder, NewLink, NewChannelPeer
<1>5. MAX_SEQUENCE_NUMBER # 0
  BY SeqCycleAssumption DEF MAX_SEQUENCE_NUMBER
<1> QED
  BY <1>1, <1>3, <1>4, <1>5 DEF LinkHolds, MessageGiven

\* The link behind one id becomes d.
LinkBecomes(n, id, d) == link' = [link EXCEPT ![n][id] = d]

\* The others stay.
LEMMA OtherLinks ==
    ASSUME SessionTypeOK, NEW n \in Node, NEW id \in peers[n], NEW d,
           LinkBecomes(n, id, d), conns' = conns, peers' = peers,
           NEW m \in Node, NEW b \in Node, Joined(m, b)
    PROVE  /\ Joined(m, b)' /\ conns'[m][b].id = conns[m][b].id
           /\ m = n /\ conns[m][b].id = id => LinkTo(m, b)' = d
           /\ m # n \/ conns[m][b].id # id => LinkTo(m, b)' = LinkTo(m, b)
<1>1. DOMAIN link = Node /\ link[n] \in [peers[n] -> Link] /\ link[m] \in [peers[m] -> Link]
  BY DEF SessionTypeOK
<1>2. conns[m][b].id \in peers[m]
  BY DEF Joined
<1>3. Joined(m, b)'
  BY DEF Joined, Remotes, Has
<1>4. CASE m = n /\ conns[m][b].id = id
  BY <1>1, <1>2, <1>3, <1>4 DEF LinkTo, LinkBecomes
<1>5. CASE ~ (m = n /\ conns[m][b].id = id)
  <2>1. link'[m][conns[m][b].id] = link[m][conns[m][b].id]
    BY <1>1, <1>2, <1>5 DEF LinkBecomes
  <2> QED
    BY <1>3, <1>5, <2>1 DEF LinkTo
<1> QED
  BY <1>4, <1>5

\* The application's calls of connect and disconnect touch no link.
LEMMA CallKeepsLinks ==
    ASSUME IInv, IInv', SessionTypeOK, SessionsKnown, LinksInv, [Next]_vars,
           PeersUnchanged, UNCHANGED <<phase, dataVars>>
    PROVE  LinksInv'
<1> SUFFICES ASSUME NEW m \in Node, NEW b \in Node, Joined(m, b)' PROVE LinkHolds(m, b)'
  BY DEF LinksInv
<1>1. peers' = peers /\ UNCHANGED <<link, data, taken, given>>
  BY DEF PeersUnchanged, dataVars
<1>2. Joined(m, b) /\ conns'[m][b].id = conns[m][b].id
  BY <1>1, JoinedStep DEF Joined
<1>3. LinkTo(m, b)' = LinkTo(m, b) /\ FromTo(m, b)' = FromTo(m, b) /\ Grows
  BY <1>1, <1>2 DEF LinkTo, FromTo, Grows
<1> QED
  BY <1>2, <1>3, LinkUnchanged DEF LinksInv

LEMMA SendKeepsLinks ==
    ASSUME IInv, SessionTypeOK, LinksInv, OneMessage,
           NEW n \in Node, NEW to \in Recipients(n), send(n, to)
    PROVE  LinksInv'
<1> SUFFICES ASSUME NEW m \in Node, NEW b \in Node, Joined(m, b)' PROVE LinkHolds(m, b)'
  BY DEF LinksInv
<1>1. UNCHANGED <<phase, conns, peers, data, taken, given>>
  BY DEF send, vars
<1>2. Joined(m, b) /\ conns'[m][b].id = conns[m][b].id /\ conns[m][b].id \in peers[m]
  BY <1>1 DEF Joined, Remotes, Has
<1>3. FromTo(m, b)' = FromTo(m, b) /\ FromTo(b, m)' = FromTo(b, m) /\ Grows
  BY <1>1 DEF FromTo, Grows
<1>4. LinkTo(m, b) \in Link /\ DOMAIN link = Node
  BY <1>2 DEF SessionTypeOK, LinkTo
<1>5. CASE m = n /\ conns[n][b].id \in to
  <2> DEFINE l == LinkTo(n, b)
             d == [l EXCEPT !.chan = SendReliable(@, MessageSize)]
  <2>1. LinkTo(n, b)' = d
    BY <1>1, <1>2, <1>4, <1>5 DEF send, LinkTo
  <2>2. l.chan.generator < MaxReliable
    BY <1>5 DEF send, LinkTo
  <2>3. /\ MessageKept(d, FromTo(n, b), WasGiven(n, b)) /\ MessageTaken(d, FromTo(b, n))
        /\ InOrder(d.chan) = InOrder(l.chan)
        /\ d.chan.lastDelivered = l.chan.lastDelivered
    BY <1>2, <1>4, <1>5, <2>2, GivenOrNot, SendMessage DEF LinksInv, LinkHolds
  <2>4. MessageGiven(n, b)
    BY <1>2, <1>5 DEF LinksInv, LinkHolds
  <2> HIDE DEF d
  <2> QED
    BY <1>1, <1>2, <1>3, <1>5, <2>1, <2>3, <2>4, LinkKept
<1>6. CASE ~ (m = n /\ conns[n][b].id \in to)
  <2>1. LinkTo(m, b)' = LinkTo(m, b)
    BY <1>1, <1>2, <1>4, <1>6 DEF send, LinkTo
  <2> QED
    BY <1>1, <1>2, <1>3, <2>1, LinkUnchanged DEF LinksInv
<1> QED
  BY <1>5, <1>6

LEMMA ResendTimeKeepsLinks ==
    ASSUME IInv, SessionTypeOK, LinksInv,
           NEW n \in Node, NEW id \in peers[n], resendTime(n, id)
    PROVE  LinksInv'
<1> SUFFICES ASSUME NEW m \in Node, NEW b \in Node, Joined(m, b)' PROVE LinkHolds(m, b)'
  BY DEF LinksInv
<1>1. UNCHANGED <<phase, conns, peers, data, taken, given>>
  BY DEF resendTime, vars
<1>2. Joined(m, b) /\ conns'[m][b].id = conns[m][b].id
  BY <1>1 DEF Joined, Remotes, Has
<1>3. FromTo(m, b)' = FromTo(m, b) /\ FromTo(b, m)' = FromTo(b, m) /\ Grows
  BY <1>1 DEF FromTo, Grows
<1>4. LinkTo(m, b) \in Link
  BY <1>2 DEF SessionTypeOK, LinkTo, Joined
<1> DEFINE l == link[n][id]
<1>5. PICK s : link' = [link EXCEPT ![n][id].chan = AfterResendTime(l.chan, s)]
  BY DEF resendTime
<1> DEFINE d == [l EXCEPT !.chan = AfterResendTime(l.chan, s)]
<1>6. LinkBecomes(n, id, d)
  BY <1>5 DEF LinkBecomes
<1> HIDE DEF d
<1>7. /\ m = n /\ conns[m][b].id = id => LinkTo(m, b)' = d
      /\ m # n \/ conns[m][b].id # id => LinkTo(m, b)' = LinkTo(m, b)
  BY <1>1, <1>2, <1>6, OtherLinks
<1>8. CASE m = n /\ conns[m][b].id = id
  <2>1. l = LinkTo(n, b)
    BY <1>8 DEF LinkTo
  <2>2. /\ MessageKept(d, FromTo(n, b), WasGiven(n, b)) /\ MessageTaken(d, FromTo(b, n))
        /\ InOrder(d.chan) = InOrder(l.chan)
        /\ d.chan.lastDelivered = l.chan.lastDelivered
    BY <1>2, <1>4, <1>8, <2>1, GivenOrNot, ResendMessage DEF LinksInv, LinkHolds, d
  <2>3. MessageGiven(n, b)
    BY <1>2, <1>8 DEF LinksInv, LinkHolds
  <2> QED
    BY <1>1, <1>2, <1>3, <1>7, <1>8, <2>1, <2>2, <2>3, LinkKept
<1>9. CASE ~ (m = n /\ conns[m][b].id = id)
  BY <1>1, <1>2, <1>3, <1>7, <1>9, LinkUnchanged DEF LinksInv
<1> QED
  BY <1>8, <1>9

\* The packets of a type keep their numbers below the bound.
LEMMA PacketNumbers ==
    ASSUME SessionTypeOK, PacketsInv, NEW n \in Node, NEW a \in Node
    PROVE  \A p \in FromTo(n, a) : p.seq \in Nat /\ p.seq < MaxPackets
BY SeqCycleAssumption DEF SessionTypeOK, UserData, PacketsInv, FromTo, SequenceNumber

LEMMA UpdateSendKeepsLinks ==
    ASSUME IInv, SessionTypeOK, LinksInv, PacketsInv, OneMessage,
           NEW n \in Node, NEW a \in Node, UpdateSend(n, a)
    PROVE  LinksInv' /\ Outgoing(n, a).reliable \subseteq {0}
<1> DEFINE id == conns[n][a].id
           l  == LinkTo(n, a)
           d  == AfterSending(n, a)
           q  == Outgoing(n, a)
<1>1. /\ Joined(n, a) /\ l \in Link
      /\ HasDataToSend(l.chan) /\ l.packets.generator < MaxPackets
      /\ UNCHANGED <<phase, conns, peers, taken, given>>
      /\ data' = data \cup {q}
      /\ LinkBecomes(n, id, d)
  BY UpdateSendSteps DEF LinkBecomes
<1>2. q.from = n /\ q.to = a /\ q.seq = l.packets.generator
        /\ q.reliable = WrittenReliable(l.chan)
  BY DEF Outgoing
<1>3. d = [packets |-> RecordSentPacket(l.packets),
           chan    |-> AfterWrite(l.chan, l.packets.generator)]
  BY DEF AfterSending
<1>4. \A m, b \in Node : FromTo(m, b)' =
            IF m = n /\ b = a THEN FromTo(n, a) \cup {q} ELSE FromTo(m, b)
  <2> HIDE DEF q
  <2> QED
    BY <1>1, <1>2 DEF FromTo
<1>5. Grows
  BY <1>1 DEF Grows
<1>6. /\ MessageKept(d, FromTo(n, a) \cup {q}, WasGiven(n, a))
      /\ MessageTaken(d, FromTo(a, n))
      /\ InOrder(d.chan) = InOrder(l.chan)
      /\ d.chan.lastDelivered = l.chan.lastDelivered
      /\ q.reliable \subseteq {0}
  <2>1. MessageKept(l, FromTo(n, a), WasGiven(n, a)) /\ MessageTaken(l, FromTo(a, n))
    BY <1>1 DEF LinksInv, LinkHolds
  <2>2. /\ WasGiven(n, a) \in BOOLEAN
        /\ \A p \in FromTo(n, a) : p.seq \in Nat
    BY GivenOrNot, PacketNumbers
  <2> HIDE DEF d, q, l
  <2> QED
    BY <1>1, <1>2, <1>3, <2>1, <2>2, WriteMessage
<1> HIDE DEF d, q
<1>7. ASSUME NEW m \in Node, NEW b \in Node, Joined(m, b)' PROVE LinkHolds(m, b)'
  <2>1. Joined(m, b) /\ id \in peers[n]
    BY <1>1, <1>7 DEF Joined, Remotes, Has
  <2>2. /\ conns'[m][b].id = conns[m][b].id
        /\ m = n /\ conns[m][b].id = id => LinkTo(m, b)' = d
        /\ m # n \/ conns[m][b].id # id => LinkTo(m, b)' = LinkTo(m, b)
    BY <1>1, <2>1, OtherLinks
  <2>3. CASE m = n /\ b = a
    BY <1>1, <1>4, <1>5, <1>6, <2>2, <2>3, LinkKept DEF LinksInv, LinkHolds
  <2>4. CASE ~ (m = n /\ b = a)
    <3>1. ~ (m = n /\ conns[m][b].id = id)
      BY <1>1, <2>1, <2>4, JoinedConnections DEF Joined, Remotes
    <3> QED
      BY <1>1, <1>4, <1>5, <2>1, <2>2, <2>4, <3>1, LinkUnchanged DEF LinksInv
  <2> QED
    BY <2>3, <2>4
<1> QED
  BY <1>6, <1>7 DEF LinksInv, q

\* The links the callbacks of a pass or a packet leave behind.
LEMMA LinksAfterCallbacks ==
    ASSUME IInv, IInv', SessionTypeOK, SessionsKnown, [Next]_vars,
           NEW n \in Node, NEW after, LinksFollow(n, after),
           \A k \in Node \ {n} : peers'[k] = peers[k],
           NEW m \in Node, NEW b \in Node, Joined(m, b)'
    PROVE  \/ /\ Joined(m, b) /\ conns'[m][b].id = conns[m][b].id
              /\ LinkTo(m, b)' = IF m = n THEN after[conns[n][b].id] ELSE LinkTo(m, b)
           \/ /\ LinkTo(m, b)' = NewLink
              /\ \A p \in FromTo(m, b) : p.session # conns'[m][b].id
<1>1. DOMAIN link = Node
  BY DEF SessionTypeOK
<1>2. conns'[m][b].id \in peers'[m]
  BY DEF Joined
<1>3. CASE m # n
  <2>1. link'[m] = link[m] /\ peers'[m] = peers[m]
    BY <1>1, <1>3 DEF LinksFollow
  <2>2. Joined(m, b) /\ conns'[m][b].id = conns[m][b].id
    BY <1>2, <2>1, JoinedStep
  <2> QED
    BY <1>3, <2>1, <2>2 DEF LinkTo
<1>4. CASE m = n
  <2>1. link'[n] = [id \in peers'[n] |-> IF id \in peers[n] THEN after[id] ELSE NewLink]
    BY <1>1 DEF LinksFollow
  <2>2. CASE Joined(n, b) /\ conns'[n][b].id = conns[n][b].id
    <3>1. conns[n][b].id \in peers[n]
      BY <2>2 DEF Joined
    <3>2. LinkTo(n, b)' = after[conns[n][b].id]
      BY <1>2, <1>4, <2>1, <2>2, <3>1 DEF LinkTo
    <3> QED
      BY <1>4, <2>2, <3>2
  <2>3. CASE /\ conns'[n][b].id \notin peers[n]
             /\ \A p \in FromTo(n, b) : p.session # conns'[n][b].id
    <3>1. LinkTo(n, b)' = NewLink
      BY <1>2, <1>4, <2>1, <2>3 DEF LinkTo
    <3> QED
      BY <1>4, <2>3, <3>1
  <2> QED
    BY <1>4, <2>2, <2>3, JoinedStep
<1> QED
  BY <1>3, <1>4

\* Only one process's peers come and go.
LEMMA OtherPeersStay ==
    ASSUME IInv, NEW n \in Node,
           (\E a \in Node : ControlPacket(n, a)) \/ UpdateReceiveEnds(n)
    PROVE  \A k \in Node \ {n} : peers'[k] = peers[k]
<1>1. peers \in [Node -> SUBSET ConnectionID]
  BY DEF IInv, TypeOK
<1>2. ASSUME NEW made, NEW lost, PeersFollow(n, made, lost)
      PROVE  \A k \in Node \ {n} : peers'[k] = peers[k]
  BY <1>1, <1>2 DEF PeersFollow
<1>3. ASSUME NEW a \in Node, ControlPacket(n, a)
      PROVE  \A k \in Node \ {n} : peers'[k] = peers[k]
  <2>1. PeersUnchanged \/ PeersFollow(n, {conns[n][a].id}, {})
    BY <1>3 DEF ControlPacket, onConnectRequest, onConnectAccept, onHeartbeat, onDisconnect,
       BecomesAccepted
  <2> QED
    BY <1>2, <2>1 DEF PeersUnchanged
<1>4. CASE UpdateReceiveEnds(n)
  <2>1. PICK timers : UpdateConnections(n, timers)
    BY <1>4 DEF UpdateReceiveEnds, updateConnections
  <2>2. PICK made, lost : PeersFollow(n, made, lost)
    BY <2>1 DEF UpdateConnections
  <2> QED
    BY <1>2, <2>2
<1> QED
  BY <1>3, <1>4

LEMMA ControlPacketKeepsLinks ==
    ASSUME IInv, IInv', SessionTypeOK, SessionsKnown, LinksInv, OneSession', [Next]_vars,
           NEW n \in Node, NEW a \in Node, ControlPacket(n, a)
    PROVE  LinksInv'
<1> SUFFICES ASSUME NEW m \in Node, NEW b \in Node, Joined(m, b)' PROVE LinkHolds(m, b)'
  BY DEF LinksInv
<1>1. /\ LinksFollow(n, link[n]) /\ UNCHANGED <<data, taken, given>>
      /\ phase' = [phase EXCEPT ![n] = "receive"]
  BY DEF ControlPacket, onConnectRequest, onConnectAccept, onHeartbeat, onDisconnect, Receives
<1>2. phase'[m] = "app" => phase[m] = "app"
  BY <1>1 DEF IInv, TypeOK
<1>3. FromTo(m, b)' = FromTo(m, b) /\ Grows
  BY <1>1 DEF FromTo, Grows
<1>4. CASE Joined(m, b) /\ conns'[m][b].id = conns[m][b].id /\ LinkTo(m, b)' = LinkTo(m, b)
  BY <1>2, <1>3, <1>4, LinkUnchanged DEF LinksInv
<1>5. CASE /\ LinkTo(m, b)' = NewLink
           /\ \A p \in FromTo(m, b) : p.session # conns'[m][b].id
  BY <1>1, <1>5, LinkMade
<1>6. m = n => link[n][conns[n][b].id] = LinkTo(m, b)
  BY DEF LinkTo
<1> QED
  BY <1>1, <1>4, <1>5, <1>6, OtherPeersStay, LinksAfterCallbacks

LEMMA UserPacketKeepsLinks ==
    ASSUME IInv, SessionTypeOK, LinksInv, PacketsInv, AcksTrue, OneMessage,
           NEW n \in Node, NEW a \in Node, NEW p \in data, UserPacket(n, a, p)
    PROVE  LinksInv'
<1> SUFFICES ASSUME NEW m \in Node, NEW b \in Node, Joined(m, b)' PROVE LinkHolds(m, b)'
  BY DEF LinksInv
<1> DEFINE id == conns[n][a].id
           l  == LinkTo(n, a)
           d  == AfterReading(n, a, p)
<1>1. /\ Joined(n, a) /\ l \in Link /\ p \in FromTo(a, n) /\ p \in UserData
      /\ phase' = [phase EXCEPT ![n] = "receive"]
      /\ UNCHANGED <<conns, peers, data, given>>
      /\ LinkBecomes(n, id, d)
      /\ taken' = [taken EXCEPT ![n] = @ \cup NewlyTaken(n, a, p)]
  BY UserPacketSteps DEF LinkBecomes
<1>2. FromTo(m, b)' = FromTo(m, b) /\ FromTo(b, m)' = FromTo(b, m)
  BY <1>1 DEF FromTo
<1>3. Grows /\ taken'[n] = taken[n] \cup NewlyTaken(n, a, p)
  BY <1>1 DEF Grows, SessionTypeOK
<1>4. phase'[n] = "receive" /\ (m # n => phase'[m] = phase[m])
  BY <1>1 DEF IInv, TypeOK
<1>5. Joined(m, b) /\ id \in peers[n]
  BY <1>1 DEF Joined, Remotes, Has
<1>6. /\ conns'[m][b].id = conns[m][b].id
      /\ m = n /\ conns[m][b].id = id => LinkTo(m, b)' = d
      /\ m # n \/ conns[m][b].id # id => LinkTo(m, b)' = LinkTo(m, b)
  <2> HIDE DEF d
  <2> QED
    BY <1>1, <1>5, OtherLinks
<1>7. CASE ~ (m = n /\ b = a)
  <2>1. m # n \/ conns[m][b].id # id
    BY <1>1, <1>5, <1>7, JoinedConnections DEF Joined, Remotes
  <2>2. phase'[m] = "app" => phase[m] = "app"
    BY <1>4
  <2> QED
    BY <1>2, <1>3, <1>5, <1>6, <2>1, <2>2, LinkUnchanged DEF LinksInv
<1>8. CASE m = n /\ b = a
  <2> DEFINE noted == RecordReceivedPacket(l.packets, p.seq)
             acks  == NewlyAcked(noted, p.ack, p.ackBits)
             read  == AfterRead(l.chan, p.reliable, {})
  <2>1. d = [packets |-> MarkAcked(noted, acks), chan |-> AfterAcks(read, acks)]
    BY DEF AfterReading
  <2>2. p.seq < MaxPackets /\ p.reliable \subseteq {0}
    BY DEF PacketsInv
  <2>3. /\ MessageKept(l, FromTo(n, a), WasGiven(n, a)) /\ MessageTaken(l, FromTo(a, n))
        /\ MessageGiven(n, a)
    BY <1>1 DEF LinksInv, LinkHolds
  <2>4. /\ FromTo(n, a) \subseteq UserData /\ NumbersDiffer(FromTo(n, a))
        /\ WasGiven(n, a) \in BOOLEAN
    BY GivenOrNot DEF PacketsInv, FromTo, SessionTypeOK
  <2>5. HeaderTrue(p, FromTo(n, a), WasGiven(n, a))
    <3>1. p.from = a /\ p.to = n
      BY <1>1 DEF FromTo
    <3> QED
      BY <3>1 DEF AcksTrue
  <2> HIDE DEF l, d
  <2>6. /\ MessageKept(d, FromTo(n, a), WasGiven(n, a)) /\ MessageTaken(d, FromTo(a, n))
        /\ InOrder(l.chan) \subseteq InOrder(d.chan)
        /\ d.chan.lastDelivered = 0 /\ l.chan.lastDelivered # 0 =>
                /\ 0 \in InOrder(d.chan)
                /\ 0 \in p.reliable \cap (Holds(read) \ Holds(l.chan))
    BY <1>1, <2>1, <2>2, <2>3, <2>4, <2>5, ReceiveMessage
  <2>7. WasGiven(n, a)' = WasGiven(n, a)
    BY <1>1 DEF WasGiven
  <2>8. ASSUME d.chan.lastDelivered = 0
        PROVE  \E t \in taken'[n] : /\ t.from = a /\ t.seq = 0
                                    /\ t \in given'[n] \/ (t.by = id /\ 0 \in InOrder(d.chan))
    <3>1. CASE l.chan.lastDelivered = 0
      <4>1. PICK t \in taken[n] : /\ t.from = a /\ t.seq = 0
                                  /\ t \in given[n] \/ (t.by = id /\ 0 \in InOrder(l.chan))
        BY <2>3, <3>1 DEF MessageGiven, l
      <4> QED
        BY <1>1, <1>3, <2>6, <4>1
    <3>2. CASE l.chan.lastDelivered # 0
      <4> DEFINE t == [from |-> a, session |-> p.session, seq |-> 0, by |-> id]
      <4>1. t \in NewlyTaken(n, a, p)
        BY <2>6, <2>8, <3>2 DEF NewlyTaken, l
      <4>2. t.from = a /\ t.seq = 0 /\ t.by = id
        OBVIOUS
      <4> HIDE DEF t
      <4> QED
        BY <1>3, <2>6, <2>8, <3>2, <4>1, <4>2
    <3> QED
      BY <3>1, <3>2
  <2>9. LinkTo(n, a)' = d /\ conns'[n][a].id = id
    BY <1>6, <1>8
  <2>10. MessageGiven(n, a)'
    BY <1>4, <2>8, <2>9 DEF MessageGiven
  <2> QED
    BY <1>2, <1>8, <2>6, <2>7, <2>9, <2>10 DEF LinkHolds
<1> QED
  BY <1>7, <1>8

LEMMA UpdateReceiveEndsKeepsLinks ==
    ASSUME IInv, IInv', SessionTypeOK, SessionsKnown, LinksInv, OneSession', [Next]_vars,
           NEW n \in Node, UpdateReceiveEnds(n)
    PROVE  LinksInv'
<1> SUFFICES ASSUME NEW m \in Node, NEW b \in Node, Joined(m, b)' PROVE LinkHolds(m, b)'
  BY DEF LinksInv
<1> DEFINE after == [id \in peers[n] |-> [link[n][id] EXCEPT !.chan = AfterDeliver(@)]]
<1>1. /\ LinksFollow(n, after) /\ UNCHANGED <<data, taken>>
      /\ given' = [given EXCEPT ![n] = @ \cup {t \in taken[n] :
            t.by \in peers[n] \cap peers'[n] /\ t.seq \in InOrder(link[n][t.by].chan)}]
      /\ phase' = [phase EXCEPT ![n] = "app"]
  BY DEF UpdateReceiveEnds, FrameEnds, updateConnections, UpdateConnections
<1>2. FromTo(m, b)' = FromTo(m, b) /\ FromTo(b, m)' = FromTo(b, m)
  BY <1>1 DEF FromTo
<1>3. /\ Grows
      /\ given'[n] = given[n] \cup {t \in taken[n] :
            t.by \in peers[n] \cap peers'[n] /\ t.seq \in InOrder(link[n][t.by].chan)}
  BY <1>1 DEF Grows, SessionTypeOK
<1>4. m # n => phase'[m] = phase[m]
  BY <1>1 DEF IInv, TypeOK
<1>5. CASE m # n /\ Joined(m, b) /\ conns'[m][b].id = conns[m][b].id
           /\ LinkTo(m, b)' = LinkTo(m, b)
  BY <1>2, <1>3, <1>4, <1>5, LinkUnchanged DEF LinksInv
<1>6. CASE m = n /\ Joined(n, b) /\ conns'[n][b].id = conns[n][b].id
           /\ LinkTo(n, b)' = after[conns[n][b].id]
  <2> DEFINE l == LinkTo(n, b)
             d == [l EXCEPT !.chan = AfterDeliver(@)]
  <2>1. conns[n][b].id \in peers[n] /\ conns[n][b].id \in peers'[n]
    BY <1>6 DEF Joined
  <2>2. LinkTo(n, b)' = d
    BY <1>6, <2>1 DEF LinkTo
  <2>3. l \in Link
    BY <2>1 DEF LinkTo, SessionTypeOK
  <2>4. /\ MessageKept(l, FromTo(n, b), WasGiven(n, b)) /\ MessageTaken(l, FromTo(b, n))
        /\ MessageGiven(n, b)
    BY <1>6 DEF LinksInv, LinkHolds
  <2>5. /\ MessageKept(d, FromTo(n, b), WasGiven(n, b)) /\ MessageTaken(d, FromTo(b, n))
        /\ InOrder(d.chan) = {} /\ d.chan.lastDelivered = l.chan.lastDelivered
    BY <2>3, <2>4, GivenOrNot, DeliverMessage
  <2> HIDE DEF d
  <2>6. ASSUME l.chan.lastDelivered = 0
        PROVE  \E t \in taken'[n] : t.from = b /\ t.seq = 0 /\ t \in given'[n]
    <3>1. PICK t \in taken[n] :
            /\ t.from = b /\ t.seq = 0
            /\ t \in given[n] \/ (t.by = conns[n][b].id /\ 0 \in InOrder(l.chan))
      BY <2>4, <2>6 DEF MessageGiven
    <3>2. t \in given'[n]
      BY <1>3, <2>1, <3>1 DEF LinkTo
    <3> QED
      BY <1>1, <3>1, <3>2
  <2>7. MessageGiven(n, b)'
    BY <2>2, <2>5, <2>6 DEF MessageGiven
  <2>8. MessageKept(d, FromTo(n, b), WasGiven(n, b)')
    BY <1>3, <2>5, GivenOrNot, MessageGrows
  <2> QED
    BY <1>2, <1>6, <2>2, <2>5, <2>7, <2>8 DEF LinkHolds
<1>7. CASE /\ LinkTo(m, b)' = NewLink
           /\ \A p \in FromTo(m, b) : p.session # conns'[m][b].id
  BY <1>1, <1>7, LinkMade
<1> HIDE DEF after
<1> QED
  BY <1>1, <1>5, <1>6, <1>7, OtherPeersStay, LinksAfterCallbacks

\* Nothing but reading takes messages.
LEMMA OnlyReadingTakes ==
    ASSUME [SessionNext]_sessionVars
    PROVE  taken' = taken \/ \E n, a \in Node : \E p \in data : UserPacket(n, a, p)
<1>1. ASSUME NEW n \in Node, NEW a \in Node,
             Connect(n, a) \/ ControlPacket(n, a) \/ UpdateSend(n, a)
      PROVE  taken' = taken
  BY <1>1 DEF Connect, ControlPacket, UpdateSend, dataVars
<1>2. ASSUME NEW n \in Node, NEW id, NEW to,
             Disconnect(n, id) \/ send(n, to) \/ resendTime(n, id) \/ UpdateReceiveEnds(n)
      PROVE  taken' = taken
  BY <1>2 DEF Disconnect, send, resendTime, UpdateReceiveEnds, FrameEnds, dataVars
<1>3. CASE UNCHANGED sessionVars
  BY <1>3 DEF sessionVars, dataVars
<1> QED
  BY <1>1, <1>2, <1>3, Zenon DEF SessionNext

LEMMA StepPackets ==
    ASSUME IInv, SessionTypeOK, PacketsInv, LinksInv, OneMessage, [SessionNext]_sessionVars
    PROVE  PacketsInv'
<1>1. ASSUME NEW n \in Node, NEW a \in Node, UpdateSend(n, a) PROVE PacketsInv'
  <2> DEFINE q == Outgoing(n, a)
             g == LinkTo(n, a).packets.generator
  <2>1. /\ Joined(n, a) /\ LinkTo(n, a) \in Link /\ g < MaxPackets
        /\ data' = data \cup {q} /\ taken' = taken
    BY <1>1, UpdateSendSteps
  <2>2. q.from = n /\ q.to = a /\ q.seq = g
    BY DEF Outgoing
  <2>3. q.reliable \subseteq {0}
    BY <1>1, UpdateSendKeepsLinks
  <2>4. \A p \in FromTo(n, a) : p.seq \in Nat /\ p.seq < g
    BY <2>1, PacketNumbers DEF LinksInv, LinkHolds, MessageKept
  <2>5. g \in Nat
    BY <2>1, SeqCycleAssumption DEF Link, PacketPeerType, SequenceNumber
  <2> HIDE DEF q, g
  <2>6. \A m, b \in Node : FromTo(m, b)' =
            IF m = n /\ b = a THEN FromTo(n, a) \cup {q} ELSE FromTo(m, b)
    BY <2>1, <2>2 DEF FromTo
  <2>7. NumbersDiffer(FromTo(n, a) \cup {q})
    <3>1. \A p \in FromTo(n, a) : p.seq # q.seq
      BY <2>2, <2>4, <2>5
    <3> QED
      BY <3>1 DEF PacketsInv, NumbersDiffer
  <2>8. \A m, b \in Node : NumbersDiffer(FromTo(m, b)')
    BY <2>6, <2>7 DEF PacketsInv
  <2>9. ASSUME NEW m \in Node, NEW t \in taken'[m]
        PROVE  \E p \in FromTo(t.from, m)' : p.session = t.session
    <3>1. PICK p \in FromTo(t.from, m) : p.session = t.session
      BY <2>1 DEF PacketsInv
    <3> QED
      BY <2>1, <3>1 DEF FromTo
  <2> QED
    BY <2>1, <2>2, <2>3, <2>8, <2>9 DEF PacketsInv, NumbersDiffer
<1>2. ASSUME NEW n \in Node, NEW a \in Node, NEW p \in data, UserPacket(n, a, p)
      PROVE  PacketsInv'
  <2>1. /\ p \in FromTo(a, n) /\ data' = data
        /\ taken' = [taken EXCEPT ![n] = @ \cup NewlyTaken(n, a, p)]
    BY <1>2, UserPacketSteps
  <2>2. \A m, b : FromTo(m, b)' = FromTo(m, b)
    BY <2>1 DEF FromTo
  <2>3. \A t \in NewlyTaken(n, a, p) : t.from = a /\ t.session = p.session
    BY DEF NewlyTaken
  <2>4. \A m \in Node : taken'[m] \subseteq
            taken[m] \cup IF m = n THEN NewlyTaken(n, a, p) ELSE {}
    BY <2>1 DEF SessionTypeOK
  <2>5. ASSUME NEW m \in Node, NEW t \in taken'[m]
        PROVE  \E q \in FromTo(t.from, m) : q.session = t.session
    BY <2>1, <2>3, <2>4 DEF PacketsInv
  <2> QED
    BY <2>1, <2>2, <2>5 DEF PacketsInv
<1>3. CASE data' = data /\ taken' = taken
  <2>1. \A m, b : FromTo(m, b)' = FromTo(m, b)
    BY <1>3 DEF FromTo
  <2> QED
    BY <1>3, <2>1 DEF PacketsInv
<1> QED
  BY <1>1, <1>2, <1>3, OnlySendingSends, OnlyReadingTakes

\* A header is true when it is written: what it acknowledges has been noted, and
\* between frames whatever has been noted has been given.
LEMMA HeaderWrittenTrue ==
    ASSUME SessionTypeOK, LinksInv, NEW n \in Node, NEW a \in Node, UpdateSend(n, a), IInv
    PROVE  HeaderTrue(Outgoing(n, a), FromTo(a, n), WasGiven(a, n))
<1> DEFINE k == LinkTo(n, a).packets
           c == LinkTo(n, a).chan
           h == Outgoing(n, a)
<1>1. Joined(n, a) /\ LinkTo(n, a) \in Link /\ phase[n] = "app"
  BY UpdateSendSteps
<1>2. MessageTaken(LinkTo(n, a), FromTo(a, n)) /\ MessageGiven(n, a)
  BY <1>1 DEF LinksInv, LinkHolds
<1>3. c.lastDelivered = 0 => WasGiven(a, n)
  BY <1>1, <1>2 DEF MessageGiven, WasGiven
<1>4. ASSUME NEW s \in AckCandidates(h.ack, h.ackBits), s \in Slot PROVE s \in k.received
  <2>1. h.ack = k.newest /\ h.ackBits = GenerateAckBits(k)
    BY DEF Outgoing
  <2>2. SlotOf(s) = s
    BY <1>4, SlotOfFacts DEF Slot
  <2>3. CASE s = k.newest
    BY <1>2, <1>4, <2>3 DEF MessageTaken
  <2>4. CASE \E i \in GenerateAckBits(k) : s = SeqMinus(k.newest, i)
    BY <2>2, <2>4 DEF GenerateAckBits
  <2> QED
    BY <2>1, <2>3, <2>4 DEF AckCandidates
<1>5. \A s \in k.received : \E p \in FromTo(a, n) :
        p.seq = s /\ (0 \in p.reliable => c.lastDelivered = 0)
  BY <1>2 DEF MessageTaken
<1> QED
  BY <1>3, <1>4, <1>5, Zenon DEF HeaderTrue

LEMMA StepAcks ==
    ASSUME IInv, SessionTypeOK, SessionTypeOK', AcksTrue, LinksInv, Grows,
           [SessionNext]_sessionVars
    PROVE  AcksTrue'
<1>1. ASSUME NEW h \in data', HeaderTrue(h, FromTo(h.to, h.from), WasGiven(h.to, h.from))
      PROVE  HeaderTrue(h, FromTo(h.to, h.from)', WasGiven(h.to, h.from)')
  <2>1. h.from \in Node /\ h.to \in Node
    BY DEF SessionTypeOK, UserData
  <2>2. /\ FromTo(h.to, h.from) \subseteq FromTo(h.to, h.from)'
        /\ WasGiven(h.to, h.from) => WasGiven(h.to, h.from)'
    BY <2>1, GivenOrNot
  <2> QED
    BY <1>1, <2>2, Zenon DEF HeaderTrue
<1>2. CASE data' = data
  BY <1>1, <1>2 DEF AcksTrue
<1>3. ASSUME NEW n \in Node, NEW a \in Node, UpdateSend(n, a) PROVE AcksTrue'
  <2> DEFINE q == Outgoing(n, a)
  <2>1. data' = data \cup {q}
    BY <1>3, UpdateSendSteps
  <2>2. HeaderTrue(q, FromTo(a, n), WasGiven(a, n))
    BY <1>3, HeaderWrittenTrue
  <2>3. q.from = n /\ q.to = a
    BY DEF Outgoing
  <2> HIDE DEF q
  <2>4. HeaderTrue(q, FromTo(q.to, q.from), WasGiven(q.to, q.from))
    BY <2>2, <2>3
  <2>5. ASSUME NEW h \in data'
        PROVE  HeaderTrue(h, FromTo(h.to, h.from), WasGiven(h.to, h.from))
    BY <2>1, <2>4 DEF AcksTrue
  <2> QED
    BY <1>1, <2>5 DEF AcksTrue
<1> QED
  BY <1>2, <1>3, OnlySendingSends

LEMMA StepGrows ==
    ASSUME IInv, SessionTypeOK, [SessionNext]_sessionVars
    PROVE  Grows
<1>1. ASSUME NEW n \in Node, NEW a \in Node, UpdateSend(n, a) PROVE Grows
  BY <1>1, UpdateSendSteps DEF Grows
<1>2. ASSUME NEW n \in Node, NEW a \in Node, NEW p \in data, UserPacket(n, a, p) PROVE Grows
  <2>1. data' = data /\ given' = given
        /\ taken' = [taken EXCEPT ![n] = @ \cup NewlyTaken(n, a, p)]
    BY <1>2, UserPacketSteps
  <2> QED
    BY <2>1 DEF Grows, SessionTypeOK
<1>3. ASSUME NEW n \in Node, UpdateReceiveEnds(n) PROVE Grows
  <2> DEFINE more == {t \in taken[n] :
            t.by \in peers[n] \cap peers'[n] /\ t.seq \in InOrder(link[n][t.by].chan)}
  <2>1. data' = data /\ taken' = taken /\ given' = [given EXCEPT ![n] = @ \cup more]
    BY <1>3 DEF UpdateReceiveEnds, FrameEnds
  <2> HIDE DEF more
  <2> QED
    BY <2>1 DEF Grows, SessionTypeOK
<1>4. ASSUME NEW n \in Node, NEW a \in Node, NEW id, NEW to,
             Connect(n, a) \/ Disconnect(n, id) \/ send(n, to) \/ resendTime(n, id)
                \/ ControlPacket(n, a)
      PROVE  Grows
  BY <1>4 DEF Connect, Disconnect, send, resendTime, ControlPacket, dataVars, Grows
<1>5. CASE UNCHANGED sessionVars
  BY <1>5 DEF sessionVars, dataVars, Grows
<1> QED
  BY <1>1, <1>2, <1>3, <1>4, <1>5, Zenon DEF SessionNext

LEMMA StepLinks ==
    ASSUME IInv, IInv', SessionTypeOK, SessionInv, OneSession', OneMessage,
           [SessionNext]_sessionVars
    PROVE  LinksInv'
<1>0. [Next]_vars /\ SessionsKnown /\ PacketsInv /\ AcksTrue /\ LinksInv
  BY SessionStepIsStep DEF SessionInv
<1>1. ASSUME NEW n \in Node, NEW a \in Node, NEW id,
             Connect(n, a) \/ Disconnect(n, id)
      PROVE  LinksInv'
  <2>1. PeersUnchanged /\ UNCHANGED <<phase, dataVars>>
    BY <1>1 DEF Connect, Disconnect, connect, disconnect
  <2> QED
    BY <1>0, <2>1, CallKeepsLinks
<1>2. ASSUME NEW n \in Node, NEW a \in Node, UpdateSend(n, a) PROVE LinksInv'
  BY <1>0, <1>2, UpdateSendKeepsLinks
<1>3. ASSUME NEW n \in Node, NEW a \in Node, ControlPacket(n, a) PROVE LinksInv'
  BY <1>0, <1>3, ControlPacketKeepsLinks
<1>4. ASSUME NEW n \in Node, NEW to \in Recipients(n), send(n, to) PROVE LinksInv'
  BY <1>0, <1>4, SendKeepsLinks
<1>5. ASSUME NEW n \in Node, NEW id \in peers[n], resendTime(n, id) PROVE LinksInv'
  BY <1>0, <1>5, ResendTimeKeepsLinks
<1>6. ASSUME NEW n \in Node, NEW a \in Node, NEW p \in data, UserPacket(n, a, p)
      PROVE  LinksInv'
  BY <1>0, <1>6, UserPacketKeepsLinks
<1>7. ASSUME NEW n \in Node, UpdateReceiveEnds(n) PROVE LinksInv'
  BY <1>0, <1>7, UpdateReceiveEndsKeepsLinks
<1>8. CASE UNCHANGED sessionVars
  <2>1. PeersUnchanged /\ UNCHANGED <<phase, dataVars>>
    BY <1>8 DEF sessionVars, vars, dataVars, PeersUnchanged
  <2> QED
    BY <1>0, <2>1, CallKeepsLinks
<1> QED
  BY <1>1, <1>2, <1>3, <1>4, <1>5, <1>6, <1>7, <1>8, Zenon DEF SessionNext

\* No message is acknowledged that has not been given, and the acks about are
\* for packets that were sent, as long as there is one session and one message.
LEMMA StepSessionInv ==
    ASSUME IInv, IInv', SessionTypeOK, SessionTypeOK', SessionInv, OneSession', OneMessage,
           [SessionNext]_sessionVars
    PROVE  SessionInv'
BY StepSessionsKnown, StepPackets, StepAcks, StepGrows, StepLinks DEF SessionInv

LEMMA StartSessionInv == SessionInit => SessionInv
<1> SUFFICES ASSUME SessionInit PROVE SessionInv
  OBVIOUS
<1>1. data = {} /\ taken = [n \in Node |-> {}] /\ peers = [n \in Node |-> {}]
  BY DEF SessionInit, Init
<1>2. \A n, a \in Node : ~ Joined(n, a)
  BY <1>1 DEF Joined
<1>3. \A n, a : FromTo(n, a) = {}
  BY <1>1 DEF FromTo
<1> QED
  BY <1>1, <1>2, <1>3
     DEF SessionInv, SessionsKnown, PacketsInv, NumbersDiffer, AcksTrue, LinksInv

-----------------------------------------------------------------------------

\* What is no longer kept was the one message, and it has been given.
LEMMA SessionInvRetired ==
    ASSUME IInv, SessionTypeOK, SessionInv, OneSession, OneMessage
    PROVE  RetiredWasGiven
<1> SUFFICES ASSUME NEW n \in Node, NEW a \in Remotes(n), conns[n][a].id \in peers[n],
                    NEW s \in Retired(n, conns[n][a].id)
             PROVE  \E t \in taken[a] :
                        /\ t.from = n /\ t.session = conns[n][a].id /\ t.seq = s
                        /\ t \in given[a]
  BY DEF RetiredWasGiven
<1> DEFINE c == LinkTo(n, a).chan
<1>1. a \in Node /\ Joined(n, a)
  BY DEF Remotes, Joined
<1>2. MessageKept(LinkTo(n, a), FromTo(n, a), WasGiven(n, a))
  BY <1>1 DEF SessionInv, LinksInv, LinkHolds
<1>3. s \in 0 .. c.generator - 1 /\ s \notin {m.seq : m \in c.reliable}
  BY DEF Retired, LinkTo
<1>4. c.generator \in 0 .. MaxReliable /\ \A m \in c.reliable : m.seq = 0
  BY <1>2 DEF MessageKept
<1> HIDE DEF c
<1>5. s = 0 /\ c.generator = 1 /\ c.reliable = {}
  BY <1>3, <1>4, SessionAssumption DEF OneMessage
<1>6. PICK t \in given[a] : t.from = n /\ t.seq = 0
  BY <1>2, <1>5 DEF MessageKept, WasGiven, c
<1>7. t \in taken[a]
  BY <1>1, <1>6 DEF SessionTypeOK
<1>8. PICK p \in FromTo(n, a) : p.session = t.session
  BY <1>1, <1>6, <1>7 DEF SessionInv, PacketsInv
<1>9. t.session = conns[n][a].id
  BY <1>1, <1>8 DEF OneSession
<1> QED
  BY <1>5, <1>6, <1>7, <1>9

\* A reliable message is forgotten only when the application at the other end
\* has it, as long as the two processes have no second session and no second
\* message to send over it: neither the handshakes, nor the timeouts, nor the
\* pass over the connections between reading and delivering can break this.
THEOREM RetiredMeansGiven ==
    ASSUME OneMessage
    PROVE  SessionSpec /\ []OneSession => []RetiredWasGiven
<1>1. SessionInit => SessionInv
  BY StartSessionInv
<1>2. IInv /\ IInv' /\ SessionTypeOK /\ SessionTypeOK' /\ SessionInv /\ OneSession'
        /\ [SessionNext]_sessionVars => SessionInv'
  BY StepSessionInv
<1>3. IInv /\ SessionTypeOK /\ SessionInv /\ OneSession => RetiredWasGiven
  BY SessionInvRetired
<1>4. SessionSpec => []IInv /\ []SessionTypeOK
  BY SessionIsConnections, ConnectionsInvariance, SessionTypeCorrect, PTL
<1> QED
  BY <1>1, <1>2, <1>3, <1>4, PTL DEF SessionSpec

\* Processes that make one connection each are such processes.
LEMMA OneConnectionOneSession ==
    ASSUME IInv, SessionTypeOK, SessionsKnown, \A n \in Node : MaxConnections[n] <= 1
    PROVE  OneSession
<1> SUFFICES ASSUME NEW n \in Node, NEW a \in Node, NEW p \in FromTo(n, a)
             PROVE  /\ \A q \in FromTo(n, a) : q.session = p.session
                    /\ Joined(n, a) => conns[n][a].id = p.session
  BY DEF OneSession
<1>1. created[n] \in Nat /\ created[n] <= 1
  BY CountsAssumption DEF IInv, TypeOK
<1>2. \A i \in 1 .. created[n] : i = 1
  BY <1>1
<1>3. \A q \in FromTo(n, a) : q.session = 1
  BY <1>2 DEF SessionsKnown, FromTo
<1>4. Joined(n, a) => conns[n][a].id = 1
  BY <1>2, JoinedConnections DEF Joined
<1> QED
  BY <1>3, <1>4

\* So it holds of processes that connect once, however late, repeated or lost
\* their packets are.
THEOREM RetiredMeansGivenOnce ==
    ASSUME OneMessage, \A n \in Node : MaxConnections[n] <= 1
    PROVE  SessionSpec => []RetiredWasGiven
<1>1. SessionInit => SessionsKnown
  BY StartSessionInv DEF SessionInv
<1>2. IInv /\ IInv' /\ SessionTypeOK /\ SessionsKnown /\ [SessionNext]_sessionVars
        => SessionsKnown'
  BY StepSessionsKnown
<1>3. IInv /\ SessionTypeOK /\ SessionsKnown => OneSession
  BY OneConnectionOneSession
<1>4. SessionSpec => []IInv /\ []SessionTypeOK
  BY SessionIsConnections, ConnectionsInvariance, SessionTypeCorrect, PTL
<1>5. SessionSpec => []OneSession
  BY <1>1, <1>2, <1>3, <1>4, PTL DEF SessionSpec
<1> QED
  BY <1>5, RetiredMeansGiven, PTL

=============================================================================
