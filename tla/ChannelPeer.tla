---------------------------- MODULE ChannelPeer ----------------------------
(***************************************************************************)
(* The two channels one end keeps for a connection, class Peer, with the   *)
(* parts of ChannelManager that work on a single Peer, as operators on a   *)
(* record:                                                                 *)
(*                                                                         *)
(*   generator      m_sequenceNumGenerator                                 *)
(*   lastDelivered  m_sequenceNumberOfLastDelivered                        *)
(*   hasReliable    m_hasReliableDataToSendInTheCurrentFrame               *)
(*   reliable       m_reliableMessagesToSend, entries [seq, size, packet,  *)
(*                  due]                                                   *)
(*   unreliable     m_unreliableMessagesToSend, entries [num, size]        *)
(*   toDeliver      m_reliableMessagesToDeliver                            *)
(*   looseToDeliver the messages in m_unreliableMessagesToDeliver (how     *)
(*                  often a duplicated packet put one there is left out)   *)
(*   stored         the keys of m_messagesToStore                          *)
(*                                                                         *)
(* A reliable message is its sequence number (the composing modules send   *)
(* less than one cycle of them), an unreliable one its position among the  *)
(* unreliable messages sent.  The two lists of messages to send are sets:  *)
(* messages are appended as they are numbered, so their order is that of   *)
(* the numbers, and so is the order of the messages in a packet.  due      *)
(* stands for the test of sentTimeMs: TRUE for a message never sent or     *)
(* sent longer than the resend time ago.                                   *)
(***************************************************************************)
EXTENDS SequenceNumbers, Sequences, FiniteSetsExt

CONSTANTS
    MAX_PACKET_SIZE_BYTES,      \* 1350 in the code
    PacketHeaderSizeBytes,      \* 9
    MessageHeaderSizeBytes,     \* 5
    SizeCycle                   \* number of values of size_t, 2^64

ASSUME SizesAssumption ==
    /\ {PacketHeaderSizeBytes, MessageHeaderSizeBytes, SizeCycle} \subseteq Nat \ {0}
    /\ MAX_PACKET_SIZE_BYTES \in Nat
    /\ PacketHeaderSizeBytes + MessageHeaderSizeBytes < MAX_PACKET_SIZE_BYTES
    /\ MAX_PACKET_SIZE_BYTES < SizeCycle

MaxMessageSizeBytes ==
    MAX_PACKET_SIZE_BYTES - PacketHeaderSizeBytes - MessageHeaderSizeBytes

ReliableEntry ==
    [seq : SequenceNumber, size : 0 .. MaxMessageSizeBytes,
     packet : SequenceNumber, due : BOOLEAN]

ChannelPeerType ==
    [generator      : SequenceNumber,
     lastDelivered  : SequenceNumber,
     hasReliable    : BOOLEAN,
     reliable       : SUBSET ReliableEntry,
     unreliable     : SUBSET [num : Nat, size : 0 .. MaxMessageSizeBytes],
     toDeliver      : Seq(SequenceNumber),
     looseToDeliver : SUBSET Nat,
     stored         : SUBSET SequenceNumber]

NewChannelPeer ==
    [generator      |-> 0,
     lastDelivered  |-> MAX_SEQUENCE_NUMBER,
     hasReliable    |-> FALSE,
     reliable       |-> {},
     unreliable     |-> {},
     toDeliver      |-> <<>>,
     looseToDeliver |-> {},
     stored         |-> {}]

HasDataToSend(c) == c.unreliable # {} \/ c.hasReliable

(***************************************************************************)
(* Peer::send; larger messages are refused.  A new entry has the default   *)
(* packetSequenceNum 0.                                                    *)
(***************************************************************************)
SizeAccepted(size) == size <= MaxMessageSizeBytes

SendReliable(c, size) ==
    [c EXCEPT !.generator   = SeqIncrement(@),
              !.hasReliable = TRUE,
              !.reliable    = @ \cup {[seq    |-> c.generator,
                                       size   |-> size,
                                       packet |-> 0,
                                       due    |-> TRUE]}]

SendUnreliable(c, m, size) ==
    [c EXCEPT !.unreliable = @ \cup {[num |-> m, size |-> size]}]

(***************************************************************************)
(* ChannelManager::onWritePacket.  A packet of `used` bytes has room for a *)
(* message if it passes the test in size_t: below zero the difference      *)
(* wraps, and everything passes.  The loop over the reliable messages      *)
(* returns at the first one that does not fit, due or not, and leaves the  *)
(* flag and the unreliable messages to the next packet.                    *)
(***************************************************************************)
\* The bytes used so far are not counted.
HasRoomInEmpty(used, size) == size <= MaxMessageSizeBytes

HasRoom(used, size) == size <= (MaxMessageSizeBytes - used) % SizeCycle

\* The bytes of some messages, with their headers.
Bytes(messages) == MapThenSumSet(LAMBDA m : MessageHeaderSizeBytes + m.size, messages)

\* Message m fits behind the due messages before it.
Fits(c, m) ==
    HasRoom(PacketHeaderSizeBytes + Bytes({o \in c.reliable : o.due /\ o.seq < m.seq}), m.size)

\* The reliable messages the packet takes.
Taken(c) ==
    {m \in c.reliable : m.due /\ \A o \in c.reliable : o.seq <= m.seq => Fits(c, o)}

ReachesEnd(c) == \A m \in c.reliable : Fits(c, m)

UsedByReliable(c) == PacketHeaderSizeBytes + Bytes(Taken(c))

LooseFits(c, m) ==
    HasRoom(UsedByReliable(c) + Bytes({o \in c.unreliable : o.num < m.num}), m.size)

\* The unreliable messages that follow them.
LooseTaken(c) ==
    {m \in c.unreliable :
        ReachesEnd(c) /\ \A o \in c.unreliable : o.num <= m.num => LooseFits(c, o)}

PacketSize(c) == UsedByReliable(c) + Bytes(LooseTaken(c))

WrittenReliable(c) == {m.seq : m \in Taken(c)}

WrittenUnreliable(c) == {m.num : m \in LooseTaken(c)}

\* The taken messages are filed under the packet and are no longer due.
FiledUnder(c, packetSeq) ==
    {IF m \in Taken(c) THEN [m EXCEPT !.packet = packetSeq, !.due = FALSE] ELSE m :
        m \in c.reliable}

\* The message is filed under the packet before the one it travels in.
AfterWriteOffByOne(c, packetSeq) ==
    [c EXCEPT !.reliable    = FiledUnder(c, packetSeq - 1),
              !.hasReliable = IF ReachesEnd(c) THEN FALSE ELSE @,
              !.unreliable  = @ \ LooseTaken(c)]

\* The flag is cleared by a packet that is full, too.
AfterWriteFlagCleared(c, packetSeq) ==
    [c EXCEPT !.reliable    = FiledUnder(c, packetSeq),
              !.hasReliable = FALSE,
              !.unreliable  = @ \ LooseTaken(c)]

\* The flag is left to updateReceive.
AfterWriteFlagKept(c, packetSeq) ==
    [c EXCEPT !.reliable    = FiledUnder(c, packetSeq),
              !.unreliable  = @ \ LooseTaken(c)]

AfterWrite(c, packetSeq) ==
    [c EXCEPT !.reliable    = FiledUnder(c, packetSeq),
              !.hasReliable = IF ReachesEnd(c) THEN FALSE ELSE @,
              !.unreliable  = @ \ LooseTaken(c)]

\* The resend time has passed for the messages last written up to packetSeq.
AfterResendTime(c, packetSeq) ==
    [c EXCEPT !.reliable = {[m EXCEPT !.due = @ \/ m.packet <= packetSeq] : m \in @}]

(***************************************************************************)
(* Peer::onMessageReceived on the reliable channel.  std::map iterates in  *)
(* plain numerical order, so the run of stored numbers that follows s is   *)
(* delivered with it, and what is left is above the run.                   *)
(***************************************************************************)
LastOfRun(stored, s) ==
    CHOOSE k \in stored \cup {s} :
        /\ k >= s
        /\ s + 1 .. k \subseteq stored
        /\ k + 1 \notin stored

\* A gap does not hold a message back.
OnMessageReceivedAnyOrder(c, s) ==
    IF sequenceEqualOrGreaterThan(c.lastDelivered, s)
    THEN c
    ELSE [c EXCEPT !.lastDelivered = s, !.toDeliver = Append(@, s)]

\* The last message delivered is delivered again when it comes again.
OnMessageReceivedAgain(c, s) ==
    IF sequenceGreaterThan(c.lastDelivered, s)
    THEN c
    ELSE IF s - c.lastDelivered > 1
    THEN [c EXCEPT !.stored = @ \cup {s}]
    ELSE LET last == LastOfRun(c.stored, s)
         IN  [c EXCEPT !.lastDelivered = last,
                       !.toDeliver     = @ \o [i \in 1 .. last - s + 1 |-> s + i - 1],
                       !.stored        = {k \in @ : k > last}]

\* A message after a gap is dropped.
OnMessageReceivedDropping(c, s) ==
    IF sequenceEqualOrGreaterThan(c.lastDelivered, s) \/ s - c.lastDelivered > 1
    THEN c
    ELSE [c EXCEPT !.lastDelivered = s, !.toDeliver = Append(@, s)]

\* The stored messages are not looked at when a gap closes.
OnMessageReceivedNoFlush(c, s) ==
    IF sequenceEqualOrGreaterThan(c.lastDelivered, s)
    THEN c
    ELSE IF s - c.lastDelivered > 1
    THEN [c EXCEPT !.stored = @ \cup {s}]
    ELSE [c EXCEPT !.lastDelivered = s, !.toDeliver = Append(@, s)]

OnMessageReceived(c, s) ==
    IF sequenceEqualOrGreaterThan(c.lastDelivered, s)
    THEN c
    ELSE IF s - c.lastDelivered > 1
    THEN [c EXCEPT !.stored = @ \cup {s}]
    ELSE LET last == LastOfRun(c.stored, s)
         IN  [c EXCEPT !.lastDelivered = last,
                       !.toDeliver     = @ \o [i \in 1 .. last - s + 1 |-> s + i - 1],
                       !.stored        = {k \in @ : k > last}]

\* The reliable messages of a packet, one after the other: after[k] is what
\* becomes of c with those numbered below k.
AfterMessages(c, messages) ==
    LET after[k \in 0 .. SeqCycle] ==
            IF k = 0 THEN c
            ELSE IF k - 1 \in messages THEN OnMessageReceived(after[k - 1], k - 1)
            ELSE after[k - 1]
    IN  after[SeqCycle]

\* ChannelManager::onReadPacket.
AfterRead(c, reliable, unreliable) ==
    [AfterMessages(c, reliable) EXCEPT !.looseToDeliver = @ \cup unreliable]

(***************************************************************************)
(* ChannelManager::onPacketAcked and updateReceive.                        *)
(***************************************************************************)
\* An ack covers every earlier packet too.
AfterAcksCumulative(c, acks) ==
    [c EXCEPT !.reliable = {m \in @ : \A a \in acks : m.packet > a}]

AfterAcks(c, acks) ==
    [c EXCEPT !.reliable = {m \in @ : m.packet \notin acks}]

AfterDeliver(c) ==
    [c EXCEPT !.toDeliver = <<>>, !.looseToDeliver = {},
              !.hasReliable = c.reliable # {}]

=============================================================================
