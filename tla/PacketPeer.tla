----------------------------- MODULE PacketPeer -----------------------------
(***************************************************************************)
(* The acknowledgement bookkeeping one end of a connection keeps, struct   *)
(* PacketManager::PacketPeer, as operators on a record:                    *)
(*                                                                         *)
(*   generator   m_sequenceNumberGenerator, the next packet's number       *)
(*   newest      m_receivedSequenceNumber, the ack of the next header      *)
(*   sent        m_sentPacketData, a ring of [sequence, acked]             *)
(*   received    the slots of m_receivedPacketData in state RECEIVED       *)
(*                                                                         *)
(* A slot of m_receivedPacketData goes from EMPTY to RECEIVED, never back, *)
(* and the sequence number stored there is never read, so the set of       *)
(* RECEIVED slots is all the ring says.  ackBits is the set of distances   *)
(* i in 1..AckWindow whose bit is set; module AckBits shows that the shift *)
(* loops of the two ends agree on which bit belongs to which distance.     *)
(* Not modelled: PacketData::time and m_rtt (read by getRtt only) and      *)
(* m_sentSequenceNumber, which nothing reads or writes.                    *)
(***************************************************************************)
EXTENDS SequenceNumbers

CONSTANTS
    RingSize,       \* SequencePacketBufferSize, 1024 in the code
    AckWindow       \* NumberOfAckBits, 32 in the code

ASSUME RingAssumption ==
    /\ RingSize \in Nat \ {0} /\ RingSize < SeqCycle
    /\ AckWindow \in Nat /\ AckWindow < RingSize

Slot == 0 .. RingSize - 1
AckDistance == 1 .. AckWindow

SlotOf(s) == s % RingSize

PacketPeerType ==
    [generator : SequenceNumber,
     newest    : SequenceNumber,
     sent      : [Slot -> [sequence : SequenceNumber, acked : BOOLEAN]],
     received  : SUBSET Slot]

NewPacketPeer ==
    [generator |-> 0,
     newest    |-> MAX_SEQUENCE_NUMBER,
     sent      |-> [i \in Slot |-> [sequence |-> 0, acked |-> FALSE]],
     received  |-> {}]

(***************************************************************************)
(* Sending: the number is taken, the sent ring remembers it, and the       *)
(* header carries the newest number received and the window below it.      *)
(***************************************************************************)
RecordSentPacket(p) ==
    [p EXCEPT !.generator = SeqIncrement(@),
              !.sent[SlotOf(p.generator)] =
                    [sequence |-> p.generator, acked |-> FALSE]]

\* Distances counted from 0: the newest number acknowledges itself.
GenerateAckBitsFromZero(p) ==
    {i \in 0 .. AckWindow : SlotOf(SeqMinus(p.newest, i)) \in p.received}

\* One distance short: the oldest bit of the window is never written.
ShortAckBits(p) ==
    {i \in AckDistance \ {AckWindow} : SlotOf(SeqMinus(p.newest, i)) \in p.received}

GenerateAckBits(p) ==
    {i \in AckDistance : SlotOf(SeqMinus(p.newest, i)) \in p.received}

(***************************************************************************)
(* Receiving: the number is noted, then the header's acks are matched      *)
(* against the sent ring.                                                  *)
(***************************************************************************)

\* Plain > instead of the circular comparison.
RecordReceivedPacketUnwrapped(p, s) ==
    [p EXCEPT !.newest   = IF s > @ THEN s ELSE @,
              !.received = @ \cup {SlotOf(s)}]

\* The newest number follows whatever arrives, late packets included.
RecordReceivedPacketLast(p, s) ==
    [p EXCEPT !.newest   = s,
              !.received = @ \cup {SlotOf(s)}]

RecordReceivedPacket(p, s) ==
    [p EXCEPT !.newest   = IF sequenceGreaterThan(s, @) THEN s ELSE @,
              !.received = @ \cup {SlotOf(s)}]

AckCandidates(ack, ackBits) == {ack} \cup {SeqMinus(ack, i) : i \in ackBits}

\* A slot already ACKED is reported again.
NewlyAckedAgain(p, ack, ackBits) ==
    {s \in AckCandidates(ack, ackBits) : p.sent[SlotOf(s)].sequence = s}

\* Whatever the slot holds now is taken to be the packet the bit means.
NewlyAckedUnmatched(p, ack, ackBits) ==
    {p.sent[SlotOf(s)].sequence : s \in
        {t \in AckCandidates(ack, ackBits) : ~ p.sent[SlotOf(t)].acked}}

NewlyAcked(p, ack, ackBits) ==
    {s \in AckCandidates(ack, ackBits) :
        p.sent[SlotOf(s)].sequence = s /\ ~ p.sent[SlotOf(s)].acked}

MarkAcked(p, acks) ==
    [p EXCEPT !.sent = [i \in Slot |->
        IF \E s \in acks : SlotOf(s) = i
        THEN [sequence |-> p.sent[i].sequence, acked |-> TRUE]
        ELSE p.sent[i]]]

=============================================================================
