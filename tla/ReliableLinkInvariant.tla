----------------------- MODULE ReliableLinkInvariant -----------------------
(***************************************************************************)
(* Why ReliableLink's properties hold, from the start of a connection and  *)
(* from the middle (EstablishedLink).                                      *)
(*                                                                         *)
(* The receiving half: what an end has delivered is a run of consecutive   *)
(* numbers, what it stores is what it has read beyond the run, and the     *)
(* number after the run is missing.                                        *)
(*                                                                         *)
(* The sending half: a message still kept is filed under a packet that     *)
(* carried it, and an ack that arrives names a packet the other end has    *)
(* taken, whose messages it has read.                                      *)
(***************************************************************************)
EXTENDS ReliableLink

\* n consecutive numbers from f on.
Run(f, n) == [i \in 1 .. n |-> f + i - 1]

\* How a channel c that has read some messages and given others to the
\* application relates to them, if f was the first number that arrived.
InStepFrom(f, c, given, taken) ==
    LET d    == Len(given)
        t    == Len(c.toDeliver)
        next == f + d + t
    IN  /\ given = Run(f, d)
        /\ c.toDeliver = Run(f + d, t)
        /\ taken = {} <=> d + t = 0
        /\ c.lastDelivered = IF taken = {} THEN MAX_SEQUENCE_NUMBER ELSE next - 1
        /\ f .. next - 1 \subseteq taken
        /\ next \notin taken
        /\ c.stored = {s \in taken : s > next}

\* Nothing is known of f: any first arrival passes for the next message.
InStep(c, given, taken) ==
    \E f \in 0 .. HALF_MAX_SEQUENCE_NUMBER : InStepFrom(f, c, given, taken)

\* Only what was accepted is kept, travels or is read, and no number twice.
NumbersAccepted(e) ==
    /\ peer[e].generator <= MaxPackets[e]
    /\ chan[e].generator <= MaxReliable[e]
    /\ Outstanding(e) \subseteq Accepted(e)
    /\ Written(e) \subseteq Accepted(e)
    /\ read[Other(e)] \subseteq Accepted(e)
    /\ \A m, o \in chan[e].reliable : m.seq = o.seq => m = o

\* A message that has travelled is filed under a packet that carried it.
FiledUnderCarrier(e) ==
    \A m \in chan[e].reliable : m.seq \in Written(e) =>
        \E p \in net : p.from = e /\ p.seq = m.packet /\ m.seq \in p.reliable

\* The slots of the sent ring keep their numbers.
SentRing(e) == \A i \in Slot : peer[e].sent[i].sequence \in {0, i}

\* An end has read what the packets it marks carried.
ReceivedRead(e) ==
    /\ \A n \in peer[e].received : n < peer[Other(e)].generator
    /\ peer[e].newest \in peer[e].received \cup {MAX_SEQUENCE_NUMBER}
    /\ \A p \in net : p.from = Other(e) /\ p.seq \in peer[e].received =>
            p.reliable \subseteq read[e]

\* What a header names was marked by its sender, and still is.
HeaderTrue(p) ==
    /\ p.seq < peer[p.from].generator
    /\ p.ack \in peer[p.from].received \cup {MAX_SEQUENCE_NUMBER}
    /\ \A i \in p.ackBits : SlotOf(SeqMinus(p.ack, i)) \in peer[p.from].received

NumberedOnce == \A p, q \in net : p.from = q.from /\ p.seq = q.seq => p = q

\* The inductive invariant.
LinkInv ==
    /\ TypeOK
    /\ \A e \in End : InStep(chan[e], delivered[e], read[e])
    /\ \A e \in End : NumbersAccepted(e)
    /\ \A e \in End : FiledUnderCarrier(e)
    /\ \A e \in End : SentRing(e)
    /\ \A e \in End : ReceivedRead(e)
    /\ \A p \in net : HeaderTrue(p)
    /\ NumberedOnce
    /\ RetiredAfterRead

-----------------------------------------------------------------------------
(***************************************************************************)
(* What fits a packet.                                                     *)
(***************************************************************************)

\* The messages waiting are finitely many, have sizes the application sends,
\* and the unreliable ones are numbered as they were sent.
Sized(c, sizes, sent) ==
    /\ IsFiniteSet(c.reliable) /\ IsFiniteSet(c.unreliable)
    /\ \A m \in c.reliable \cup c.unreliable : m.size \in sizes
    /\ \A m \in c.unreliable : m.num < sent
    /\ \A m, o \in c.unreliable : m.num = o.num => m = o

SizesInv == \A e \in End : Sized(chan[e], MessageSizes[e], loose[e])

\* fill contains whatever number of bytes a packet of end e can hold, as long
\* as only messages are added that leave room for the header of another: the
\* test of ChannelManager::onWritePacket assumes that many bytes can not be
\* exceeded, and does not ask (HasRoom).
Fillings(e, fill) ==
    /\ PacketHeaderSizeBytes \in fill
    /\ fill \subseteq 0 .. MaxMessageSizeBytes
    /\ \A used \in fill, size \in MessageSizes[e] :
            used + size <= MaxMessageSizeBytes =>
                used + MessageHeaderSizeBytes + size \in fill

\* No combination of the sizes end e sends fills a packet to within the header
\* of a message, where the room that is left wraps around.
NeverNearlyFull(e) ==
    \E fill \in SUBSET (0 .. MaxMessageSizeBytes) : Fillings(e, fill)

\* Every message fits a packet of its own.  A size close to the limit passes
\* the test of INSF::send and does not.
EachFitsAlone ==
    \A e \in End : \A size \in MessageSizes[e] :
        SizeAccepted(size) => PacketHeaderSizeBytes + size <= MaxMessageSizeBytes

=============================================================================
