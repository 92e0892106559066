----------------------- MODULE PacketManagerInvariant -----------------------
(***************************************************************************)
(* Why PacketManager's properties hold as long as neither end sends more   *)
(* packets than the rings have slots (with more, AckTruthful is false, see *)
(* PacketAcks_RingWrap).                                                   *)
(*                                                                         *)
(* An ack is true because the receiver marks the slot of a packet it got,  *)
(* the header names slots that were marked when it was built, and the      *)
(* sender matches them against numbers it has really put in its own ring.  *)
(* IInv says this for every place the news passes through.                 *)
(***************************************************************************)
EXTENDS PacketManager

\* 1024 slots are far less than half of the sequence numbers.
ASSUME NoWrapAssumption ==
    MaxPackets <= RingSize /\ RingSize < HALF_MAX_SEQUENCE_NUMBER

\* The sent ring: slot i holds packet i once it is sent, and until then the
\* number 0, unacknowledged.
SentRing(e) ==
    \A i \in Slot :
        IF i < peer[e].generator
        THEN peer[e].sent[i].sequence = i
        ELSE peer[e].sent[i] = [sequence |-> 0, acked |-> FALSE]

\* The received ring marks the packets got, all of which were sent.
ReceivedRing(e) ==
    /\ peer[e].received = got[e]
    /\ \A n \in got[e] : n < peer[Other(e)].generator
    /\ peer[e].newest \in got[e] \cup {MAX_SEQUENCE_NUMBER}

\* What a header names was marked by its sender, and still is.
HeaderTrue(p) ==
    /\ p.seq < peer[p.from].generator
    /\ p.ack \in got[p.from] \cup {MAX_SEQUENCE_NUMBER}
    /\ \A i \in p.ackBits : SlotOf(SeqMinus(p.ack, i)) \in got[p.from]

\* A packet is reported once, and its slot says so from then on.
ReportedAcked(e) ==
    \A n \in PacketNum : reports[e][n] > 0 =>
        /\ reports[e][n] = 1
        /\ n < peer[e].generator
        /\ peer[e].sent[n].acked

\* The inductive invariant.
IInv ==
    /\ TypeOK
    /\ \A e \in End : peer[e].generator <= MaxPackets
    /\ \A e \in End : SentRing(e)
    /\ \A e \in End : ReceivedRing(e)
    /\ \A p \in net : HeaderTrue(p)
    /\ \A e \in End : ReportedAcked(e)
    /\ AckTruthful

\* The newest packet, before and after the first one has arrived.
NewestInv ==
    \A e \in End :
        IF got[e] = {}
        THEN peer[e].newest = MAX_SEQUENCE_NUMBER
        ELSE peer[e].newest \in got[e] /\ \A n \in got[e] : n <= peer[e].newest

\* Nothing within the window is missing from a header.
HeaderComplete(p) ==
    /\ p.seen \subseteq got[p.from]
    /\ p.seen # {} => p.ack \in p.seen /\ \A n \in p.seen : n <= p.ack
    /\ \A i \in AckDistance :
        i <= p.ack /\ p.ack - i \in p.seen => i \in p.ackBits

\* A packet whose slot says ACKED has been reported.
AckedReported(e) ==
    \A n \in PacketNum :
        n < peer[e].generator /\ peer[e].sent[n].acked => reports[e][n] > 0

NewsInv ==
    /\ \A p \in net : HeaderComplete(p)
    /\ \A e \in End : AckedReported(e)

\* What PacketManagerProofs proves of every step.
Inductive == IInv /\ NewestInv /\ NewsInv

=============================================================================
