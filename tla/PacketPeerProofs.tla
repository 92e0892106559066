--------------------------- MODULE PacketPeerProofs ---------------------------
(***************************************************************************)
(* What the comparison of sequence numbers decides, and what the           *)
(* operations of a PacketPeer do, field by field: the lemmas the proofs    *)
(* about PacketManager, ReliableLink and Session rest on.                  *)
(***************************************************************************)
EXTENDS PacketPeer, FiniteSetTheorems, TLAPS

-----------------------------------------------------------------------------
(***************************************************************************)
(* Induction and recursion up to a number.  The library's induction        *)
(* theorems can not be cited, so they are derived from the fact that       *)
(* inclusion of finite sets is well-founded.                               *)
(***************************************************************************)

\* A set of natural numbers has a least element.
LEMMA Least ==
    ASSUME NEW T \in SUBSET Nat, T # {}
    PROVE  \E x \in T : \A y \in T : x <= y
<1> DEFINE U == {0 .. n : n \in T}
<1>1. U \subseteq FiniteSubsetsOf(Nat)
  <2> SUFFICES ASSUME NEW n \in T PROVE 0 .. n \in FiniteSubsetsOf(Nat)
    OBVIOUS
  <2>1. IsFiniteSet(0 .. n)
    BY FS_Interval
  <2>2. 0 .. n \in SUBSET Nat
    OBVIOUS
  <2> QED
    BY <2>1, <2>2 DEF FiniteSubsetsOf
<1>2. U # {}
  OBVIOUS
<1>3. IsWellFoundedOn(StrictSubsetOrdering(Nat), FiniteSubsetsOf(Nat))
  BY FS_StrictSubsetOrderingWellFounded
<1>4. PICK u \in U : \A v \in U : <<v, u>> \notin StrictSubsetOrdering(Nat)
  <2> HIDE DEF U
  <2> QED
    BY <1>1, <1>2, <1>3, WFMin
<1>5. PICK x \in T : u = 0 .. x
  OBVIOUS
<1>6. ASSUME NEW y \in T, y < x PROVE FALSE
  <2>1. <<0 .. y, 0 .. x>> \in StrictSubsetOrdering(Nat)
    <3>1. 0 .. y \subseteq 0 .. x /\ x \in 0 .. x /\ x \notin 0 .. y
      BY <1>6
    <3> QED
      BY <3>1 DEF StrictSubsetOrdering
  <2> QED
    BY <2>1, <1>4, <1>5
<1> QED
  BY <1>6

\* What holds at 0 and carries over from each number to the next holds up to N.
LEMMA SetInduction ==
    ASSUME NEW N \in Nat, NEW T, 0 \in T,
           \A n \in 0 .. N - 1 : n \in T => n + 1 \in T
    PROVE  N \in T
<1> DEFINE R == (0 .. N) \ T
<1> SUFFICES ASSUME N \notin T PROVE FALSE
  OBVIOUS
<1>1. R \in SUBSET Nat /\ R # {}
  OBVIOUS
<1>2. PICK x \in R : \A y \in R : x <= y
  <2> HIDE DEF R
  <2> QED
    BY <1>1, Least
<1>3. x - 1 \in 0 .. N - 1 /\ x - 1 \notin R
  BY <1>2
<1> QED
  BY <1>3

\* f is defined by recursion up to N, from a on.
Recurs(f, N, V, a, step) ==
    /\ f \in [0 .. N -> V]
    /\ f[0] = a
    /\ \A k \in 1 .. N : f[k] = step[k][f[k - 1]]

\* Recursion up to a number defines a function.
LEMMA Recursion ==
    ASSUME NEW N \in Nat, NEW V, NEW a \in V, NEW step \in [1 .. N -> [V -> V]]
    PROVE  \E f : Recurs(f, N, V, a, step)
<1> DEFINE Rec(n, f) == /\ f \in [0 .. n -> V]
                        /\ f[0] = a
                        /\ \A k \in 1 .. n : f[k] = step[k][f[k - 1]]
           T == {n \in 0 .. N : \E f : Rec(n, f)}
<1>1. 0 \in T
  <2>1. Rec(0, [k \in 0 .. 0 |-> a])
    OBVIOUS
  <2> HIDE DEF Rec
  <2> QED
    BY <2>1
<1>2. ASSUME NEW n \in 0 .. N - 1, n \in T PROVE n + 1 \in T
  <2>1. PICK f : Rec(n, f)
    BY <1>2
  <2> DEFINE x == step[n + 1][f[n]]
             g == [k \in 0 .. n + 1 |-> IF k = n + 1 THEN x ELSE f[k]]
  <2>2. x \in V
    <3>1. f[n] \in V /\ step[n + 1] \in [V -> V]
      BY <2>1
    <3> QED
      BY <3>1
  <2> HIDE DEF x
  <2>3. g \in [0 .. n + 1 -> V] /\ g[n + 1] = x /\ \A k \in 0 .. n : g[k] = f[k]
    BY <2>1, <2>2
  <2> HIDE DEF g
  <2>4. \A k \in 1 .. n + 1 : g[k] = step[k][g[k - 1]]
    <3> TAKE k \in 1 .. n + 1
    <3>1. CASE k = n + 1
      BY <3>1, <2>3 DEF x
    <3>2. CASE k \in 1 .. n
      BY <3>2, <2>1, <2>3
    <3> QED
      BY <3>1, <3>2
  <2>5. Rec(n + 1, g)
    BY <2>1, <2>3, <2>4
  <2> HIDE DEF Rec
  <2> QED
    BY <2>5
<1>3. N \in T
  <2> HIDE DEF T
  <2> QED
    BY <1>1, <1>2, SetInduction
<1>4. PICK f : Rec(N, f)
  BY <1>3
<1> QED
  BY <1>4 DEF Recurs

-----------------------------------------------------------------------------
(***************************************************************************)
(* The circular comparison, for every cycle length: a number is greater    *)
(* than exactly those less than half a cycle behind it, and at exactly     *)
(* half a cycle the plain order decides.                                   *)
(***************************************************************************)

\* The number k places after s.
Ahead(s, k) == IF s + k < SeqCycle THEN s + k ELSE s + k - SeqCycle

\* ceil(MAX / 2.f) is half of the even cycle.
LEMMA HalfIsHalf ==
    /\ HALF_MAX_SEQUENCE_NUMBER \in Nat
    /\ 2 * HALF_MAX_SEQUENCE_NUMBER = SeqCycle
BY SeqCycleAssumption DEF HALF_MAX_SEQUENCE_NUMBER

\* Of two different numbers exactly one is greater; none is greater than
\* itself.  (The comparison is no order: it is not transitive.)
THEOREM ComparisonDecides ==
    \A s, t \in SequenceNumber :
        s = t <=> ~ sequenceGreaterThan(s, t) /\ ~ sequenceGreaterThan(t, s)
<1> HALF_MAX_SEQUENCE_NUMBER \in Nat /\ 2 * HALF_MAX_SEQUENCE_NUMBER = SeqCycle
  BY HalfIsHalf
<1> QED
  BY SeqCycleAssumption DEF SequenceNumber, sequenceGreaterThan

\* Two numbers are never greater than each other.
THEOREM ComparisonAsymmetric ==
    \A s, t \in SequenceNumber :
        ~ (sequenceGreaterThan(s, t) /\ sequenceGreaterThan(t, s))
<1> HALF_MAX_SEQUENCE_NUMBER \in Nat /\ 2 * HALF_MAX_SEQUENCE_NUMBER = SeqCycle
  BY HalfIsHalf
<1> QED
  BY SeqCycleAssumption DEF SequenceNumber, sequenceGreaterThan

\* Across the wrap too, the numbers sent within half a cycle after s are
\* greater than s, and s is not greater than any of them.
THEOREM AheadIsGreater ==
    \A s \in SequenceNumber, k \in 1 .. HALF_MAX_SEQUENCE_NUMBER - 1 :
        /\ Ahead(s, k) \in SequenceNumber
        /\ sequenceGreaterThan(Ahead(s, k), s)
        /\ ~ sequenceGreaterThan(s, Ahead(s, k))
<1> HALF_MAX_SEQUENCE_NUMBER \in Nat /\ 2 * HALF_MAX_SEQUENCE_NUMBER = SeqCycle
  BY HalfIsHalf
<1> QED
  BY SeqCycleAssumption DEF SequenceNumber, sequenceGreaterThan, Ahead

-----------------------------------------------------------------------------
(***************************************************************************)
(* Slots and sequence numbers.                                             *)
(***************************************************************************)

\* Every number has a slot, and a number below RingSize is its own slot.
LEMMA SlotOfFacts ==
    ASSUME NEW s \in Nat
    PROVE  /\ SlotOf(s) \in Slot
           /\ s \in Slot => SlotOf(s) = s
BY RingAssumption DEF SlotOf, Slot

\* The distances of the ack window stay among the sequence numbers.
LEMMA SeqMinusType ==
    ASSUME NEW s \in SequenceNumber, NEW i \in AckDistance
    PROVE  SeqMinus(s, i) \in SequenceNumber
BY SeqCycleAssumption, RingAssumption DEF SequenceNumber, AckDistance, SeqMinus

\* An increment stays in the cycle of numbers.
LEMMA SeqIncrementType ==
    ASSUME NEW s \in SequenceNumber
    PROVE  SeqIncrement(s) \in SequenceNumber
BY SeqCycleAssumption DEF SequenceNumber, SeqIncrement, MAX_SEQUENCE_NUMBER

(***************************************************************************)
(* The operations of a PacketPeer, field by field.                         *)
(***************************************************************************)
LEMMA NewPacketPeerFacts == NewPacketPeer \in PacketPeerType
BY SeqCycleAssumption, RingAssumption
   DEF NewPacketPeer, PacketPeerType, SequenceNumber, MAX_SEQUENCE_NUMBER

\* Sending takes the next number and the one slot that belongs to it.
LEMMA RecordSentPacketFacts ==
    ASSUME NEW p \in PacketPeerType
    PROVE  LET q == RecordSentPacket(p)
           IN  /\ q \in PacketPeerType
               /\ q.generator = SeqIncrement(p.generator)
               /\ q.newest = p.newest
               /\ q.received = p.received
               /\ \A i \in Slot : q.sent[i] =
                    IF i = SlotOf(p.generator)
                    THEN [sequence |-> p.generator, acked |-> FALSE]
                    ELSE p.sent[i]
<1>1. SeqIncrement(p.generator) \in SequenceNumber
  BY SeqIncrementType DEF PacketPeerType
<1>2. SlotOf(p.generator) \in Slot
  BY SlotOfFacts, SeqCycleAssumption DEF PacketPeerType, SequenceNumber
<1> QED
  BY <1>1, <1>2 DEF RecordSentPacket, PacketPeerType

\* Receiving marks one slot and moves newest to the packet or not at all.
LEMMA RecordReceivedPacketFacts ==
    ASSUME NEW p \in PacketPeerType, NEW s \in SequenceNumber
    PROVE  LET q == RecordReceivedPacket(p, s)
           IN  /\ q \in PacketPeerType
               /\ q.generator = p.generator
               /\ q.newest \in {p.newest, s}
               /\ q.received = p.received \cup {SlotOf(s)}
               /\ q.sent = p.sent
<1>1. SlotOf(s) \in Slot
  BY SlotOfFacts, SeqCycleAssumption DEF SequenceNumber
<1> QED
  BY <1>1 DEF RecordReceivedPacket, PacketPeerType

\* Acknowledging changes no number, and no other slot.
LEMMA MarkAckedFacts ==
    ASSUME NEW p \in PacketPeerType, NEW acks
    PROVE  LET q == MarkAcked(p, acks)
           IN  /\ q \in PacketPeerType
               /\ q.generator = p.generator
               /\ q.newest = p.newest
               /\ q.received = p.received
               /\ \A i \in Slot : q.sent[i] =
                    IF \E s \in acks : SlotOf(s) = i
                    THEN [sequence |-> p.sent[i].sequence, acked |-> TRUE]
                    ELSE p.sent[i]
BY DEF MarkAcked, PacketPeerType

\* As long as each slot of the sent ring holds its own number, or 0 from the
\* start, a number newly acknowledged is its own slot, is what the slot holds,
\* and is named by the header.
LEMMA NewlyAckedFacts ==
    ASSUME NEW p \in PacketPeerType, NEW ack \in SequenceNumber,
           NEW ackBits \in SUBSET AckDistance,
           \A i \in Slot : p.sent[i].sequence \in {0, i},
           NEW s \in NewlyAcked(p, ack, ackBits)
    PROVE  /\ s \in Slot /\ SlotOf(s) = s
           /\ s # MAX_SEQUENCE_NUMBER
           /\ p.sent[s].sequence = s /\ ~ p.sent[s].acked
           /\ s = ack \/ \E i \in ackBits : s = SeqMinus(ack, i)
<1>1. /\ s = ack \/ \E i \in ackBits : s = SeqMinus(ack, i)
      /\ p.sent[SlotOf(s)].sequence = s /\ ~ p.sent[SlotOf(s)].acked
  BY DEF NewlyAcked, AckCandidates
<1>2. s \in SequenceNumber
  BY <1>1, SeqMinusType
<1>3. /\ SlotOf(s) \in Slot
      /\ s \in Slot => SlotOf(s) = s
  BY <1>2, SlotOfFacts, SeqCycleAssumption DEF SequenceNumber
<1>4. s \in Slot
  BY <1>1, <1>3, RingAssumption DEF Slot
<1>5. s # MAX_SEQUENCE_NUMBER
  BY <1>4, RingAssumption, SeqCycleAssumption DEF Slot, MAX_SEQUENCE_NUMBER
<1> QED
  BY <1>1, <1>3, <1>4, <1>5

=============================================================================
