-------------------------- MODULE ReliableLinkProofs --------------------------
(***************************************************************************)
(* Proofs that ReliableLinkInvariant's LinkInv is an invariant of          *)
(* ReliableLink, and of what follows from it, for all constants that       *)
(* satisfy the named assumptions.                                          *)
(***************************************************************************)
EXTENDS ReliableLinkInvariant, PacketPeerProofs, ChannelPeerProofs, TLAPS

-----------------------------------------------------------------------------
(***************************************************************************)
(* Runs of consecutive numbers, and the receiving half.                    *)
(***************************************************************************)
LEMMA RunFacts ==
    ASSUME NEW f \in Nat, NEW n \in Nat
    PROVE  /\ Run(f, n) \in Seq(Nat)
           /\ Len(Run(f, n)) = n
           /\ \A i \in 1 .. n : Run(f, n)[i] = f + i - 1
<1>1. Run(f, n) \in [1 .. n -> Nat]
  BY DEF Run
<1> QED
  BY <1>1, SeqDef DEF Run

\* Two runs of numbers, one after the other.
LEMMA RunConcat ==
    ASSUME NEW f \in Nat, NEW m \in Nat, NEW n \in Nat
    PROVE  Run(f, m) \o Run(f + m, n) = Run(f, m + n)
<1> DEFINE a == Run(f, m)
           b == Run(f + m, n)
           r == Run(f, m + n)
<1>0. f + m \in Nat /\ m + n \in Nat
  OBVIOUS
<1>1. /\ a \in Seq(Nat) /\ Len(a) = m
      /\ b \in Seq(Nat) /\ Len(b) = n
      /\ r \in Seq(Nat) /\ Len(r) = m + n
      /\ \A i \in 1 .. m : a[i] = f + i - 1
      /\ \A i \in 1 .. n : b[i] = f + m + i - 1
      /\ \A i \in 1 .. m + n : r[i] = f + i - 1
  BY <1>0, RunFacts
<1> HIDE DEF a, b, r
<1>2. /\ a \o b \in Seq(Nat)
      /\ Len(a \o b) = m + n
      /\ \A i \in 1 .. m + n : (a \o b)[i] = IF i <= m THEN a[i] ELSE b[i - m]
  BY <1>1, ConcatProperties, ZenonT(60)
<1>3. ASSUME NEW i \in 1 .. m + n PROVE (a \o b)[i] = r[i]
  <2>1. CASE i <= m
    BY <2>1, <1>1, <1>2
  <2>2. CASE i > m
    <3>1. i - m \in 1 .. n /\ ~ i <= m
      BY <2>2
    <3>2. (a \o b)[i] = b[i - m]
      BY <3>1, <1>2, Zenon
    <3>3. b[i - m] = f + m + (i - m) - 1
      BY <3>1, <1>1, Zenon
    <3>4. f + m + (i - m) - 1 = f + i - 1
      OBVIOUS
    <3>5. r[i] = f + i - 1
      BY <1>1, Zenon
    <3> QED
      BY <3>2, <3>3, <3>4, <3>5, Zenon
  <2>3. i <= m \/ i > m
    OBVIOUS
  <2> HIDE DEF a, b, r
  <2> QED
    BY <2>1, <2>2, <2>3, Zenon
<1>4. a \o b = r
  BY <1>1, <1>2, <1>3, SeqEqual
<1> QED
  BY <1>4 DEF a, b, r

\* The numbers this module's channels use: none is half a cycle from another,
\* and each counts as newer than the last number of the cycle.
FirstHalf == 0 .. HALF_MAX_SEQUENCE_NUMBER - 2

\* In the first half of the cycle, numbers compare as they count.
LEMMA FirstHalfFacts ==
    /\ FirstHalf \subseteq SequenceNumber
    /\ \A s, t \in FirstHalf : sequenceEqualOrGreaterThan(s, t) <=> s >= t
    /\ \A s \in FirstHalf : ~ sequenceEqualOrGreaterThan(MAX_SEQUENCE_NUMBER, s)
<1> HALF_MAX_SEQUENCE_NUMBER \in Nat /\ 2 * HALF_MAX_SEQUENCE_NUMBER = SeqCycle
  BY HalfIsHalf
<1> QED
  BY SeqCycleAssumption
     DEF FirstHalf, SequenceNumber, sequenceEqualOrGreaterThan, sequenceGreaterThan,
         MAX_SEQUENCE_NUMBER

\* Handing one reliable message to a channel keeps it in step with what it
\* has read: the message is old, waits for a gap to close, or closes it.
LEMMA MessageInStep ==
    ASSUME NEW c \in ChannelPeerType, NEW given \in Seq(SequenceNumber),
           NEW taken \in SUBSET FirstHalf, NEW s \in FirstHalf,
           InStep(c, given, taken)
    PROVE  InStep(OnMessageReceived(c, s), given, taken \cup {s})
<1> DEFINE d == Len(given)
           t == Len(c.toDeliver)
           o == OnMessageReceived(c, s)
           all == taken \cup {s}
<1>0. PICK f \in 0 .. HALF_MAX_SEQUENCE_NUMBER : InStepFrom(f, c, given, taken)
  BY DEF InStep
<1> DEFINE next == f + d + t
<1>1. /\ given = Run(f, d)
      /\ c.toDeliver = Run(f + d, t)
      /\ taken = {} <=> d + t = 0
      /\ c.lastDelivered = IF taken = {} THEN MAX_SEQUENCE_NUMBER ELSE next - 1
      /\ f .. next - 1 \subseteq taken
      /\ next \notin taken
      /\ c.stored = {k \in taken : k > next}
  BY <1>0 DEF InStepFrom
<1>2. /\ HALF_MAX_SEQUENCE_NUMBER \in Nat /\ 2 * HALF_MAX_SEQUENCE_NUMBER = SeqCycle
      /\ c.toDeliver \in Seq(SequenceNumber)
      /\ d \in Nat /\ t \in Nat /\ f \in Nat /\ s \in Nat
      /\ taken \subseteq Nat
      /\ c.stored \in SUBSET SequenceNumber
      /\ s \in SequenceNumber
  BY HalfIsHalf, LenProperties, FirstHalfFacts
     DEF ChannelPeerType, FirstHalf, SequenceNumber
\* The number f, the length of the run to deliver and where the run ends are
\* all there is to show.
<1>3. ASSUME NEW g \in 0 .. HALF_MAX_SEQUENCE_NUMBER, NEW n \in Nat,
             given = Run(g, d), o.toDeliver = Run(g + d, n),
             d + n # 0,
             o.lastDelivered = g + d + n - 1,
             g .. g + d + n - 1 \subseteq all,
             g + d + n \notin all,
             o.stored = {k \in all : k > g + d + n}
      PROVE  InStep(o, given, all)
  <2>1. Len(o.toDeliver) = n
    <3>1. g + d \in Nat
      BY <1>2
    <3>2. Len(Run(g + d, n)) = n
      BY <3>1, RunFacts
    <3> QED
      BY <3>2, <1>3, Zenon
  <2>2. all # {}
    OBVIOUS
  <2>3. InStepFrom(g, o, given, all)
    BY <1>3, <2>1, <2>2, SMTT(40) DEF InStepFrom
  <2> QED
    BY <2>3 DEF InStep
<1>11. d \in Nat /\ t \in Nat /\ f \in Nat /\ s \in Nat
  BY <1>2
<1> HIDE DEF d, t
<1>10. ASSUME taken # {}
       PROVE  /\ d + t # 0
              /\ c.lastDelivered = next - 1
              /\ next - 1 \in taken
  <2>1. d + t # 0
    BY <1>1, <1>10
  <2>2. next - 1 \in f .. next - 1
    BY <2>1, <1>2
  <2>3. next - 1 \in taken
    BY <2>2, <1>1
  <2> QED
    BY <1>1, <1>10, <2>1, <2>3
<1>4. CASE taken = {}
  <2>1. d = 0 /\ t = 0 /\ c.stored = {} /\ c.lastDelivered = MAX_SEQUENCE_NUMBER
    BY <1>1, <1>2, <1>4
  <2>2. given = Run(s, 0) /\ c.toDeliver = <<>>
    BY <2>1, <1>1, <1>2, RunFacts DEF Run
  <2>3. ~ sequenceEqualOrGreaterThan(c.lastDelivered, s) /\ ~ (s - c.lastDelivered > 1)
    BY <2>1, <1>2, FirstHalfFacts, SeqCycleAssumption
       DEF FirstHalf, MAX_SEQUENCE_NUMBER
  <2>4. LastOfRun(c.stored, s) = s
    BY <2>1, <1>2, LastOfRunFacts
  <2>5. <<>> \o [i \in 1 .. s - s + 1 |-> s + i - 1] = Run(s, 1)
    <3>1. [i \in 1 .. s - s + 1 |-> s + i - 1] = Run(s, 1)
      BY <1>2 DEF Run
    <3>2. Run(s, 1) \in Seq(Nat)
      BY <1>2, RunFacts
    <3> QED
      BY <3>1, <3>2, ConcatEmptySeq
  <2>6. /\ o.lastDelivered = s
        /\ o.toDeliver = Run(s, 1)
        /\ o.stored = {}
    BY <2>1, <2>2, <2>3, <2>4, <2>5 DEF OnMessageReceived, ChannelPeerType
  <2>7. /\ given = Run(s, d) /\ o.toDeliver = Run(s + d, 1)
        /\ d + 1 # 0
        /\ o.lastDelivered = s + d + 1 - 1
        /\ s .. s + d + 1 - 1 \subseteq all
        /\ s + d + 1 \notin all
    BY <2>1, <2>2, <2>6, <1>2, <1>4
  <2>8. o.stored = {k \in all : k > s + d + 1}
    BY <2>1, <2>6, <1>2, <1>4
  <2>9. s \in 0 .. HALF_MAX_SEQUENCE_NUMBER /\ 1 \in Nat
    BY <1>2 DEF FirstHalf
  <2> QED
    BY <2>7, <2>8, <2>9, <1>3
<1>5. CASE taken # {} /\ s < next
  <2>1. next - 1 \in taken /\ c.lastDelivered = next - 1 /\ d + t # 0
    BY <1>5, <1>10
  <2>2. sequenceEqualOrGreaterThan(c.lastDelivered, s)
    BY <2>1, <1>2, <1>5, FirstHalfFacts
  <2>3. o = c
    BY <2>2 DEF OnMessageReceived
  <2>4. /\ f .. next - 1 \subseteq all
        /\ next \notin all
        /\ c.stored = {k \in all : k > next}
    BY <1>1, <1>2, <1>5
  <2>5. given = Run(f, d) /\ o.toDeliver = Run(f + d, t) /\ o.lastDelivered = f + d + t - 1
    BY <2>1, <2>3, <1>1, <1>2
  <2>6. InStep(o, given, all)
    <3> HIDE DEF o, all
    <3> QED
      BY <2>1, <2>3, <2>4, <2>5, <1>11, <1>3
  <2> QED
    BY <2>6
<1>6. CASE taken # {} /\ s > next
  <2>1. next - 1 \in taken /\ c.lastDelivered = next - 1 /\ d + t # 0
    BY <1>6, <1>10
  <2>2. ~ sequenceEqualOrGreaterThan(c.lastDelivered, s) /\ s - c.lastDelivered > 1
    BY <2>1, <1>2, <1>6, FirstHalfFacts DEF FirstHalf
  <2>3. /\ o.lastDelivered = c.lastDelivered
        /\ o.toDeliver = c.toDeliver
        /\ o.stored = c.stored \cup {s}
    BY <2>2 DEF OnMessageReceived, ChannelPeerType
  <2>4. /\ f .. next - 1 \subseteq all
        /\ next \notin all
    BY <1>1, <1>2, <1>6
  <2>5. o.stored = {k \in all : k > next}
    <3>1. {k \in all : k > next} = {k \in taken : k > next} \cup {s}
      BY <1>2, <1>6
    <3> QED
      BY <2>3, <1>1, <3>1, Zenon
  <2>6. given = Run(f, d) /\ o.toDeliver = Run(f + d, t) /\ o.lastDelivered = f + d + t - 1
    BY <2>1, <2>3, <1>1, <1>2
  <2>7. InStep(o, given, all)
    <3> HIDE DEF o, all
    <3> QED
      BY <2>1, <2>4, <2>5, <2>6, <1>11, <1>3
  <2> QED
    BY <2>7
<1>7. CASE taken # {} /\ s = next
  <2> DEFINE last == LastOfRun(c.stored, s)
             n    == last - s + 1
  <2>1. next - 1 \in taken /\ c.lastDelivered = next - 1
    BY <1>7, <1>10
  <2>2. ~ sequenceEqualOrGreaterThan(c.lastDelivered, s) /\ ~ (s - c.lastDelivered > 1)
    BY <2>1, <1>2, <1>7, FirstHalfFacts, SMTT(40) DEF FirstHalf
  <2>3. /\ last \in c.stored \cup {s}
        /\ last >= s
        /\ s + 1 .. last \subseteq c.stored
        /\ last + 1 \notin c.stored
    BY <1>2, LastOfRunFacts
  <2> HIDE DEF last
  <2>4. /\ last \in Nat /\ last >= s
        /\ n \in Nat /\ t + n \in Nat /\ d + (t + n) # 0
        /\ f + d + (t + n) = last + 1
    <3>1. c.stored \subseteq Nat
      BY <1>2, SeqCycleAssumption DEF SequenceNumber
    <3>2. last \in Nat /\ last >= s
      BY <2>3, <3>1, <1>2
    <3> QED
      BY <3>2, <1>7, <1>11
  <2>5. c.toDeliver \o Run(s, n) = Run(f + d, t + n)
    <3>1. s = (f + d) + t /\ f + d \in Nat
      BY <1>2, <1>7
    <3>2. Run(f + d, t) \o Run((f + d) + t, n) = Run(f + d, t + n)
      <4>1. f + d \in Nat /\ t \in Nat /\ n \in Nat
        BY <3>1, <2>4, <1>11
      <4> HIDE DEF next, n
      <4> QED
        BY <4>1, RunConcat
    <3> QED
      BY <3>1, <3>2, <1>1
  <2>6. /\ o.lastDelivered = last
        /\ o.toDeliver = Run(f + d, t + n)
        /\ o.stored = {k \in c.stored : k > last}
    <3>1. Run(s, n) = [i \in 1 .. last - s + 1 |-> s + i - 1]
      BY DEF Run
    <3>2. o = [c EXCEPT !.lastDelivered = last,
                        !.toDeliver     = @ \o Run(s, n),
                        !.stored        = {k \in @ : k > last}]
      BY <2>2, <3>1 DEF OnMessageReceived, last
    <3> HIDE DEF n
    <3> QED
      BY <3>2, <2>5 DEF ChannelPeerType
  <2>7. o.lastDelivered = f + d + (t + n) - 1
    <3>1. last = f + d + (t + n) - 1
      BY <2>4, <1>11
    <3> QED
      BY <3>1, <2>6
  <2>8. last + 1 \notin all
    <3>1. last + 1 > next /\ last + 1 # s
      BY <2>4, <1>11, <1>7
    <3> QED
      BY <3>1, <2>3, <1>1
  <2>9. f .. last \subseteq all
    <3> SUFFICES ASSUME NEW k \in f .. last PROVE k \in all
      OBVIOUS
    <3>1. k \in f .. next - 1 \/ k = s \/ k \in s + 1 .. last
      BY <2>4, <1>11, <1>7
    <3> QED
      BY <3>1, <2>3, <1>1
  <2>10. o.stored = {k \in all : k > last + 1}
    <3>1. \A k : k \in c.stored /\ k > last <=> k \in all /\ k > last + 1
      <4> SUFFICES ASSUME NEW k \in Nat
                   PROVE  k \in c.stored /\ k > last <=> k \in all /\ k > last + 1
        BY <1>1, <1>2
      <4>1. k \in c.stored /\ k > last => k > last + 1
        BY <2>3, <2>4
      <4>2. k > last => k # s /\ k > next
        BY <2>4, <1>2, <1>7
      <4>3. k \in c.stored <=> k \in taken /\ k > next
        BY <1>1
      <4> QED
        BY <4>1, <4>2, <4>3, <2>4
    <3> QED
      BY <3>1, <2>6
  <2>11. f .. f + d + (t + n) - 1 \subseteq all
    <3>1. f + d + (t + n) - 1 = last
      BY <2>4, <1>11
    <3> QED
      BY <3>1, <2>9
  <2> HIDE DEF n
  <2> QED
    BY <2>4, <2>6, <2>7, <2>8, <2>10, <2>11, <1>1, <1>3
<1>8. s < next \/ s > next \/ s = next
  BY <1>2
<1> QED
  BY <1>4, <1>5, <1>6, <1>7, <1>8

\* A packet's messages keep the channel in step.
LEMMA MessagesInStep ==
    ASSUME NEW c \in ChannelPeerType, NEW given \in Seq(SequenceNumber),
           NEW taken \in SUBSET FirstHalf, NEW messages \in SUBSET FirstHalf,
           InStep(c, given, taken)
    PROVE  InStep(AfterMessages(c, messages), given, taken \cup messages)
<1>1. PICK after :
        /\ after[0] = c
        /\ \A k \in 0 .. SeqCycle - 1 : after[k + 1] =
                IF k \in messages THEN OnMessageReceived(after[k], k) ELSE after[k]
        /\ AfterMessages(c, messages) = after[SeqCycle]
  BY AfterMessagesSteps
<1> DEFINE upTo(k) == taken \cup {s \in messages : s < k}
           T == {k \in 0 .. SeqCycle :
                    /\ after[k] \in ChannelPeerType
                    /\ InStep(after[k], given, upTo(k))}
<1>2. messages \subseteq SequenceNumber /\ messages \subseteq Nat
  BY FirstHalfFacts, SeqCycleAssumption DEF SequenceNumber
<1>3. 0 \in T
  <2>1. \A s \in messages : ~ (s < 0)
    BY <1>2
  <2>2. upTo(0) = taken
    BY <2>1
  <2> HIDE DEF upTo
  <2> QED
    BY <2>2, <1>1, SeqCycleAssumption
<1>4. ASSUME NEW k \in 0 .. SeqCycle - 1, k \in T PROVE k + 1 \in T
  <2>1. CASE k \in messages
    <3>1. upTo(k + 1) = upTo(k) \cup {k}
      <4>1. \A s \in messages : s < k + 1 <=> s < k \/ s = k
        BY <1>2
      <4> QED
        BY <4>1, <2>1
    <3>2. upTo(k) \in SUBSET FirstHalf /\ k \in FirstHalf /\ k \in SequenceNumber
      BY <2>1, <1>2
    <3>3. after[k + 1] = OnMessageReceived(after[k], k)
      BY <2>1, <1>1
    <3> HIDE DEF upTo
    <3>4. InStep(after[k + 1], given, upTo(k + 1))
      BY <3>1, <3>2, <3>3, <1>4, MessageInStep
    <3>5. after[k + 1] \in ChannelPeerType
      BY <3>2, <3>3, <1>4, OnMessageReceivedFacts
    <3> QED
      BY <3>4, <3>5, SeqCycleAssumption
  <2>2. CASE k \notin messages
    <3>1. upTo(k + 1) = upTo(k)
      <4>1. \A s \in messages : s < k + 1 <=> s < k
        BY <2>2, <1>2
      <4> QED
        BY <4>1
    <3>2. after[k + 1] = after[k]
      BY <2>2, <1>1
    <3> HIDE DEF upTo
    <3> QED
      BY <3>1, <3>2, <1>4, SeqCycleAssumption
  <2> QED
    BY <2>1, <2>2
<1>5. SeqCycle \in T
  <2> HIDE DEF T
  <2> QED
    BY <1>3, <1>4, SetInduction, SeqCycleAssumption
<1>6. upTo(SeqCycle) = taken \cup messages
  <2>1. \A s \in messages : s < SeqCycle
    BY <1>2, SeqCycleAssumption DEF SequenceNumber
  <2> QED
    BY <2>1
<1> HIDE DEF upTo
<1> QED
  BY <1>1, <1>5, <1>6

\* Handing over what has gathered empties the list of messages to deliver.
LEMMA HandOverInStep ==
    ASSUME NEW c \in ChannelPeerType, NEW given \in Seq(SequenceNumber), NEW taken,
           InStep(c, given, taken)
    PROVE  /\ given \o c.toDeliver \in Seq(SequenceNumber)
           /\ InStep(AfterDeliver(c), given \o c.toDeliver, taken)
<1> DEFINE d == Len(given)
           t == Len(c.toDeliver)
           o == AfterDeliver(c)
           g == given \o c.toDeliver
<1>1. PICK f \in 0 .. HALF_MAX_SEQUENCE_NUMBER : InStepFrom(f, c, given, taken)
  BY DEF InStep
<1> DEFINE next == f + d + t
<1>2. /\ c.toDeliver \in Seq(SequenceNumber)
      /\ d \in Nat /\ t \in Nat /\ f \in Nat
  BY LenProperties, HalfIsHalf DEF ChannelPeerType
<1>3. /\ given = Run(f, d)
      /\ c.toDeliver = Run(f + d, t)
      /\ taken = {} <=> d + t = 0
      /\ c.lastDelivered = IF taken = {} THEN MAX_SEQUENCE_NUMBER ELSE next - 1
      /\ f .. next - 1 \subseteq taken
      /\ next \notin taken
      /\ c.stored = {s \in taken : s > next}
  BY <1>1 DEF InStepFrom
<1>4. /\ o.toDeliver = <<>>
      /\ o.lastDelivered = c.lastDelivered
      /\ o.stored = c.stored
  BY AfterDeliverFacts
<1>5. g \in Seq(SequenceNumber)
  BY <1>2, ConcatProperties
<1> HIDE DEF d, t
<1>6. g = Run(f, d + t) /\ d + t \in Nat
  <2>1. Run(f, d) \o Run(f + d, t) = Run(f, d + t)
    BY <1>2, RunConcat
  <2> QED
    BY <2>1, <1>2, <1>3
<1>7. Len(g) = d + t
  BY <1>2, <1>6, RunFacts
<1>8. Len(o.toDeliver) = 0 /\ o.toDeliver = Run(f + (d + t), 0)
  BY <1>4 DEF Run
<1>9. f + (d + t) + 0 = next /\ (d + t) + 0 = d + t
  BY <1>2
<1> HIDE DEF g, o, next
<1>10. InStepFrom(f, o, g, taken)
  BY <1>3, <1>4, <1>6, <1>7, <1>8, <1>9 DEF InStepFrom
<1> QED
  BY <1>5, <1>10 DEF InStep, g, o

\* InStep is about the receiving side of a channel only.
LEMMA InStepFrame ==
    ASSUME NEW c, NEW d, NEW given, NEW taken,
           ReceivingSide(d) = ReceivingSide(c), InStep(c, given, taken)
    PROVE  InStep(d, given, taken)
BY DEF ReceivingSide, InStep, InStepFrom

-----------------------------------------------------------------------------
(***************************************************************************)
(* LinkInv at the start.                                                   *)
(***************************************************************************)
LEMMA EndFacts ==
    ASSUME NEW e \in End
    PROVE  /\ Other(e) \in End /\ Other(e) # e /\ Other(Other(e)) = e
           /\ \A f \in End : f = e \/ f = Other(e)
BY DEF End, Other

\* A channel nothing has been read from is in step, whatever its sending half.
LEMMA FreshInStep ==
    ASSUME NEW c, c.toDeliver = <<>>, c.lastDelivered = MAX_SEQUENCE_NUMBER, c.stored = {}
    PROVE  InStep(c, <<>>, {})
<1>1. Run(0, 0) = <<>> /\ Len(<<>>) = 0
  BY DEF Run
<1>2. InStepFrom(0, c, <<>>, {})
  BY <1>1 DEF InStepFrom
<1>3. 0 \in 0 .. HALF_MAX_SEQUENCE_NUMBER
  BY HalfIsHalf
<1> QED
  BY <1>2, <1>3 DEF InStep

\* No message has been sent, none is kept, and no packet is on its way.
THEOREM InitLinkInv == Init => LinkInv
<1> SUFFICES ASSUME Init PROVE LinkInv
  OBVIOUS
<1> USE DEF Init
<1>1. \A e \in End :
        /\ peer[e] = NewPacketPeer /\ peer[e] \in PacketPeerType
        /\ chan[e] = NewChannelPeer /\ chan[e] \in ChannelPeerType
        /\ read[e] = {} /\ delivered[e] = <<>>
  BY NewPacketPeerFacts, NewChannelPeerFacts
<1>2. net = {} /\ \A e \in End : Written(e) = {}
  BY DEF Written
<1>3. \A e \in End :
        /\ peer[e].generator = 0 /\ peer[e].received = {}
        /\ peer[e].newest = MAX_SEQUENCE_NUMBER
        /\ \A i \in Slot : peer[e].sent[i].sequence = 0
        /\ chan[e].generator = 0 /\ chan[e].reliable = {}
        /\ chan[e].toDeliver = <<>> /\ chan[e].stored = {}
        /\ chan[e].lastDelivered = MAX_SEQUENCE_NUMBER
  BY <1>1 DEF NewPacketPeer, NewChannelPeer
<1>4. TypeOK
  <2>1. delivered \in [End -> Seq(SequenceNumber)]
    OBVIOUS
  <2> QED
    BY <1>1, <1>2, <2>1 DEF TypeOK
<1>5. \A e \in End : InStep(chan[e], delivered[e], read[e])
  BY <1>1, <1>3, FreshInStep
<1>6. \A e \in End : NumbersAccepted(e)
  BY <1>1, <1>2, <1>3, EndFacts, BoundsAssumption DEF NumbersAccepted, Outstanding
<1>7. \A e \in End : FiledUnderCarrier(e) /\ SentRing(e) /\ ReceivedRead(e)
  BY <1>2, <1>3 DEF FiledUnderCarrier, SentRing, ReceivedRead
<1>8. RetiredAfterRead
  BY <1>2 DEF RetiredAfterRead
<1> QED
  BY <1>2, <1>4, <1>5, <1>6, <1>7, <1>8 DEF LinkInv, NumberedOnce

-----------------------------------------------------------------------------
(***************************************************************************)
(* LinkInv is inductive.                                                   *)
(***************************************************************************)

\* The numbers in use stay within the first half of the cycle.
LEMMA NumbersInFirstHalf ==
    ASSUME LinkInv, NEW e \in End
    PROVE  /\ read[e] \in SUBSET FirstHalf
           /\ Written(e) \in SUBSET FirstHalf
           /\ chan[e].generator \in Nat
           /\ MaxReliable[e] \in Nat /\ MaxReliable[e] < HALF_MAX_SEQUENCE_NUMBER
<1>1. \A f \in End : /\ MaxReliable[f] \in 0 .. HALF_MAX_SEQUENCE_NUMBER - 1
                     /\ chan[f].generator \in Nat
                     /\ chan[f].generator <= MaxReliable[f]
  BY BoundsAssumption, SeqCycleAssumption
     DEF LinkInv, TypeOK, ChannelPeerType, SequenceNumber, NumbersAccepted
<1>2. HALF_MAX_SEQUENCE_NUMBER \in Nat
  BY HalfIsHalf
<1>3. \A f \in End : Accepted(f) \subseteq FirstHalf
  BY <1>1, <1>2 DEF Accepted, FirstHalf
<1>4. Written(e) \subseteq Accepted(e) /\ read[Other(Other(e))] \subseteq Accepted(Other(e))
  BY EndFacts DEF LinkInv, NumbersAccepted
<1> QED
  BY <1>1, <1>2, <1>3, <1>4, EndFacts

\* A step of the channels of one end that leaves the packets alone: the
\* messages kept change as long as those that have travelled stay where they
\* are filed and none is dropped.
LEMMA ChannelStep ==
    ASSUME LinkInv, NEW e \in End, NEW d \in ChannelPeerType,
           NEW given \in Seq(SequenceNumber),
           chan' = [chan EXCEPT ![e] = d],
           delivered' = [delivered EXCEPT ![e] = given],
           UNCHANGED <<peer, net, read>>,
           phase' \in [End -> {"app", "receive", "send"}],
           loose' \in [End -> Nat],
           InStep(d, given, read[e]),
           d.generator \in chan[e].generator .. MaxReliable[e],
           \A m \in d.reliable : m.seq \in 0 .. d.generator - 1,
           \A m, o \in d.reliable : m.seq = o.seq => m = o,
           \A m \in d.reliable : m.seq \in Written(e) =>
                \E o \in chan[e].reliable : o.seq = m.seq /\ o.packet = m.packet,
           \A o \in chan[e].reliable : \E m \in d.reliable : m.seq = o.seq
    PROVE  LinkInv'
<1>1. /\ \A f \in End : chan'[f] = IF f = e THEN d ELSE chan[f]
      /\ \A f \in End : delivered'[f] = IF f = e THEN given ELSE delivered[f]
      /\ \A f \in End : chan'[f] \in ChannelPeerType
  BY DEF LinkInv, TypeOK
<1>2. \A f \in End : Written(f)' = Written(f)
  BY DEF Written
<1>3. TypeOK'
  BY DEF LinkInv, TypeOK
<1>4. \A f \in End : InStep(chan[f], delivered[f], read[f])'
  BY <1>1 DEF LinkInv
<1>5. \A f \in End : Accepted(f) \subseteq Accepted(f)'
  BY <1>1, NumbersInFirstHalf DEF Accepted
<1>6. \A f \in End : Outstanding(f) \subseteq Outstanding(f)'
  <2> SUFFICES ASSUME NEW f \in End, NEW s \in Outstanding(f)
               PROVE  s \in Outstanding(f)'
    OBVIOUS
  <2>1. PICK o \in chan[f].reliable : s = o.seq
    BY DEF Outstanding
  <2>2. \E m \in chan'[f].reliable : m.seq = s
    BY <2>1, <1>1
  <2> QED
    BY <2>2 DEF Outstanding
<1>7. \A f \in End : NumbersAccepted(f)'
  <2> SUFFICES ASSUME NEW f \in End PROVE NumbersAccepted(f)'
    OBVIOUS
  <2>1. NumbersAccepted(f)
    BY DEF LinkInv
  <2>2. CASE f = e
    <3>1. chan'[f].generator <= MaxReliable[f]
      BY <2>2, <1>1, NumbersInFirstHalf
    <3>2. Outstanding(f)' \subseteq Accepted(f)'
      BY <2>2, <1>1 DEF Outstanding, Accepted
    <3>3. \A m, o \in chan'[f].reliable : m.seq = o.seq => m = o
      BY <2>2, <1>1
    <3> QED
      BY <2>1, <3>1, <3>2, <3>3, <1>2, <1>5 DEF NumbersAccepted
  <2>3. CASE f # e
    BY <2>1, <2>3, <1>1, <1>2 DEF NumbersAccepted, Outstanding, Accepted
  <2> QED
    BY <2>2, <2>3
<1>8. \A f \in End : FiledUnderCarrier(f)'
  <2> SUFFICES ASSUME NEW f \in End, NEW m \in chan'[f].reliable, m.seq \in Written(f)
               PROVE  \E p \in net : p.from = f /\ p.seq = m.packet /\ m.seq \in p.reliable
    BY <1>2 DEF FiledUnderCarrier
  <2>1. PICK o \in chan[f].reliable : o.seq = m.seq /\ o.packet = m.packet
    BY <1>1
  <2> QED
    BY <2>1 DEF LinkInv, FiledUnderCarrier
<1>9. \A f \in End : SentRing(f)' /\ ReceivedRead(f)'
  BY DEF LinkInv, SentRing, ReceivedRead
<1>10. (\A p \in net : HeaderTrue(p))' /\ NumberedOnce'
  BY DEF LinkInv, HeaderTrue, NumberedOnce
<1>11. RetiredAfterRead'
  BY <1>2, <1>6 DEF LinkInv, RetiredAfterRead
<1> QED
  BY <1>3, <1>4, <1>7, <1>8, <1>9, <1>10, <1>11 DEF LinkInv

\* What the messages an end keeps are like.
LEMMA KeptFacts ==
    ASSUME LinkInv, NEW e \in End
    PROVE  /\ chan[e] \in ChannelPeerType
           /\ chan[e].generator \in 0 .. MaxReliable[e]
           /\ \A m \in chan[e].reliable : m \in ReliableEntry /\ m.seq \in 0 .. chan[e].generator - 1
           /\ \A m, o \in chan[e].reliable : m.seq = o.seq => m = o
           /\ \A s \in Written(e) : s \in 0 .. chan[e].generator - 1
           /\ delivered[e] \in Seq(SequenceNumber)
           /\ InStep(chan[e], delivered[e], read[e])
<1>1. chan[e] \in ChannelPeerType /\ NumbersAccepted(e)
  BY DEF LinkInv, TypeOK
<1>2. chan[e].generator \in 0 .. MaxReliable[e]
  BY <1>1, NumbersInFirstHalf DEF NumbersAccepted
<1>3. \A m \in chan[e].reliable : m \in ReliableEntry /\ m.seq \in 0 .. chan[e].generator - 1
  BY <1>1 DEF NumbersAccepted, Outstanding, Accepted, ChannelPeerType
<1>4. \A s \in Written(e) : s \in 0 .. chan[e].generator - 1
  BY <1>1 DEF NumbersAccepted, Accepted
<1> QED
  BY <1>1, <1>2, <1>3, <1>4 DEF NumbersAccepted, LinkInv, TypeOK

\* The application sends: the new message has not travelled yet.
LEMMA SendReliableKeepsInv ==
    ASSUME LinkInv, NEW e \in End, NEW size \in MessageSizes[e], sendReliable(e, size)
    PROVE  LinkInv'
<1> DEFINE c == chan[e]
           d == SendReliable(c, size)
           g == c.generator
<1>1. /\ c \in ChannelPeerType
      /\ g \in 0 .. MaxReliable[e]
      /\ \A m \in c.reliable : m \in ReliableEntry /\ m.seq \in 0 .. g - 1
      /\ \A m, o \in c.reliable : m.seq = o.seq => m = o
      /\ \A s \in Written(e) : s \in 0 .. g - 1
      /\ delivered[e] \in Seq(SequenceNumber)
      /\ InStep(c, delivered[e], read[e])
  BY KeptFacts
<1>2. /\ chan' = [chan EXCEPT ![e] = d]
      /\ UNCHANGED <<phase, peer, net, loose, read, delivered>>
      /\ g < MaxReliable[e] /\ SizeAccepted(size) /\ size \in Nat
  BY BoundsAssumption DEF sendReliable
<1>3. PICK m \in ReliableEntry :
        m.seq = g /\ d.reliable = c.reliable \cup {m}
  BY <1>1, <1>2, SendReliableFacts
<1>4. /\ d \in ChannelPeerType
      /\ d.generator = g + 1
      /\ ReceivingSide(d) = ReceivingSide(c)
  <2>1. SeqIncrement(g) = g + 1
    BY <1>1, <1>2, NumbersInFirstHalf, HalfIsHalf DEF SeqIncrement, MAX_SEQUENCE_NUMBER
  <2> QED
    BY <2>1, <1>1, <1>2, SendReliableFacts
<1>5. InStep(d, delivered[e], read[e])
  BY <1>1, <1>4, InStepFrame
<1> HIDE DEF d
<1>6. d.generator \in c.generator .. MaxReliable[e]
  BY <1>1, <1>2, <1>4, NumbersInFirstHalf
<1>7. \A o \in d.reliable : o.seq \in 0 .. d.generator - 1
  BY <1>1, <1>3, <1>4
<1>8. \A o, n \in d.reliable : o.seq = n.seq => o = n
  BY <1>1, <1>3
<1>9. \A o \in d.reliable : o.seq \in Written(e) =>
        \E n \in c.reliable : n.seq = o.seq /\ n.packet = o.packet
  <2> SUFFICES ASSUME NEW o \in d.reliable, o.seq \in Written(e)
               PROVE  o \in c.reliable
    OBVIOUS
  <2> QED
    BY <1>1, <1>3
<1>10. \A o \in c.reliable : \E n \in d.reliable : n.seq = o.seq
  BY <1>3
<1>11. /\ delivered' = [delivered EXCEPT ![e] = delivered[e]]
       /\ phase' \in [End -> {"app", "receive", "send"}]
       /\ loose' \in [End -> Nat]
  BY <1>2 DEF LinkInv, TypeOK
<1> QED
  BY <1>1, <1>2, <1>4, <1>5, <1>6, <1>7, <1>8, <1>9, <1>10, <1>11, ChannelStep

\* Unreliable messages touch nothing the invariant speaks of.
LEMMA SendUnreliableKeepsInv ==
    ASSUME LinkInv, NEW e \in End, NEW size \in MessageSizes[e], sendUnreliable(e, size)
    PROVE  LinkInv'
<1> DEFINE c == chan[e]
           d == SendUnreliable(c, loose[e], size)
<1>1. /\ c \in ChannelPeerType
      /\ c.generator \in 0 .. MaxReliable[e]
      /\ \A m \in c.reliable : m \in ReliableEntry /\ m.seq \in 0 .. c.generator - 1
      /\ \A m, o \in c.reliable : m.seq = o.seq => m = o
      /\ delivered[e] \in Seq(SequenceNumber)
      /\ InStep(c, delivered[e], read[e])
  BY KeptFacts
<1>2. /\ chan' = [chan EXCEPT ![e] = d]
      /\ loose' = [loose EXCEPT ![e] = @ + 1]
      /\ UNCHANGED <<phase, peer, net, read, delivered>>
      /\ SizeAccepted(size) /\ size \in Nat /\ loose[e] \in Nat
  BY BoundsAssumption DEF sendUnreliable, LinkInv, TypeOK
<1>3. /\ d \in ChannelPeerType
      /\ d.generator = c.generator
      /\ d.reliable = c.reliable
      /\ ReceivingSide(d) = ReceivingSide(c)
  BY <1>1, <1>2, SendUnreliableFacts
<1>4. InStep(d, delivered[e], read[e])
  BY <1>1, <1>3, InStepFrame
<1> HIDE DEF d
<1>5. d.generator \in c.generator .. MaxReliable[e]
  BY <1>1, <1>3, NumbersInFirstHalf
<1>6. /\ delivered' = [delivered EXCEPT ![e] = delivered[e]]
      /\ phase' \in [End -> {"app", "receive", "send"}]
      /\ loose' \in [End -> Nat]
  BY <1>2 DEF LinkInv, TypeOK
<1> QED
  BY <1>1, <1>2, <1>3, <1>4, <1>5, <1>6, ChannelStep

\* Time makes messages due again, each filed where it was.
LEMMA ResendTimeKeepsInv ==
    ASSUME LinkInv, NEW e \in End, resendTime(e)
    PROVE  LinkInv'
<1> DEFINE c == chan[e]
<1>1. /\ c \in ChannelPeerType
      /\ c.generator \in 0 .. MaxReliable[e]
      /\ \A m \in c.reliable : m \in ReliableEntry /\ m.seq \in 0 .. c.generator - 1
      /\ \A m, o \in c.reliable : m.seq = o.seq => m = o
      /\ delivered[e] \in Seq(SequenceNumber)
      /\ InStep(c, delivered[e], read[e])
  BY KeptFacts
<1>2. PICK oldest \in c.reliable : chan' = [chan EXCEPT ![e] = AfterResendTime(c, oldest.packet)]
  BY DEF resendTime
<1> DEFINE d == AfterResendTime(c, oldest.packet)
<1>3. /\ d \in ChannelPeerType
      /\ d.generator = c.generator
      /\ ReceivingSide(d) = ReceivingSide(c)
      /\ \A o \in c.reliable : \E m \in d.reliable : m.seq = o.seq /\ m.packet = o.packet
      /\ \A m \in d.reliable : \E o \in c.reliable :
            m = [o EXCEPT !.due = @ \/ o.packet <= oldest.packet]
  BY <1>1, AfterResendTimeFacts
<1>4. InStep(d, delivered[e], read[e])
  BY <1>1, <1>3, InStepFrame
<1>5. chan' = [chan EXCEPT ![e] = d]
  BY <1>2
<1> HIDE DEF d
<1>6. \A m \in d.reliable : \E o \in c.reliable :
        /\ m.seq = o.seq /\ m.packet = o.packet
        /\ m = [o EXCEPT !.due = @ \/ o.packet <= oldest.packet]
  <2> SUFFICES ASSUME NEW o \in c.reliable,
                      NEW m, m = [o EXCEPT !.due = @ \/ o.packet <= oldest.packet]
               PROVE  m.seq = o.seq /\ m.packet = o.packet
    BY <1>3
  <2> QED
    BY <1>1 DEF ReliableEntry
<1>7. d.generator \in c.generator .. MaxReliable[e]
  BY <1>1, <1>3, NumbersInFirstHalf
<1>8. \A m \in d.reliable : m.seq \in 0 .. d.generator - 1
  BY <1>1, <1>3, <1>6
<1>9. \A m, n \in d.reliable : m.seq = n.seq => m = n
  <2> SUFFICES ASSUME NEW m \in d.reliable, NEW n \in d.reliable, m.seq = n.seq
               PROVE  m = n
    OBVIOUS
  <2>1. PICK o \in c.reliable :
            m.seq = o.seq /\ m = [o EXCEPT !.due = @ \/ o.packet <= oldest.packet]
    BY <1>6
  <2>2. PICK r \in c.reliable :
            n.seq = r.seq /\ n = [r EXCEPT !.due = @ \/ r.packet <= oldest.packet]
    BY <1>6
  <2>3. o = r
    BY <1>1, <2>1, <2>2
  <2> QED
    BY <2>1, <2>2, <2>3
<1>10. /\ delivered' = [delivered EXCEPT ![e] = delivered[e]]
       /\ UNCHANGED <<peer, net, read>>
       /\ phase' \in [End -> {"app", "receive", "send"}]
       /\ loose' \in [End -> Nat]
  BY DEF resendTime, LinkInv, TypeOK
<1>11. \A m \in d.reliable : m.seq \in Written(e) =>
            \E o \in c.reliable : o.seq = m.seq /\ o.packet = m.packet
  BY <1>6
<1>12. \A o \in c.reliable : \E m \in d.reliable : m.seq = o.seq
  BY <1>3
<1>13. d \in ChannelPeerType
  BY <1>3
<1> QED
  BY <1>1, <1>4, <1>5, <1>7, <1>8, <1>9, <1>10, <1>11, <1>12, <1>13, ChannelStep

\* The application is given what has gathered.
LEMMA HandOverKeepsInv ==
    ASSUME LinkInv, NEW e \in End, updateReceiveEnds(e)
    PROVE  LinkInv'
<1> DEFINE c == chan[e]
           d == AfterDeliver(c)
           given == delivered[e] \o c.toDeliver
<1>1. /\ c \in ChannelPeerType
      /\ c.generator \in 0 .. MaxReliable[e]
      /\ \A m \in c.reliable : m \in ReliableEntry /\ m.seq \in 0 .. c.generator - 1
      /\ \A m, o \in c.reliable : m.seq = o.seq => m = o
      /\ delivered[e] \in Seq(SequenceNumber)
      /\ InStep(c, delivered[e], read[e])
  BY KeptFacts
<1>2. /\ given \in Seq(SequenceNumber)
      /\ InStep(d, given, read[e])
  BY <1>1, HandOverInStep
<1>3. /\ d \in ChannelPeerType
      /\ d.generator = c.generator
      /\ d.reliable = c.reliable
  BY <1>1, AfterDeliverFacts
<1>4. d.generator \in c.generator .. MaxReliable[e]
  BY <1>1, <1>3, NumbersInFirstHalf
<1>5. /\ chan' = [chan EXCEPT ![e] = d]
      /\ delivered' = [delivered EXCEPT ![e] = given]
      /\ UNCHANGED <<peer, net, read>>
      /\ phase' \in [End -> {"app", "receive", "send"}]
      /\ loose' \in [End -> Nat]
  BY DEF updateReceiveEnds, LinkInv, TypeOK
<1> HIDE DEF d, given
<1> QED
  BY <1>1, <1>2, <1>3, <1>4, <1>5, ChannelStep

\* A packet is written: it carries messages that are kept and filed under it.
LEMMA SendPacketKeepsInv ==
    ASSUME LinkInv, NEW e \in End, sendPacket(e)
    PROVE  LinkInv'
<1> DEFINE p == peer[e]
           c == chan[e]
           g == p.generator
           q == RecordSentPacket(p)
           d == AfterWrite(c, g)
           new == [from       |-> e,
                   seq        |-> g,
                   ack        |-> p.newest,
                   ackBits    |-> GenerateAckBits(p),
                   reliable   |-> WrittenReliable(c),
                   unreliable |-> WrittenUnreliable(c),
                   size       |-> PacketSize(c)]
           Filed(m) == IF m \in Taken(c) THEN [m EXCEPT !.packet = g, !.due = FALSE] ELSE m
<1>1. /\ peer \in [End -> PacketPeerType]
      /\ peer' = [peer EXCEPT ![e] = q]
      /\ chan' = [chan EXCEPT ![e] = d]
      /\ net' = net \cup {new}
      /\ UNCHANGED <<loose, read, delivered>>
      /\ g < MaxPackets[e]
      /\ phase' \in [End -> {"app", "receive", "send"}]
  BY DEF LinkInv, TypeOK, sendPacket
<1>2. /\ c \in ChannelPeerType
      /\ c.generator \in 0 .. MaxReliable[e]
      /\ \A m \in c.reliable : m \in ReliableEntry /\ m.seq \in 0 .. c.generator - 1
      /\ \A m, o \in c.reliable : m.seq = o.seq => m = o
      /\ \A s \in Written(e) : s \in 0 .. c.generator - 1
      /\ delivered[e] \in Seq(SequenceNumber)
      /\ InStep(c, delivered[e], read[e])
  BY KeptFacts
<1>3. /\ g \in Slot /\ g \in SequenceNumber /\ g \in Nat /\ SlotOf(g) = g
      /\ MaxPackets[e] \in Nat
  <2>1. g \in SequenceNumber /\ MaxPackets[e] \in 0 .. RingSize
    BY <1>1, BoundsAssumption DEF PacketPeerType
  <2>2. g \in Slot
    BY <2>1, <1>1, RingAssumption, SeqCycleAssumption DEF Slot, SequenceNumber
  <2> QED
    BY <2>1, <2>2, SlotOfFacts, RingAssumption DEF Slot
<1>4. /\ q \in PacketPeerType
      /\ q.generator = g + 1
      /\ q.newest = p.newest
      /\ q.received = p.received
      /\ \A i \in Slot : q.sent[i].sequence \in {g, p.sent[i].sequence}
      /\ \A i \in Slot : i # g => q.sent[i] = p.sent[i]
      /\ q.sent[g].sequence = g
  <2>1. SeqIncrement(g) = g + 1
    BY <1>3, RingAssumption, SeqCycleAssumption DEF Slot, SeqIncrement, MAX_SEQUENCE_NUMBER
  <2>2. p \in PacketPeerType
    BY <1>1
  <2>3. /\ q \in PacketPeerType
        /\ q.generator = g + 1
        /\ q.newest = p.newest
        /\ q.received = p.received
        /\ \A i \in Slot : q.sent[i] =
             IF i = g THEN [sequence |-> g, acked |-> FALSE] ELSE p.sent[i]
    BY <2>1, <2>2, <1>3, RecordSentPacketFacts
  <2> HIDE DEF q
  <2>4. q.sent[g] = [sequence |-> g, acked |-> FALSE]
    BY <2>3, <1>3
  <2>5. \A i \in Slot : i # g => q.sent[i] = p.sent[i]
    BY <2>3
  <2>6. \A i \in Slot : q.sent[i].sequence \in {g, p.sent[i].sequence}
    BY <2>4, <2>5
  <2> QED
    BY <2>3, <2>4, <2>5, <2>6
<1>5. /\ d \in ChannelPeerType
      /\ d.generator = c.generator
      /\ ReceivingSide(d) = ReceivingSide(c)
      /\ \A m \in c.reliable : Filed(m) \in d.reliable /\ Filed(m).seq = m.seq
      /\ \A o \in d.reliable : \E m \in c.reliable : o.seq = m.seq /\ o = Filed(m)
  BY <1>2, <1>3, AfterWriteFacts
<1>6. /\ new.from = e /\ new.seq = g /\ new.ack = p.newest
      /\ new.ackBits = GenerateAckBits(p)
      /\ new.reliable = WrittenReliable(c)
      /\ new.unreliable = WrittenUnreliable(c)
  OBVIOUS
<1>7. /\ Taken(c) \subseteq c.reliable
      /\ WrittenReliable(c) = {m.seq : m \in Taken(c)}
      /\ WrittenReliable(c) \subseteq Outstanding(e)
      /\ WrittenReliable(c) \subseteq SequenceNumber
      /\ WrittenUnreliable(c) \subseteq Nat
  <2>1. Taken(c) \subseteq c.reliable
    BY DEF Taken
  <2>2. WrittenReliable(c) \subseteq Outstanding(e)
    BY <2>1 DEF WrittenReliable, Outstanding
  <2>3. WrittenReliable(c) \subseteq SequenceNumber
    BY <2>1, <1>2 DEF WrittenReliable, ReliableEntry
  <2>4. WrittenUnreliable(c) \subseteq Nat
    BY <1>2 DEF WrittenUnreliable, LooseTaken, ChannelPeerType
  <2> QED
    BY <2>1, <2>2, <2>3, <2>4 DEF WrittenReliable
<1> HIDE DEF q, d, new, Filed
<1>8. /\ \A f \in End : peer'[f] = IF f = e THEN q ELSE peer[f]
      /\ \A f \in End : chan'[f] = IF f = e THEN d ELSE chan[f]
      /\ chan' \in [End -> ChannelPeerType]
      /\ peer' \in [End -> PacketPeerType]
  BY <1>1, <1>4, <1>5 DEF LinkInv, TypeOK
<1>9. \A f \in End : Written(f)' = IF f = e THEN Written(e) \cup WrittenReliable(c) ELSE Written(f)
  <2> SUFFICES ASSUME NEW f \in End
               PROVE  Written(f)' = IF f = e THEN Written(e) \cup WrittenReliable(c) ELSE Written(f)
    OBVIOUS
  <2>1. Written(f)' = UNION {r.reliable : r \in {x \in net \cup {new} : x.from = f}}
    BY <1>1 DEF Written
  <2>2. CASE f = e
    <3>1. {x \in net \cup {new} : x.from = f} = {x \in net : x.from = f} \cup {new}
      BY <2>2, <1>6
    <3> QED
      BY <2>1, <2>2, <3>1, <1>6 DEF Written
  <2>3. CASE f # e
    <3>1. {x \in net \cup {new} : x.from = f} = {x \in net : x.from = f}
      BY <2>3, <1>6
    <3> QED
      BY <2>1, <2>3, <3>1 DEF Written
  <2> QED
    BY <2>2, <2>3
<1>10. \A f \in End : Outstanding(f)' = Outstanding(f)
  <2> SUFFICES ASSUME NEW f \in End PROVE Outstanding(f)' = Outstanding(f)
    OBVIOUS
  <2>1. CASE f = e
    <3>1. {o.seq : o \in d.reliable} = {m.seq : m \in c.reliable}
      BY <1>5
    <3> QED
      BY <2>1, <3>1, <1>8 DEF Outstanding
  <2>2. CASE f # e
    BY <2>2, <1>8 DEF Outstanding
  <2> QED
    BY <2>1, <2>2
<1>11. TypeOK'
  <2>1. /\ new.from \in End /\ {new.seq, new.ack} \subseteq SequenceNumber
        /\ new.ackBits \subseteq AckDistance
        /\ new.reliable \subseteq SequenceNumber /\ new.unreliable \subseteq Nat
    BY <1>1, <1>3, <1>6, <1>7 DEF PacketPeerType, GenerateAckBits
  <2> QED
    BY <2>1, <1>1, <1>8 DEF LinkInv, TypeOK
<1>12. \A f \in End : InStep(chan[f], delivered[f], read[f])'
  <2>1. InStep(d, delivered[e], read[e])
    BY <1>2, <1>5, InStepFrame
  <2> QED
    BY <2>1, <1>1, <1>8 DEF LinkInv
<1>13. \A f \in End : NumbersAccepted(f)'
  <2> SUFFICES ASSUME NEW f \in End PROVE NumbersAccepted(f)'
    OBVIOUS
  <2>1. NumbersAccepted(f)
    BY DEF LinkInv
  <2>2. chan'[f].generator = chan[f].generator /\ Accepted(f)' = Accepted(f)
    BY <1>5, <1>8 DEF Accepted
  <2>3. peer'[f].generator <= MaxPackets[f]
    BY <2>1, <1>1, <1>3, <1>4, <1>8 DEF NumbersAccepted
  <2>4. Written(f)' \subseteq Accepted(f)'
    BY <2>1, <2>2, <1>7, <1>9 DEF NumbersAccepted
  <2>5. \A m, o \in chan'[f].reliable : m.seq = o.seq => m = o
    <3>1. CASE f = e
      BY <3>1, <1>2, <1>5, <1>8
    <3>2. CASE f # e
      BY <3>2, <2>1, <1>8 DEF NumbersAccepted
    <3> QED
      BY <3>1, <3>2
  <2> QED
    BY <2>1, <2>2, <2>3, <2>4, <2>5, <1>1, <1>10 DEF NumbersAccepted
<1>14. \A f \in End : FiledUnderCarrier(f)'
  <2> SUFFICES ASSUME NEW f \in End, NEW o \in chan'[f].reliable, o.seq \in Written(f)'
               PROVE  \E r \in net' : r.from = f /\ r.seq = o.packet /\ o.seq \in r.reliable
    BY DEF FiledUnderCarrier
  <2>1. FiledUnderCarrier(f)
    BY DEF LinkInv
  <2>2. CASE f # e
    BY <2>1, <2>2, <1>1, <1>8, <1>9 DEF FiledUnderCarrier
  <2>3. CASE f = e
    <3>1. PICK m \in c.reliable : o.seq = m.seq /\ o = Filed(m)
      BY <2>3, <1>5, <1>8
    <3>2. CASE m \in Taken(c)
      <4>1. o.packet = g
        BY <3>1, <3>2, <1>2 DEF Filed, ReliableEntry
      <4>2. o.seq \in new.reliable
        BY <3>1, <3>2, <1>6, <1>7
      <4> QED
        BY <2>3, <4>1, <4>2, <1>1, <1>6
    <3>3. CASE m \notin Taken(c)
      <4>1. o = m
        BY <3>1, <3>3 DEF Filed
      <4>2. o.seq \notin WrittenReliable(c)
        BY <3>1, <3>3, <1>2, <1>7
      <4>3. o.seq \in Written(e)
        BY <2>3, <4>2, <1>9
      <4> QED
        BY <2>1, <2>3, <3>1, <4>1, <4>3, <1>1 DEF FiledUnderCarrier
    <3> QED
      BY <3>2, <3>3
  <2> QED
    BY <2>2, <2>3
<1>15. \A f \in End : SentRing(f)'
  BY <1>3, <1>4, <1>8 DEF LinkInv, SentRing
<1>16. \A f \in End : /\ peer[f].generator \in Nat
                      /\ peer'[f].generator \in Nat
                      /\ peer[f].generator <= peer'[f].generator
                      /\ peer'[f].received = peer[f].received
                      /\ peer'[f].newest = peer[f].newest
                      /\ \A n \in peer[f].received : n \in Nat
  <2> SUFFICES ASSUME NEW f \in End
               PROVE  /\ peer[f].generator \in Nat
                      /\ peer'[f].generator \in Nat
                      /\ peer[f].generator <= peer'[f].generator
                      /\ peer'[f].received = peer[f].received
                      /\ peer'[f].newest = peer[f].newest
                      /\ \A n \in peer[f].received : n \in Nat
    OBVIOUS
  <2>1. /\ peer[f].generator \in Nat
        /\ \A n \in peer[f].received : n \in Nat
    BY <1>1, RingAssumption, SeqCycleAssumption DEF PacketPeerType, SequenceNumber, Slot
  <2>2. CASE f = e
    BY <2>1, <2>2, <1>3, <1>4, <1>8
  <2>3. CASE f # e
    BY <2>1, <2>3, <1>8
  <2> QED
    BY <2>2, <2>3
<1>17. \A f \in End : ReceivedRead(f)'
  <2> SUFFICES ASSUME NEW f \in End PROVE ReceivedRead(f)'
    OBVIOUS
  <2>1. ReceivedRead(f)
    BY DEF LinkInv
  <2>2. \A n \in peer'[f].received : n < peer'[Other(f)].generator
    BY <2>1, <1>16, EndFacts DEF ReceivedRead
  <2>3. ASSUME NEW r \in net', r.from = Other(f), r.seq \in peer'[f].received
        PROVE  r.reliable \subseteq read'[f]
    <3>1. CASE r \in net
      BY <2>1, <2>3, <3>1, <1>1, <1>16 DEF ReceivedRead
    <3>2. CASE r = new
      <4>1. e = Other(f) /\ g \in peer[f].received
        BY <2>3, <3>2, <1>6, <1>16
      <4>2. g < g
        BY <2>1, <4>1 DEF ReceivedRead
      <4> QED
        BY <4>2, <1>3
    <3> QED
      BY <2>3, <3>1, <3>2, <1>1
  <2> QED
    BY <2>1, <2>2, <2>3, <1>16 DEF ReceivedRead
<1>18. \A r \in net' : HeaderTrue(r)'
  <2> SUFFICES ASSUME NEW r \in net' PROVE HeaderTrue(r)'
    OBVIOUS
  <2>1. CASE r \in net
    <3>1. r.from \in End /\ r.seq \in Nat /\ HeaderTrue(r)
      BY <2>1, SeqCycleAssumption DEF LinkInv, TypeOK, SequenceNumber
    <3> QED
      BY <3>1, <1>16 DEF HeaderTrue
  <2>2. CASE r = new
    <3>1. ReceivedRead(e)
      BY DEF LinkInv
    <3>2. g < peer'[e].generator
      BY <1>3, <1>4, <1>8
    <3> QED
      BY <2>2, <3>1, <3>2, <1>6, <1>16 DEF HeaderTrue, ReceivedRead, GenerateAckBits
  <2> QED
    BY <2>1, <2>2, <1>1
<1>19. NumberedOnce'
  <2> SUFFICES ASSUME NEW r \in net', NEW x \in net', r.from = x.from, r.seq = x.seq
               PROVE  r = x
    BY DEF NumberedOnce
  <2>1. \A y \in net : y.from = e => y.seq # g
    BY <1>3, SeqCycleAssumption DEF LinkInv, HeaderTrue, TypeOK, SequenceNumber
  <2> QED
    BY <2>1, <1>1, <1>6 DEF LinkInv, NumberedOnce
<1>20. RetiredAfterRead'
  BY <1>1, <1>7, <1>9, <1>10 DEF LinkInv, RetiredAfterRead
<1> QED
  BY <1>11, <1>12, <1>13, <1>14, <1>15, <1>17, <1>18, <1>19, <1>20 DEF LinkInv

\* A packet is read: its messages are taken, and every packet it acknowledges
\* is one the other end has taken.
LEMMA ReceivePacketKeepsInv ==
    ASSUME LinkInv, NEW e \in End, NEW p \in net, onReceivePacket(e, p)
    PROVE  LinkInv'
<1> DEFINE c     == chan[e]
           o     == Other(e)
           noted == RecordReceivedPacket(peer[e], p.seq)
           acks  == NewlyAcked(noted, p.ack, p.ackBits)
           q     == MarkAcked(noted, acks)
           after == AfterMessages(c, p.reliable)
           d     == AfterAcks(AfterRead(c, p.reliable, p.unreliable), acks)
<1>1. /\ peer \in [End -> PacketPeerType]
      /\ peer' = [peer EXCEPT ![e] = q]
      /\ chan' = [chan EXCEPT ![e] = d]
      /\ read' = [read EXCEPT ![e] = @ \cup p.reliable]
      /\ UNCHANGED <<net, loose, delivered>>
      /\ p.from = o
      /\ phase' \in [End -> {"app", "receive", "send"}]
  BY DEF LinkInv, TypeOK, onReceivePacket
<1>2. /\ o \in End /\ o # e /\ Other(o) = e
      /\ \A f \in End : Other(f) \in End /\ (f = e \/ f = o)
  BY EndFacts
<1>3. /\ c \in ChannelPeerType
      /\ c.generator \in 0 .. MaxReliable[e]
      /\ \A m \in c.reliable : m \in ReliableEntry /\ m.seq \in 0 .. c.generator - 1
      /\ \A m, n \in c.reliable : m.seq = n.seq => m = n
      /\ delivered[e] \in Seq(SequenceNumber)
      /\ InStep(c, delivered[e], read[e])
  BY KeptFacts
<1>4. /\ p.ack \in SequenceNumber /\ p.ackBits \in SUBSET AckDistance
      /\ p.reliable \in SUBSET SequenceNumber /\ p.unreliable \in SUBSET Nat
      /\ HeaderTrue(p)
  BY DEF LinkInv, TypeOK
<1>5. p.seq \in SequenceNumber /\ p.seq \in Slot /\ SlotOf(p.seq) = p.seq
  <2>1. /\ p.seq \in SequenceNumber /\ p.seq < peer[o].generator
        /\ peer[o].generator <= MaxPackets[o]
        /\ peer[o].generator \in SequenceNumber
        /\ MaxPackets[o] \in 0 .. RingSize
    BY <1>1, <1>2, <1>4, BoundsAssumption
       DEF LinkInv, TypeOK, HeaderTrue, NumbersAccepted, PacketPeerType
  <2>2. p.seq \in Slot
    BY <2>1, RingAssumption, SeqCycleAssumption DEF Slot, SequenceNumber
  <2> QED
    BY <2>1, <2>2, SlotOfFacts DEF Slot
<1>6. /\ noted \in PacketPeerType
      /\ noted.generator = peer[e].generator
      /\ noted.newest \in {peer[e].newest, p.seq}
      /\ noted.received = peer[e].received \cup {p.seq}
      /\ noted.sent = peer[e].sent
  BY <1>1, <1>5, RecordReceivedPacketFacts
<1> HIDE DEF noted
\* The heart of the proof: what is acknowledged has been taken by the other end.
<1>7. acks \subseteq peer[o].received
  <2> SUFFICES ASSUME NEW s \in acks PROVE s \in peer[o].received
    OBVIOUS
  <2>1. \A i \in Slot : noted.sent[i].sequence \in {0, i}
    BY <1>6 DEF LinkInv, SentRing
  <2>2. /\ SlotOf(s) = s
        /\ s # MAX_SEQUENCE_NUMBER
        /\ s = p.ack \/ \E i \in p.ackBits : s = SeqMinus(p.ack, i)
    BY <2>1, <1>4, <1>6, NewlyAckedFacts
  <2> QED
    BY <2>2, <1>1, <1>4 DEF HeaderTrue
<1> HIDE DEF acks
<1>8. /\ q \in PacketPeerType
      /\ q.generator = peer[e].generator
      /\ q.newest \in {peer[e].newest, p.seq}
      /\ q.received = peer[e].received \cup {p.seq}
      /\ \A i \in Slot : q.sent[i].sequence = peer[e].sent[i].sequence
  <2>1. /\ q \in PacketPeerType
        /\ q.generator = noted.generator
        /\ q.newest = noted.newest
        /\ q.received = noted.received
        /\ \A i \in Slot : q.sent[i] =
             IF \E s \in acks : SlotOf(s) = i
             THEN [sequence |-> noted.sent[i].sequence, acked |-> TRUE]
             ELSE noted.sent[i]
    BY <1>6, MarkAckedFacts
  <2> HIDE DEF q
  <2>2. ASSUME NEW i \in Slot PROVE q.sent[i].sequence = noted.sent[i].sequence
    <3>1. CASE \E s \in acks : SlotOf(s) = i
      <4>1. q.sent[i] = [sequence |-> noted.sent[i].sequence, acked |-> TRUE]
        BY <2>1, <3>1
      <4> QED
        BY <4>1
    <3>2. CASE ~ \E s \in acks : SlotOf(s) = i
      BY <2>1, <3>2
    <3> QED
      BY <3>1, <3>2
  <2> QED
    BY <2>1, <2>2, <1>6
<1>9. /\ after \in ChannelPeerType
      /\ d \in ChannelPeerType
      /\ d.generator = c.generator
      /\ d.reliable = {m \in c.reliable : m.packet \notin acks}
      /\ ReceivingSide(d) = ReceivingSide(after)
  BY <1>3, <1>4, AfterReadAndAcksFacts DEF ReceivingSide
<1>10. p.reliable \subseteq Written(o)
  BY <1>1 DEF Written
<1>11. InStep(d, delivered[e], read[e] \cup p.reliable)
  <2>1. read[e] \in SUBSET FirstHalf /\ p.reliable \in SUBSET FirstHalf
    BY <1>2, <1>10, NumbersInFirstHalf
  <2>2. InStep(after, delivered[e], read[e] \cup p.reliable)
    BY <2>1, <1>3, MessagesInStep
  <2> HIDE DEF d, after
  <2> QED
    BY <2>2, <1>9, InStepFrame
<1> HIDE DEF q, d, after
<1>12. /\ \A f \in End : peer'[f] = IF f = e THEN q ELSE peer[f]
       /\ \A f \in End : chan'[f] = IF f = e THEN d ELSE chan[f]
       /\ \A f \in End : read'[f] = IF f = e THEN read[e] \cup p.reliable ELSE read[f]
       /\ \A f \in End : read[f] \subseteq read'[f]
       /\ \A f \in End : peer[f].received \subseteq peer'[f].received
       /\ \A f \in End : peer'[f].generator = peer[f].generator
       /\ \A f \in End : chan'[f].generator = chan[f].generator
       /\ \A f \in End : Written(f)' = Written(f)
  BY <1>1, <1>8, <1>9 DEF LinkInv, TypeOK, Written
<1>13. TypeOK'
  <2>1. peer' \in [End -> PacketPeerType] /\ chan' \in [End -> ChannelPeerType]
    BY <1>1, <1>8, <1>9 DEF LinkInv, TypeOK
  <2>2. read' \in [End -> SUBSET SequenceNumber]
    BY <1>1, <1>4 DEF LinkInv, TypeOK
  <2> QED
    BY <2>1, <2>2, <1>1 DEF LinkInv, TypeOK
<1>14. \A f \in End : InStep(chan[f], delivered[f], read[f])'
  <2> SUFFICES ASSUME NEW f \in End PROVE InStep(chan'[f], delivered'[f], read'[f])
    OBVIOUS
  <2>1. InStep(chan[f], delivered[f], read[f]) /\ delivered' = delivered
    BY <1>1 DEF LinkInv
  <2>2. CASE f = e
    BY <2>1, <2>2, <1>11, <1>12, Zenon
  <2>3. CASE f # e
    BY <2>1, <2>3, <1>12, Zenon
  <2> QED
    BY <2>2, <2>3
<1>15. \A f \in End : NumbersAccepted(f)'
  <2> SUFFICES ASSUME NEW f \in End PROVE NumbersAccepted(f)'
    OBVIOUS
  <2>1. NumbersAccepted(f) /\ Accepted(f)' = Accepted(f)
    BY <1>12 DEF LinkInv, Accepted
  <2>2. chan'[f].reliable \subseteq chan[f].reliable
    BY <1>9, <1>12
  <2>3. Outstanding(f)' \subseteq Accepted(f)'
    BY <2>1, <2>2 DEF NumbersAccepted, Outstanding
  <2>4. read'[Other(f)] \subseteq Accepted(f)'
    <3>1. CASE Other(f) = e
      <4>1. f = o
        BY <3>1, <1>2
      <4> QED
        BY <4>1, <3>1, <2>1, <1>10, <1>12, <1>2 DEF NumbersAccepted
    <3>2. CASE Other(f) # e
      BY <3>2, <2>1, <1>2, <1>12 DEF NumbersAccepted
    <3> QED
      BY <3>1, <3>2
  <2> QED
    BY <2>1, <2>2, <2>3, <2>4, <1>12 DEF NumbersAccepted
<1>16. \A f \in End : FiledUnderCarrier(f)'
  <2>1. \A f \in End : chan'[f].reliable \subseteq chan[f].reliable
    BY <1>9, <1>12
  <2> QED
    BY <2>1, <1>1, <1>12 DEF LinkInv, FiledUnderCarrier
<1>17. \A f \in End : SentRing(f)'
  <2>1. \A f \in End : \A i \in Slot : peer'[f].sent[i].sequence = peer[f].sent[i].sequence
    BY <1>8, <1>12
  <2> QED
    BY <2>1 DEF LinkInv, SentRing
<1>18. \A f \in End : ReceivedRead(f)'
  <2> SUFFICES ASSUME NEW f \in End PROVE ReceivedRead(f)'
    OBVIOUS
  <2>1. ReceivedRead(f)
    BY DEF LinkInv
  <2>2. CASE f = e
    <3>1. /\ peer'[f].received = peer[f].received \cup {p.seq}
          /\ peer'[f].newest \in {peer[f].newest, p.seq}
          /\ p.seq < peer[o].generator
      BY <2>2, <1>1, <1>4, <1>8, <1>12 DEF HeaderTrue
    <3>2. ASSUME NEW r \in net, r.from = o, r.seq \in peer'[f].received
          PROVE  r.reliable \subseteq read'[f]
      <4>1. CASE r.seq = p.seq
        <5>1. r = p
          BY <3>2, <4>1, <1>1 DEF LinkInv, NumberedOnce
        <5> QED
          BY <5>1, <2>2, <1>12
      <4>2. CASE r.seq \in peer[f].received
        BY <3>2, <4>2, <2>1, <2>2, <1>12 DEF ReceivedRead
      <4> QED
        BY <3>1, <3>2, <4>1, <4>2
    <3> QED
      BY <3>1, <3>2, <2>1, <2>2, <1>1, <1>2, <1>12 DEF ReceivedRead
  <2>3. CASE f # e
    BY <2>1, <2>3, <1>1, <1>2, <1>12 DEF ReceivedRead
  <2> QED
    BY <2>2, <2>3
<1>19. \A r \in net' : HeaderTrue(r)'
  <2> SUFFICES ASSUME NEW r \in net PROVE HeaderTrue(r)'
    BY <1>1
  <2>1. r.from \in End /\ HeaderTrue(r)
    BY DEF LinkInv, TypeOK
  <2> QED
    BY <2>1, <1>12 DEF HeaderTrue
<1>20. NumberedOnce'
  BY <1>1 DEF LinkInv, NumberedOnce
<1>21. RetiredAfterRead'
  <2> SUFFICES ASSUME NEW f \in End, NEW s \in Written(f), s \notin Outstanding(f)'
               PROVE  s \in read'[Other(f)]
    BY <1>12 DEF RetiredAfterRead
  <2>1. CASE s \notin Outstanding(f)
    BY <2>1, <1>2, <1>12 DEF LinkInv, RetiredAfterRead
  <2>2. CASE s \in Outstanding(f)
    <3>1. PICK m \in chan[f].reliable : s = m.seq /\ m \notin chan'[f].reliable
      BY <2>2 DEF Outstanding
    <3>2. f = e /\ m.packet \in acks
      BY <3>1, <1>9, <1>12
    <3>3. PICK r \in net : r.from = e /\ r.seq = m.packet /\ s \in r.reliable
      BY <3>1, <3>2 DEF LinkInv, FiledUnderCarrier
    <3>4. r.reliable \subseteq read[o]
      BY <3>2, <3>3, <1>2, <1>7 DEF LinkInv, ReceivedRead
    <3> QED
      BY <3>2, <3>3, <3>4, <1>2, <1>12
  <2> QED
    BY <2>1, <2>2
<1> QED
  BY <1>13, <1>14, <1>15, <1>16, <1>17, <1>18, <1>19, <1>20, <1>21 DEF LinkInv

\* Steps that change nothing keep the invariant.
LEMMA StutterKeepsInv == LinkInv /\ UNCHANGED vars => LinkInv'
BY DEF vars, LinkInv, TypeOK, NumbersAccepted, FiledUnderCarrier, SentRing, ReceivedRead,
       HeaderTrue, NumberedOnce, RetiredAfterRead, Outstanding, Accepted, Written

\* Every step of either end keeps the invariant.
THEOREM StepLinkInv == LinkInv /\ [Next]_vars => LinkInv'
<1> SUFFICES ASSUME LinkInv, [Next]_vars PROVE LinkInv'
  OBVIOUS
<1>1. ASSUME NEW e \in End, NEW size \in MessageSizes[e], sendReliable(e, size)
      PROVE  LinkInv'
  BY <1>1, SendReliableKeepsInv
<1>2. ASSUME NEW e \in End, NEW size \in MessageSizes[e], sendUnreliable(e, size)
      PROVE  LinkInv'
  BY <1>2, SendUnreliableKeepsInv
<1>3. ASSUME NEW e \in End, resendTime(e) PROVE LinkInv'
  BY <1>3, ResendTimeKeepsInv
<1>4. ASSUME NEW e \in End, sendPacket(e) PROVE LinkInv'
  BY <1>4, SendPacketKeepsInv
<1>5. ASSUME NEW e \in End, NEW p \in net, onReceivePacket(e, p) PROVE LinkInv'
  BY <1>5, ReceivePacketKeepsInv
<1>6. ASSUME NEW e \in End, updateReceiveEnds(e) PROVE LinkInv'
  BY <1>6, HandOverKeepsInv
<1>7. CASE UNCHANGED vars
  BY <1>7, StutterKeepsInv
<1> QED
  BY <1>1, <1>2, <1>3, <1>4, <1>5, <1>6, <1>7 DEF Next

\* LinkInv always holds.
THEOREM LinkInvariance == Spec => []LinkInv
<1>1. Init => LinkInv
  BY InitLinkInv
<1>2. LinkInv /\ [Next]_vars => LinkInv'
  BY StepLinkInv
<1> QED
  BY <1>1, <1>2, PTL DEF Spec

-----------------------------------------------------------------------------
(***************************************************************************)
(* What follows from LinkInv.                                              *)
(***************************************************************************)

\* The records of both layers, the packets and the histories keep their types.
THEOREM LinkTypeCorrect == Spec => []TypeOK
<1>1. LinkInv => TypeOK
  BY DEF LinkInv
<1> QED
  BY <1>1, LinkInvariance, PTL

\* A message that has travelled is dropped by its sender only after the other
\* end has read it.
THEOREM RetiredOnlyAfterRead == Spec => []RetiredAfterRead
<1>1. LinkInv => RetiredAfterRead
  BY DEF LinkInv
<1> QED
  BY <1>1, LinkInvariance, PTL

\* InStep, taken apart.
LEMMA InStepFacts ==
    ASSUME LinkInv, NEW e \in End
    PROVE  \E f \in Nat, d \in Nat, t \in Nat :
            /\ delivered[e] = Run(f, d)
            /\ chan[e].toDeliver = Run(f + d, t)
            /\ Arrived(e) = Run(f, d + t)
            /\ read[e] = {} <=> d + t = 0
            /\ read[e] # {} => chan[e].lastDelivered = f + d + t - 1
            /\ f + d + t \notin read[e]
            /\ chan[e].stored = {s \in read[e] : s > f + d + t}
<1> DEFINE d == Len(delivered[e])
           t == Len(chan[e].toDeliver)
<1>1. PICK f \in 0 .. HALF_MAX_SEQUENCE_NUMBER :
        InStepFrom(f, chan[e], delivered[e], read[e])
  BY DEF LinkInv, InStep
<1> DEFINE next == f + d + t
<1>2. /\ delivered[e] = Run(f, d)
      /\ chan[e].toDeliver = Run(f + d, t)
      /\ read[e] = {} <=> d + t = 0
      /\ chan[e].lastDelivered = IF read[e] = {} THEN MAX_SEQUENCE_NUMBER ELSE next - 1
      /\ next \notin read[e]
      /\ chan[e].stored = {s \in read[e] : s > next}
  BY <1>1 DEF InStepFrom
<1>3. d \in Nat /\ t \in Nat /\ f \in Nat
  BY LenProperties, HalfIsHalf DEF LinkInv, TypeOK, ChannelPeerType
<1> HIDE DEF d, t
<1>4. Run(f, d) \o Run(f + d, t) = Run(f, d + t)
  BY <1>3, RunConcat
<1>5. Arrived(e) = Run(f, d + t)
  BY <1>2, <1>4 DEF Arrived
<1>6. read[e] # {} => chan[e].lastDelivered = next - 1
  BY <1>2
<1> QED
  BY <1>2, <1>3, <1>5, <1>6, SMTT(60)

\* The application gets consecutive numbers.
THEOREM DeliveredInOrder == Spec => []DeliveredContiguous
<1>1. LinkInv => DeliveredContiguous
  <2> SUFFICES ASSUME LinkInv, NEW e \in End, NEW i \in DOMAIN delivered[e]
               PROVE  delivered[e][i] = delivered[e][1] + i - 1
    BY DEF DeliveredContiguous
  <2>1. PICK f \in Nat, d \in Nat : delivered[e] = Run(f, d)
    BY InStepFacts
  <2>2. i \in 1 .. d /\ 1 \in 1 .. d
    BY <2>1 DEF Run
  <2>3. delivered[e][i] = f + i - 1 /\ delivered[e][1] = f
    BY <2>1, <2>2 DEF Run
  <2> QED
    BY <2>2, <2>3
<1> QED
  BY <1>1, LinkInvariance, PTL

\* What has been read is delivered, gathered for delivery, stored, or older
\* than all of that.
THEOREM NothingReadIsForgotten == Spec => []ReadNotForgotten
<1>1. LinkInv => ReadNotForgotten
  <2> SUFFICES ASSUME LinkInv, NEW e \in End, NEW s \in read[e]
               PROVE  \/ \E i \in DOMAIN Arrived(e) : Arrived(e)[i] = s
                      \/ s \in chan[e].stored
                      \/ Arrived(e) # <<>> /\ s < Arrived(e)[1]
    BY DEF ReadNotForgotten
  <2>1. s \in Nat
    BY SeqCycleAssumption DEF LinkInv, TypeOK, SequenceNumber
  <2>2. PICK f \in Nat, d \in Nat, t \in Nat :
            /\ Arrived(e) = Run(f, d + t)
            /\ read[e] = {} <=> d + t = 0
            /\ f + d + t \notin read[e]
            /\ chan[e].stored = {k \in read[e] : k > f + d + t}
    BY InStepFacts
  <2>3. /\ d + t \in Nat /\ d + t # 0
        /\ DOMAIN Arrived(e) = 1 .. d + t
        /\ \A i \in 1 .. d + t : Arrived(e)[i] = f + i - 1
    BY <2>2 DEF Run
  <2>4. CASE s > f + d + t
    BY <2>2, <2>4
  <2>5. CASE s \in f .. f + d + t - 1
    <3>1. s - f + 1 \in 1 .. d + t /\ f + (s - f + 1) - 1 = s
      BY <2>1, <2>5
    <3> QED
      BY <3>1, <2>3
  <2>6. CASE s < f
    <3>1. 1 \in 1 .. d + t
      BY <2>3
    <3>2. Arrived(e)[1] = f
      BY <3>1, <2>3
    <3>3. Arrived(e) # <<>>
      BY <3>1, <2>3
    <3> QED
      BY <2>6, <3>2, <3>3
  <2>7. s > f + d + t \/ s \in f .. f + d + t - 1 \/ s < f
    BY <2>1, <2>2
  <2> QED
    BY <2>4, <2>5, <2>6, <2>7
<1> QED
  BY <1>1, LinkInvariance, PTL

\* No stored message could be delivered now.
THEOREM StoredOnlyBehindGap == Spec => []StoredWaitsForGap
<1>1. LinkInv => StoredWaitsForGap
  <2> SUFFICES ASSUME LinkInv, NEW e \in End, chan[e].stored # {}
               PROVE  /\ chan[e].lastDelivered + 1 \notin read[e]
                      /\ \A s \in chan[e].stored : s > chan[e].lastDelivered + 1
    BY DEF StoredWaitsForGap
  <2>1. PICK f \in Nat, d \in Nat, t \in Nat :
            /\ delivered[e] = Run(f, d)
            /\ chan[e].toDeliver = Run(f + d, t)
            /\ Arrived(e) = Run(f, d + t)
            /\ read[e] = {} <=> d + t = 0
            /\ read[e] # {} => chan[e].lastDelivered = f + d + t - 1
            /\ f + d + t \notin read[e]
            /\ chan[e].stored = {s \in read[e] : s > f + d + t}
    BY InStepFacts
  <2>2. chan[e].lastDelivered + 1 = f + d + t
    BY <2>1
  <2> QED
    BY <2>1, <2>2
<1> QED
  BY <1>1, LinkInvariance, PTL

\* Packets are numbered by sendPacket alone.
LEMMA OnlySendPacketNumbers ==
    ASSUME TypeOK, Next, NEW e \in End, peer'[e].generator # peer[e].generator
    PROVE  sendPacket(e)
<1>1. \A f \in End : \A size \in MessageSizes[f] :
        (sendReliable(f, size) \/ sendUnreliable(f, size)) => UNCHANGED peer
  BY DEF sendReliable, sendUnreliable
<1>2. \A f \in End : (resendTime(f) \/ updateReceiveEnds(f)) => UNCHANGED peer
  BY DEF resendTime, updateReceiveEnds
<1>3. \A f \in End : sendPacket(f) => f = e
  BY DEF sendPacket, TypeOK
<1>4. ASSUME NEW f \in End, NEW p \in net, onReceivePacket(f, p)
      PROVE  peer'[e].generator = peer[e].generator
  <2>1. p.seq \in SequenceNumber /\ peer[f] \in PacketPeerType
    BY DEF TypeOK
  <2>2. /\ RecordReceivedPacket(peer[f], p.seq) \in PacketPeerType
        /\ RecordReceivedPacket(peer[f], p.seq).generator = peer[f].generator
    BY <2>1, RecordReceivedPacketFacts
  <2> QED
    BY <1>4, <2>2, MarkAckedFacts DEF onReceivePacket, TypeOK
<1> QED
  BY <1>1, <1>2, <1>3, <1>4 DEF Next

\* The loop of updateSend over the packets of a connection ends only when no
\* message is due and no unreliable one is left.
THEOREM LoopEndsDrained == Spec => SendLoopDrains
<1> DEFINE Drained ==
        \A e \in End :
            peer'[e].generator # peer[e].generator /\ phase'[e] = "app" =>
                /\ \A m \in chan'[e].reliable : ~ m.due
                /\ chan'[e].unreliable = {}
<1>1. LinkInv /\ LinkInv' /\ [Next]_vars => [Drained]_vars
  <2> SUFFICES ASSUME LinkInv, LinkInv', Next, NEW e \in End,
                      peer'[e].generator # peer[e].generator, phase'[e] = "app"
               PROVE  /\ \A m \in chan'[e].reliable : ~ m.due
                      /\ chan'[e].unreliable = {}
    BY DEF vars
  <2>1. TypeOK
    BY DEF LinkInv
  <2>2. sendPacket(e)
    BY <2>1, OnlySendPacketNumbers
  <2>3. /\ chan[e] \in ChannelPeerType
        /\ HasDataToSend(chan[e])
        /\ chan'[e] = AfterWrite(chan[e], peer[e].generator)
        /\ phase'[e] = IF HasDataToSend(AfterWrite(chan[e], peer[e].generator))
                       THEN "send" ELSE "app"
    BY <2>1, <2>2 DEF sendPacket, TypeOK
  <2> QED
    BY <2>3, AfterWriteDrains
<1>2. Spec => [][Next]_vars
  BY DEF Spec
<1>3. Spec => [][Drained]_vars
  BY <1>1, <1>2, LinkInvariance, PTL
<1> QED
  BY <1>3 DEF SendLoopDrains

-----------------------------------------------------------------------------
(***************************************************************************)
(* What fits a packet.  Sized is kept by each operation of the channels;   *)
(* the bytes of a packet then stay among the fillings of its sender.       *)
(***************************************************************************)

\* The application sends one of its sizes.
LEMMA SendKeepsSized ==
    ASSUME NEW c \in ChannelPeerType, NEW sizes, NEW sent \in Nat, Sized(c, sizes, sent),
           NEW size \in sizes
    PROVE  /\ Sized(SendReliable(c, size), sizes, sent)
           /\ Sized(SendUnreliable(c, sent, size), sizes, sent + 1)
<1> DEFINE m == [seq |-> c.generator, size |-> size, packet |-> 0, due |-> TRUE]
           u == [num |-> sent, size |-> size]
<1>1. /\ SendReliable(c, size).reliable = c.reliable \cup {m}
      /\ SendReliable(c, size).unreliable = c.unreliable
  BY DEF SendReliable, ChannelPeerType
<1>2. /\ SendUnreliable(c, sent, size).reliable = c.reliable
      /\ SendUnreliable(c, sent, size).unreliable = c.unreliable \cup {u}
  BY DEF SendUnreliable, ChannelPeerType
<1>3. m.size = size /\ u.size = size /\ u.num = sent
  OBVIOUS
<1>4. /\ IsFiniteSet(c.reliable \cup {m})
      /\ IsFiniteSet(c.unreliable \cup {u})
  BY FS_AddElement DEF Sized
<1>5. \A o \in c.unreliable : o.num \in Nat /\ o.num < sent
  BY DEF Sized, ChannelPeerType
<1> HIDE DEF m, u
<1>6. Sized(SendReliable(c, size), sizes, sent)
  BY <1>1, <1>3, <1>4 DEF Sized
<1>7. Sized(SendUnreliable(c, sent, size), sizes, sent + 1)
  <2>1. \A o \in c.unreliable \cup {u} : o.num < sent + 1
    BY <1>3, <1>5
  <2>2. \A o, q \in c.unreliable \cup {u} : o.num = q.num => o = q
    BY <1>3, <1>5 DEF Sized
  <2> QED
    BY <1>2, <1>3, <1>4, <2>1, <2>2 DEF Sized
<1> QED
  BY <1>6, <1>7

\* The passing of time changes no size.
LEMMA ResendTimeKeepsSized ==
    ASSUME NEW c \in ChannelPeerType, NEW sizes, NEW sent, Sized(c, sizes, sent), NEW n
    PROVE  Sized(AfterResendTime(c, n), sizes, sent)
<1> DEFINE timed == {[m EXCEPT !.due = @ \/ m.packet <= n] : m \in c.reliable}
           f     == [m \in c.reliable |-> [m EXCEPT !.due = @ \/ m.packet <= n]]
<1>1. /\ AfterResendTime(c, n).reliable = timed
      /\ AfterResendTime(c, n).unreliable = c.unreliable
  BY DEF AfterResendTime, ChannelPeerType
<1>2. f \in [c.reliable -> timed] /\ \A t \in timed : \E s \in c.reliable : f[s] = t
  OBVIOUS
<1>3. \A t \in timed : t.size \in sizes
  <2> SUFFICES ASSUME NEW m \in c.reliable
               PROVE  [m EXCEPT !.due = @ \/ m.packet <= n].size \in sizes
    OBVIOUS
  <2>1. m \in ReliableEntry /\ m.size \in sizes
    BY DEF ChannelPeerType, Sized
  <2> QED
    BY <2>1 DEF ReliableEntry
<1>4. IsFiniteSet(timed)
  <2> HIDE DEF timed, f
  <2> QED
    BY <1>2, FiniteImage DEF Sized
<1> HIDE DEF timed
<1> QED
  BY <1>1, <1>3, <1>4 DEF Sized

\* Nor does filing messages under a packet.
LEMMA WriteKeepsSized ==
    ASSUME NEW c \in ChannelPeerType, NEW sizes, NEW sent, Sized(c, sizes, sent), NEW n
    PROVE  Sized(AfterWrite(c, n), sizes, sent)
<1> DEFINE Filed(m) == IF m \in Taken(c) THEN [m EXCEPT !.packet = n, !.due = FALSE] ELSE m
           filed    == {Filed(m) : m \in c.reliable}
           f        == [m \in c.reliable |-> Filed(m)]
<1>1. /\ AfterWrite(c, n).reliable = filed
      /\ AfterWrite(c, n).unreliable = c.unreliable \ LooseTaken(c)
  BY DEF AfterWrite, FiledUnder, ChannelPeerType
<1>2. f \in [c.reliable -> filed] /\ \A t \in filed : \E s \in c.reliable : f[s] = t
  OBVIOUS
<1>3. \A t \in filed : t.size \in sizes
  <2> SUFFICES ASSUME NEW m \in c.reliable PROVE Filed(m).size \in sizes
    OBVIOUS
  <2>1. m \in ReliableEntry /\ m.size \in sizes
    BY DEF ChannelPeerType, Sized
  <2> QED
    BY <2>1 DEF ReliableEntry
<1>4. IsFiniteSet(filed)
  <2> HIDE DEF filed, f
  <2> QED
    BY <1>2, FiniteImage DEF Sized
<1>5. IsFiniteSet(c.unreliable \ LooseTaken(c))
  BY FS_Subset DEF Sized
<1> HIDE DEF filed
<1> QED
  BY <1>1, <1>3, <1>4, <1>5 DEF Sized

\* Acks drop messages, delivery changes none.
LEMMA ReceivingKeepsSized ==
    ASSUME NEW c \in ChannelPeerType, NEW sizes, NEW sent, Sized(c, sizes, sent),
           NEW reliable, NEW unreliable \in SUBSET Nat, NEW acks
    PROVE  /\ Sized(AfterAcks(AfterRead(c, reliable, unreliable), acks), sizes, sent)
           /\ Sized(AfterDeliver(c), sizes, sent)
<1> DEFINE r == AfterRead(c, reliable, unreliable)
           d == AfterAcks(r, acks)
<1>1. d.reliable \subseteq c.reliable /\ d.unreliable = c.unreliable
  <2>1. /\ AfterMessages(c, reliable) \in ChannelPeerType
        /\ SendingSide(AfterMessages(c, reliable)) = SendingSide(c)
    BY AfterMessagesFacts
  <2> QED
    BY <2>1 DEF SendingSide, AfterRead, AfterAcks, ChannelPeerType
<1>2. AfterDeliver(c).reliable = c.reliable /\ AfterDeliver(c).unreliable = c.unreliable
  BY DEF AfterDeliver, ChannelPeerType
<1>3. IsFiniteSet(d.reliable)
  BY <1>1, FS_Subset DEF Sized
<1> HIDE DEF d
<1> QED
  BY <1>1, <1>2, <1>3 DEF d, Sized

\* Only what the application sends waits to be sent.
THEOREM StepSizesInv ==
    LinkInv /\ SizesInv /\ [Next]_vars => SizesInv'
<1> SUFFICES ASSUME LinkInv, SizesInv, [Next]_vars, NEW f \in End
             PROVE  Sized(chan[f], MessageSizes[f], loose[f])'
  BY DEF SizesInv
<1>1. /\ chan \in [End -> ChannelPeerType] /\ loose \in [End -> Nat]
      /\ \A e \in End : chan[e] \in ChannelPeerType /\ loose[e] \in Nat
      /\ \A e \in End : Sized(chan[e], MessageSizes[e], loose[e])
  BY DEF LinkInv, TypeOK, SizesInv
<1> SUFFICES ASSUME NEW d, NEW n, chan'[f] = d, loose'[f] = n
             PROVE  Sized(d, MessageSizes[f], n)
  OBVIOUS
<1>2. CASE chan'[f] = chan[f] /\ loose'[f] = loose[f]
  BY <1>1, <1>2
<1>3. ASSUME NEW e \in End, NEW size \in MessageSizes[e], sendReliable(e, size)
      PROVE  Sized(d, MessageSizes[f], n)
  <2>1. /\ chan'[f] = IF f = e THEN SendReliable(chan[f], size) ELSE chan[f]
        /\ loose' = loose
    BY <1>1, <1>3 DEF sendReliable
  <2> QED
    BY <1>1, <1>2, <2>1, SendKeepsSized
<1>4. ASSUME NEW e \in End, NEW size \in MessageSizes[e], sendUnreliable(e, size)
      PROVE  Sized(d, MessageSizes[f], n)
  <2>1. /\ chan'[f] = IF f = e THEN SendUnreliable(chan[f], loose[f], size) ELSE chan[f]
        /\ loose'[f] = IF f = e THEN loose[f] + 1 ELSE loose[f]
    BY <1>1, <1>4 DEF sendUnreliable
  <2> QED
    BY <1>1, <1>2, <2>1, SendKeepsSized
<1>5. ASSUME NEW e \in End, resendTime(e)
      PROVE  Sized(d, MessageSizes[f], n)
  <2>1. PICK k : /\ chan'[f] = IF f = e THEN AfterResendTime(chan[f], k) ELSE chan[f]
                 /\ loose' = loose
    BY <1>1, <1>5 DEF resendTime
  <2> QED
    BY <1>1, <1>2, <2>1, ResendTimeKeepsSized
<1>6. ASSUME NEW e \in End, sendPacket(e)
      PROVE  Sized(d, MessageSizes[f], n)
  <2>1. PICK k : /\ chan'[f] = IF f = e THEN AfterWrite(chan[f], k) ELSE chan[f]
                 /\ loose' = loose
    BY <1>1, <1>6 DEF sendPacket
  <2> QED
    BY <1>1, <1>2, <2>1, WriteKeepsSized
<1>7. ASSUME NEW e \in End, NEW p \in net, onReceivePacket(e, p)
      PROVE  Sized(d, MessageSizes[f], n)
  <2>1. PICK acks :
            /\ chan'[f] = IF f = e THEN AfterAcks(AfterRead(chan[f], p.reliable, p.unreliable), acks)
                                   ELSE chan[f]
            /\ loose' = loose
    BY <1>1, <1>7 DEF onReceivePacket
  <2>2. p.unreliable \in SUBSET Nat
    BY DEF LinkInv, TypeOK
  <2> QED
    BY <1>1, <1>2, <2>1, <2>2, ReceivingKeepsSized
<1>8. ASSUME NEW e \in End, updateReceiveEnds(e)
      PROVE  Sized(d, MessageSizes[f], n)
  <2>1. /\ chan'[f] = IF f = e THEN AfterDeliver(chan[f]) ELSE chan[f]
        /\ loose' = loose
    BY <1>1, <1>8 DEF updateReceiveEnds
  <2> QED
    BY <1>1, <1>2, <2>1, ReceivingKeepsSized
<1>9. CASE UNCHANGED vars
  BY <1>2, <1>9 DEF vars
<1> QED
  BY <1>3, <1>4, <1>5, <1>6, <1>7, <1>8, <1>9 DEF Next

\* Nothing waits at the start.
LEMMA StartSizesInv ==
    ASSUME \A e \in End : chan[e].reliable = {} /\ chan[e].unreliable = {}
    PROVE  SizesInv
BY FS_EmptySet DEF SizesInv, Sized

\* The packets sent stay within the limit.
LEMMA StepWithinLimit ==
    ASSUME LinkInv, SizesInv, PacketWithinLimit, [Next]_vars,
           \A e \in End : NeverNearlyFull(e)
    PROVE  PacketWithinLimit'
<1>1. ASSUME NEW e \in End, sendPacket(e), NEW p \in net' \ net
      PROVE  p.size <= MAX_PACKET_SIZE_BYTES
  <2> DEFINE c == chan[e]
  <2>1. p.size = PacketSize(c)
    BY <1>1 DEF sendPacket
  <2>2. /\ c \in ChannelPeerType /\ Sized(c, MessageSizes[e], loose[e])
        /\ \A m, o \in c.reliable : m.seq = o.seq => m = o
        /\ MessageSizes[e] \in SUBSET Nat
    BY BoundsAssumption DEF LinkInv, TypeOK, SizesInv, NumbersAccepted
  <2>3. PICK fill \in SUBSET (0 .. MaxMessageSizeBytes) : Fillings(e, fill)
    BY DEF NeverNearlyFull
  <2> HIDE DEF c
  <2>4. PacketSize(c) \in fill
    BY <2>2, <2>3, PacketSizeBound DEF Sized, Fillings
  <2> QED
    <3>1. PacketSize(c) \in 0 .. MaxMessageSizeBytes
      BY <2>3, <2>4
    <3>2. MaxMessageSizeBytes \in Int /\ MaxMessageSizeBytes <= MAX_PACKET_SIZE_BYTES
      BY SizesAssumption DEF MaxMessageSizeBytes
    <3> QED
      BY <2>1, <3>1, <3>2, SizesAssumption
<1>2. net' = net \/ \E e \in End : sendPacket(e)
  BY DEF Next, vars, sendReliable, sendUnreliable, resendTime, onReceivePacket, updateReceiveEnds
<1> QED
  BY <1>1, <1>2 DEF PacketWithinLimit

\* As long as no combination of the sizes sent fills a packet to within the
\* header of a message, no datagram is larger than MAX_PACKET_SIZE_BYTES,
\* however messages are combined in it.
THEOREM DatagramsWithinLimit ==
    ASSUME \A e \in End : NeverNearlyFull(e)
    PROVE  Spec => []PacketWithinLimit
<1>1. Init => SizesInv /\ PacketWithinLimit
  BY StartSizesInv DEF Init, NewChannelPeer, PacketWithinLimit
<1>2. LinkInv /\ SizesInv /\ PacketWithinLimit /\ [Next]_vars => SizesInv' /\ PacketWithinLimit'
  BY StepSizesInv, StepWithinLimit
<1> QED
  BY <1>1, <1>2, LinkInvariance, PTL DEF Spec

\* A packet after which there is still data to send has taken a message.
LEMMA StepProgress ==
    ASSUME LinkInv, SizesInv, Next, EachFitsAlone, NEW e \in End,
           peer'[e].generator # peer[e].generator, phase'[e] = "send"
    PROVE  \E p \in net' \ net : p.reliable # {} \/ p.unreliable # {}
<1>1. sendPacket(e)
  BY OnlySendPacketNumbers DEF LinkInv
<1> DEFINE c == chan[e]
           new == [from       |-> e,
                   seq        |-> peer[e].generator,
                   ack        |-> peer[e].newest,
                   ackBits    |-> GenerateAckBits(peer[e]),
                   reliable   |-> WrittenReliable(c),
                   unreliable |-> WrittenUnreliable(c),
                   size       |-> PacketSize(c)]
<1>2. /\ c \in ChannelPeerType /\ Sized(c, MessageSizes[e], loose[e])
      /\ \A m, o \in c.reliable : m.seq = o.seq => m = o
      /\ HasDataToSend(AfterWrite(c, peer[e].generator))
      /\ net' = net \cup {new}
  BY <1>1 DEF LinkInv, TypeOK, SizesInv, NumbersAccepted, sendPacket
<1>3. new \notin net
  <2>1. /\ new.from = e /\ new.seq = peer[e].generator
    OBVIOUS
  <2>2. \A p \in net : p.from \in End /\ p.seq < peer[p.from].generator
    BY DEF LinkInv, TypeOK, HeaderTrue
  <2>3. peer[e].generator \in Nat
    BY SeqCycleAssumption DEF LinkInv, TypeOK, PacketPeerType, SequenceNumber
  <2> HIDE DEF new
  <2> QED
    BY <2>1, <2>2, <2>3
<1>4. \A m \in c.reliable \cup c.unreliable : PacketHeaderSizeBytes + m.size <= MaxMessageSizeBytes
  <2> SUFFICES ASSUME NEW m \in c.reliable \cup c.unreliable
               PROVE  PacketHeaderSizeBytes + m.size <= MaxMessageSizeBytes
    OBVIOUS
  <2>1. m.size \in MessageSizes[e]
    BY <1>2 DEF Sized
  <2>2. m.size \in 0 .. MaxMessageSizeBytes
    BY <1>2 DEF ChannelPeerType, ReliableEntry
  <2> QED
    BY <2>1, <2>2 DEF EachFitsAlone, SizeAccepted
<1>5. WrittenReliable(c) # {} \/ WrittenUnreliable(c) # {}
  <2> HIDE DEF c
  <2> QED
    BY <1>2, <1>4, PacketTakesMessage DEF Sized
<1> QED
  BY <1>2, <1>3, <1>5

\* If every message fits a packet of its own, updateSend's loop over the packets
\* of a connection never goes on without having got somewhere.
THEOREM LoopMakesProgress ==
    ASSUME EachFitsAlone
    PROVE  Spec => SendLoopProgress
<1> DEFINE Progress ==
        \A e \in End :
            peer'[e].generator # peer[e].generator /\ phase'[e] = "send" =>
                \E p \in net' \ net : p.reliable # {} \/ p.unreliable # {}
<1>1. Init => SizesInv
  BY StartSizesInv DEF Init, NewChannelPeer
<1>2. LinkInv /\ SizesInv /\ [Next]_vars => SizesInv'
  BY StepSizesInv
<1>3. LinkInv /\ SizesInv /\ [Next]_vars => [Progress]_vars
  <2> SUFFICES ASSUME LinkInv, SizesInv, Next PROVE Progress
    OBVIOUS
  <2> QED
    BY StepProgress
<1>4. Spec => [][Progress]_vars
  BY <1>1, <1>2, <1>3, LinkInvariance, PTL DEF Spec
<1> QED
  BY <1>4 DEF SendLoopProgress

=============================================================================
