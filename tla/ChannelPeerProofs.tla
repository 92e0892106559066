-------------------------- MODULE ChannelPeerProofs --------------------------
(***************************************************************************)
(* What the operations of the two channels do, field by field, for the     *)
(* proofs about the modules that compose them.  The messages of a packet   *)
(* are handed over one after the other, which takes an induction over      *)
(* their numbers; what they add up to takes one over finite sets.          *)
(***************************************************************************)
EXTENDS ChannelPeer, PacketPeerProofs, SequenceTheorems

-----------------------------------------------------------------------------
(***************************************************************************)
(* Finite sets.                                                            *)
(***************************************************************************)

\* What holds of a finite set if it holds of its proper subsets holds of it.
LEMMA FiniteInduction ==
    ASSUME NEW S, IsFiniteSet(S), NEW T,
           \A s \in SUBSET S : (\A u \in SUBSET s : u # s => u \in T) => s \in T
    PROVE  S \in T
<1> DEFINE R == (SUBSET S) \ T
<1> SUFFICES ASSUME S \notin T PROVE FALSE
  OBVIOUS
<1>1. R \subseteq FiniteSubsetsOf(S)
  <2>1. \A s \in SUBSET S : IsFiniteSet(s)
    BY FS_Subset
  <2> QED
    BY <2>1 DEF FiniteSubsetsOf
<1>2. R # {}
  OBVIOUS
<1>3. IsWellFoundedOn(StrictSubsetOrdering(S), FiniteSubsetsOf(S))
  BY FS_StrictSubsetOrderingWellFounded
<1>4. PICK s \in R : \A u \in R : <<u, s>> \notin StrictSubsetOrdering(S)
  <2> HIDE DEF R
  <2> QED
    BY <1>1, <1>2, <1>3, WFMin
<1>5. \A u \in SUBSET s : u # s => u \in T
  <2> SUFFICES ASSUME NEW u \in SUBSET s, u # s, u \notin T PROVE FALSE
    OBVIOUS
  <2>1. u \in R /\ <<u, s>> \in StrictSubsetOrdering(S)
    BY DEF StrictSubsetOrdering
  <2> QED
    BY <2>1, <1>4
<1> QED
  BY <1>5

\* What is indexed by a finite set is finite.
LEMMA FiniteImage ==
    ASSUME NEW S, IsFiniteSet(S), NEW T, NEW f \in [S -> T],
           \A t \in T : \E s \in S : f[s] = t
    PROVE  IsFiniteSet(T)
BY FS_Surjection DEF Surjection

-----------------------------------------------------------------------------
(***************************************************************************)
(* Receiving reliable messages.                                            *)
(***************************************************************************)

\* The loop over m_messagesToStore stops at the first number missing.
LEMMA LastOfRunFacts ==
    ASSUME NEW stored \in SUBSET SequenceNumber, NEW s \in SequenceNumber
    PROVE  LET k == LastOfRun(stored, s)
           IN  /\ k \in stored \cup {s}
               /\ k >= s
               /\ s + 1 .. k \subseteq stored
               /\ k + 1 \notin stored
<1> DEFINE Missing == {j \in s + 1 .. SeqCycle : j \notin stored}
<1> USE SeqCycleAssumption DEF SequenceNumber
<1>1. Missing \in SUBSET Nat /\ SeqCycle \in Missing
  OBVIOUS
<1>2. PICK m \in Missing : \A j \in Missing : m <= j
  <2> HIDE DEF Missing
  <2> QED
    BY <1>1, Least
<1>3. /\ m - 1 \in stored \cup {s}
      /\ m - 1 >= s
      /\ s + 1 .. m - 1 \subseteq stored
      /\ (m - 1) + 1 \notin stored
  BY <1>2
<1> QED
  BY <1>3 DEF LastOfRun

\* Between the first message handed over and the last, a channel keeps what
\* has nothing to do with receiving reliable messages.
SendingSide(c) ==
    <<c.generator, c.hasReliable, c.reliable, c.unreliable, c.looseToDeliver>>

\* Receiving a message keeps the types and leaves the sending side alone.
LEMMA OnMessageReceivedFacts ==
    ASSUME NEW c \in ChannelPeerType, NEW s \in SequenceNumber
    PROVE  /\ OnMessageReceived(c, s) \in ChannelPeerType
           /\ SendingSide(OnMessageReceived(c, s)) = SendingSide(c)
<1> DEFINE last == LastOfRun(c.stored, s)
           more == [i \in 1 .. last - s + 1 |-> s + i - 1]
<1>1. /\ c.stored \in SUBSET SequenceNumber
      /\ c.toDeliver \in Seq(SequenceNumber)
      /\ c.lastDelivered \in SequenceNumber
  BY DEF ChannelPeerType
<1>2. last \in SequenceNumber /\ last >= s
  BY <1>1, LastOfRunFacts
<1> HIDE DEF last
<1>3. c.toDeliver \o more \in Seq(SequenceNumber)
  <2>1. more \in Seq(SequenceNumber)
    <3>1. /\ last - s + 1 \in Nat
          /\ \A i \in 1 .. last - s + 1 : s + i - 1 \in SequenceNumber
      BY <1>2, SeqCycleAssumption DEF SequenceNumber
    <3>2. more \in [1 .. last - s + 1 -> SequenceNumber]
      BY <3>1
    <3> QED
      BY <3>1, <3>2, SeqDef
  <2> QED
    BY <1>1, <2>1, ConcatProperties
<1> HIDE DEF more
<1>4. OnMessageReceived(c, s) \in
        {c,
         [c EXCEPT !.stored = @ \cup {s}],
         [c EXCEPT !.lastDelivered = last,
                   !.toDeliver     = @ \o more,
                   !.stored        = {k \in @ : k > last}]}
  BY DEF OnMessageReceived, last, more
<1> QED
  BY <1>1, <1>2, <1>3, <1>4, ZenonT(60) DEF ChannelPeerType, SendingSide

\* AfterMessages goes through the messages in the order of their numbers.
LEMMA AfterMessagesSteps ==
    ASSUME NEW c, NEW messages
    PROVE  \E after :
            /\ after[0] = c
            /\ \A k \in 0 .. SeqCycle - 1 : after[k + 1] =
                    IF k \in messages THEN OnMessageReceived(after[k], k) ELSE after[k]
            /\ AfterMessages(c, messages) = after[SeqCycle]
<1> DEFINE Rec(n, f) ==
        f = [k \in 0 .. n |->
                IF k = 0 THEN c
                ELSE IF k - 1 \in messages THEN OnMessageReceived(f[k - 1], k - 1)
                ELSE f[k - 1]]
           T == {n \in 0 .. SeqCycle : \E f : Rec(n, f)}
           after == CHOOSE f : Rec(SeqCycle, f)
<1>1. SeqCycle \in Nat
  BY SeqCycleAssumption
<1>2. 0 \in T
  <2>1. Rec(0, [k \in 0 .. 0 |-> c])
    OBVIOUS
  <2> HIDE DEF Rec
  <2> QED
    BY <2>1, <1>1
<1>3. ASSUME NEW n \in 0 .. SeqCycle - 1, n \in T PROVE n + 1 \in T
  <2>1. PICK f : Rec(n, f)
    BY <1>3
  <2> DEFINE g == [k \in 0 .. n + 1 |->
                    IF k = n + 1
                    THEN IF n \in messages THEN OnMessageReceived(f[n], n) ELSE f[n]
                    ELSE f[k]]
  <2>2. \A k \in 0 .. n : g[k] = f[k]
    OBVIOUS
  <2>3. \A k \in 0 .. n + 1 : g[k] =
            IF k = 0 THEN c
            ELSE IF k - 1 \in messages THEN OnMessageReceived(g[k - 1], k - 1)
            ELSE g[k - 1]
    <3> SUFFICES ASSUME NEW k \in 0 .. n + 1
                 PROVE  g[k] = IF k = 0 THEN c
                               ELSE IF k - 1 \in messages
                               THEN OnMessageReceived(g[k - 1], k - 1)
                               ELSE g[k - 1]
      OBVIOUS
    <3>1. CASE k = n + 1
      BY <3>1, <2>2
    <3>2. CASE k \in 0 .. n
      BY <3>2, <2>1, <2>2
    <3> QED
      BY <3>1, <3>2
  <2>4. Rec(n + 1, g)
    <3>1. g = [k \in 0 .. n + 1 |-> g[k]]
      OBVIOUS
    <3> HIDE DEF g
    <3> QED
      BY <2>3, <3>1
  <2> HIDE DEF Rec
  <2> QED
    BY <2>4, <1>1
<1>4. SeqCycle \in T
  <2> HIDE DEF T
  <2> QED
    BY <1>1, <1>2, <1>3, SetInduction
<1>5. Rec(SeqCycle, after)
  BY <1>4
<1>6. AfterMessages(c, messages) = after[SeqCycle]
  BY DEF AfterMessages
<1>7. /\ after[0] = c
      /\ \A k \in 0 .. SeqCycle - 1 : after[k + 1] =
            IF k \in messages THEN OnMessageReceived(after[k], k) ELSE after[k]
  <2> HIDE DEF after
  <2>1. \A k \in 0 .. SeqCycle : after[k] =
            IF k = 0 THEN c
            ELSE IF k - 1 \in messages THEN OnMessageReceived(after[k - 1], k - 1)
            ELSE after[k - 1]
    BY <1>5
  <2> QED
    BY <2>1, <1>1
<1> QED
  BY <1>6, <1>7

\* So does receiving those of a packet, one after the other.
LEMMA AfterMessagesFacts ==
    ASSUME NEW c \in ChannelPeerType, NEW messages
    PROVE  /\ AfterMessages(c, messages) \in ChannelPeerType
           /\ SendingSide(AfterMessages(c, messages)) = SendingSide(c)
<1>1. PICK after :
        /\ after[0] = c
        /\ \A k \in 0 .. SeqCycle - 1 : after[k + 1] =
                IF k \in messages THEN OnMessageReceived(after[k], k) ELSE after[k]
        /\ AfterMessages(c, messages) = after[SeqCycle]
  BY AfterMessagesSteps
<1> DEFINE T == {k \in 0 .. SeqCycle :
                    /\ after[k] \in ChannelPeerType
                    /\ SendingSide(after[k]) = SendingSide(c)}
<1>2. 0 \in T
  BY <1>1, SeqCycleAssumption
<1>3. ASSUME NEW k \in 0 .. SeqCycle - 1, k \in T PROVE k + 1 \in T
  <2>1. k \in SequenceNumber
    BY DEF SequenceNumber
  <2>2. /\ OnMessageReceived(after[k], k) \in ChannelPeerType
        /\ SendingSide(OnMessageReceived(after[k], k)) = SendingSide(after[k])
    BY <1>3, <2>1, OnMessageReceivedFacts
  <2>3. /\ after[k + 1] \in ChannelPeerType
        /\ SendingSide(after[k + 1]) = SendingSide(c)
    BY <1>1, <1>3, <2>2
  <2> QED
    BY <2>3, SeqCycleAssumption
<1>4. SeqCycle \in T
  <2> HIDE DEF T
  <2> QED
    BY <1>2, <1>3, SetInduction, SeqCycleAssumption
<1> QED
  BY <1>1, <1>4

\* onReadPacket and onPacketAcked: what was written in an acknowledged packet
\* is dropped, and nothing else changes on the sending side.
LEMMA AfterReadAndAcksFacts ==
    ASSUME NEW c \in ChannelPeerType, NEW reliable, NEW unreliable \in SUBSET Nat, NEW acks
    PROVE  LET r == AfterMessages(c, reliable)
               d == AfterAcks(AfterRead(c, reliable, unreliable), acks)
           IN  /\ r \in ChannelPeerType
               /\ d \in ChannelPeerType
               /\ d.generator = c.generator
               /\ d.reliable = {m \in c.reliable : m.packet \notin acks}
               /\ d.toDeliver = r.toDeliver
               /\ d.lastDelivered = r.lastDelivered
               /\ d.stored = r.stored
<1>1. /\ AfterMessages(c, reliable) \in ChannelPeerType
      /\ SendingSide(AfterMessages(c, reliable)) = SendingSide(c)
  BY AfterMessagesFacts
<1>2. /\ AfterMessages(c, reliable).generator = c.generator
      /\ AfterMessages(c, reliable).reliable = c.reliable
  BY <1>1 DEF SendingSide
<1> QED
  BY <1>1, <1>2 DEF AfterRead, AfterAcks, ChannelPeerType

\* Handing the messages over empties m_messagesToDeliver and nothing else.
LEMMA AfterDeliverFacts ==
    ASSUME NEW c \in ChannelPeerType
    PROVE  LET d == AfterDeliver(c)
           IN  /\ d \in ChannelPeerType
               /\ d.generator = c.generator
               /\ d.reliable = c.reliable
               /\ d.toDeliver = <<>>
               /\ d.lastDelivered = c.lastDelivered
               /\ d.stored = c.stored
<1>1. <<>> \in Seq(SequenceNumber)
  OBVIOUS
<1> QED
  BY <1>1 DEF AfterDeliver, ChannelPeerType

-----------------------------------------------------------------------------
(***************************************************************************)
(* Sending.                                                                *)
(***************************************************************************)
LEMMA NewChannelPeerFacts == NewChannelPeer \in ChannelPeerType
<1>1. <<>> \in Seq(SequenceNumber)
  OBVIOUS
<1> QED
  BY <1>1, SeqCycleAssumption
     DEF NewChannelPeer, ChannelPeerType, SequenceNumber, MAX_SEQUENCE_NUMBER

\* The part of a channel that receives.
ReceivingSide(c) == <<c.toDeliver, c.lastDelivered, c.stored>>

\* A message gets the next number and is not filed under a packet yet.
LEMMA SendReliableFacts ==
    ASSUME NEW c \in ChannelPeerType, NEW size \in Nat, SizeAccepted(size)
    PROVE  LET d == SendReliable(c, size)
           IN  /\ d \in ChannelPeerType
               /\ d.generator = SeqIncrement(c.generator)
               /\ \E m \in ReliableEntry :
                    m.seq = c.generator /\ d.reliable = c.reliable \cup {m}
               /\ ReceivingSide(d) = ReceivingSide(c)
<1> DEFINE m == [seq |-> c.generator, size |-> size, packet |-> 0, due |-> TRUE]
<1>1. c.generator \in SequenceNumber /\ c.reliable \in SUBSET ReliableEntry
  BY DEF ChannelPeerType
<1>2. SeqIncrement(c.generator) \in SequenceNumber /\ 0 \in SequenceNumber
  BY <1>1, SeqCycleAssumption DEF SequenceNumber, SeqIncrement, MAX_SEQUENCE_NUMBER
<1>3. m \in ReliableEntry /\ m.seq = c.generator
  BY <1>1, <1>2, SizesAssumption DEF ReliableEntry, SizeAccepted, MaxMessageSizeBytes
<1>4. /\ SendReliable(c, size) =
            [c EXCEPT !.generator   = SeqIncrement(@),
                      !.hasReliable = TRUE,
                      !.reliable    = @ \cup {m}]
  BY DEF SendReliable
<1>5. c.reliable \cup {m} \in SUBSET ReliableEntry
  BY <1>1, <1>3
<1> HIDE DEF m
<1>6. /\ SendReliable(c, size) \in ChannelPeerType
      /\ SendReliable(c, size).generator = SeqIncrement(c.generator)
      /\ SendReliable(c, size).reliable = c.reliable \cup {m}
      /\ ReceivingSide(SendReliable(c, size)) = ReceivingSide(c)
  BY <1>2, <1>4, <1>5 DEF ChannelPeerType, ReceivingSide
<1> QED
  BY <1>3, <1>6

\* Unreliable messages leave the reliable ones alone.
LEMMA SendUnreliableFacts ==
    ASSUME NEW c \in ChannelPeerType, NEW n \in Nat, NEW size \in Nat, SizeAccepted(size)
    PROVE  LET d == SendUnreliable(c, n, size)
           IN  /\ d \in ChannelPeerType
               /\ d.generator = c.generator
               /\ d.reliable = c.reliable
               /\ ReceivingSide(d) = ReceivingSide(c)
<1>1. size \in 0 .. MaxMessageSizeBytes
  BY SizesAssumption DEF SizeAccepted, MaxMessageSizeBytes
<1> QED
  BY <1>1 DEF SendUnreliable, ChannelPeerType, ReceivingSide

\* Writing a packet changes neither the numbers of the messages kept nor,
\* except for those it takes, what they are filed under.
LEMMA AfterWriteFacts ==
    ASSUME NEW c \in ChannelPeerType, NEW n \in SequenceNumber
    PROVE  LET d == AfterWrite(c, n)
           IN  /\ d \in ChannelPeerType
               /\ d.generator = c.generator
               /\ ReceivingSide(d) = ReceivingSide(c)
               /\ \A m \in c.reliable :
                    LET o == IF m \in Taken(c)
                             THEN [m EXCEPT !.packet = n, !.due = FALSE]
                             ELSE m
                    IN  o \in d.reliable /\ o.seq = m.seq
               /\ \A o \in d.reliable : \E m \in c.reliable :
                    /\ o.seq = m.seq
                    /\ o = IF m \in Taken(c)
                           THEN [m EXCEPT !.packet = n, !.due = FALSE]
                           ELSE m
<1> DEFINE Filed(m) == IF m \in Taken(c)
                       THEN [m EXCEPT !.packet = n, !.due = FALSE]
                       ELSE m
<1>1. FiledUnder(c, n) = {Filed(m) : m \in c.reliable}
  BY DEF FiledUnder
<1>2. \A m \in c.reliable : Filed(m) \in ReliableEntry /\ Filed(m).seq = m.seq
  BY DEF ChannelPeerType, ReliableEntry
<1>3. FiledUnder(c, n) \in SUBSET ReliableEntry
  BY <1>1, <1>2
<1>4. /\ AfterWrite(c, n) \in ChannelPeerType
      /\ AfterWrite(c, n).generator = c.generator
      /\ AfterWrite(c, n).reliable = FiledUnder(c, n)
      /\ ReceivingSide(AfterWrite(c, n)) = ReceivingSide(c)
  BY <1>3 DEF AfterWrite, ChannelPeerType, ReceivingSide
<1> HIDE DEF Filed
<1>5. /\ \A m \in c.reliable : Filed(m) \in AfterWrite(c, n).reliable /\ Filed(m).seq = m.seq
      /\ \A o \in AfterWrite(c, n).reliable : \E m \in c.reliable :
            o.seq = m.seq /\ o = Filed(m)
  BY <1>1, <1>2, <1>4
<1> QED
  BY <1>4, <1>5 DEF Filed

\* The passing of the resend time makes messages due and changes no other part.
LEMMA AfterResendTimeFacts ==
    ASSUME NEW c \in ChannelPeerType, NEW n
    PROVE  LET d == AfterResendTime(c, n)
           IN  /\ d \in ChannelPeerType
               /\ d.generator = c.generator
               /\ ReceivingSide(d) = ReceivingSide(c)
               /\ \A m \in c.reliable : \E o \in d.reliable :
                    o.seq = m.seq /\ o.packet = m.packet
               /\ \A o \in d.reliable : \E m \in c.reliable :
                    o = [m EXCEPT !.due = @ \/ m.packet <= n]
<1> DEFINE Timed(m) == [m EXCEPT !.due = @ \/ m.packet <= n]
           timed    == {Timed(m) : m \in c.reliable}
<1>1. \A m \in c.reliable :
        /\ Timed(m) \in ReliableEntry
        /\ Timed(m).seq = m.seq /\ Timed(m).packet = m.packet
  BY DEF ChannelPeerType, ReliableEntry
<1>2. timed \in SUBSET ReliableEntry
  BY <1>1
<1>3. AfterResendTime(c, n) = [c EXCEPT !.reliable = timed]
  BY DEF AfterResendTime
<1>4. /\ AfterResendTime(c, n) \in ChannelPeerType
      /\ AfterResendTime(c, n).generator = c.generator
      /\ AfterResendTime(c, n).reliable = timed
      /\ ReceivingSide(AfterResendTime(c, n)) = ReceivingSide(c)
  <2> HIDE DEF timed
  <2> QED
    BY <1>2, <1>3 DEF ChannelPeerType, ReceivingSide
<1> HIDE DEF Timed
<1>5. /\ \A m \in c.reliable : \E o \in AfterResendTime(c, n).reliable :
            o.seq = m.seq /\ o.packet = m.packet
      /\ \A o \in AfterResendTime(c, n).reliable : \E m \in c.reliable : o = Timed(m)
  BY <1>1, <1>4
<1> QED
  BY <1>4, <1>5 DEF Timed

\* A packet that reaches the end of the reliable messages has taken every one
\* that was due; one that does not takes no unreliable message and leaves the
\* flag, so there is still data to send.
LEMMA AfterWriteDrains ==
    ASSUME NEW c \in ChannelPeerType, NEW n, HasDataToSend(c),
           ~ HasDataToSend(AfterWrite(c, n))
    PROVE  /\ \A m \in AfterWrite(c, n).reliable : ~ m.due
           /\ AfterWrite(c, n).unreliable = {}
<1>1. /\ AfterWrite(c, n).reliable = FiledUnder(c, n)
      /\ AfterWrite(c, n).unreliable = c.unreliable \ LooseTaken(c)
      /\ AfterWrite(c, n).hasReliable = IF ReachesEnd(c) THEN FALSE ELSE c.hasReliable
  BY DEF AfterWrite, ChannelPeerType
<1>2. ReachesEnd(c)
  BY <1>1 DEF HasDataToSend, LooseTaken
<1>3. \A m \in c.reliable : m.due => m \in Taken(c)
  BY <1>2 DEF ReachesEnd, Taken
<1>4. \A o \in FiledUnder(c, n) : ~ o.due
  <2> SUFFICES ASSUME NEW m \in c.reliable
               PROVE  ~ (IF m \in Taken(c)
                         THEN [m EXCEPT !.packet = n, !.due = FALSE]
                         ELSE m).due
    BY DEF FiledUnder
  <2>1. m \in ReliableEntry
    BY DEF ChannelPeerType
  <2> QED
    BY <2>1, <1>3 DEF ReliableEntry
<1> QED
  BY <1>1, <1>4 DEF HasDataToSend

-----------------------------------------------------------------------------
(***************************************************************************)
(* What a packet holds.  The bytes of some messages are a sum over a       *)
(* finite set, which does not depend on the order in which it is taken.    *)
(***************************************************************************)
Weight(m) == MessageHeaderSizeBytes + m.size

FirstOf(s) == CHOOSE m \in s : TRUE

\* sum gives the bytes of each part of S.
Sums(S, sum) ==
    sum = [s \in SUBSET S |->
            IF s = {} THEN 0 ELSE Weight(FirstOf(s)) + sum[s \ {FirstOf(s)}]]

\* Bytes is such a sum.
LEMMA BytesDef ==
    ASSUME NEW S
    PROVE  Bytes(S) = (CHOOSE sum : Sums(S, sum))[S]
BY DEF Bytes, MapThenSumSet, MapThenFoldSet, Sums, Weight, FirstOf

\* A part of two sets has one sum.
LEMMA SumsEqual ==
    ASSUME NEW S, IsFiniteSet(S), NEW A, NEW B, S \subseteq A, S \subseteq B,
           NEW f, NEW g, Sums(A, f), Sums(B, g)
    PROVE  f[S] = g[S]
<1> DEFINE T == {s \in SUBSET S : f[s] = g[s]}
<1>1. ASSUME NEW s \in SUBSET S, \A u \in SUBSET s : u # s => u \in T
      PROVE  s \in T
  <2>1. CASE s = {}
    BY <2>1 DEF Sums
  <2>2. CASE s # {}
    <3>1. FirstOf(s) \in s
      BY <2>2 DEF FirstOf
    <3>2. f[s \ {FirstOf(s)}] = g[s \ {FirstOf(s)}]
      BY <1>1, <3>1
    <3>3. /\ f[s] = Weight(FirstOf(s)) + f[s \ {FirstOf(s)}]
          /\ g[s] = Weight(FirstOf(s)) + g[s \ {FirstOf(s)}]
      BY <2>2 DEF Sums
    <3> QED
      BY <3>2, <3>3
  <2> QED
    BY <2>1, <2>2
<1>2. S \in T
  <2> HIDE DEF T
  <2> QED
    BY <1>1, FiniteInduction
<1> QED
  BY <1>2

\* A finite set has one.
LEMMA SumsExist ==
    ASSUME NEW S, IsFiniteSet(S)
    PROVE  \E sum : Sums(S, sum)
<1> DEFINE T == {s \in SUBSET S : \E sum : Sums(s, sum)}
<1>1. ASSUME NEW s \in SUBSET S, \A u \in SUBSET s : u # s => u \in T
      PROVE  s \in T
  <2> DEFINE F(u) == CHOOSE sum : Sums(u, sum)
             g    == [u \in SUBSET s |->
                        IF u = {} THEN 0
                        ELSE Weight(FirstOf(u)) + F(u \ {FirstOf(u)})[u \ {FirstOf(u)}]]
  <2>1. \A u \in SUBSET s : u # s => Sums(u, F(u))
    BY <1>1
  <2> HIDE DEF F
  <2>2. ASSUME NEW u \in SUBSET s, u # s PROVE g[u] = F(u)[u]
    <3>1. CASE u = {}
      BY <3>1, <2>1, <2>2 DEF Sums
    <3>2. CASE u # {}
      <4> DEFINE v == u \ {FirstOf(u)}
      <4>1. FirstOf(u) \in u
        BY <3>2 DEF FirstOf
      <4>2. v \in SUBSET s /\ v # s /\ v \subseteq u /\ IsFiniteSet(v)
        BY <4>1, FS_Subset
      <4>3. Sums(u, F(u)) /\ Sums(v, F(v))
        BY <2>1, <2>2, <4>2
      <4>4. F(u)[v] = F(v)[v]
        <5> HIDE DEF v
        <5> QED
          BY <4>2, <4>3, SumsEqual
      <4>5. F(u)[u] = Weight(FirstOf(u)) + F(u)[v]
        BY <3>2, <4>3 DEF Sums
      <4> QED
        BY <3>2, <4>4, <4>5
    <3> QED
      BY <3>1, <3>2
  <2>3. \A u \in SUBSET s : g[u] =
            IF u = {} THEN 0 ELSE Weight(FirstOf(u)) + g[u \ {FirstOf(u)}]
    <3> SUFFICES ASSUME NEW u \in SUBSET s, u # {}
                 PROVE  g[u] = Weight(FirstOf(u)) + g[u \ {FirstOf(u)}]
      OBVIOUS
    <3>1. FirstOf(u) \in u
      BY DEF FirstOf
    <3>2. u \ {FirstOf(u)} \in SUBSET s /\ u \ {FirstOf(u)} # s
      BY <3>1
    <3>3. g[u \ {FirstOf(u)}] = F(u \ {FirstOf(u)})[u \ {FirstOf(u)}]
      <4> HIDE DEF g
      <4> QED
        BY <2>2, <3>2
    <3> QED
      BY <3>3
  <2>4. g = [u \in SUBSET s |-> g[u]]
    OBVIOUS
  <2> HIDE DEF g
  <2>5. Sums(s, g)
    BY <2>3, <2>4 DEF Sums
  <2> QED
    BY <2>5
<1>2. S \in T
  <2> HIDE DEF T
  <2> QED
    BY <1>1, FiniteInduction
<1> QED
  BY <1>2

\* No messages take no bytes, and any one of them can be counted first.
LEMMA BytesFacts ==
    ASSUME NEW S, IsFiniteSet(S), \A m \in S : m.size \in Nat
    PROVE  /\ Bytes(S) \in Nat
           /\ S = {} => Bytes(S) = 0
           /\ \A m \in S : Bytes(S) = Weight(m) + Bytes(S \ {m})
<1> DEFINE sum == CHOOSE f : Sums(S, f)
           T   == {s \in SUBSET S :
                    sum[s] \in Nat /\ \A m \in s : sum[s] = Weight(m) + sum[s \ {m}]}
<1>1. Sums(S, sum)
  BY SumsExist
<1>2. ASSUME NEW s \in SUBSET S PROVE Bytes(s) = sum[s]
  <2>1. IsFiniteSet(s)
    BY FS_Subset
  <2> DEFINE f == CHOOSE f : Sums(s, f)
  <2>2. Sums(s, f)
    BY <2>1, SumsExist
  <2> HIDE DEF f, sum
  <2>3. f[s] = sum[s]
    BY <1>1, <2>1, <2>2, SumsEqual
  <2> QED
    BY <2>3, BytesDef DEF f
<1>3. \A m \in S : Weight(m) \in Nat
  BY SizesAssumption DEF Weight
<1> HIDE DEF sum
<1>4. ASSUME NEW s \in SUBSET S, \A u \in SUBSET s : u # s => u \in T
      PROVE  s \in T
  <2>1. CASE s = {}
    BY <1>1, <2>1 DEF Sums
  <2>2. CASE s # {}
    <3> DEFINE x == FirstOf(s)
    <3>1. x \in s
      BY <2>2 DEF FirstOf
    <3>2. sum[s] = Weight(x) + sum[s \ {x}]
      BY <1>1, <2>2 DEF Sums
    <3> HIDE DEF x
    <3>3. s \ {x} \in T
      BY <1>4, <3>1
    <3>4. sum[s] \in Nat
      BY <1>3, <3>1, <3>2, <3>3
    <3>5. ASSUME NEW m \in s, m # x PROVE sum[s] = Weight(m) + sum[s \ {m}]
      <4>1. m \in s \ {x} /\ x \in s \ {m}
        BY <3>1, <3>5
      <4>2. sum[s \ {x}] = Weight(m) + sum[(s \ {x}) \ {m}]
        BY <3>3, <4>1
      <4>3. s \ {m} \in T
        BY <1>4
      <4>4. sum[s \ {m}] = Weight(x) + sum[(s \ {m}) \ {x}]
        BY <4>1, <4>3
      <4>5. (s \ {m}) \ {x} = (s \ {x}) \ {m}
        OBVIOUS
      <4>6. sum[(s \ {x}) \ {m}] \in Nat
        <5>1. (s \ {x}) \ {m} \in T
          BY <1>4, <3>1
        <5> QED
          BY <5>1
      <4>7. Weight(m) \in Nat /\ Weight(x) \in Nat
        BY <1>3, <3>1
      <4> DEFINE rest == sum[(s \ {x}) \ {m}]
      <4>8. sum[s] = Weight(x) + (Weight(m) + rest)
        BY <3>2, <4>2
      <4>9. sum[s \ {m}] = Weight(x) + rest
        BY <4>4, <4>5
      <4> HIDE DEF rest
      <4> QED
        BY <4>6, <4>7, <4>8, <4>9 DEF rest
    <3> QED
      BY <3>2, <3>4, <3>5
  <2> QED
    BY <2>1, <2>2
<1>5. S \in T
  <2> HIDE DEF T
  <2> QED
    BY <1>4, FiniteInduction
<1>6. Bytes(S) = sum[S] /\ \A m \in S : Bytes(S \ {m}) = sum[S \ {m}]
  BY <1>2
<1>7. S = {} => sum[S] = 0
  BY <1>1 DEF Sums
<1> QED
  BY <1>5, <1>6, <1>7

\* A finite set of messages numbered differently has a last one.
LEMMA LastMessage ==
    ASSUME NEW S, IsFiniteSet(S), S # {}, NEW n \in [S -> Nat],
           \A m, o \in S : n[m] = n[o] => m = o
    PROVE  \E m \in S : \A o \in S \ {m} : n[o] < n[m]
<1> DEFINE T == {s \in SUBSET S : s = {} \/ \E m \in s : \A o \in s \ {m} : n[o] < n[m]}
<1>1. ASSUME NEW s \in SUBSET S, \A u \in SUBSET s : u # s => u \in T
      PROVE  s \in T
  <2> SUFFICES ASSUME s # {} PROVE \E m \in s : \A o \in s \ {m} : n[o] < n[m]
    OBVIOUS
  <2>1. PICK x \in s : TRUE
    OBVIOUS
  <2>2. s \ {x} \in T
    BY <1>1
  <2>3. CASE s \ {x} = {}
    BY <2>3
  <2>4. CASE s \ {x} # {}
    <3>1. PICK m \in s \ {x} : \A o \in (s \ {x}) \ {m} : n[o] < n[m]
      BY <2>2, <2>4
    <3>2. n[x] \in Nat /\ n[m] \in Nat /\ n[x] # n[m]
      OBVIOUS
    <3>3. CASE n[x] < n[m]
      BY <3>1, <3>3
    <3>4. CASE n[m] < n[x]
      <4>1. \A o \in s \ {x} : n[o] < n[x]
        <5>1. \A o \in s : n[o] \in Nat
          OBVIOUS
        <5> QED
          BY <3>1, <3>2, <3>4, <5>1
      <4> QED
        BY <4>1
    <3> QED
      BY <3>2, <3>3, <3>4
  <2> QED
    BY <2>3, <2>4
<1>2. S \in T
  <2> HIDE DEF T
  <2> QED
    BY <1>1, FiniteInduction
<1> QED
  BY <1>2

\* As long as no packet is ever filled to within a message header of its end,
\* the test for room is right: messages of which each has room behind those
\* before it fill a packet to where another may begin.
LEMMA Filled ==
    ASSUME NEW fill \in SUBSET (0 .. MaxMessageSizeBytes), NEW sizes \in SUBSET Nat,
           \A used \in fill, size \in sizes :
                used + size <= MaxMessageSizeBytes =>
                    used + MessageHeaderSizeBytes + size \in fill,
           NEW start \in fill,
           NEW S, IsFiniteSet(S), \A m \in S : m.size \in sizes,
           NEW n \in [S -> Nat], \A m, o \in S : n[m] = n[o] => m = o,
           \A m \in S : HasRoom(start + Bytes({o \in S : n[o] < n[m]}), m.size)
    PROVE  start + Bytes(S) \in fill
<1> DEFINE T == {s \in SUBSET S :
                    (\A m \in s : \A o \in S : n[o] < n[m] => o \in s)
                        => start + Bytes(s) \in fill}
<1>1. /\ MaxMessageSizeBytes \in Nat /\ MaxMessageSizeBytes < SizeCycle
      /\ MessageHeaderSizeBytes \in Nat /\ SizeCycle \in Nat
  BY SizesAssumption DEF MaxMessageSizeBytes
<1>2. ASSUME NEW s \in SUBSET S, \A u \in SUBSET s : u # s => u \in T
      PROVE  s \in T
  <2> SUFFICES ASSUME \A m \in s : \A o \in S : n[o] < n[m] => o \in s
               PROVE  start + Bytes(s) \in fill
    OBVIOUS
  <2>1. IsFiniteSet(s) /\ \A m \in s : m.size \in Nat
    BY FS_Subset
  <2>2. CASE s = {}
    <3>1. Bytes(s) = 0
      BY <2>1, <2>2, BytesFacts
    <3> QED
      BY <3>1
  <2>3. CASE s # {}
    <3>1. PICK m \in s : \A o \in s \ {m} : n[o] < n[m]
      <4> DEFINE k == [o \in s |-> n[o]]
      <4>1. k \in [s -> Nat] /\ \A o \in s : k[o] = n[o]
        OBVIOUS
      <4> HIDE DEF k
      <4>2. \A o, q \in s : k[o] = k[q] => o = q
        BY <4>1
      <4>3. \E m \in s : \A o \in s \ {m} : k[o] < k[m]
        BY <2>1, <2>3, <4>1, <4>2, LastMessage
      <4> QED
        BY <4>1, <4>3
    <3>2. s \ {m} = {o \in S : n[o] < n[m]}
      <4>1. \A o \in S : n[o] \in Nat
        OBVIOUS
      <4> QED
        BY <3>1, <4>1
    <3>3. start + Bytes(s \ {m}) \in fill
      <4>1. s \ {m} \in T
        BY <1>2
      <4>2. \A q \in s \ {m} : \A o \in S : n[o] < n[q] => o \in s \ {m}
        <5>1. \A o \in S : n[o] \in Nat
          OBVIOUS
        <5> QED
          BY <3>1, <5>1
      <4> QED
        BY <4>1, <4>2
    <3> DEFINE used == start + Bytes(s \ {m})
    <3>4. HasRoom(used, m.size)
      BY <3>2
    <3>5. Bytes(s) = Weight(m) + Bytes(s \ {m}) /\ Bytes(s \ {m}) \in Nat
      <4>1. IsFiniteSet(s \ {m})
        BY <2>1, FS_Subset
      <4> QED
        BY <2>1, <4>1, BytesFacts
    <3>6. used \in 0 .. MaxMessageSizeBytes /\ m.size \in Nat /\ m.size \in sizes
      BY <3>3
    <3>7. start + Bytes(s) = used + MessageHeaderSizeBytes + m.size
      BY <1>1, <3>5, <3>6 DEF Weight
    <3> HIDE DEF used
    <3>8. used + m.size <= MaxMessageSizeBytes
      <4>1. MaxMessageSizeBytes - used \in 0 .. SizeCycle - 1
        BY <1>1, <3>6
      <4>2. (MaxMessageSizeBytes - used) % SizeCycle = MaxMessageSizeBytes - used
        BY <1>1, <4>1
      <4> QED
        BY <1>1, <3>4, <3>6, <4>2 DEF HasRoom
    <3>9. used \in fill
      BY <3>3 DEF used
    <3> QED
      BY <3>6, <3>7, <3>8, <3>9
  <2> QED
    BY <2>2, <2>3
<1>3. S \in T
  <2> HIDE DEF T
  <2> QED
    BY <1>2, FiniteInduction
<1> QED
  BY <1>3

\* The two loops of onWritePacket, one after the other, fill a packet to no more
\* than where another message may begin.
LEMMA PacketSizeBound ==
    ASSUME NEW c \in ChannelPeerType,
           NEW fill \in SUBSET (0 .. MaxMessageSizeBytes), NEW sizes \in SUBSET Nat,
           \A used \in fill, size \in sizes :
                used + size <= MaxMessageSizeBytes =>
                    used + MessageHeaderSizeBytes + size \in fill,
           PacketHeaderSizeBytes \in fill,
           IsFiniteSet(c.reliable), IsFiniteSet(c.unreliable),
           \A m \in c.reliable \cup c.unreliable : m.size \in sizes,
           \A m, o \in c.reliable : m.seq = o.seq => m = o,
           \A m, o \in c.unreliable : m.num = o.num => m = o
    PROVE  PacketSize(c) \in fill
<1>1. /\ \A m \in c.reliable : m.seq \in Nat
      /\ \A m \in c.unreliable : m.num \in Nat
  BY SeqCycleAssumption DEF ChannelPeerType, ReliableEntry, SequenceNumber
<1>2. UsedByReliable(c) \in fill
  <2> DEFINE S == Taken(c)
             n == [m \in S |-> m.seq]
  <2>1. S \in SUBSET c.reliable /\ IsFiniteSet(S)
    <3>1. S \in SUBSET c.reliable
      BY DEF Taken
    <3> QED
      BY <3>1, FS_Subset
  <2>2. n \in [S -> Nat] /\ \A m \in S : n[m] = m.seq
    BY <1>1, <2>1
  <2>3. ASSUME NEW m \in S
        PROVE  HasRoom(PacketHeaderSizeBytes + Bytes({o \in S : n[o] < n[m]}), m.size)
    <3>1. {o \in S : n[o] < n[m]} = {o \in c.reliable : o.due /\ o.seq < m.seq}
      <4>1. \A o \in c.reliable : o.due /\ o.seq < m.seq => o \in S
        BY <1>1, <2>1 DEF Taken
      <4>2. \A o \in S : o.due /\ o \in c.reliable
        BY DEF Taken
      <4> QED
        BY <2>2, <4>1, <4>2
    <3>2. Fits(c, m)
      BY <1>1, <2>1 DEF Taken
    <3> QED
      BY <3>1, <3>2 DEF Fits
  <2> HIDE DEF S, n
  <2>4. \A m \in S : m.size \in sizes
    BY <2>1
  <2>5. \A m, o \in S : n[m] = n[o] => m = o
    BY <2>1, <2>2
  <2>6. PacketHeaderSizeBytes + Bytes(S) \in fill
    BY <2>1, <2>2, <2>3, <2>4, <2>5, Filled
  <2> QED
    BY <2>6 DEF UsedByReliable, S
<1>3. UsedByReliable(c) + Bytes(LooseTaken(c)) \in fill
  <2> DEFINE S == LooseTaken(c)
             n == [m \in S |-> m.num]
             start == UsedByReliable(c)
  <2>1. S \in SUBSET c.unreliable /\ IsFiniteSet(S)
    <3>1. S \in SUBSET c.unreliable
      BY DEF LooseTaken
    <3> QED
      BY <3>1, FS_Subset
  <2>2. n \in [S -> Nat] /\ \A m \in S : n[m] = m.num
    BY <1>1, <2>1
  <2>3. ASSUME NEW m \in S
        PROVE  HasRoom(start + Bytes({o \in S : n[o] < n[m]}), m.size)
    <3>1. {o \in S : n[o] < n[m]} = {o \in c.unreliable : o.num < m.num}
      <4>1. \A o \in c.unreliable : o.num < m.num => o \in S
        BY <1>1, <2>1 DEF LooseTaken
      <4> QED
        BY <2>1, <2>2, <4>1
    <3>2. LooseFits(c, m)
      BY <1>1, <2>1 DEF LooseTaken
    <3> QED
      BY <3>1, <3>2 DEF LooseFits
  <2> HIDE DEF S, n, start
  <2>4. \A m \in S : m.size \in sizes
    BY <2>1
  <2>5. \A m, o \in S : n[m] = n[o] => m = o
    BY <2>1, <2>2
  <2>6. start \in fill
    BY <1>2 DEF start
  <2>7. start + Bytes(S) \in fill
    BY <2>1, <2>2, <2>3, <2>4, <2>5, <2>6, Filled
  <2> QED
    BY <2>7 DEF start, S
<1> QED
  BY <1>3 DEF PacketSize

\* Nothing is before the first message.
LEMMA NothingBefore == Bytes({}) = 0
<1>1. IsFiniteSet({})
  BY FS_EmptySet
<1> QED
  BY <1>1, BytesFacts

\* While there is data to send before and after a packet, the packet takes a
\* message, if every message fits a packet of its own.
LEMMA PacketTakesMessage ==
    ASSUME NEW c \in ChannelPeerType, NEW n,
           HasDataToSend(AfterWrite(c, n)),
           \A m \in c.reliable \cup c.unreliable :
                PacketHeaderSizeBytes + m.size <= MaxMessageSizeBytes,
           \A m, o \in c.reliable : m.seq = o.seq => m = o,
           \A m, o \in c.unreliable : m.num = o.num => m = o
    PROVE  WrittenReliable(c) # {} \/ WrittenUnreliable(c) # {}
<1>1. /\ \A m \in c.reliable : m.seq \in Nat /\ m.size \in Nat
      /\ \A m \in c.unreliable : m.num \in Nat /\ m.size \in Nat
      /\ MaxMessageSizeBytes \in Nat /\ MaxMessageSizeBytes < SizeCycle
      /\ PacketHeaderSizeBytes \in Nat /\ SizeCycle \in Nat \ {0}
  <2>1. /\ MaxMessageSizeBytes \in Nat /\ MaxMessageSizeBytes < SizeCycle
        /\ PacketHeaderSizeBytes \in Nat /\ SizeCycle \in Nat \ {0}
    BY SizesAssumption DEF MaxMessageSizeBytes
  <2>2. 0 .. MaxMessageSizeBytes \subseteq Nat /\ SequenceNumber \subseteq Nat
    BY <2>1, SeqCycleAssumption DEF SequenceNumber
  <2>3. \A m \in c.reliable : m \in ReliableEntry
    BY DEF ChannelPeerType
  <2>4. \A m \in c.unreliable : m.num \in Nat /\ m.size \in 0 .. MaxMessageSizeBytes
    BY DEF ChannelPeerType
  <2> QED
    BY <2>1, <2>2, <2>3, <2>4 DEF ReliableEntry
<1>2. ASSUME NEW m \in c.reliable \cup c.unreliable
      PROVE  HasRoom(PacketHeaderSizeBytes, m.size)
  <2>1. m.size \in Nat /\ PacketHeaderSizeBytes + m.size <= MaxMessageSizeBytes
    BY <1>1
  <2>2. MaxMessageSizeBytes - PacketHeaderSizeBytes \in 0 .. SizeCycle - 1
    BY <1>1, <2>1
  <2>3. (MaxMessageSizeBytes - PacketHeaderSizeBytes) % SizeCycle
            = MaxMessageSizeBytes - PacketHeaderSizeBytes
    BY <1>1, <2>2
  <2> QED
    BY <1>1, <2>1, <2>3 DEF HasRoom
<1>3. SUFFICES ASSUME Taken(c) = {}, LooseTaken(c) = {} PROVE FALSE
  BY DEF WrittenReliable, WrittenUnreliable
<1>4. CASE ReachesEnd(c)
  <2>1. c.unreliable # {}
    BY <1>4 DEF HasDataToSend, AfterWrite, ChannelPeerType
  <2> DEFINE T == {m.num : m \in c.unreliable}
  <2>2. T \in SUBSET Nat /\ T # {}
    BY <1>1, <2>1
  <2>3. PICK x \in T : \A y \in T : x <= y
    <3> HIDE DEF T
    <3> QED
      BY <2>2, Least
  <2>4. PICK m \in c.unreliable : m.num = x
    BY <2>3
  <2>10. \A o \in c.unreliable : o.num \in Nat /\ m.num <= o.num
    BY <1>1, <2>3, <2>4
  <2>5. \A o \in c.unreliable : o.num <= m.num => o = m
    <3> SUFFICES ASSUME NEW o \in c.unreliable, o.num <= m.num PROVE o = m
      OBVIOUS
    <3>1. o.num = m.num
      BY <2>10
    <3> QED
      BY <3>1
  <2>6. {o \in c.unreliable : o.num < m.num} = {}
    BY <2>10
  <2>7. UsedByReliable(c) = PacketHeaderSizeBytes
    BY <1>1, <1>3, NothingBefore DEF UsedByReliable
  <2>8. UsedByReliable(c) + Bytes({o \in c.unreliable : o.num < m.num}) = PacketHeaderSizeBytes
    <3>1. Bytes({o \in c.unreliable : o.num < m.num}) = 0
      BY <2>6, NothingBefore
    <3> QED
      BY <1>1, <2>7, <3>1
  <2>9. LooseFits(c, m)
    BY <1>2, <2>8 DEF LooseFits
  <2> QED
    BY <1>3, <1>4, <2>5, <2>9 DEF LooseTaken
<1>5. CASE ~ ReachesEnd(c)
  <2> DEFINE T == {m.seq : m \in {o \in c.reliable : ~ Fits(c, o)}}
  <2>1. T \in SUBSET Nat /\ T # {}
    BY <1>1, <1>5 DEF ReachesEnd
  <2>2. PICK x \in T : \A y \in T : x <= y
    <3> HIDE DEF T
    <3> QED
      BY <2>1, Least
  <2>3. PICK m \in c.reliable : m.seq = x /\ ~ Fits(c, m)
    BY <2>2
  <2>4. \A o \in c.reliable : o.seq < m.seq => Fits(c, o)
    <3> SUFFICES ASSUME NEW o \in c.reliable, ~ Fits(c, o) PROVE ~ (o.seq < m.seq)
      OBVIOUS
    <3>1. m.seq <= o.seq
      BY <2>2, <2>3
    <3> QED
      BY <1>1, <3>1
  <2>5. \A o \in c.reliable : o.seq < m.seq => ~ o.due
    <3> SUFFICES ASSUME NEW o \in c.reliable, o.seq < m.seq, o.due PROVE FALSE
      OBVIOUS
    <3>1. \A q \in c.reliable : q.seq <= o.seq => Fits(c, q)
      BY <1>1, <2>4
    <3> QED
      BY <1>3, <3>1 DEF Taken
  <2>6. {o \in c.reliable : o.due /\ o.seq < m.seq} = {}
    BY <2>5
  <2>7. PacketHeaderSizeBytes + Bytes({o \in c.reliable : o.due /\ o.seq < m.seq})
            = PacketHeaderSizeBytes
    <3>1. Bytes({o \in c.reliable : o.due /\ o.seq < m.seq}) = 0
      BY <2>6, NothingBefore
    <3> QED
      BY <1>1, <3>1
  <2>8. Fits(c, m)
    BY <1>2, <2>7 DEF Fits
  <2> QED
    BY <2>3, <2>8
<1> QED
  BY <1>4, <1>5

=============================================================================
