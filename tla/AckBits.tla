------------------------------ MODULE AckBits ------------------------------
(***************************************************************************)
(* The ack field of a packet header as the bits it is: generateAckBits     *)
(* shifts one bit in per distance, nearest first, and processAckBits       *)
(* shifts them out again, farthest first.  PacketPeer treats the field as  *)
(* the set of distances; BitsAgree is why it may.                          *)
(***************************************************************************)
EXTENDS PacketManager

\* How many values n bits have.
WordValues[n \in 0 .. AckWindow] == IF n = 0 THEN 1 ELSE 2 * WordValues[n - 1]

\* An unsigned word of AckWindow bits, shifted left by one.
ShiftLeft(word) == (word * 2) % WordValues[AckWindow]

\* The bit is set before the shift instead of after it.
AckWordLate(received) ==
    LET after[i \in 0 .. AckWindow] ==
            IF i = 0 THEN 0
            ELSE ShiftLeft(after[i - 1] + IF i \in received THEN 1 ELSE 0)
    IN  after[AckWindow]

\* The field for a set of distances whose slot isReceived(); after[i] is the
\* word after i iterations.
AckWord(received) ==
    LET after[i \in 0 .. AckWindow] ==
            IF i = 0 THEN 0
            ELSE ShiftLeft(after[i - 1]) + IF i \in received THEN 1 ELSE 0
    IN  after[AckWindow]

\* The distances handed to processAckBit.  The loop counts down from AckWindow:
\* the iteration for distance i sees the word after AckWindow - i shifts right.
AckedDistances(word) ==
    LET shifted[k \in 0 .. AckWindow] == IF k = 0 THEN word ELSE shifted[k - 1] \div 2
    IN  {i \in AckDistance : shifted[AckWindow - i] % 2 = 1}

-----------------------------------------------------------------------------

\* The reading loop recovers from the word of every header exactly the
\* distances the writing loop put in, each at the iteration that counts to it;
\* nothing is lost to the width of the word.
BitsAgree == \A p \in net : AckedDistances(AckWord(p.ackBits)) = p.ackBits

=============================================================================
