-------------------------- MODULE SequenceNumbers --------------------------
(***************************************************************************)
(* The wrapping 16-bit sequence numbers of packets and of reliable         *)
(* messages (src/InternalTypes.hpp, src/utils/Utils.hpp).  The code's      *)
(* width is the constant SeqCycle = 2^16; small even values keep every     *)
(* boundary (0, half of the range, the last number) within reach of TLC.   *)
(* C++ promotes both operands of - and > to int, so the differences below  *)
(* are ordinary integers, and only a store into a SequenceNumber wraps.    *)
(***************************************************************************)
EXTENDS Integers

CONSTANT SeqCycle   \* number of distinct sequence numbers, 2^16 in the code

ASSUME SeqCycleAssumption == SeqCycle \in Nat /\ SeqCycle >= 4 /\ SeqCycle % 2 = 0

SequenceNumber == 0 .. SeqCycle - 1

MAX_SEQUENCE_NUMBER == SeqCycle - 1

\* ceil(MAX_SEQUENCE_NUMBER / 2.f): MAX_SEQUENCE_NUMBER is odd.
HALF_MAX_SEQUENCE_NUMBER == SeqCycle \div 2

sequenceGreaterThan(s1, s2) ==
    \/ s1 > s2 /\ s1 - s2 <= HALF_MAX_SEQUENCE_NUMBER
    \/ s1 < s2 /\ s2 - s1 > HALF_MAX_SEQUENCE_NUMBER

sequenceEqualOrGreaterThan(s1, s2) == s1 = s2 \/ sequenceGreaterThan(s1, s2)

\* ++ on a SequenceNumber.
SeqIncrement(s) == IF s = MAX_SEQUENCE_NUMBER THEN 0 ELSE s + 1

\* static_cast<SequenceNumber>(s - i), for an i smaller than the range.
SeqMinus(s, i) == IF i <= s THEN s - i ELSE s - i + SeqCycle

=============================================================================
