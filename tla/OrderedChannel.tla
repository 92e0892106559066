--------------------------- MODULE OrderedChannel ---------------------------
(***************************************************************************)
(* What the reliable channel of an established connection promises the two *)
(* applications: messages accepted by one end arrive at the other in any   *)
(* order, are handed over in the order they were accepted, each once, as   *)
(* soon as all earlier ones have arrived, and are retired by their sender  *)
(* only after they have arrived.  Messages are numbered from 0 at each     *)
(* end.                                                                    *)
(***************************************************************************)
EXTENDS Naturals, Sequences

VARIABLES
    accepted,   \* how many messages each end's application has sent
    arrived,    \* the other end's messages that have reached each end
    delivered,  \* what each end's application was given, in order
    retired     \* own messages each end no longer keeps

vars == <<accepted, arrived, delivered, retired>>

End == {0, 1}
Other(e) == 1 - e

Accept(e) ==
    /\ accepted' = [accepted EXCEPT ![e] = @ + 1]
    /\ UNCHANGED <<arrived, delivered, retired>>

\* A packet brings messages of the other end and news of own ones.
Packet(e) ==
    /\ \E S \in SUBSET (0 .. accepted[Other(e)] - 1) :
        arrived' = [arrived EXCEPT ![e] = @ \cup S]
    /\ \E S \in SUBSET arrived[Other(e)] :
        retired' = [retired EXCEPT ![e] = @ \cup S]
    /\ UNCHANGED <<accepted, delivered>>

\* Everything that can be handed over is, at once.
HandOver(e) ==
    /\ \E n \in 0 .. accepted[Other(e)] :
        /\ 0 .. n - 1 \subseteq arrived[e] /\ n \notin arrived[e]
        /\ delivered' = [delivered EXCEPT ![e] = [i \in 1 .. n |-> i - 1]]
    /\ UNCHANGED <<accepted, arrived, retired>>

Next == \E e \in End : Accept(e) \/ Packet(e) \/ HandOver(e)

\* Both channels at a time when the first n messages of each end have been
\* handed over and retired.
InitAfter(n) ==
    /\ accepted = [e \in End |-> n]
    /\ arrived = [e \in End |-> 0 .. n - 1]
    /\ delivered = [e \in End |-> [i \in 1 .. n |-> i - 1]]
    /\ retired = [e \in End |-> 0 .. n - 1]

=============================================================================
