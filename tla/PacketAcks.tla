----------------------------- MODULE PacketAcks -----------------------------
(***************************************************************************)
(* What the packet layer promises to the layer above it, without rings,    *)
(* headers or bit fields: two ends exchange numbered packets over a        *)
(* network that loses, duplicates and reorders them, and an end learns     *)
(* that some of its own packets have arrived.  It never learns anything    *)
(* false, and a packet that arrives brings at least the news of the        *)
(* packets its sender had lately got.                                      *)
(***************************************************************************)
EXTENDS Integers

CONSTANT Window     \* how far below the newest received packet news reaches

VARIABLES
    sent,       \* number of packets each end has sent
    inFlight,   \* every packet ever sent; losing one is never delivering it
    got,        \* the other end's packets each end has received
    acked       \* the own packets each end knows to have arrived

absVars == <<sent, inFlight, got, acked>>

End == {0, 1}
Other(e) == 1 - e

\* The packets no more than Window below the newest of the set.
Recent(seen) == {n \in seen : \A m \in seen : m - n <= Window}

Init ==
    /\ sent = [e \in End |-> 0]
    /\ inFlight = {}
    /\ got = [e \in End |-> {}]
    /\ acked = [e \in End |-> {}]

Send(e) ==
    /\ sent' = [sent EXCEPT ![e] = @ + 1]
    /\ inFlight' = inFlight \cup {[from |-> e, num |-> sent[e], seen |-> got[e]]}
    /\ UNCHANGED <<got, acked>>

Deliver(e, p) ==
    /\ p.from = Other(e)
    /\ got' = [got EXCEPT ![e] = @ \cup {p.num}]
    /\ \E news \in SUBSET got[Other(e)] :
        /\ Recent(p.seen) \subseteq acked[e] \cup news
        /\ acked' = [acked EXCEPT ![e] = @ \cup news]
    /\ UNCHANGED <<sent, inFlight>>

Next == \E e \in End : Send(e) \/ \E p \in inFlight : Deliver(e, p)

Spec == Init /\ [][Next]_absVars

=============================================================================
