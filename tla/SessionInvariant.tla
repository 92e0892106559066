-------------------------- MODULE SessionInvariant --------------------------
(***************************************************************************)
(* Why RetiredWasGiven holds while two processes have no second session    *)
(* and no second message to send over it, whatever the network and the     *)
(* handshakes do.                                                          *)
(*                                                                         *)
(* An end forgets the message for the ack of a packet that carried it:     *)
(* before the first such packet it sends none, so no ack is about.  An end *)
(* acknowledges between frames, when what it has read has been given; a    *)
(* connection that goes before that takes its acks with it.                *)
(*                                                                         *)
(* With a second session the other end's acks may be those of the first,   *)
(* and a second message may wait under the number of packet 0 while the    *)
(* ack of that packet comes.                                               *)
(***************************************************************************)
EXTENDS Session

OneMessage == MaxReliable <= 1

\* The process n has a peer for its connection to a.
Joined(n, a) == a \in Remotes(n) /\ conns[n][a].id \in peers[n]

LinkTo(n, a) == link[n][conns[n][a].id]

\* The user packets n has sent to a.
FromTo(n, a) == {p \in data : p.from = n /\ p.to = a}

\* All of them belong to one connection of n, the present one if there is one.
OneSession ==
    \A n, a \in Node : \A p \in FromTo(n, a) :
        /\ \A q \in FromTo(n, a) : q.session = p.session
        /\ Joined(n, a) => conns[n][a].id = p.session

\* The message of n has been given at a.
WasGiven(n, a) == \E t \in given[a] : t.from = n /\ t.seq = 0

-----------------------------------------------------------------------------
(***************************************************************************)
(* One end of a link: the message it sends and the message it gets.        *)
(***************************************************************************)

\* The message waits for the first packet, then it is filed under a packet
\* that carries it, until it has been given; out are the packets sent.
MessageKept(l, out, wasGiven) ==
    LET k == l.packets
        c == l.chan
    IN  /\ k.generator <= MaxPackets
        /\ \A p \in out : p.seq < k.generator
        /\ c.generator \in 0 .. MaxReliable /\ c.unreliable = {}
        /\ k.generator > 0 \/ c.hasReliable \/ c.reliable # {} => c.generator = 1
        /\ \A m \in c.reliable :
            /\ m.seq = 0 /\ m.size = MessageSize
            /\ IF k.generator = 0 THEN m.due /\ m.packet = 0
               ELSE \E p \in out : p.seq = m.packet /\ 0 \in p.reliable
        /\ c.generator = 1 /\ c.reliable = {} => wasGiven

\* The packets noted are among those sent to this end, in; if one carried the
\* message, it has been put in line.
MessageTaken(l, in) ==
    LET k == l.packets
        c == l.chan
    IN  /\ k.newest \in Slot => k.newest \in k.received
        /\ \A s \in k.received : \E p \in in :
                p.seq = s /\ (0 \in p.reliable => c.lastDelivered = 0)
        /\ c.lastDelivered \in {0, MAX_SEQUENCE_NUMBER} /\ c.stored = {}
        /\ InOrder(c) \subseteq {0}
        /\ InOrder(c) # {} => c.lastDelivered = 0

\* Between frames nothing is in line: the message has been given.
MessageGiven(n, a) ==
    LET c == LinkTo(n, a).chan
    IN  /\ phase[n] = "app" => InOrder(c) = {}
        /\ c.lastDelivered = 0 => \E t \in taken[n] :
                /\ t.from = a /\ t.seq = 0
                /\ t \in given[n] \/ (t.by = conns[n][a].id /\ 0 \in InOrder(c))

LinkHolds(n, a) ==
    /\ MessageKept(LinkTo(n, a), FromTo(n, a), WasGiven(n, a))
    /\ MessageTaken(LinkTo(n, a), FromTo(a, n))
    /\ MessageGiven(n, a)

LinksInv == \A n, a \in Node : Joined(n, a) => LinkHolds(n, a)

-----------------------------------------------------------------------------
(***************************************************************************)
(* The packets about.                                                      *)
(***************************************************************************)

\* A connection that has sent a packet was announced, and keeps its peer.
SessionsKnown ==
    \A p \in data :
        /\ p.session \in 1 .. created[p.from]
        /\ p.to \in Remotes(p.from) /\ conns[p.from][p.to].id = p.session =>
                p.session \in peers[p.from]

NumbersDiffer(out) == \A p, q \in out : p.seq = q.seq => p = q

\* They carry the message or nothing, and the numbers of one sender to one
\* receiver differ; what was taken came in one.
PacketsInv ==
    /\ \A p \in data : p.seq < MaxPackets /\ p.reliable \subseteq {0}
    /\ \A n, a \in Node : NumbersDiffer(FromTo(n, a))
    /\ \A n \in Node : \A t \in taken[n] :
            \E p \in FromTo(t.from, n) : p.session = t.session

\* Whatever a header acknowledges was sent, and its message has been given.
HeaderTrue(h, out, wasGiven) ==
    \A s \in AckCandidates(h.ack, h.ackBits) :
        s \in Slot => \E p \in out : p.seq = s /\ (0 \in p.reliable => wasGiven)

AcksTrue ==
    \A h \in data :
        HeaderTrue(h, FromTo(h.to, h.from), WasGiven(h.to, h.from))

\* The invariant of the sessions, inductive as long as OneMessage and
\* OneSession: no order of packets, frames and handshakes lets an ack go out
\* before the message it stands for has been given.
SessionInv == SessionsKnown /\ PacketsInv /\ AcksTrue /\ LinksInv

=============================================================================
