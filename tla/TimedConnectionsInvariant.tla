--------------------- MODULE TimedConnectionsInvariant ---------------------
(***************************************************************************)
(* Why a process that stops is noticed in time, and why the search for a   *)
(* port ends.                                                              *)
(*                                                                         *)
(* What a stopped process has sent is read within Latency and a frame; the *)
(* silence a connection counts from then on falls behind the time since    *)
(* the stop by no more than that, and ends the connection in the first     *)
(* pass that finds it longer than the timeout.                             *)
(*                                                                         *)
(* The search for a port has found every port it has tried taken, by       *)
(* another program or by a process whose search is over.                   *)
(***************************************************************************)
EXTENDS TimedConnections, ConnectionManagerInvariant

\* Fewer ports of the host are taken than createHost makes attempts.
ASSUME PortsAssumption ==
    /\ IsFiniteSet(OccupiedPorts)
    /\ Cardinality(OccupiedPorts) + Cardinality(Process) - 1 <= BindAttempts
    /\ BindAttempts < PortCycle

StopCounted == \A a \in alive : stopped[a] = 0

\* A packet is not older than it can be, and was sent before its sender stopped.
ReadSoonAfterStop ==
    \A w \in wire :
        /\ stopped[w.packet.from] <= w.age \/ w.age = Latency
        /\ stopped[w.packet.from] <= Latency + frame[w.packet.to]

\* A request is decided on in the frame that reads it.
DecidedInFrame ==
    \A n \in alive, a \in Node : conns[n][a].state = "DECIDING_CONNECTION" =>
        phase[n] = "receive" /\ since[n][a].heard = 0

SilenceCounted ==
    \A n \in alive, a \in Node :
        conns[n][a].state \in {"DECIDING_CONNECTION", "CONNECTED"} =>
            /\ since[n][a].heard <= HeartbeatTimeout + frame[n]
            /\ stopped[a] <= since[n][a].heard + Latency + FrameTime

Tried(n) == BindAttempts - attemptsLeft[n]

PortsTried ==
    /\ attemptsLeft \in [Node -> 0 .. BindAttempts]
    /\ \A n \in Node :
        /\ port[n] = (ConfigPort[n] + Tried(n)) % PortCycle
        /\ \A i \in 0 .. Tried(n) - 1 :
            LET p == (ConfigPort[n] + i) % PortCycle
            IN  p \in OccupiedPorts \/ \E m \in Node \ {n} : bound[m] /\ port[m] = p

\* The inductive invariant, beside IInv.
TimedInv ==
    /\ TimedTypeOK
    /\ StopCounted
    /\ ReadSoonAfterStop
    /\ DecidedInFrame
    /\ SilenceCounted
    /\ PortsTried

=============================================================================
