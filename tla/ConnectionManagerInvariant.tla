--------------------- MODULE ConnectionManagerInvariant ---------------------
(***************************************************************************)
(* Why ConnectionManager's properties hold as long as no process makes as  *)
(* many connections as there are ids (an id used again while its first     *)
(* connection stands makes NoAssertFails false).                           *)
(*                                                                         *)
(* The peers follow the connections because the callbacks are made exactly *)
(* where m_wasConnected is set or a connection that has it is erased, and  *)
(* m_wasConnected is settled by the state.  A client is accepted by        *)
(* servers only because only servers answer, and a heartbeat never leaves  *)
(* a server before its acceptance.                                         *)
(***************************************************************************)
EXTENDS ConnectionManager

ASSUME IdsAssumption == \A n \in Node : MaxConnections[n] < IdCycle

\* The ids of a process's connections are different, and were all generated.
IdsDiffer(n) ==
    /\ \A a \in Remotes(n) : conns[n][a].id \in 1 .. created[n]
    /\ \A a, b \in Remotes(n) : conns[n][a].id = conns[n][b].id => a = b

\* What the state of a connection says about its other members.  A process
\* either asks or is asked.
StateSettles(n) ==
    \A a \in Node :
        LET conn == conns[n][a]
        IN  /\ conn.state \in {"REQUESTING_CONNECTION", "DECIDING_CONNECTION"}
                    => ~ conn.wasConnected
            /\ conn.state = "CONNECTED" => conn.wasConnected
            /\ conn.state = "REQUESTING_CONNECTION" => conn.attemptsLeft > 0 /\ n \in Clients
            /\ conn.state = "DECIDING_CONNECTION" => n \in Servers

\* A server has sent an acceptance to whomever it is or was connected to.
AcceptedInWriting ==
    \A n \in Servers : \A a \in Node :
        conns[n][a].wasConnected => Packet("CONNECT_ACCEPT", n, a) \in net

\* Acceptances come from servers, and so do the heartbeats a client gets,
\* after an acceptance.
OnlyServersAccept ==
    \A n, a \in Node :
        /\ Packet("CONNECT_ACCEPT", n, a) \in net => n \in Servers
        /\ Packet("HEARTBEAT", n, a) \in net /\ a \in Clients =>
                n \in Servers /\ Packet("CONNECT_ACCEPT", n, a) \in net

\* The inductive invariant: nobody is connected, told or accepted out of turn,
\* in any order of arrival.
IInv ==
    /\ TypeOK
    /\ PeersMatchConnections
    /\ NoAssertFails
    /\ \A n \in Node : IdsDiffer(n) /\ StateSettles(n)
    /\ AcceptedInWriting
    /\ OnlyServersAccept
    /\ ConnectedWasAccepted

=============================================================================
