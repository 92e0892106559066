------------------------- MODULE MCTimedConnections -------------------------
(***************************************************************************)
(* An instance of TimedConnections for TLC: a server and a client on one   *)
(* host, configured for the same port.  A tick is 125 ms.  The network     *)
(* loses no two packets of the server in a row; of the client's packets    *)
(* the drop counter takes every second one.                                *)
(***************************************************************************)
EXTENDS TimedConnectionsInvariant

Once == [n \in Node |-> 1]
SamePort == [n \in Node |-> 2]
NoDrops == [n \in Node |-> 0]
ClientDrops == [n \in Node |-> IF n \in Clients THEN 2 ELSE 0]
ServerLosses == [n \in Node |-> IF n \in Servers THEN 1 ELSE 0]

=============================================================================
