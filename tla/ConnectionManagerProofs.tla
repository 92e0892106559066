---------------------- MODULE ConnectionManagerProofs ----------------------
(***************************************************************************)
(* Proofs that ConnectionManagerInvariant's IInv is an invariant of        *)
(* ConnectionManager, and the properties that follow, for any processes    *)
(* and all constants that satisfy the named assumptions.                   *)
(***************************************************************************)
EXTENDS ConnectionManagerInvariant, TLAPS

-----------------------------------------------------------------------------
(***************************************************************************)
(* One connection.                                                         *)
(***************************************************************************)

LEMMA NoConnectionType ==
    NoConnection \in Connection
BY CountsAssumption
   DEF NoConnection, Connection, ConnectionID, CONNECTION_ID_INVALID, State

\* A new state leaves the rest of a connection as it is.
LEMMA StateChange ==
    ASSUME NEW c \in Connection, NEW state \in State
    PROVE  LET d == [c EXCEPT !.state = state]
           IN  /\ d \in Connection /\ d.state = state
               /\ d.id = c.id /\ d.wasConnected = c.wasConnected
BY DEF Connection

\* The id generator does not wrap.
LEMMA NextIdFacts ==
    ASSUME NEW n \in Node, created[n] \in Nat,
           created[n] < MaxConnections[n]
    PROVE  NextId(n) = created[n] + 1 /\ NextId(n) \in ConnectionID
<1>1. /\ created[n] + 1 \in Nat /\ created[n] + 1 < IdCycle
      /\ IdCycle \in Nat
  BY CountsAssumption, IdsAssumption
<1>2. (created[n] + 1) % IdCycle = created[n] + 1
  BY <1>1
<1> QED
  BY <1>1, <1>2 DEF NextId, ConnectionID

\* What a pass does to one connection.
LEMMA UpdatedFacts ==
    ASSUME NEW c \in Connection, NEW t,
           c.state = "REQUESTING_CONNECTION" => c.attemptsLeft > 0
    PROVE  LET d == Updated(c, t)
           IN  /\ d \in Connection
               /\ d.id = c.id
               /\ d.wasConnected = (c.wasConnected \/ c.state = "DECIDING_CONNECTION")
               /\ d.state = "None" <=> c.state = "None"
               /\ c.state = "None" => d = c
               /\ d.state = "DECIDING_CONNECTION" => FALSE
               /\ d.state = "CONNECTED" =>
                    c.state \in {"DECIDING_CONNECTION", "CONNECTED"}
               /\ d.state = "REQUESTING_CONNECTION" =>
                    c.state = "REQUESTING_CONNECTION" /\ d.attemptsLeft > 0
               /\ d.state = "DISCONNECTED" =>
                    c.state \in {"CONNECTED", "DISCONNECTING", "DISCONNECTED"}
<1> DEFINE asks == Asks(c, t)
<1>0. Attempts \in Nat /\ c.attemptsLeft \in 0 .. Attempts /\ c.attemptsLeft \in Int
  BY CountsAssumption DEF Connection
<1> HIDE DEF asks
<1>1. CASE c.state = "REQUESTING_CONNECTION" /\ asks /\ c.attemptsLeft <= 1
  <2>1. Updated(c, t) = [c EXCEPT !.attemptsLeft = c.attemptsLeft - 1,
                                  !.state = "CONNECTION_FAILED"]
    BY <1>1 DEF Updated, asks
  <2>2. c.attemptsLeft - 1 \in 0 .. Attempts
    BY <1>0, <1>1
  <2> QED
    BY <1>1, <2>1, <2>2 DEF Connection, State
<1>2. CASE c.state = "REQUESTING_CONNECTION" /\ asks /\ ~ c.attemptsLeft <= 1
  <2>1. Updated(c, t) = [c EXCEPT !.attemptsLeft = c.attemptsLeft - 1,
                                  !.requested = TRUE]
    BY <1>2 DEF Updated, asks
  <2>2. c.attemptsLeft - 1 \in 0 .. Attempts /\ c.attemptsLeft - 1 > 0
    BY <1>0, <1>2
  <2> QED
    BY <1>2, <2>1, <2>2 DEF Connection, State
<1>3. CASE c.state = "DECIDING_CONNECTION"
  <2>1. Updated(c, t) = [c EXCEPT !.state = "CONNECTED", !.wasConnected = TRUE]
    BY <1>3 DEF Updated
  <2> QED
    BY <1>3, <2>1 DEF Connection, State
<1>4. CASE (c.state = "CONNECTED" /\ "silence" \in t) \/ c.state = "DISCONNECTING"
  <2>1. Updated(c, t) = [c EXCEPT !.state = "DISCONNECTED"]
    BY <1>4 DEF Updated
  <2> QED
    BY <1>4, <2>1 DEF Connection, State
<1>5. CASE /\ ~ (c.state = "REQUESTING_CONNECTION" /\ asks)
           /\ c.state # "DECIDING_CONNECTION"
           /\ ~ (c.state = "CONNECTED" /\ "silence" \in t)
           /\ c.state # "DISCONNECTING"
  <2>1. Updated(c, t) = c
    BY <1>5 DEF Updated, asks
  <2>2. c.wasConnected \in BOOLEAN
    BY DEF Connection
  <2> QED
    BY <1>5, <1>0, <2>1, <2>2
<1> QED
  BY <1>1, <1>2, <1>3, <1>4, <1>5

-----------------------------------------------------------------------------
(***************************************************************************)
(* The invariant.                                                          *)
(***************************************************************************)

LEMMA InitInv == Init => IInv
<1> SUFFICES ASSUME Init PROVE IInv
  OBVIOUS
<1>1. \A n, a \in Node : conns[n][a] = NoConnection
  BY DEF Init
<1>2. \A n \in Node : Remotes(n) = {}
  BY <1>1 DEF Remotes, Has, NoConnection
<1>3. TypeOK
  <2>1. \A n \in Node : 0 <= MaxConnections[n]
    BY CountsAssumption
  <2> QED
    BY <1>1, <2>1, NoConnectionType DEF Init, TypeOK, Has
<1>4. PeersMatchConnections
  BY <1>2 DEF Init, PeersMatchConnections
<1>5. \A n \in Node : IdsDiffer(n) /\ StateSettles(n)
  BY <1>1, <1>2 DEF IdsDiffer, StateSettles, NoConnection
<1>6. AcceptedInWriting /\ OnlyServersAccept /\ ConnectedWasAccepted
  BY <1>1, <1>2 DEF Init, AcceptedInWriting, OnlyServersAccept,
     ConnectedWasAccepted, NoConnection, Node
<1> QED
  BY <1>3, <1>4, <1>5, <1>6 DEF IInv, Init, NoAssertFails

-----------------------------------------------------------------------------
(***************************************************************************)
(* Making a connection: connect and onConnectRequest put a new one at an   *)
(* address that has none.                                                  *)
(***************************************************************************)
Makes(n, a, d) ==
    /\ n \in Node /\ a \in Node /\ ~ Has(n, a) /\ created[n] < MaxConnections[n]
    /\ conns' = [conns EXCEPT ![n][a] = d]
    /\ created' = [created EXCEPT ![n] = @ + 1]
    /\ PeersUnchanged
    /\ UNCHANGED net
    /\ phase' \in [Node -> {"app", "receive"}]
    /\ d \in Connection
    /\ d.id = NextId(n) /\ ~ d.wasConnected
    /\ \/ d.state = "REQUESTING_CONNECTION" /\ d.attemptsLeft > 0 /\ n \in Clients
       \/ d.state = "DECIDING_CONNECTION" /\ n \in Servers

\* A connection made with a new id disturbs none of the others.
LEMMA MakesInv ==
    ASSUME IInv, NEW n, NEW a, NEW d, Makes(n, a, d)
    PROVE  IInv'
<1> USE DEF Makes
<1>1. /\ conns \in [Node -> [Node -> Connection]]
      /\ created \in [Node -> Nat] /\ created[n] + 1 <= MaxConnections[n]
      /\ MaxConnections \in [Node -> Nat]
      /\ d.id = created[n] + 1
  <2>1. created \in [Node -> Nat] /\ conns \in [Node -> [Node -> Connection]]
    BY DEF IInv, TypeOK
  <2>2. created[n] \in Nat /\ MaxConnections[n] \in Nat
    BY <2>1, CountsAssumption
  <2>3. NextId(n) = created[n] + 1
    BY <2>2, NextIdFacts
  <2> QED
    BY <2>1, <2>2, <2>3, CountsAssumption
<1>2. /\ conns' \in [Node -> [Node -> Connection]]
      /\ \A m, b \in Node :
            conns'[m][b] = IF m = n /\ b = a THEN d ELSE conns[m][b]
  BY <1>1
<1>3. /\ d.state # "None" /\ conns[n][a].state = "None"
      /\ conns[n][a] = NoConnection /\ ~ conns[n][a].wasConnected
  <2>1. conns[n][a] = NoConnection
    BY DEF IInv, TypeOK
  <2> QED
    BY <2>1 DEF NoConnection
<1>4. \A m \in Node : Remotes(m)' = IF m = n THEN Remotes(n) \cup {a} ELSE Remotes(m)
  BY <1>2, <1>3 DEF Remotes, Has
<1>5. TypeOK'
  <2>1. \A m \in Node : created'[m] <= MaxConnections[m]
    BY <1>1 DEF IInv, TypeOK
  <2>2. created' \in [Node -> Nat]
    BY <1>1
  <2> QED
    BY <1>2, <1>3, <2>1, <2>2 DEF IInv, TypeOK, Has, PeersUnchanged
<1>6. PeersMatchConnections'
  <2>1. \A m \in Node : {b \in Remotes(m)' : conns'[m][b].wasConnected}
                            = {b \in Remotes(m) : conns[m][b].wasConnected}
    BY <1>2, <1>3, <1>4 DEF Remotes, Has
  <2>2. \A m \in Node : \A b \in {x \in Remotes(m) : conns[m][x].wasConnected} :
            conns'[m][b].id = conns[m][b].id
    BY <1>2, <1>3 DEF Remotes
  <2>3. PeersMatchConnections
    BY DEF IInv
  <2> QED
    BY <2>1, <2>2, <2>3 DEF PeersMatchConnections, PeersUnchanged
<1>7. \A m \in Node : IdsDiffer(m)'
  <2> SUFFICES ASSUME NEW m \in Node PROVE IdsDiffer(m)'
    OBVIOUS
  <2>1. created'[m] = IF m = n THEN created[n] + 1 ELSE created[m]
    BY <1>1
  <2>2. \A b \in Remotes(m) : conns[m][b].id \in 1 .. created[m]
    BY DEF IInv, IdsDiffer
  <2>3. \A b \in Remotes(m)' : conns'[m][b].id \in 1 .. created'[m]
    BY <1>1, <1>2, <1>4, <2>1, <2>2 DEF Remotes
  <2>4. \A b, c \in Remotes(m)' : conns'[m][b].id = conns'[m][c].id => b = c
    BY <1>1, <1>2, <1>4, <2>2 DEF IInv, IdsDiffer, Remotes
  <2> QED
    BY <2>3, <2>4 DEF IdsDiffer
<1>8. \A m \in Node : StateSettles(m)'
  BY <1>2 DEF IInv, StateSettles
<1>9. AcceptedInWriting' /\ OnlyServersAccept' /\ ConnectedWasAccepted'
  BY <1>2, <1>4 DEF IInv, AcceptedInWriting, OnlyServersAccept, ConnectedWasAccepted,
     Remotes, Node
<1> QED
  BY <1>5, <1>6, <1>7, <1>8, <1>9 DEF IInv, NoAssertFails, PeersUnchanged

(***************************************************************************)
(* Marking connections: disconnect and onDisconnect change nothing but the *)
(* states of connections that are there.                                   *)
(***************************************************************************)
Marks ==
    /\ conns' \in [Node -> [Node -> Connection]]
    /\ \A n, a \in Node :
        \/ conns'[n][a] = conns[n][a]
        \/ /\ Has(n, a)
           /\ conns'[n][a].state \in {"DISCONNECTING", "DISCONNECTED"}
           /\ conns'[n][a].id = conns[n][a].id
           /\ conns'[n][a].wasConnected = conns[n][a].wasConnected
    /\ PeersUnchanged
    /\ UNCHANGED <<created, net>>
    /\ phase' \in [Node -> {"app", "receive"}]

\* A mark changes neither id nor m_wasConnected, on which the peers hang.
LEMMA MarksInv ==
    ASSUME IInv, Marks
    PROVE  IInv'
<1>1. \A n, a \in Node : /\ Has(n, a)' <=> Has(n, a)
                         /\ conns'[n][a].id = conns[n][a].id
                         /\ conns'[n][a].wasConnected = conns[n][a].wasConnected
  BY DEF Marks, Has
<1>2. \A n \in Node : Remotes(n)' = Remotes(n)
  BY <1>1 DEF Remotes
<1>3. TypeOK'
  <2>1. \A n, a \in Node : Has(n, a)' \/ conns'[n][a] = NoConnection
    BY <1>1 DEF Marks, IInv, TypeOK
  <2> QED
    BY <2>1 DEF Marks, IInv, TypeOK, PeersUnchanged
<1>4. PeersMatchConnections'
  <2>1. \A n \in Node : {a \in Remotes(n)' : conns'[n][a].wasConnected}
                            = {a \in Remotes(n) : conns[n][a].wasConnected}
    BY <1>1, <1>2 DEF Remotes
  <2>2. \A n \in Node : \A a \in {x \in Remotes(n) : conns[n][x].wasConnected} :
            conns'[n][a].id = conns[n][a].id
    BY <1>1 DEF Remotes
  <2>3. PeersMatchConnections /\ peers' = peers
    BY DEF IInv, Marks, PeersUnchanged
  <2> QED
    BY <2>1, <2>2, <2>3 DEF PeersMatchConnections
<1>5. \A n \in Node : IdsDiffer(n)'
  BY <1>1, <1>2 DEF Marks, IInv, IdsDiffer, Remotes
<1>6. \A n \in Node : StateSettles(n)'
  <2> SUFFICES ASSUME NEW n \in Node, NEW a \in Node
               PROVE  LET c == conns'[n][a]
                      IN  /\ c.state \in {"REQUESTING_CONNECTION", "DECIDING_CONNECTION"}
                                => ~ c.wasConnected
                          /\ c.state = "CONNECTED" => c.wasConnected
                          /\ c.state = "REQUESTING_CONNECTION" =>
                                c.attemptsLeft > 0 /\ n \in Clients
                          /\ c.state = "DECIDING_CONNECTION" => n \in Servers
    BY DEF StateSettles
  <2>1. CASE conns'[n][a] = conns[n][a]
    BY <2>1 DEF IInv, StateSettles
  <2>2. CASE conns'[n][a].state \in {"DISCONNECTING", "DISCONNECTED"}
    BY <2>2, Zenon
  <2> QED
    BY <2>1, <2>2 DEF Marks
<1>7. AcceptedInWriting' /\ OnlyServersAccept' /\ ConnectedWasAccepted'
  BY <1>1, <1>2, ZenonT(60) DEF Marks, IInv, AcceptedInWriting, OnlyServersAccept,
     ConnectedWasAccepted, Remotes, Node
<1> QED
  BY <1>3, <1>4, <1>5, <1>6, <1>7 DEF IInv, NoAssertFails, Marks, PeersUnchanged

(***************************************************************************)
(* A client learns that it is accepted.                                    *)
(***************************************************************************)
LEMMA AcceptedInv ==
    ASSUME IInv, NEW n \in Node, NEW a \in Node, BecomesAccepted(n, a),
           phase' \in [Node -> {"app", "receive"}],
           \/ Packet("CONNECT_ACCEPT", a, n) \in net
           \/ Packet("HEARTBEAT", a, n) \in net
    PROVE  IInv'
<1> DEFINE c == conns[n][a]
           d == [c EXCEPT !.state = "CONNECTED", !.accepted = TRUE, !.wasConnected = TRUE]
<1>1. /\ conns \in [Node -> [Node -> Connection]]
      /\ c \in Connection
      /\ c.state = "REQUESTING_CONNECTION" /\ ~ c.wasConnected
      /\ n \in Clients
  BY DEF IInv, TypeOK, BecomesAccepted, StateSettles
<1>2. /\ d \in Connection
      /\ d.id = c.id /\ d.state = "CONNECTED" /\ d.wasConnected = TRUE
  BY <1>1 DEF Connection, State
<1>3. /\ conns' \in [Node -> [Node -> Connection]]
      /\ \A m, b \in Node :
            conns'[m][b] = IF m = n /\ b = a THEN d ELSE conns[m][b]
  BY <1>1, <1>2 DEF BecomesAccepted
<1> HIDE DEF d
<1>4. \A m \in Node : Remotes(m)' = Remotes(m)
  BY <1>1, <1>2, <1>3 DEF Remotes, Has
<1>5. /\ \A m \in Node : peers'[m] = IF m = n THEN peers[n] \cup {c.id} ELSE peers[m]
      /\ peers' \in [Node -> SUBSET ConnectionID]
  <2>1. c.id \in ConnectionID /\ peers \in [Node -> SUBSET ConnectionID]
    BY <1>1 DEF Connection, IInv, TypeOK
  <2>2. peers' = [peers EXCEPT ![n] = (@ \cup {c.id}) \ {}]
    BY DEF BecomesAccepted, PeersFollow
  <2> QED
    BY <2>1, <2>2
<1>6. c.id \notin peers[n]
  <2>1. a \in Remotes(n)
    BY <1>1 DEF Remotes, Has
  <2> QED
    BY <1>1, <2>1 DEF IInv, PeersMatchConnections, IdsDiffer
<1>7. asserts' = {}
  BY <1>6 DEF BecomesAccepted, PeersFollow, IInv, NoAssertFails
<1>8. TypeOK'
  BY <1>1, <1>2, <1>3, <1>5 DEF IInv, TypeOK, Has, BecomesAccepted
<1>9. PeersMatchConnections'
  <2>1. a \in Remotes(n)
    BY <1>1 DEF Remotes, Has
  <2>2. \A m \in Node : {b \in Remotes(m)' : conns'[m][b].wasConnected} =
            {b \in Remotes(m) : conns[m][b].wasConnected}
                \cup IF m = n THEN {a} ELSE {}
    BY <1>1, <1>2, <1>3, <1>4, <2>1 DEF Remotes
  <2>3. \A m \in Node : \A b \in Remotes(m) : conns'[m][b].id = conns[m][b].id
    BY <1>2, <1>3 DEF Remotes
  <2>4. \A m \in Node : peers[m] =
            {conns[m][b].id : b \in {x \in Remotes(m) : conns[m][x].wasConnected}}
    BY DEF IInv, PeersMatchConnections
  <2>5. \A m \in Node : peers'[m] =
            {conns'[m][b].id : b \in {x \in Remotes(m)' : conns'[m][x].wasConnected}}
    BY <1>5, <2>1, <2>2, <2>3, <2>4
  <2> QED
    BY <2>5 DEF PeersMatchConnections
<1>10. \A m \in Node : IdsDiffer(m)'
  <2>1. \A m \in Node : \A b \in Remotes(m) : conns'[m][b].id = conns[m][b].id
    BY <1>2, <1>3 DEF Remotes
  <2> QED
    BY <1>4, <2>1 DEF IInv, IdsDiffer, BecomesAccepted
<1>11. \A m \in Node : StateSettles(m)'
  BY <1>2, <1>3 DEF IInv, StateSettles
<1>12. AcceptedInWriting' /\ OnlyServersAccept'
  BY <1>1, <1>3, NodesAssumption
     DEF IInv, AcceptedInWriting, OnlyServersAccept, BecomesAccepted, Node
<1>13. ConnectedWasAccepted'
  <2>1. a \in Servers /\ Packet("CONNECT_ACCEPT", a, n) \in net
    BY <1>1 DEF IInv, OnlyServersAccept
  <2> QED
    BY <1>3, <1>4, <2>1 DEF IInv, ConnectedWasAccepted, BecomesAccepted, Remotes, Node
<1> QED
  BY <1>7, <1>8, <1>9, <1>10, <1>11, <1>12, <1>13 DEF IInv, NoAssertFails

(***************************************************************************)
(* Steps that leave the connections alone: user packets are sent and       *)
(* handed on, packets are dropped.                                         *)
(***************************************************************************)
Leaves ==
    /\ UNCHANGED <<conns, created, peers, asserts>>
    /\ phase' \in [Node -> {"app", "receive"}]
    /\ \E more \in SUBSET [type : {"USER_PACKET"}, from : Node, to : Node] :
            net' = net \cup more

\* Nothing the invariant speaks of changes but user packets in the network.
LEMMA LeavesInv ==
    ASSUME IInv, Leaves
    PROVE  IInv'
<1>1. TypeOK'
  BY DEF Leaves, IInv, TypeOK, Has, PacketType
<1>2. PeersMatchConnections' /\ NoAssertFails'
  BY DEF Leaves, IInv, PeersMatchConnections, NoAssertFails, Remotes, Has
<1>3. \A n \in Node : IdsDiffer(n)' /\ StateSettles(n)'
  BY DEF Leaves, IInv, IdsDiffer, StateSettles, Remotes, Has
<1>4. \A n, a \in Node : \A type \in {"CONNECT_ACCEPT", "HEARTBEAT"} :
            Packet(type, n, a) \in net' <=> Packet(type, n, a) \in net
  BY DEF Leaves, Packet
<1>5. AcceptedInWriting' /\ OnlyServersAccept' /\ ConnectedWasAccepted'
  BY <1>4 DEF Leaves, IInv, AcceptedInWriting, OnlyServersAccept,
     ConnectedWasAccepted, Remotes, Has, Node
<1> QED
  BY <1>1, <1>2, <1>3, <1>5 DEF IInv

(***************************************************************************)
(* The pass over the connections, whatever timers have elapsed.            *)
(***************************************************************************)
LEMMA PassInv ==
    ASSUME IInv, NEW n \in Node, NEW timers, UpdateConnections(n, timers)
    PROVE  IInv'
<1> DEFINE after == [a \in Node |-> Updated(conns[n][a], timers[a])]
           gone  == {a \in Node : after[a].state = "DISCONNECTED"}
           asked == {a \in Node : conns[n][a].state = "DECIDING_CONNECTION"}
           sent  == UNION {{Packet(type, n, a) :
                        type \in SentTypes(conns[n][a], timers[a])} : a \in Node}
           made  == {after[a].id : a \in asked}
           lost  == {after[a].id : a \in {b \in gone : after[b].wasConnected}}
<1>1. /\ phase' = [phase EXCEPT ![n] = "app"]
      /\ conns' = [conns EXCEPT ![n] =
                [a \in Node |-> IF a \in gone THEN NoConnection ELSE after[a]]]
      /\ net' = net \cup sent
      /\ PeersFollow(n, made, lost)
      /\ created' = created
  BY DEF UpdateConnections
<1>2. conns \in [Node -> [Node -> Connection]]
  BY DEF IInv, TypeOK
<1>3. \A a \in Node :
        LET c == conns[n][a]
            d == after[a]
        IN  /\ d \in Connection
            /\ d.id = c.id
            /\ d.wasConnected = (c.wasConnected \/ c.state = "DECIDING_CONNECTION")
            /\ d.state = "None" <=> c.state = "None"
            /\ c.state = "None" => d = c
            /\ d.state = "DECIDING_CONNECTION" => FALSE
            /\ d.state = "CONNECTED" => c.state \in {"DECIDING_CONNECTION", "CONNECTED"}
            /\ d.state = "REQUESTING_CONNECTION" =>
                    c.state = "REQUESTING_CONNECTION" /\ d.attemptsLeft > 0
            /\ d.state = "DISCONNECTED" =>
                    c.state \in {"CONNECTED", "DISCONNECTING", "DISCONNECTED"}
  <2> SUFFICES ASSUME NEW a \in Node
               PROVE  LET c == conns[n][a]
                          d == Updated(conns[n][a], timers[a])
                      IN  /\ d \in Connection
                          /\ d.id = c.id
                          /\ d.wasConnected =
                                (c.wasConnected \/ c.state = "DECIDING_CONNECTION")
                          /\ d.state = "None" <=> c.state = "None"
                          /\ c.state = "None" => d = c
                          /\ d.state = "DECIDING_CONNECTION" => FALSE
                          /\ d.state = "CONNECTED" =>
                                c.state \in {"DECIDING_CONNECTION", "CONNECTED"}
                          /\ d.state = "REQUESTING_CONNECTION" =>
                                c.state = "REQUESTING_CONNECTION" /\ d.attemptsLeft > 0
                          /\ d.state = "DISCONNECTED" =>
                                c.state \in {"CONNECTED", "DISCONNECTING", "DISCONNECTED"}
    OBVIOUS
  <2>1. conns[n][a] \in Connection
    BY <1>2
  <2>2. conns[n][a].state = "REQUESTING_CONNECTION" => conns[n][a].attemptsLeft > 0
    BY DEF IInv, StateSettles
  <2> QED
    BY <2>1, <2>2, UpdatedFacts
<1> HIDE DEF after
<1>4. /\ conns' \in [Node -> [Node -> Connection]]
      /\ \A a \in Node : conns'[n][a] = IF a \in gone THEN NoConnection ELSE after[a]
      /\ \A m \in Node \ {n} : conns'[m] = conns[m]
  BY <1>1, <1>2, <1>3, NoConnectionType
<1>5. /\ Remotes(n)' = Remotes(n) \ gone
      /\ \A m \in Node \ {n} : Remotes(m)' = Remotes(m)
  <2>1. NoConnection.state = "None"
    BY DEF NoConnection
  <2> QED
    BY <1>3, <1>4, <2>1 DEF Remotes, Has
<1>6. asked \subseteq Remotes(n) \ gone
  BY <1>3 DEF Remotes, Has
<1>7. gone \subseteq Remotes(n)
  BY <1>3 DEF Remotes, Has
<1> DEFINE C == {b \in Remotes(n) : conns[n][b].wasConnected}
<1>8. /\ made = {conns[n][a].id : a \in asked}
      /\ lost = {conns[n][a].id : a \in gone \cap C}
  <2>1. \A a \in asked : after[a].id = conns[n][a].id
    BY <1>3
  <2>2. \A a \in gone : after[a].id = conns[n][a].id /\
                            (after[a].wasConnected <=> conns[n][a].wasConnected)
    BY <1>3
  <2>3. {b \in gone : after[b].wasConnected} = gone \cap C
    BY <1>7, <2>2
  <2> QED
    BY <2>1, <2>2, <2>3
<1>9. asked \cap C = {}
  BY DEF IInv, StateSettles, Remotes
<1>10. peers[n] = {conns[n][a].id : a \in C}
  BY DEF IInv, PeersMatchConnections
<1>11. \A a, b \in Remotes(n) : conns[n][a].id = conns[n][b].id => a = b
  BY DEF IInv, IdsDiffer
<1>12. /\ peers' \in [Node -> SUBSET ConnectionID]
       /\ peers'[n] = (peers[n] \cup made) \ lost
       /\ \A m \in Node \ {n} : peers'[m] = peers[m]
  <2>1. made \subseteq ConnectionID
    <3>1. \A a \in asked : after[a].id \in ConnectionID
      BY <1>3 DEF Connection
    <3> QED
      BY <3>1
  <2>2. peers \in [Node -> SUBSET ConnectionID]
    BY DEF IInv, TypeOK
  <2>3. peers' = [peers EXCEPT ![n] = (@ \cup made) \ lost]
    BY <1>1 DEF PeersFollow
  <2> HIDE DEF made, lost
  <2> QED
    BY <2>1, <2>2, <2>3
<1>13. asserts' = {}
  <2>1. made \cap peers[n] = {}
    <3>1. asked \subseteq Remotes(n) /\ C \subseteq Remotes(n)
      BY <1>6
    <3> HIDE DEF made, asked, C
    <3> QED
      BY <1>8, <1>9, <1>10, <1>11, <3>1
  <2>2. lost \subseteq peers[n]
    <3> HIDE DEF lost, gone, C
    <3> QED
      BY <1>8, <1>10
  <2>3. asserts' = asserts
            \cup {"Peer already exists" : id \in made \cap peers[n]}
            \cup {"Peer doesn't exist" : id \in lost \ peers[n]}
    BY <1>1 DEF PeersFollow
  <2> HIDE DEF made, lost
  <2> QED
    BY <2>1, <2>2, <2>3 DEF IInv, NoAssertFails
<1>14. PeersMatchConnections'
  <2> DEFINE D == {b \in Remotes(n)' : conns'[n][b].wasConnected}
  <2>1. D = (C \cup asked) \ gone
    BY <1>3, <1>4, <1>5, <1>6 DEF Remotes
  <2>2. \A a \in D : conns'[n][a].id = conns[n][a].id
    BY <1>3, <1>4, <1>5 DEF Remotes
  <2>3. peers'[n] = {conns[n][a].id : a \in (C \cup asked) \ gone}
    <3>1. C \cup asked \subseteq Remotes(n)
      BY <1>6
    <3> HIDE DEF C, asked, gone, made, lost
    <3>2. \A a \in C \cup asked :
            conns[n][a].id \in lost <=> a \in gone \cap C
      BY <1>7, <1>8, <1>11, <3>1
    <3>3. \A a \in asked : a \notin gone
      BY <1>6
    <3> QED
      BY <1>8, <1>10, <1>12, <3>2, <3>3
  <2>4. peers'[n] = {conns'[n][a].id : a \in D}
    <3> HIDE DEF C, D, asked, gone
    <3> QED
      BY <2>1, <2>2, <2>3, ZenonT(60)
  <2>5. \A m \in Node \ {n} : peers'[m] =
            {conns'[m][a].id : a \in {b \in Remotes(m)' : conns'[m][b].wasConnected}}
    <3> TAKE m \in Node \ {n}
    <3>1. peers[m] = {conns[m][a].id : a \in {b \in Remotes(m) : conns[m][b].wasConnected}}
      BY DEF IInv, PeersMatchConnections
    <3>2. conns'[m] = conns[m] /\ Remotes(m)' = Remotes(m) /\ peers'[m] = peers[m]
      BY <1>4, <1>5, <1>12
    <3> HIDE DEF C
    <3> QED
      BY <3>1, <3>2, ZenonT(60)
  <2> QED
    BY <2>4, <2>5 DEF PeersMatchConnections
<1>15. TypeOK'
  <2>1. \A m, a \in Node : Has(m, a)' \/ conns'[m][a] = NoConnection
    <3>1. \A a \in Node : conns'[n][a].state # "None" \/ conns'[n][a] = NoConnection
      BY <1>3, <1>4 DEF IInv, TypeOK, Has
    <3> QED
      BY <1>4, <3>1 DEF IInv, TypeOK, Has
  <2>2. sent \subseteq [type : PacketType, from : Node, to : Node]
    <3>1. \A a \in Node : SentTypes(conns[n][a], timers[a]) \subseteq PacketType
      BY DEF SentTypes, PacketType
    <3> QED
      BY <3>1 DEF Packet
  <2> HIDE DEF sent
  <2> QED
    BY <1>1, <1>4, <1>12, <2>1, <2>2 DEF IInv, TypeOK
<1>16. \A m \in Node : IdsDiffer(m)'
  <2>1. \A m \in Node : \A a \in Remotes(m)' :
            a \in Remotes(m) /\ conns'[m][a].id = conns[m][a].id
    BY <1>3, <1>4, <1>5 DEF Remotes
  <2>2. created' = created /\ \A m \in Node : IdsDiffer(m)
    BY <1>1 DEF IInv
  <2> QED
    BY <2>1, <2>2 DEF IdsDiffer
<1>17. \A m \in Node : StateSettles(m)'
  <2>1. \A m \in Node \ {n} : StateSettles(m)'
    BY <1>4 DEF IInv, StateSettles
  <2>2. StateSettles(n)'
    <3>1. \A a \in gone : conns'[n][a].state = "None"
      BY <1>4 DEF NoConnection
    <3>2. \A a \in Node \ gone :
            LET c == conns'[n][a]
            IN  /\ c.state \in {"REQUESTING_CONNECTION", "DECIDING_CONNECTION"}
                        => ~ c.wasConnected
                /\ c.state = "CONNECTED" => c.wasConnected
                /\ c.state = "REQUESTING_CONNECTION" => c.attemptsLeft > 0 /\ n \in Clients
                /\ c.state = "DECIDING_CONNECTION" => n \in Servers
      <4> TAKE a \in Node \ gone
      <4>1. conns'[n][a] = after[a]
        BY <1>4
      <4>2. /\ conns[n][a].state = "CONNECTED" => conns[n][a].wasConnected
            /\ conns[n][a].state = "REQUESTING_CONNECTION" =>
                    ~ conns[n][a].wasConnected /\ n \in Clients
        BY DEF IInv, StateSettles
      <4> QED
        BY <1>3, <4>1, <4>2
    <3> QED
      BY <3>1, <3>2 DEF StateSettles
  <2> QED
    BY <2>1, <2>2
<1>18. \A a \in Node :
            /\ Packet("CONNECT_ACCEPT", n, a) \in sent
                    <=> conns[n][a].state = "DECIDING_CONNECTION"
            /\ Packet("HEARTBEAT", n, a) \in sent => conns[n][a].state = "CONNECTED"
  <2>1. \A a \in Node, type \in PacketType :
            Packet(type, n, a) \in sent => type \in SentTypes(conns[n][a], timers[a])
    <3>1. \A p \in sent : \E b \in Node : \E t \in SentTypes(conns[n][b], timers[b]) :
                p = Packet(t, n, b)
      OBVIOUS
    <3>2. \A t, u, a, b : Packet(t, n, a) = Packet(u, n, b) => t = u /\ a = b
      BY DEF Packet
    <3> HIDE DEF sent
    <3> QED
      BY <3>1, <3>2
  <2>2. \A a \in Node : conns[n][a].state = "DECIDING_CONNECTION" =>
            Packet("CONNECT_ACCEPT", n, a) \in sent
    BY DEF SentTypes
  <2> HIDE DEF sent
  <2> QED
    BY <2>1, <2>2 DEF SentTypes, PacketType
<1>19. \A m \in Node \ {n}, a \in Node, type \in PacketType : Packet(type, m, a) \notin sent
  <2>1. \A p \in sent : p.from = n
    BY DEF Packet
  <2> HIDE DEF sent
  <2> QED
    BY <2>1 DEF Packet
<1>20. AcceptedInWriting'
  <2> SUFFICES ASSUME NEW m \in Servers, NEW a \in Node, conns'[m][a].wasConnected
               PROVE  Packet("CONNECT_ACCEPT", m, a) \in net'
    BY DEF AcceptedInWriting
  <2>1. CASE m = n
    <3>1. a \notin gone /\ after[a].wasConnected
      BY <1>4, <2>1 DEF NoConnection
    <3>2. conns[n][a].wasConnected \/ conns[n][a].state = "DECIDING_CONNECTION"
      BY <1>3, <3>1
    <3>3. Packet("CONNECT_ACCEPT", n, a) \in net \cup sent
      BY <1>18, <2>1, <3>2 DEF IInv, AcceptedInWriting
    <3> QED
      BY <1>1, <2>1, <3>3
  <2>2. CASE m # n
    BY <1>1, <1>4, <2>2 DEF IInv, AcceptedInWriting, Node
  <2> QED
    BY <2>1, <2>2
<1>21. OnlyServersAccept'
  <2> SUFFICES ASSUME NEW m \in Node, NEW a \in Node
               PROVE  /\ Packet("CONNECT_ACCEPT", m, a) \in net' => m \in Servers
                      /\ Packet("HEARTBEAT", m, a) \in net' /\ a \in Clients =>
                            m \in Servers /\ Packet("CONNECT_ACCEPT", m, a) \in net'
    BY DEF OnlyServersAccept
  <2>1. /\ Packet("CONNECT_ACCEPT", m, a) \in net => m \in Servers
        /\ Packet("HEARTBEAT", m, a) \in net /\ a \in Clients =>
                m \in Servers /\ Packet("CONNECT_ACCEPT", m, a) \in net
    BY DEF IInv, OnlyServersAccept
  <2>2. CASE m # n
    BY <1>1, <1>19, <2>1, <2>2 DEF PacketType
  <2>3. CASE m = n
    <3>1. Packet("CONNECT_ACCEPT", n, a) \in sent => n \in Servers
      BY <1>18 DEF IInv, StateSettles
    <3>2. ASSUME Packet("HEARTBEAT", n, a) \in sent, a \in Clients
          PROVE  n \in Servers /\ Packet("CONNECT_ACCEPT", n, a) \in net
      <4>1. conns[n][a].wasConnected /\ a \in Remotes(n)
        BY <1>18, <3>2 DEF IInv, StateSettles, Remotes, Has
      <4>2. n \notin Clients
        BY <3>2, <4>1, NodesAssumption DEF IInv, ConnectedWasAccepted
      <4> QED
        BY <4>1, <4>2 DEF IInv, AcceptedInWriting, Node
    <3> HIDE DEF sent
    <3> QED
      BY <1>1, <2>1, <2>3, <3>1, <3>2
  <2> QED
    BY <2>2, <2>3
<1>22. ConnectedWasAccepted'
  <2> SUFFICES ASSUME NEW m \in Clients, NEW a \in Remotes(m)', conns'[m][a].wasConnected
               PROVE  a \in Servers /\ Packet("CONNECT_ACCEPT", a, m) \in net
    BY <1>1 DEF ConnectedWasAccepted
  <2>1. m \in Node /\ m \notin Servers
    BY NodesAssumption DEF Node
  <2>2. a \in Remotes(m) /\ conns[m][a].wasConnected
    <3>1. CASE m = n
      <4>1. a \in Remotes(n) /\ a \notin gone /\ conns'[n][a] = after[a] /\ a \in Node
        BY <1>4, <1>5, <3>1 DEF Remotes
      <4>2. conns[n][a].state # "DECIDING_CONNECTION"
        BY <2>1, <3>1, <4>1 DEF IInv, StateSettles
      <4> QED
        BY <1>3, <3>1, <4>1, <4>2
    <3>2. CASE m # n
      BY <1>4, <1>5, <2>1, <3>2
    <3> QED
      BY <3>1, <3>2
  <2> QED
    BY <2>2 DEF IInv, ConnectedWasAccepted
<1> QED
  BY <1>13, <1>14, <1>15, <1>16, <1>17, <1>20, <1>21, <1>22 DEF IInv, NoAssertFails

-----------------------------------------------------------------------------
(***************************************************************************)
(* Every action is one of these.                                           *)
(***************************************************************************)
LEMMA ConnectInv ==
    ASSUME IInv, NEW n \in Node, NEW a \in Node, connect(n, a)
    PROVE  IInv'
<1> DEFINE d == [NoConnection EXCEPT !.id = NextId(n),
                                     !.state = "REQUESTING_CONNECTION",
                                     !.attemptsLeft = Attempts]
<1>1. created \in [Node -> Nat] /\ created[n] < MaxConnections[n]
  BY DEF IInv, TypeOK, connect
<1>2. NextId(n) \in ConnectionID
  BY <1>1, NextIdFacts
<1>3. /\ d.id = NextId(n) /\ d.wasConnected = FALSE
      /\ d.state = "REQUESTING_CONNECTION" /\ d.attemptsLeft = Attempts
      /\ d \in Connection
  <2>1. NoConnection \in Connection /\ NoConnection.wasConnected = FALSE
    BY NoConnectionType DEF NoConnection
  <2>2. Attempts \in 0 .. Attempts
    BY CountsAssumption
  <2> QED
    BY <1>2, <2>1, <2>2 DEF Connection, State
<1>4. Attempts > 0 /\ phase' \in [Node -> {"app", "receive"}]
  BY CountsAssumption DEF connect, IInv, TypeOK
<1>5. conns' = [conns EXCEPT ![n][a] = d]
  BY DEF connect
<1> HIDE DEF d
<1>6. Makes(n, a, d)
  BY <1>3, <1>4, <1>5 DEF connect, Makes
<1> QED
  BY <1>6, MakesInv

\* onConnectRequest makes a connection.
LEMMA OnConnectRequestInv ==
    ASSUME IInv, NEW n \in Node, NEW a \in Node, onConnectRequest(n, a)
    PROVE  IInv'
<1> DEFINE d == [NoConnection EXCEPT !.id = NextId(n), !.state = "DECIDING_CONNECTION"]
<1>1. created \in [Node -> Nat] /\ created[n] < MaxConnections[n]
  BY DEF IInv, TypeOK, onConnectRequest
<1>2. NextId(n) \in ConnectionID
  BY <1>1, NextIdFacts
<1>3. /\ d.id = NextId(n) /\ d.wasConnected = FALSE
      /\ d.state = "DECIDING_CONNECTION"
      /\ d \in Connection
  <2>1. NoConnection \in Connection /\ NoConnection.wasConnected = FALSE
    BY NoConnectionType DEF NoConnection
  <2>2. Attempts \in 0 .. Attempts
    BY CountsAssumption
  <2> QED
    BY <1>2, <2>1, <2>2 DEF Connection, State
<1>4. phase' \in [Node -> {"app", "receive"}]
  BY DEF onConnectRequest, Receives, IInv, TypeOK
<1>5. conns' = [conns EXCEPT ![n][a] = d]
  BY DEF onConnectRequest
<1> HIDE DEF d
<1>6. Makes(n, a, d)
  BY <1>3, <1>4, <1>5 DEF onConnectRequest, Makes
<1> QED
  BY <1>6, MakesInv

\* disconnect marks connections.
LEMMA DisconnectInv ==
    ASSUME IInv, NEW n \in Node, NEW id \in ConnectionID, disconnect(n, id)
    PROVE  IInv'
<1> DEFINE all == id = CONNECTION_ID_INVALID \/ n \notin Servers
<1>1. conns \in [Node -> [Node -> Connection]]
  BY DEF IInv, TypeOK
<1>2. \A a \in Node : LET d == [conns[n][a] EXCEPT !.state = "DISCONNECTING"]
                      IN  /\ d \in Connection /\ d.state = "DISCONNECTING"
                          /\ d.id = conns[n][a].id
                          /\ d.wasConnected = conns[n][a].wasConnected
  <2>1. \A a \in Node : conns[n][a] \in Connection
    BY <1>1
  <2>2. "DISCONNECTING" \in State
    BY DEF State
  <2> QED
    BY <2>1, <2>2, StateChange
<1>3. conns' = [conns EXCEPT ![n] = [a \in Node |->
            IF Has(n, a) /\ (all \/ conns[n][a].id = id)
            THEN [conns[n][a] EXCEPT !.state = "DISCONNECTING"]
            ELSE conns[n][a]]]
  BY DEF disconnect
<1> HIDE DEF all
<1>4. /\ conns' \in [Node -> [Node -> Connection]]
      /\ \A m, a \in Node :
            \/ conns'[m][a] = conns[m][a]
            \/ /\ m = n /\ Has(n, a)
               /\ conns'[m][a] = [conns[n][a] EXCEPT !.state = "DISCONNECTING"]
  BY <1>1, <1>2, <1>3
<1>5. Marks
  BY <1>2, <1>4 DEF disconnect, Marks, IInv, TypeOK
<1> QED
  BY <1>5, MarksInv

\* onDisconnect marks one connection.
LEMMA OnDisconnectInv ==
    ASSUME IInv, NEW n \in Node, NEW a \in Node, onDisconnect(n, a)
    PROVE  IInv'
<1> DEFINE d == [conns[n][a] EXCEPT !.state = "DISCONNECTED"]
<1>1. conns \in [Node -> [Node -> Connection]]
  BY DEF IInv, TypeOK
<1>2. /\ d \in Connection /\ d.state = "DISCONNECTED"
      /\ d.id = conns[n][a].id
      /\ d.wasConnected = conns[n][a].wasConnected
  <2>1. conns[n][a] \in Connection
    BY <1>1
  <2>2. "DISCONNECTED" \in State
    BY DEF State
  <2> QED
    BY <2>1, <2>2, StateChange
<1>3. conns' = [conns EXCEPT ![n][a] = d]
  BY <1>1 DEF onDisconnect
<1> HIDE DEF d
<1>4. /\ conns' \in [Node -> [Node -> Connection]]
      /\ \A m, b \in Node :
            conns'[m][b] = IF m = n /\ b = a THEN d ELSE conns[m][b]
  BY <1>1, <1>2, <1>3
<1>5. Marks
  BY <1>2, <1>4 DEF onDisconnect, Receives, Marks, IInv, TypeOK
<1> QED
  BY <1>5, MarksInv

\* A user packet is handed on for a connection that has a peer.
LEMMA OnUserPacketInv ==
    ASSUME IInv, NEW n \in Node, NEW a \in Node, onUserPacket(n, a)
    PROVE  IInv'
<1>1. conns[n][a].id \in peers[n]
  <2>1. a \in Remotes(n) /\ conns[n][a].wasConnected
    BY DEF onUserPacket, IInv, StateSettles, Remotes, Has
  <2> QED
    BY <2>1 DEF IInv, PeersMatchConnections
<1>2. asserts' = asserts
  BY <1>1 DEF onUserPacket
<1>3. net' = net \cup {}
  BY DEF onUserPacket
<1>4. Leaves
  BY <1>2, <1>3 DEF onUserPacket, Receives, Leaves, IInv, TypeOK
<1> QED
  BY <1>4, LeavesInv

\* User packets are sent.
LEMMA UpdateSendInv ==
    ASSUME IInv, NEW n \in Node, NEW a \in Node, updateSend(n, a)
    PROVE  IInv'
<1>1. {Packet("USER_PACKET", n, a)} \in
            SUBSET [type : {"USER_PACKET"}, from : Node, to : Node]
  BY DEF Packet
<1>2. Leaves
  BY <1>1 DEF updateSend, PeersUnchanged, Leaves, IInv, TypeOK
<1> QED
  BY <1>2, LeavesInv

\* The invariant is inductive.
LEMMA StepInv ==
    ASSUME IInv, [Next]_vars
    PROVE  IInv'
<1>1. ASSUME NEW n \in Node, NEW a \in Node, onConnectAccept(n, a) \/ onHeartbeat(n, a)
      PROVE  IInv'
  <2>1. /\ BecomesAccepted(n, a)
        /\ phase' \in [Node -> {"app", "receive"}]
        /\ \/ Packet("CONNECT_ACCEPT", a, n) \in net
           \/ Packet("HEARTBEAT", a, n) \in net
    BY <1>1 DEF onConnectAccept, onHeartbeat, Receives, IInv, TypeOK
  <2> QED
    BY <2>1, AcceptedInv
<1>2. ASSUME NEW n \in Node, updateConnections(n)
      PROVE  IInv'
  BY <1>2, PassInv DEF updateConnections
<1>3. CASE UNCHANGED vars
  <2>1. net' = net \cup {}
    BY <1>3 DEF vars
  <2>2. Leaves
    BY <1>3, <2>1 DEF Leaves, vars, IInv, TypeOK
  <2> QED
    BY <2>2, LeavesInv
<1> QED
  BY <1>1, <1>2, <1>3, ConnectInv, DisconnectInv, OnConnectRequestInv, OnDisconnectInv,
     OnUserPacketInv, UpdateSendInv DEF Next

\* For any number of processes: whatever the network and the applications do,
\* IInv holds.
THEOREM ConnectionsInvariance == Spec => []IInv
<1>1. Init => IInv
  BY InitInv
<1>2. IInv /\ [Next]_vars => IInv'
  BY StepInv
<1> QED
  BY <1>1, <1>2, PTL DEF Spec

\* Connections stay well formed.
THEOREM ConnectionsTypeCorrect == Spec => []TypeOK
<1>1. IInv => TypeOK
  BY DEF IInv
<1> QED
  BY <1>1, ConnectionsInvariance, PTL

\* The peers that the callbacks make and erase are those of the connections,
\* through every timeout, crossing handshake and disconnect.
THEOREM PeersFollowConnections == Spec => []PeersMatchConnections
<1>1. IInv => PeersMatchConnections
  BY DEF IInv
<1> QED
  BY <1>1, ConnectionsInvariance, PTL

\* No assertion of the PacketManager fails.
THEOREM AssertsHold == Spec => []NoAssertFails
<1>1. IInv => NoAssertFails
  BY DEF IInv
<1> QED
  BY <1>1, ConnectionsInvariance, PTL

\* Clients are connected to servers that have accepted them.
THEOREM ConnectedMeansAccepted == Spec => []ConnectedWasAccepted
<1>1. IInv => ConnectedWasAccepted
  BY DEF IInv
<1> QED
  BY <1>1, ConnectionsInvariance, PTL

=============================================================================
