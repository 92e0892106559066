----------------------- MODULE TimedConnectionsProofs -----------------------
(***************************************************************************)
(* Proofs that every step of TimedConnections keeps IInv and               *)
(* TimedConnectionsInvariant's TimedInv, whatever the times, the losses    *)
(* and the ports, and that so a stopped process is noticed in time and no  *)
(* search for a port runs out of attempts.  Then, that as long as all      *)
(* processes run KeptConnections' KeptInv is kept, and that so handshakes  *)
(* succeed and connections are not lost.                                   *)
(***************************************************************************)
EXTENDS KeptConnections, ConnectionManagerProofs, FiniteSetTheorems

-----------------------------------------------------------------------------
(***************************************************************************)
(* The connections.  Every timed step is a step of ConnectionManager, or   *)
(* changes the phase only.                                                 *)
(***************************************************************************)

\* A packet under way was sent, by a process to one that runs.
LEMMA WireFacts ==
    ASSUME IInv, TimedTypeOK, NEW w \in wire
    PROVE  /\ w.packet \in net /\ w.age \in 0 .. Latency
           /\ w.packet.to \in Node /\ w.packet.from \in Node
           /\ w.packet.to \in alive
           /\ w.packet.type \in PacketType
           /\ w.packet = Packet(w.packet.type, w.packet.from, w.packet.to)
<1>1. /\ w.packet \in net /\ w.age \in 0 .. Latency /\ w.packet.to \in alive
  BY DEF TimedTypeOK
<1>2. net \subseteq [type : PacketType, from : Node, to : Node]
  BY DEF IInv, TypeOK
<1>3. w.packet \in [type : PacketType, from : Node, to : Node]
  BY <1>1, <1>2
<1>4. w.packet = [type |-> w.packet.type, from |-> w.packet.from, to |-> w.packet.to]
  BY <1>3
<1> QED
  BY <1>1, <1>3, <1>4 DEF Packet

\* Packets that are dropped change the phase at most.
LEMMA PhaseOnly ==
    ASSUME IInv, UNCHANGED <<conns, created, peers, net, asserts>>,
           phase' \in [Node -> {"app", "receive"}]
    PROVE  IInv'
<1>1. net' = net \cup {}
  OBVIOUS
<1>2. Leaves
  BY <1>1 DEF Leaves
<1> QED
  BY <1>2, LeavesInv

\* Whatever a packet does at its arrival, a handler of ConnectionManager does.
LEMMA ReadKeepsIInv ==
    ASSUME IInv, TimedTypeOK, NEW w \in wire, Read(w.packet.to, w)
    PROVE  IInv'
<1> DEFINE n == w.packet.to
           a == w.packet.from
           type == w.packet.type
<1>1. n \in Node /\ a \in Node
  BY WireFacts
<1>2. CASE UNCHANGED <<conns, created, peers, net, asserts>>
                /\ phase' = [phase EXCEPT ![n] = "receive"]
  <2>1. phase' \in [Node -> {"app", "receive"}]
    BY <1>2 DEF IInv, TypeOK
  <2> QED
    BY <1>2, <2>1, PhaseOnly
<1>3. CASE \/ onConnectRequest(n, a) \/ onConnectAccept(n, a) \/ onHeartbeat(n, a)
           \/ onUserPacket(n, a) \/ onDisconnect(n, a)
  <2>1. Next
    BY <1>1, <1>3 DEF Next
  <2> QED
    BY <2>1, StepInv
<1> QED
  BY <1>2, <1>3 DEF Read

\* Every step of the timed model keeps the invariant of the connections.
LEMMA TimedStepIInv ==
    ASSUME IInv, TimedTypeOK, [TimedNext]_timedVars
    PROVE  IInv'
<1>1. CASE UNCHANGED vars
  BY <1>1, StepInv
<1>2. ASSUME NEW n \in Node, Bind(n) \/ Crash(n)
      PROVE  IInv'
  BY <1>1, <1>2 DEF Bind, Crash
<1>3. ASSUME NEW n \in Node, Pass(n)
      PROVE  IInv'
  BY <1>3, PassInv DEF Pass
<1>4. ASSUME NEW n \in Node, NEW a \in Node, Connect(n, a) \/ UpdateSend(n, a)
      PROVE  IInv'
  BY <1>4, ConnectInv, UpdateSendInv DEF Connect, UpdateSend
<1>5. ASSUME NEW w \in wire, Read(w.packet.to, w)
      PROVE  IInv'
  BY <1>5, ReadKeepsIInv
<1>6. CASE Tick
  BY <1>1, <1>6 DEF Tick
<1>7. CASE UNCHANGED timedVars
  BY <1>1, <1>7 DEF timedVars
<1> QED
  BY <1>2, <1>3, <1>4, <1>5, <1>6, <1>7 DEF TimedNext

-----------------------------------------------------------------------------
(***************************************************************************)
(* The search for a port.                                                  *)
(***************************************************************************)

\* A port one cycle further is the same port.
LEMMA ModOnce ==
    ASSUME NEW c \in Nat \ {0}, NEW x \in 0 .. 2 * c - 1
    PROVE  x % c = IF x < c THEN x ELSE x - c
<1>1. CASE x < c
  BY <1>1
<1>2. CASE x >= c
  <2>1. PICK y \in Nat : x = y + c /\ y < c
    <3>1. x - c \in Nat /\ x = (x - c) + c /\ x - c < c
      BY <1>2
    <3> QED
      BY <3>1
  <2>2. (y + c) % c = y
    BY <2>1
  <2> QED
    BY <1>2, <2>1, <2>2
<1> QED
  BY <1>1, <1>2

\* The ports tried one after the other are different, for less than a cycle.
LEMMA PortsDiffer ==
    ASSUME NEW n \in Node, NEW k \in 0 .. BindAttempts, BindAttempts < PortCycle
    PROVE  LET f == [i \in 0 .. k |-> (ConfigPort[n] + i) % PortCycle]
           IN  /\ \A i \in 0 .. k : f[i] \in Port
               /\ \A i, j \in 0 .. k : f[i] = f[j] => i = j
<1>1. PortCycle \in Nat \ {0} /\ BindAttempts \in Nat /\ ConfigPort[n] \in 0 .. PortCycle - 1
  BY SocketAssumption, TimesAssumption DEF Port
<1>2. \A i \in 0 .. k : /\ ConfigPort[n] + i \in 0 .. 2 * PortCycle - 1
                        /\ i < PortCycle
  BY <1>1
<1>3. \A i \in 0 .. k : (ConfigPort[n] + i) % PortCycle =
            IF ConfigPort[n] + i < PortCycle THEN ConfigPort[n] + i
            ELSE ConfigPort[n] + i - PortCycle
  <2> TAKE i \in 0 .. k
  <2>1. ConfigPort[n] + i \in 0 .. 2 * PortCycle - 1
    BY <1>2
  <2> QED
    BY <1>1, <2>1, ModOnce
<1> QED
  BY <1>1, <1>2, <1>3 DEF Port

\* While a process searches, its attempts are not used up: there are fewer
\* taken ports than attempts.
LEMMA AttemptsSuffice ==
    ASSUME PortsTried, port \in [Node -> Port], NEW n \in Node,
           ~ bound[n], Taken(port[n])
    PROVE  attemptsLeft[n] > 0
<1> SUFFICES ASSUME attemptsLeft[n] <= 0 PROVE FALSE
  BY SocketAssumption DEF PortsTried
<1> DEFINE k == BindAttempts
           f == [i \in 0 .. k |-> (ConfigPort[n] + i) % PortCycle]
           O == {port[m] : m \in Node \ {n}}
           T == OccupiedPorts \cup O
           g == [m \in Node \ {n} |-> port[m]]
<1>1. k \in Nat /\ Tried(n) = k /\ BindAttempts < PortCycle
  <2>1. attemptsLeft[n] = 0
    BY SocketAssumption DEF PortsTried
  <2> QED
    BY <2>1, SocketAssumption, PortsAssumption DEF Tried
<1>2. \A i \in 0 .. k : f[i] \in T
  <2>1. \A i \in 0 .. k - 1 : f[i] \in T
    BY <1>1 DEF PortsTried
  <2>2. f[k] \in T
    BY <1>1, TimesAssumption DEF PortsTried, Taken
  <2>3. \A i \in 0 .. k : i \in 0 .. k - 1 \/ i = k
    BY <1>1
  <2> QED
    BY <2>1, <2>2, <2>3
<1>3. f \in Injection(0 .. k, T)
  <2>1. \A i, j \in 0 .. k : f[i] = f[j] => i = j
    BY <1>1, PortsDiffer
  <2> QED
    BY <1>2, <2>1 DEF Injection, IsInjective
<1>4. IsFiniteSet(Node \ {n}) /\ Cardinality(Node \ {n}) = Cardinality(Process) - 1
  BY TimesAssumption, FS_RemoveElement
<1>5. g \in Surjection(Node \ {n}, O)
  BY DEF Surjection
<1>6. IsFiniteSet(O) /\ Cardinality(O) <= Cardinality(Process) - 1
  BY <1>4, <1>5, FS_Surjection
<1>7. /\ IsFiniteSet(T)
      /\ Cardinality(T) <= Cardinality(OccupiedPorts) + Cardinality(O)
  <2>1. /\ IsFiniteSet(T)
        /\ Cardinality(T) = Cardinality(OccupiedPorts) + Cardinality(O)
                                - Cardinality(OccupiedPorts \cap O)
    BY <1>6, PortsAssumption, FS_Union
  <2>2. Cardinality(OccupiedPorts \cap O) \in Nat
    BY <1>6, FS_Subset, FS_CardinalityType
  <2> QED
    BY <1>6, <2>1, <2>2, PortsAssumption, FS_CardinalityType
<1>8. Cardinality(0 .. k) <= Cardinality(T)
  BY <1>3, <1>7, FS_Injection
<1>9. Cardinality(0 .. k) = k + 1
  BY <1>1, FS_Interval
<1>10. /\ Cardinality(T) \in Nat /\ Cardinality(O) \in Nat
       /\ Cardinality(OccupiedPorts) \in Nat /\ Cardinality(Process) \in Nat
  BY <1>6, <1>7, PortsAssumption, TimesAssumption, FS_CardinalityType
<1> HIDE DEF T, O, f, g
<1> QED
  BY <1>1, <1>6, <1>7, <1>8, <1>9, <1>10, PortsAssumption

\* Where the socket stands: what the other steps leave alone.
Searching == <<port, attemptsLeft, bound>>

\* createHost notes every port it has found taken.
LEMMA BindKeepsPorts ==
    ASSUME PortsTried, port \in [Node -> Port], bound \in [Node -> BOOLEAN],
           NEW n \in Node, Bind(n)
    PROVE  /\ PortsTried'
           /\ port' \in [Node -> Port] /\ bound' \in [Node -> BOOLEAN]
           /\ countToDrop' = countToDrop
<1>1. CASE bindSucceeds(n)
  <2>1. /\ \A m \in Node : bound[m] => bound'[m]
        /\ bound' \in [Node -> BOOLEAN]
    BY <1>1 DEF bindSucceeds
  <2>2. /\ UNCHANGED <<port, attemptsLeft, countToDrop>>
        /\ \A m \in Node : Tried(m)' = Tried(m)
    BY <1>1 DEF bindSucceeds, Tried
  <2> QED
    BY <2>1, <2>2 DEF PortsTried
<1>2. CASE bindFails(n)
  <2>1. attemptsLeft[n] > 0
    BY <1>2, AttemptsSuffice DEF bindFails
  <2>2. /\ attemptsLeft \in [Node -> 0 .. BindAttempts]
        /\ attemptsLeft' = [attemptsLeft EXCEPT ![n] = @ - 1]
        /\ port' = [port EXCEPT ![n] = (@ + 1) % PortCycle]
        /\ UNCHANGED <<bound, countToDrop>>
        /\ ~ bound[n] /\ Taken(port[n])
    BY <1>2 DEF bindFails, PortsTried
  <2>3. /\ PortCycle \in Nat \ {0} /\ BindAttempts \in Nat /\ BindAttempts < PortCycle
        /\ ConfigPort[n] \in 0 .. PortCycle - 1
        /\ Process = Node
    BY SocketAssumption, PortsAssumption, TimesAssumption DEF Port
  <2>4. /\ attemptsLeft' \in [Node -> 0 .. BindAttempts]
        /\ \A m \in Node \ {n} : Tried(m)' = Tried(m) /\ port'[m] = port[m]
        /\ Tried(n)' = Tried(n) + 1 /\ Tried(n) \in Nat /\ Tried(n) + 1 <= BindAttempts
    BY <2>1, <2>2, <2>3 DEF Tried
  <2>5. port'[n] = (port[n] + 1) % PortCycle /\ port' \in [Node -> Port]
    BY <2>2, <2>3 DEF Port
  <2>6. (port[n] + 1) % PortCycle = (ConfigPort[n] + (Tried(n) + 1)) % PortCycle
    <3> DEFINE x == ConfigPort[n] + Tried(n)
    <3>1. x \in 0 .. 2 * PortCycle - 1 /\ x + 1 \in 0 .. 2 * PortCycle - 1
      BY <2>3, <2>4
    <3>2. port[n] = x % PortCycle /\ port[n] \in 0 .. PortCycle - 1
      BY <2>3 DEF PortsTried, Port
    <3>3. /\ x % PortCycle = IF x < PortCycle THEN x ELSE x - PortCycle
          /\ (x + 1) % PortCycle = IF x + 1 < PortCycle THEN x + 1 ELSE x + 1 - PortCycle
      BY <2>3, <3>1, ModOnce
    <3>4. x \in Int /\ x + 1 = ConfigPort[n] + (Tried(n) + 1)
      BY <2>3, <2>4
    <3> HIDE DEF x
    <3>5. ASSUME NEW y \in 0 .. 2 * PortCycle - 1, y = port[n] + 1
          PROVE  y % PortCycle = (x + 1) % PortCycle
      <4>1. y % PortCycle = IF y < PortCycle THEN y ELSE y - PortCycle
        BY <2>3, ModOnce
      <4> QED
        BY <2>3, <3>1, <3>2, <3>3, <3>4, <3>5, <4>1
    <3>6. port[n] + 1 \in 0 .. 2 * PortCycle - 1
      BY <2>3, <3>2
    <3> QED
      BY <3>4, <3>5, <3>6
  <2>7. \A m, q \in Node : bound[q] => q # n /\ port'[q] = port[q]
    BY <2>2, <2>4
  <2>8. \A p : Taken(p) =>
            p \in OccupiedPorts \/ \E m \in Node \ {n} : bound[m] /\ port'[m] = p
    BY <2>2, <2>3, <2>7 DEF Taken
  <2>9. ASSUME NEW m \in Node
        PROVE  /\ port'[m] = (ConfigPort[m] + Tried(m)') % PortCycle
               /\ \A i \in 0 .. Tried(m)' - 1 :
                    LET p == (ConfigPort[m] + i) % PortCycle
                    IN  p \in OccupiedPorts
                        \/ \E q \in Node \ {m} : bound'[q] /\ port'[q] = p
    <3>1. CASE m # n
      BY <2>2, <2>4, <2>7, <3>1 DEF PortsTried
    <3>2. CASE m = n
      <4>1. \A i \in 0 .. Tried(n)' - 1 : i \in 0 .. Tried(n) - 1 \/ i = Tried(n)
        BY <2>4
      <4>2. (ConfigPort[n] + Tried(n)) % PortCycle = port[n]
        BY DEF PortsTried
      <4>3. \A i \in 0 .. Tried(n) - 1 :
                LET p == (ConfigPort[n] + i) % PortCycle
                IN  p \in OccupiedPorts
                    \/ \E q \in Node \ {n} : bound[q] /\ port'[q] = p
        BY <2>4 DEF PortsTried
      <4> QED
        BY <2>2, <2>4, <2>5, <2>6, <2>8, <3>2, <4>1, <4>2, <4>3
    <3> QED
      BY <3>1, <3>2
  <2> QED
    BY <2>2, <2>4, <2>5, <2>9 DEF PortsTried
<1> QED
  BY <1>1, <1>2 DEF Bind

-----------------------------------------------------------------------------
(***************************************************************************)
(* What a step sends.                                                      *)
(***************************************************************************)

\* The drop counter stays between 0 and the drop chance.
LEMMA CountAfterType ==
    ASSUME NEW n \in Node, NEW sent \in Nat, countToDrop[n] \in Nat,
           countToDrop[n] <= DropChance[n]
    PROVE  CountAfter(n, sent) \in Nat /\ CountAfter(n, sent) <= DropChance[n]
<1>1. DropChance[n] \in Nat
  BY SocketAssumption, TimesAssumption
<1>2. CASE DropChance[n] = 0
  BY <1>2 DEF CountAfter
<1>3. CASE DropChance[n] # 0
  <2> DEFINE r == (DropChance[n] - countToDrop[n] + sent) % DropChance[n]
  <2>1. r \in 0 .. DropChance[n] - 1
    BY <1>1, <1>3
  <2>2. CountAfter(n, sent) = DropChance[n] - r
    BY <1>3 DEF CountAfter
  <2> HIDE DEF r
  <2> QED
    BY <1>1, <2>1, <2>2
<1> QED
  BY <1>2, <1>3

\* What send does, whatever the order and the losses: only what was sent gets
\* under way, to processes that run, and the counters stay in their range.
LEMMA SendFacts ==
    ASSUME TimedTypeOK, NEW n \in Node, NEW sent, IsFiniteSet(sent), Send(n, sent, wire)
    PROVE  /\ \A w \in wire' : \/ w \in wire
                               \/ /\ w.packet \in sent /\ w.packet.to \in alive
                                  /\ w.age = 0
                                  /\ w = [packet |-> w.packet, age |-> 0]
           /\ losses' \in [Node -> [Node -> Nat]]
           /\ countToDrop' \in [Node -> Nat]
           /\ \A m \in Node : countToDrop'[m] <= DropChance[m]
           /\ UNCHANGED Searching
<1>1. PICK order \in SetToSeqs(sent) : \E lost \in SUBSET DOMAIN order :
        LET gone == lost \cup {k \in DOMAIN order : Drops(n, k)}
        IN  /\ wire' = wire \cup
                    {[packet |-> order[k], age |-> 0] :
                        k \in {j \in DOMAIN order \ gone : order[j].to \in alive}}
            /\ losses' = [losses EXCEPT ![n] = [a \in Node |->
                    IF a \notin alive \/ \A k \in DOMAIN order : order[k].to # a
                    THEN losses[n][a]
                    ELSE IF \E k \in gone : order[k].to = a THEN losses[n][a] + 1 ELSE 0]]
            /\ countToDrop' = [countToDrop EXCEPT ![n] = CountAfter(n, Len(order))]
            /\ UNCHANGED <<port, attemptsLeft, bound>>
  BY DEF Send
<1>2. PICK lost \in SUBSET DOMAIN order :
        LET gone == lost \cup {k \in DOMAIN order : Drops(n, k)}
        IN  /\ wire' = wire \cup
                    {[packet |-> order[k], age |-> 0] :
                        k \in {j \in DOMAIN order \ gone : order[j].to \in alive}}
            /\ losses' = [losses EXCEPT ![n] = [a \in Node |->
                    IF a \notin alive \/ \A k \in DOMAIN order : order[k].to # a
                    THEN losses[n][a]
                    ELSE IF \E k \in gone : order[k].to = a THEN losses[n][a] + 1 ELSE 0]]
            /\ countToDrop' = [countToDrop EXCEPT ![n] = CountAfter(n, Len(order))]
            /\ UNCHANGED <<port, attemptsLeft, bound>>
  BY <1>1
<1> DEFINE gone == lost \cup {k \in DOMAIN order : Drops(n, k)}
<1>3. Cardinality(sent) \in Nat
  BY FS_CardinalityType
<1>4. order \in [1 .. Cardinality(sent) -> sent]
  BY DEF SetToSeqs
<1>5. Len(order) \in Nat
  <2>1. order \in Seq(sent)
    BY <1>3, <1>4
  <2> QED
    BY <2>1
<1>6. \A w \in wire' : \/ w \in wire
                       \/ /\ w.packet \in sent /\ w.packet.to \in alive
                          /\ w.age = 0
                          /\ w = [packet |-> w.packet, age |-> 0]
  <2>1. \A k \in DOMAIN order : order[k] \in sent
    BY <1>4
  <2>2. \A w \in wire' : w \in wire \/ \E k \in DOMAIN order :
            order[k].to \in alive /\ w = [packet |-> order[k], age |-> 0]
    BY <1>2
  <2> QED
    BY <2>1, <2>2
<1>7. losses' \in [Node -> [Node -> Nat]]
  <2>1. losses \in [Node -> [Node -> Nat]]
    BY DEF TimedTypeOK
  <2> DEFINE after == [a \in Node |->
                    IF a \notin alive \/ \A k \in DOMAIN order : order[k].to # a
                    THEN losses[n][a]
                    ELSE IF \E k \in gone : order[k].to = a THEN losses[n][a] + 1 ELSE 0]
  <2>2. after \in [Node -> Nat]
    BY <2>1
  <2>3. losses' = [losses EXCEPT ![n] = after]
    BY <1>2
  <2> HIDE DEF after
  <2> QED
    BY <2>1, <2>2, <2>3
<1>8. /\ countToDrop' \in [Node -> Nat]
      /\ \A m \in Node : countToDrop'[m] <= DropChance[m]
  <2>1. /\ countToDrop \in [Node -> Nat]
        /\ \A m \in Node : countToDrop[m] <= DropChance[m]
    BY DEF TimedTypeOK
  <2>2. /\ CountAfter(n, Len(order)) \in Nat
        /\ CountAfter(n, Len(order)) <= DropChance[n]
    BY <1>5, <2>1, CountAfterType
  <2>3. countToDrop' = [countToDrop EXCEPT ![n] = CountAfter(n, Len(order))]
    BY <1>2
  <2> QED
    BY <2>1, <2>2, <2>3
<1> QED
  BY <1>2, <1>6, <1>7, <1>8 DEF Searching

\* A pass sends at most one packet to each process.
LEMMA PassSendsFacts ==
    ASSUME NEW n \in Node
    PROVE  /\ IsFiniteSet(PassSends(n))
           /\ \A p \in PassSends(n) : p.from = n
<1> DEFINE sends == [a \in Node |->
                {Packet(type, n, a) : type \in SentTypes(conns[n][a], Timers(n)[a])}]
           F == {sends[a] : a \in Node}
<1>1. PassSends(n) = UNION F
  BY DEF PassSends
<1>2. sends \in Surjection(Node, F)
  BY DEF Surjection
<1>3. IsFiniteSet(F)
  BY <1>2, TimesAssumption, FS_Surjection
<1>4. \A S \in F : IsFiniteSet(S)
  <2> SUFFICES ASSUME NEW a \in Node PROVE IsFiniteSet(sends[a])
    OBVIOUS
  <2> DEFINE types == SentTypes(conns[n][a], Timers(n)[a])
  <2>1. types = {} \/ \E t : types = {t}
    BY DEF SentTypes
  <2> HIDE DEF types
  <2>2. sends[a] = {Packet(t, n, a) : t \in types}
    BY DEF types
  <2>3. sends[a] = {} \/ \E p : sends[a] = {p}
    <3>1. CASE types = {}
      <4>1. sends[a] = {}
        BY <2>2, <3>1
      <4> QED
        BY <4>1
    <3>2. ASSUME NEW t, types = {t}
          PROVE  \E p : sends[a] = {p}
      <4>1. sends[a] = {Packet(t, n, a)}
        <5>1. {Packet(u, n, a) : u \in {t}} = {Packet(t, n, a)}
          OBVIOUS
        <5> HIDE DEF sends
        <5> QED
          BY <2>2, <3>2, <5>1
      <4> QED
        BY <4>1
    <3> QED
      BY <2>1, <3>1, <3>2
  <2> HIDE DEF sends
  <2> QED
    BY <2>3, FS_EmptySet, FS_Singleton, ZenonT(60)
<1>5. \A p \in PassSends(n) : p.from = n
  BY DEF PassSends, Packet
<1> HIDE DEF F
<1>6. IsFiniteSet(UNION F)
  BY <1>3, <1>4, FS_UNION
<1>7. IsFiniteSet(PassSends(n))
  BY <1>1, <1>6, Zenon
<1> QED
  BY <1>5, <1>7

-----------------------------------------------------------------------------
(***************************************************************************)
(* The times.  One lemma for each action says that it keeps the types and  *)
(* what is counted: Counted is TimedInv without the search for a port.     *)
(***************************************************************************)

Counted ==
    /\ TimedTypeOK
    /\ StopCounted
    /\ ReadSoonAfterStop
    /\ DecidedInFrame
    /\ SilenceCounted

\* The constants, and the bounds they make.
LEMMA TimesFacts ==
    /\ NoTimes \in Times
    /\ RetryTime \in Nat /\ HeartbeatTime \in Nat /\ HeartbeatTimeout \in Nat
    /\ FrameTime \in Nat \ {0} /\ Latency \in Nat /\ NoticeTime \in Nat
BY TimesAssumption DEF NoTimes, Times, NoticeTime

\* The times of a connection, with one of them started again.
LEMMA TimesChange ==
    ASSUME NEW t \in Times
    PROVE  /\ t.heard \in Nat
           /\ [t EXCEPT !.heard = 0] \in Times /\ [t EXCEPT !.heard = 0].heard = 0
           /\ [t EXCEPT !.sent = 0] \in Times /\ [t EXCEPT !.sent = 0].heard = t.heard
           /\ \A r \in 0 .. RetryTime, s \in 0 .. HeartbeatTime + 1 :
                /\ [t EXCEPT !.request = r, !.sent = s] \in Times
                /\ [t EXCEPT !.request = r, !.sent = s].heard = t.heard
<1>1. t.heard \in Nat
  BY TimesFacts DEF Times
<1>2. [t EXCEPT !.heard = 0] \in Times /\ [t EXCEPT !.heard = 0].heard = 0
  <2>1. 0 \in 0 .. HeartbeatTimeout + FrameTime + 1
    BY TimesFacts
  <2> QED
    BY <2>1 DEF Times
<1>3. [t EXCEPT !.sent = 0] \in Times /\ [t EXCEPT !.sent = 0].heard = t.heard
  <2>1. 0 \in 0 .. HeartbeatTime + 1
    BY TimesFacts
  <2> QED
    BY <2>1 DEF Times
<1>4. ASSUME NEW r \in 0 .. RetryTime, NEW s \in 0 .. HeartbeatTime + 1
      PROVE  /\ [t EXCEPT !.request = r, !.sent = s] \in Times
             /\ [t EXCEPT !.request = r, !.sent = s].heard = t.heard
  BY DEF Times
<1> QED
  BY <1>1, <1>2, <1>3, <1>4

\* A step after which the connections, their times of silence and the frames
\* are as before, and new packets come from a process that runs.
LEMMA WireGrows ==
    ASSUME Counted, NEW n \in alive, NEW sent,
           \A w \in wire' : \/ w \in wire
                            \/ /\ w.packet \in sent /\ w.packet.to \in alive
                               /\ w.age = 0
                               /\ w = [packet |-> w.packet, age |-> 0],
           \A p \in sent : p.from = n,
           net \cup sent \subseteq net', UNCHANGED <<alive, stopped>>
    PROVE  /\ wire' \subseteq [packet : net', age : 0 .. Latency]
           /\ \A w \in wire' : w.packet.to \in alive'
           /\ StopCounted'
           /\ \A w \in wire' : \/ w \in wire
                               \/ stopped'[w.packet.from] = 0 /\ w.age = 0
<1>1. wire \subseteq [packet : net, age : 0 .. Latency] /\ \A w \in wire : w.packet.to \in alive
  BY DEF Counted, TimedTypeOK
<1>2. 0 \in 0 .. Latency
  BY TimesFacts
<1>3. \A w \in wire' : w \in [packet : net', age : 0 .. Latency] /\ w.packet.to \in alive'
  <2> TAKE w \in wire'
  <2>1. CASE w \in wire
    BY <1>1, <2>1
  <2>2. CASE w.packet \in sent /\ w.packet.to \in alive /\ w = [packet |-> w.packet, age |-> 0]
    BY <1>2, <2>2
  <2> QED
    BY <2>1, <2>2
<1>4. stopped[n] = 0 /\ StopCounted'
  BY DEF Counted, StopCounted
<1> QED
  BY <1>3, <1>4

\* createHost touches no time.
LEMMA BindKeepsCount ==
    ASSUME Counted, PortsTried, NEW n \in Node, Bind(n)
    PROVE  Counted' /\ PortsTried'
<1>1. port \in [Node -> Port] /\ bound \in [Node -> BOOLEAN]
  BY DEF Counted, TimedTypeOK
<1>2. /\ PortsTried' /\ port' \in [Node -> Port] /\ bound' \in [Node -> BOOLEAN]
      /\ countToDrop' = countToDrop
  BY <1>1, BindKeepsPorts
<1>3. UNCHANGED <<vars, timeVars>>
  BY DEF Bind
<1> QED
  BY <1>2, <1>3
     DEF Counted, TimedTypeOK, StopCounted, ReadSoonAfterStop, DecidedInFrame,
         SilenceCounted, vars, timeVars

\* A new request counts no silence yet.
LEMMA ConnectKeepsCount ==
    ASSUME IInv, Counted, NEW n \in Node, NEW a \in Node, Connect(n, a)
    PROVE  Counted'
<1>1. PICK up \in {0, HeartbeatTime + 1} :
            since' = [since EXCEPT ![n][a] = [NoTimes EXCEPT !.sent = up]]
  BY DEF Connect
<1>2. since \in [Node -> [Node -> Times]] /\ conns \in [Node -> [Node -> Connection]]
  BY DEF Counted, TimedTypeOK, IInv, TypeOK
<1>3. [NoTimes EXCEPT !.sent = up] \in Times
  <2>1. up \in 0 .. HeartbeatTime + 1
    BY TimesFacts
  <2> QED
    BY <2>1, TimesFacts DEF Times, NoTimes
<1>4. /\ since' \in [Node -> [Node -> Times]]
      /\ \A m, b \in Node : m # n \/ b # a => since'[m][b] = since[m][b]
  BY <1>1, <1>2, <1>3
<1>5. /\ conns'[n][a].state = "REQUESTING_CONNECTION"
      /\ \A m, b \in Node : m # n \/ b # a => conns'[m][b] = conns[m][b]
  BY <1>2 DEF Connect, connect, NoConnection
<1>6. UNCHANGED <<phase, net, socketVars, losses, alive, frame, wire, stopped>>
  BY DEF Connect, connect, NothingSent
<1>7. alive \subseteq Node
  BY DEF Counted, TimedTypeOK
<1>8. TimedTypeOK' /\ StopCounted' /\ ReadSoonAfterStop'
  BY <1>4, <1>6 DEF Counted, TimedTypeOK, StopCounted, ReadSoonAfterStop, socketVars
<1>9. DecidedInFrame'
  BY <1>4, <1>5, <1>6, <1>7 DEF Counted, DecidedInFrame
<1>10. SilenceCounted'
  BY <1>4, <1>5, <1>6, <1>7 DEF Counted, SilenceCounted
<1> QED
  BY <1>8, <1>9, <1>10 DEF Counted

\* A user packet postpones a heartbeat only.
LEMMA UpdateSendKeepsCount ==
    ASSUME IInv, Counted, NEW n \in Node, NEW a \in Node, UpdateSend(n, a)
    PROVE  Counted' /\ UNCHANGED Searching
<1> DEFINE sent == {Packet("USER_PACKET", n, a)}
<1>1. /\ \A w \in wire' : \/ w \in wire
                          \/ /\ w.packet \in sent /\ w.packet.to \in alive
                             /\ w.age = 0
                             /\ w = [packet |-> w.packet, age |-> 0]
      /\ losses' \in [Node -> [Node -> Nat]]
      /\ countToDrop' \in [Node -> Nat]
      /\ \A m \in Node : countToDrop'[m] <= DropChance[m]
      /\ UNCHANGED Searching
  <2>1. IsFiniteSet(sent) /\ Send(n, sent, wire) /\ TimedTypeOK
    BY FS_Singleton DEF UpdateSend, Counted
  <2> QED
    BY <2>1, SendFacts
<1>2. /\ n \in alive
      /\ \A p \in sent : p.from = n
      /\ net' = net \cup sent
      /\ UNCHANGED <<alive, stopped, frame, phase, conns>>
  BY DEF UpdateSend, updateSend, Runs, Packet
<1> HIDE DEF sent
<1>3. /\ wire' \subseteq [packet : net', age : 0 .. Latency]
      /\ \A w \in wire' : w.packet.to \in alive'
      /\ StopCounted'
      /\ \A w \in wire' : \/ w \in wire
                          \/ stopped'[w.packet.from] = 0 /\ w.age = 0
  BY <1>1, <1>2, WireGrows
<1>4. since \in [Node -> [Node -> Times]] /\ since' = [since EXCEPT ![n][a].sent = 0]
  BY DEF Counted, TimedTypeOK, UpdateSend
<1>5. /\ since' \in [Node -> [Node -> Times]]
      /\ \A m, b \in Node : since'[m][b].heard = since[m][b].heard
  <2>1. since' = [since EXCEPT ![n][a] = [since[n][a] EXCEPT !.sent = 0]]
    BY <1>4
  <2>2. /\ [since[n][a] EXCEPT !.sent = 0] \in Times
        /\ [since[n][a] EXCEPT !.sent = 0].heard = since[n][a].heard
    <3>1. since[n][a] \in Times
      BY <1>4
    <3> QED
      BY <3>1, TimesChange
  <2> QED
    BY <1>4, <2>1, <2>2
<1>6. alive \subseteq Node /\ frame \in [Node -> 0 .. FrameTime]
  BY DEF Counted, TimedTypeOK
<1>7. TimedTypeOK'
  BY <1>1, <1>2, <1>3, <1>5 DEF Counted, TimedTypeOK, Searching
<1>8. ReadSoonAfterStop'
  BY <1>2, <1>3, <1>6, TimesFacts DEF Counted, ReadSoonAfterStop
<1>9. DecidedInFrame'
  <2> SUFFICES ASSUME NEW m \in alive, NEW b \in Node,
                      conns[m][b].state = "DECIDING_CONNECTION"
               PROVE  phase[m] = "receive" /\ since'[m][b].heard = 0
    BY <1>2 DEF DecidedInFrame
  <2>1. since'[m][b].heard = since[m][b].heard
    BY <1>5, <1>6
  <2> QED
    BY <2>1 DEF Counted, DecidedInFrame
<1>10. SilenceCounted'
  <2> SUFFICES ASSUME NEW m \in alive, NEW b \in Node,
                      conns[m][b].state \in {"DECIDING_CONNECTION", "CONNECTED"}
               PROVE  /\ since'[m][b].heard <= HeartbeatTimeout + frame'[m]
                      /\ stopped'[b] <= since'[m][b].heard + Latency + FrameTime
    BY <1>2 DEF SilenceCounted
  <2>1. since'[m][b].heard = since[m][b].heard
    BY <1>5, <1>6
  <2> QED
    BY <1>2, <2>1 DEF Counted, SilenceCounted
<1> QED
  BY <1>1, <1>3, <1>7, <1>8, <1>9, <1>10 DEF Counted

\* What reading a packet does to the connections and the times of silence.
LEMMA ReadFacts ==
    ASSUME IInv, Counted, NEW w \in wire, Read(w.packet.to, w)
    PROVE  LET n == w.packet.to
               a == w.packet.from
           IN  /\ n \in alive /\ n \in Node /\ a \in Node
               /\ phase' = [phase EXCEPT ![n] = "receive"]
               /\ \A m, b \in Node : m # n \/ b # a => conns'[m][b] = conns[m][b]
               /\ net' = net
               /\ UNCHANGED <<alive, frame, stopped, socketVars, losses>>
               /\ wire' = wire \ {w}
               /\ since' \in [Node -> [Node -> Times]]
               /\ \A m, b \in Node : m # n \/ b # a => since'[m][b] = since[m][b]
               /\ \/ since'[n][a].heard = 0
                  \/ conns'[n][a].state = "DISCONNECTED"
                  \/ conns'[n][a] = conns[n][a] /\ since'[n][a] = since[n][a]
<1> DEFINE n == w.packet.to
           a == w.packet.from
           type == w.packet.type
<1>1. n \in alive /\ n \in Node /\ a \in Node
  BY WireFacts DEF Counted
<1>2. since \in [Node -> [Node -> Times]] /\ conns \in [Node -> [Node -> Connection]]
  BY DEF Counted, TimedTypeOK, IInv, TypeOK
<1>3. UNCHANGED <<alive, frame, stopped, socketVars, losses>> /\ wire' = wire \ {w}
  BY DEF Read, NothingSent
<1> HIDE DEF n, a, type
<1>4. ASSUME since' = [since EXCEPT ![n][a].heard = 0]
      PROVE  /\ since' \in [Node -> [Node -> Times]]
             /\ \A m, b \in Node : m # n \/ b # a => since'[m][b] = since[m][b]
             /\ since'[n][a].heard = 0
  <2>1. since' = [since EXCEPT ![n][a] = [since[n][a] EXCEPT !.heard = 0]]
    BY <1>2, <1>4
  <2>2. /\ [since[n][a] EXCEPT !.heard = 0] \in Times
        /\ [since[n][a] EXCEPT !.heard = 0].heard = 0
    <3>1. since[n][a] \in Times
      BY <1>1, <1>2
    <3> QED
      BY <3>1, TimesChange
  <2> QED
    BY <1>1, <1>2, <2>1, <2>2
<1>5. CASE Ignored(n, a, type) /\ phase' = [phase EXCEPT ![n] = "receive"]
                /\ UNCHANGED <<conns, net, since>>
  BY <1>1, <1>2, <1>3, <1>5 DEF n, a
<1>6. CASE onDisconnect(n, a) /\ type = "DISCONNECT" /\ Heard(n, a, type)
  <2>1. since' = since
    BY <1>6 DEF Heard
  <2>2. /\ conns'[n][a].state = "DISCONNECTED"
        /\ \A m, b \in Node : m # n \/ b # a => conns'[m][b] = conns[m][b]
    <3>1. conns' = [conns EXCEPT ![n][a] = [conns[n][a] EXCEPT !.state = "DISCONNECTED"]]
      BY <1>2, <1>6 DEF onDisconnect
    <3>2. conns[n][a] \in Connection
      BY <1>1, <1>2
    <3>3. [conns[n][a] EXCEPT !.state = "DISCONNECTED"].state = "DISCONNECTED"
      BY <3>2 DEF Connection
    <3> QED
      BY <1>1, <1>2, <3>1, <3>3
  <2>3. phase' = [phase EXCEPT ![n] = "receive"] /\ net' = net
    BY <1>6, SMTT(40) DEF onDisconnect, Receives
  <2> QED
    BY <1>1, <1>2, <1>3, <2>1, <2>2, <2>3 DEF n, a
<1>7. CASE /\ \/ onConnectRequest(n, a) \/ onConnectAccept(n, a)
              \/ onHeartbeat(n, a) \/ onUserPacket(n, a)
              \/ /\ phase' = [phase EXCEPT ![n] = "receive"]
                 /\ UNCHANGED <<conns, created, peers, net, asserts>>
           /\ type # "DISCONNECT" /\ Heard(n, a, type)
  <2>1. since' = [since EXCEPT ![n][a].heard = 0]
    BY <1>7 DEF Heard
  <2>2. phase' = [phase EXCEPT ![n] = "receive"] /\ net' = net
    BY <1>7 DEF onConnectRequest, onConnectAccept, onHeartbeat, onUserPacket, Receives,
       BecomesAccepted
  <2>3. \A m, b \in Node : m # n \/ b # a => conns'[m][b] = conns[m][b]
    <3>1. conns' = conns \/ \E d : conns' = [conns EXCEPT ![n][a] = d]
      BY <1>7 DEF onConnectRequest, onConnectAccept, onHeartbeat, onUserPacket,
         BecomesAccepted
    <3> QED
      BY <1>1, <1>2, <3>1
  <2> QED
    BY <1>1, <1>3, <1>4, <2>1, <2>2, <2>3 DEF n, a
<1>8. \/ /\ \/ onConnectRequest(n, a) /\ type = "CONNECT_REQUEST"
            \/ onConnectAccept(n, a)  /\ type = "CONNECT_ACCEPT"
            \/ onHeartbeat(n, a)      /\ type = "HEARTBEAT"
            \/ onUserPacket(n, a)     /\ type = "USER_PACKET"
            \/ onDisconnect(n, a)     /\ type = "DISCONNECT"
            \/ /\ type = "HEARTBEAT"
               /\ phase' = [phase EXCEPT ![n] = "receive"]
               /\ UNCHANGED <<conns, created, peers, net, asserts>>
         /\ Heard(n, a, type)
      \/ /\ Ignored(n, a, type)
         /\ phase' = [phase EXCEPT ![n] = "receive"]
         /\ UNCHANGED <<conns, created, peers, net, asserts, since>>
  BY DEF Read, n, a, type
<1> QED
  BY <1>5, <1>6, <1>7, <1>8

\* Reading a packet starts the silence again, at most Latency and a frame after
\* its sender stopped.
LEMMA ReadKeepsCount ==
    ASSUME IInv, Counted, NEW w \in wire, Read(w.packet.to, w)
    PROVE  Counted' /\ UNCHANGED Searching
<1> DEFINE n == w.packet.to
           a == w.packet.from
<1>1. /\ n \in alive /\ n \in Node /\ a \in Node
      /\ phase' = [phase EXCEPT ![n] = "receive"]
      /\ \A m, b \in Node : m # n \/ b # a => conns'[m][b] = conns[m][b]
      /\ net' = net
      /\ UNCHANGED <<alive, frame, stopped, socketVars, losses>>
      /\ wire' = wire \ {w}
      /\ since' \in [Node -> [Node -> Times]]
      /\ \A m, b \in Node : m # n \/ b # a => since'[m][b] = since[m][b]
      /\ \/ since'[n][a].heard = 0
         \/ conns'[n][a].state = "DISCONNECTED"
         \/ conns'[n][a] = conns[n][a] /\ since'[n][a] = since[n][a]
  BY ReadFacts
<1>2. phase \in [Node -> {"app", "receive"}]
  BY DEF IInv, TypeOK
<1>3. /\ alive \subseteq Node /\ frame \in [Node -> 0 .. FrameTime]
      /\ stopped[a] \in Nat /\ stopped[a] <= Latency + FrameTime
  <2>1. stopped[a] \in 0 .. NoticeTime + 1 /\ frame[n] \in 0 .. FrameTime
    BY <1>1 DEF Counted, TimedTypeOK
  <2>2. stopped[a] <= Latency + frame[n]
    BY DEF Counted, ReadSoonAfterStop
  <2> QED
    BY <2>1, <2>2, TimesFacts DEF Counted, TimedTypeOK
<1> HIDE DEF n, a
<1>4. TimedTypeOK'
  BY <1>1 DEF Counted, TimedTypeOK, socketVars
<1>5. StopCounted' /\ ReadSoonAfterStop'
  BY <1>1 DEF Counted, StopCounted, ReadSoonAfterStop
<1>6. DecidedInFrame'
  <2> SUFFICES ASSUME NEW m \in alive, NEW b \in Node,
                      conns'[m][b].state = "DECIDING_CONNECTION"
               PROVE  phase'[m] = "receive" /\ since'[m][b].heard = 0
    BY <1>1 DEF DecidedInFrame
  <2>1. CASE m # n \/ b # a
    BY <1>1, <1>2, <1>3, <2>1 DEF Counted, DecidedInFrame
  <2>2. CASE m = n /\ b = a
    BY <1>1, <1>2, <2>2 DEF Counted, DecidedInFrame
  <2> QED
    BY <2>1, <2>2
<1>7. SilenceCounted'
  <2> SUFFICES ASSUME NEW m \in alive, NEW b \in Node,
                      conns'[m][b].state \in {"DECIDING_CONNECTION", "CONNECTED"}
               PROVE  /\ since'[m][b].heard <= HeartbeatTimeout + frame[m]
                      /\ stopped[b] <= since'[m][b].heard + Latency + FrameTime
    BY <1>1 DEF SilenceCounted
  <2>1. CASE m # n \/ b # a
    BY <1>1, <1>3, <2>1 DEF Counted, SilenceCounted
  <2>2. CASE m = n /\ b = a /\ since'[n][a].heard = 0
    <3>1. frame[m] \in 0 .. FrameTime
      BY <1>3
    <3> QED
      BY <1>3, <2>2, <3>1, TimesFacts
  <2>3. CASE m = n /\ b = a /\ conns'[n][a] = conns[n][a] /\ since'[n][a] = since[n][a]
    BY <2>3 DEF Counted, SilenceCounted
  <2> QED
    BY <1>1, <2>1, <2>2, <2>3
<1> QED
  BY <1>1, <1>4, <1>5, <1>6, <1>7 DEF Counted, Searching, socketVars

\* What was meant for the process that stops goes with it.
LEMMA CrashKeepsCount ==
    ASSUME IInv, Counted, NEW n \in Node, Crash(n)
    PROVE  Counted' /\ UNCHANGED Searching
<1>1. /\ n \in alive /\ alive' = alive \ {n}
      /\ since' = [since EXCEPT ![n] = [a \in Node |-> NoTimes]]
      /\ frame' = [frame EXCEPT ![n] = 0]
      /\ wire' = {w \in wire : w.packet.to # n}
      /\ losses' = [m \in Node |-> [a \in Node |-> IF n \in {m, a} THEN 0 ELSE losses[m][a]]]
      /\ UNCHANGED <<vars, socketVars, stopped>>
  BY DEF Crash, Runs
<1>2. /\ alive \subseteq Node
      /\ since \in [Node -> [Node -> Times]] /\ frame \in [Node -> 0 .. FrameTime]
      /\ losses \in [Node -> [Node -> Nat]]
  BY DEF Counted, TimedTypeOK
<1>3. /\ since' \in [Node -> [Node -> Times]]
      /\ frame' \in [Node -> 0 .. FrameTime]
      /\ \A m \in Node \ {n} : since'[m] = since[m] /\ frame'[m] = frame[m]
  <2>1. [a \in Node |-> NoTimes] \in [Node -> Times] /\ 0 \in 0 .. FrameTime
    BY TimesFacts
  <2> QED
    BY <1>1, <1>2, <2>1
<1>4. TimedTypeOK'
  BY <1>1, <1>2, <1>3 DEF Counted, TimedTypeOK, vars, socketVars
<1>5. \A w \in wire' : w \in wire /\ w.packet.to \in Node \ {n}
  BY <1>1, <1>2 DEF Counted, TimedTypeOK
<1>6. StopCounted' /\ ReadSoonAfterStop'
  BY <1>1, <1>3, <1>5 DEF Counted, StopCounted, ReadSoonAfterStop
<1>7. DecidedInFrame'
  BY <1>1, <1>2, <1>3 DEF Counted, DecidedInFrame, vars
<1>8. SilenceCounted'
  BY <1>1, <1>2, <1>3 DEF Counted, SilenceCounted, vars
<1> QED
  BY <1>1, <1>4, <1>6, <1>7, <1>8 DEF Counted, Searching, socketVars

\* A tick adds one to the silence and to the time since a stop alike.
LEMMA TickKeepsCount ==
    ASSUME IInv, Counted, Tick
    PROVE  Counted' /\ UNCHANGED Searching
<1>1. /\ \A n \in alive : phase[n] = "app" /\ frame[n] < FrameTime
      /\ frame' = [n \in Node |-> IF n \in alive THEN UpTo(FrameTime, frame[n]) ELSE 0]
      /\ since' = [n \in Node |-> [a \in Node |->
            IF n \notin alive \/ ~ Has(n, a) THEN NoTimes
            ELSE [request |-> UpTo(RetryTime, since[n][a].request),
                  sent    |-> UpTo(HeartbeatTime + 1, since[n][a].sent),
                  heard   |-> UpTo(HeartbeatTimeout + FrameTime + 1, since[n][a].heard)]]]
      /\ wire' = {[w EXCEPT !.age = UpTo(Latency, @)] : w \in wire}
      /\ stopped' = [n \in Node |->
            IF n \in alive THEN 0 ELSE UpTo(NoticeTime + 1, stopped[n])]
      /\ UNCHANGED <<vars, socketVars, alive, losses>>
  BY DEF Tick
<1>2. /\ alive \subseteq Node
      /\ since \in [Node -> [Node -> Times]] /\ frame \in [Node -> 0 .. FrameTime]
      /\ stopped \in [Node -> 0 .. NoticeTime + 1]
      /\ wire \subseteq [packet : net, age : 0 .. Latency]
      /\ \A w \in wire : w.packet.to \in alive
  BY DEF Counted, TimedTypeOK
<1>3. \A n, a \in Node :
        /\ since[n][a].request \in 0 .. RetryTime
        /\ since[n][a].sent \in 0 .. HeartbeatTime + 1
        /\ since[n][a].heard \in 0 .. HeartbeatTimeout + FrameTime + 1
  BY <1>2 DEF Times
<1>4. \A n, a \in Node :
        /\ UpTo(RetryTime, since[n][a].request) \in 0 .. RetryTime
        /\ UpTo(HeartbeatTime + 1, since[n][a].sent) \in 0 .. HeartbeatTime + 1
        /\ UpTo(HeartbeatTimeout + FrameTime + 1, since[n][a].heard)
                \in 0 .. HeartbeatTimeout + FrameTime + 1
        /\ since[n][a].heard <= HeartbeatTimeout + FrameTime =>
                UpTo(HeartbeatTimeout + FrameTime + 1, since[n][a].heard)
                    = since[n][a].heard + 1
  BY <1>3, TimesFacts DEF UpTo
<1>5. since' \in [Node -> [Node -> Times]]
  BY <1>1, <1>4, TimesFacts DEF Times
<1>6. /\ frame' \in [Node -> 0 .. FrameTime]
      /\ \A n \in alive : frame'[n] = frame[n] + 1
  <2>1. \A n \in Node : frame[n] \in 0 .. FrameTime
    BY <1>2
  <2>2. \A n \in alive : UpTo(FrameTime, frame[n]) = frame[n] + 1
                            /\ frame[n] + 1 \in 0 .. FrameTime
    BY <1>1, <1>2, <2>1, TimesFacts DEF UpTo
  <2> QED
    BY <1>1, <1>2, <2>2, TimesFacts
<1>7. /\ stopped' \in [Node -> 0 .. NoticeTime + 1]
      /\ \A n \in Node : stopped'[n] <= stopped[n] + 1 /\ stopped[n] \in Nat
  <2>1. \A n \in Node : stopped[n] \in 0 .. NoticeTime + 1
    BY <1>2
  <2>2. \A n \in Node : UpTo(NoticeTime + 1, stopped[n]) \in 0 .. NoticeTime + 1
                            /\ UpTo(NoticeTime + 1, stopped[n]) <= stopped[n] + 1
    BY <2>1, TimesFacts DEF UpTo
  <2> QED
    BY <1>1, <2>1, <2>2, TimesFacts
<1>8. \A v \in wire' : \E w \in wire :
            /\ v.packet = w.packet /\ v.age = UpTo(Latency, w.age)
            /\ v = [packet |-> w.packet, age |-> UpTo(Latency, w.age)]
            /\ w.age \in 0 .. Latency
  <2> TAKE v \in wire'
  <2>1. PICK w \in wire : v = [w EXCEPT !.age = UpTo(Latency, w.age)]
    BY <1>1
  <2>2. w \in [packet : net, age : 0 .. Latency]
    BY <1>2
  <2>3. v = [packet |-> w.packet, age |-> UpTo(Latency, w.age)]
    BY <2>1, <2>2
  <2> QED
    BY <2>2, <2>3
<1>9. wire' \subseteq [packet : net, age : 0 .. Latency]
  <2>1. \A t \in 0 .. Latency : UpTo(Latency, t) \in 0 .. Latency
    BY TimesFacts DEF UpTo
  <2> QED
    BY <1>2, <1>8, <2>1
<1>10. TimedTypeOK'
  <2>1. \A v \in wire' : v.packet.to \in alive
    BY <1>2, <1>8
  <2> QED
    BY <1>1, <1>5, <1>6, <1>7, <1>9, <2>1 DEF Counted, TimedTypeOK, vars, socketVars
<1>11. StopCounted'
  BY <1>1, <1>2 DEF StopCounted
<1>12. ReadSoonAfterStop'
  <2> SUFFICES ASSUME NEW v \in wire'
               PROVE  /\ stopped'[v.packet.from] <= v.age \/ v.age = Latency
                      /\ stopped'[v.packet.from] <= Latency + frame'[v.packet.to]
    BY DEF ReadSoonAfterStop
  <2>1. PICK w \in wire : /\ v.packet = w.packet /\ v.age = UpTo(Latency, w.age)
                          /\ w.age \in 0 .. Latency
    BY <1>8
  <2>2. w.packet.from \in Node /\ w.packet.to \in alive /\ w.packet.to \in Node
    BY WireFacts DEF Counted
  <2>3. /\ stopped[w.packet.from] <= w.age \/ w.age = Latency
        /\ stopped[w.packet.from] <= Latency + frame[w.packet.to]
    BY DEF Counted, ReadSoonAfterStop
  <2>4. /\ stopped'[w.packet.from] <= stopped[w.packet.from] + 1
        /\ stopped'[w.packet.from] \in Nat /\ stopped[w.packet.from] \in Nat
        /\ frame'[w.packet.to] = frame[w.packet.to] + 1 /\ frame[w.packet.to] \in Nat
    BY <1>2, <1>6, <1>7, <2>2, TimesFacts
  <2>5. IF w.age < Latency THEN v.age = w.age + 1 ELSE v.age = Latency
    BY <2>1, TimesFacts DEF UpTo
  <2> QED
    BY <2>1, <2>3, <2>4, <2>5, TimesFacts
<1>13. \A n \in alive, a \in Node : conns'[n][a].state # "DECIDING_CONNECTION"
  BY <1>1 DEF Counted, DecidedInFrame, vars
<1>14. SilenceCounted'
  <2> SUFFICES ASSUME NEW n \in alive, NEW a \in Node, conns[n][a].state = "CONNECTED"
               PROVE  /\ since'[n][a].heard <= HeartbeatTimeout + frame'[n]
                      /\ stopped'[a] <= since'[n][a].heard + Latency + FrameTime
    BY <1>1, <1>13, ZenonT(60) DEF SilenceCounted, vars
  <2>1. /\ since[n][a].heard <= HeartbeatTimeout + frame[n]
        /\ stopped[a] <= since[n][a].heard + Latency + FrameTime
    BY DEF Counted, SilenceCounted
  <2>2. n \in Node /\ frame[n] \in Nat /\ frame[n] < FrameTime /\ frame'[n] = frame[n] + 1
    <3>1. n \in Node /\ frame[n] \in 0 .. FrameTime
      BY <1>2
    <3>2. frame[n] \in Nat
      BY <3>1, TimesFacts
    <3>3. frame[n] < FrameTime
      BY <1>1
    <3> QED
      BY <1>6, <3>1, <3>2, <3>3
  <2>3. since[n][a].heard \in Nat /\ since'[n][a].heard = since[n][a].heard + 1
    <3>1. since[n][a].heard \in Nat /\ since[n][a].heard <= HeartbeatTimeout + FrameTime
      BY <1>3, <2>1, <2>2, TimesFacts
    <3>2. since'[n][a].heard = UpTo(HeartbeatTimeout + FrameTime + 1, since[n][a].heard)
      BY <1>1, <2>2 DEF Has
    <3> QED
      BY <1>4, <2>2, <3>1, <3>2
  <2>4. stopped'[a] <= stopped[a] + 1 /\ stopped[a] \in Nat /\ stopped'[a] \in Nat
    BY <1>7, TimesFacts
  <2> QED
    BY <2>1, <2>2, <2>3, <2>4, TimesFacts
<1>15. DecidedInFrame'
  BY <1>1, <1>13 DEF DecidedInFrame
<1> QED
  BY <1>1, <1>10, <1>11, <1>12, <1>14, <1>15 DEF Counted, Searching, socketVars

\* What a pass leaves: nothing undecided, and no connection that has heard
\* nothing for longer than the timeout.
LEMMA PassConnections ==
    ASSUME IInv, Counted, NEW n \in Node, Pass(n)
    PROVE  /\ \A a \in Node : conns'[n][a].state # "DECIDING_CONNECTION"
           /\ \A a \in Node : conns'[n][a].state = "CONNECTED" =>
                /\ conns[n][a].state \in {"DECIDING_CONNECTION", "CONNECTED"}
                /\ conns[n][a].state = "CONNECTED" =>
                        since[n][a].heard <= HeartbeatTimeout
           /\ \A m \in Node \ {n} : conns'[m] = conns[m]
<1> DEFINE after == [a \in Node |-> Updated(conns[n][a], Timers(n)[a])]
           gone  == {a \in Node : after[a].state = "DISCONNECTED"}
<1>1. conns \in [Node -> [Node -> Connection]] /\ since \in [Node -> [Node -> Times]]
  BY DEF IInv, TypeOK, Counted, TimedTypeOK
<1>2. conns' = [conns EXCEPT ![n] =
                [a \in Node |-> IF a \in gone THEN NoConnection ELSE after[a]]]
  BY DEF Pass, UpdateConnections
<1>3. ASSUME NEW a \in Node
      PROVE  /\ after[a].state # "DECIDING_CONNECTION"
             /\ after[a].state = "CONNECTED" =>
                    /\ conns[n][a].state \in {"DECIDING_CONNECTION", "CONNECTED"}
                    /\ conns[n][a].state = "CONNECTED" =>
                            since[n][a].heard <= HeartbeatTimeout
  <2>1. conns[n][a] \in Connection /\ since[n][a] \in Times
    BY <1>1
  <2>2. conns[n][a].state = "REQUESTING_CONNECTION" => conns[n][a].attemptsLeft > 0
    BY DEF IInv, StateSettles
  <2>3. /\ after[a].state # "DECIDING_CONNECTION"
        /\ after[a].state = "CONNECTED" =>
                conns[n][a].state \in {"DECIDING_CONNECTION", "CONNECTED"}
    BY <2>1, <2>2, UpdatedFacts
  <2>4. ASSUME conns[n][a].state = "CONNECTED", ~ since[n][a].heard <= HeartbeatTimeout
        PROVE  after[a].state = "DISCONNECTED"
    <3>1. since[n][a].heard > HeartbeatTimeout
      <4>1. since[n][a].heard \in Nat
        BY <2>1, TimesChange
      <4> QED
        BY <2>4, <4>1, TimesFacts
    <3>2. "silence" \in Timers(n)[a]
      BY <3>1 DEF Timers, Elapsed
    <3>3. after[a] = [conns[n][a] EXCEPT !.state = "DISCONNECTED"]
      BY <2>4, <3>2 DEF Updated
    <3>4. "DISCONNECTED" \in State
      BY DEF State
    <3>5. [conns[n][a] EXCEPT !.state = "DISCONNECTED"].state = "DISCONNECTED"
      BY <2>1, <3>4, StateChange
    <3> QED
      BY <3>3, <3>5
  <2> QED
    BY <2>3, <2>4
<1> HIDE DEF after
<1>4. /\ \A a \in Node : conns'[n][a] = IF a \in gone THEN NoConnection ELSE after[a]
      /\ \A m \in Node \ {n} : conns'[m] = conns[m]
  BY <1>1, <1>2
<1>5. NoConnection.state = "None"
  BY DEF NoConnection
<1> QED
  BY <1>3, <1>4, <1>5

\* A pass ends what has been silent for too long; what it has not read yet is
\* younger than Latency.
LEMMA PassKeepsCount ==
    ASSUME IInv, Counted, NEW n \in Node, Pass(n)
    PROVE  Counted' /\ UNCHANGED Searching
<1> DEFINE sent == PassSends(n)
<1>1. /\ \A w \in wire' : \/ w \in wire
                          \/ /\ w.packet \in sent /\ w.packet.to \in alive
                             /\ w.age = 0
                             /\ w = [packet |-> w.packet, age |-> 0]
      /\ losses' \in [Node -> [Node -> Nat]]
      /\ countToDrop' \in [Node -> Nat]
      /\ \A m \in Node : countToDrop'[m] <= DropChance[m]
      /\ UNCHANGED Searching
  <2>1. IsFiniteSet(sent) /\ Send(n, sent, wire) /\ TimedTypeOK
    BY PassSendsFacts DEF Pass, Counted
  <2> QED
    BY <2>1, SendFacts
<1>2. /\ n \in alive
      /\ \A p \in sent : p.from = n
      /\ net' = net \cup sent
      /\ phase' = [phase EXCEPT ![n] = "app"]
      /\ frame' = [frame EXCEPT ![n] = 0]
      /\ \A w \in wire : w.packet.to = n => w.age < Latency
      /\ UNCHANGED <<alive, stopped>>
  BY PassSendsFacts DEF Pass, UpdateConnections, PassSends, Runs
<1> HIDE DEF sent
<1>3. /\ wire' \subseteq [packet : net', age : 0 .. Latency]
      /\ \A w \in wire' : w.packet.to \in alive'
      /\ StopCounted'
      /\ \A w \in wire' : \/ w \in wire
                          \/ stopped'[w.packet.from] = 0 /\ w.age = 0
  BY <1>1, <1>2, WireGrows
<1>4. /\ since \in [Node -> [Node -> Times]] /\ alive \subseteq Node
      /\ frame \in [Node -> 0 .. FrameTime] /\ stopped \in [Node -> 0 .. NoticeTime + 1]
      /\ phase \in [Node -> {"app", "receive"}]
  BY DEF Counted, TimedTypeOK, IInv, TypeOK
<1>5. \A a \in Node : /\ TimesAfterPass(n, a) \in Times
                      /\ conns'[n][a].state = "CONNECTED" =>
                            TimesAfterPass(n, a).heard = since[n][a].heard
  <2> TAKE a \in Node
  <2>1. since[n][a] \in Times
    BY <1>4
  <2>2. CASE conns'[n][a] = NoConnection
    <3>1. NoConnection.state # "CONNECTED"
      BY DEF NoConnection
    <3>2. TimesAfterPass(n, a) = NoTimes
      BY <2>2 DEF TimesAfterPass
    <3> QED
      BY <2>2, <3>1, <3>2, TimesFacts
  <2>3. CASE conns'[n][a] # NoConnection
    <3> DEFINE types == {p.type : p \in {q \in PassSends(n) : q.to = a}}
               r == IF "CONNECT_REQUEST" \in types THEN 0 ELSE since[n][a].request
               s == IF types \cap {"CONNECT_ACCEPT", "HEARTBEAT"} # {} THEN 0
                    ELSE since[n][a].sent
    <3>1. TimesAfterPass(n, a) = [since[n][a] EXCEPT !.request = r, !.sent = s]
      BY <2>3 DEF TimesAfterPass
    <3> HIDE DEF types
    <3>2. r \in 0 .. RetryTime /\ s \in 0 .. HeartbeatTime + 1
      BY <2>1, TimesFacts DEF Times
    <3> HIDE DEF r, s
    <3>3. /\ [since[n][a] EXCEPT !.request = r, !.sent = s] \in Times
          /\ [since[n][a] EXCEPT !.request = r, !.sent = s].heard = since[n][a].heard
      BY <2>1, <3>2, TimesChange, ZenonT(60)
    <3> QED
      BY <3>1, <3>3
  <2> QED
    BY <2>2, <2>3
<1>6. /\ since' \in [Node -> [Node -> Times]]
      /\ \A a \in Node : since'[n][a] = TimesAfterPass(n, a)
      /\ \A m \in Node \ {n} : since'[m] = since[m]
  <2> DEFINE after == [a \in Node |-> TimesAfterPass(n, a)]
  <2>1. since' = [since EXCEPT ![n] = after]
    BY DEF Pass
  <2>2. after \in [Node -> Times] /\ \A a \in Node : after[a] = TimesAfterPass(n, a)
    BY <1>5
  <2> HIDE DEF after
  <2> QED
    BY <1>4, <2>1, <2>2
<1>7. /\ frame' \in [Node -> 0 .. FrameTime] /\ frame'[n] = 0
      /\ \A m \in Node \ {n} : frame'[m] = frame[m]
  BY <1>2, <1>4, TimesFacts
<1>8. /\ \A a \in Node : conns'[n][a].state # "DECIDING_CONNECTION"
      /\ \A a \in Node : conns'[n][a].state = "CONNECTED" =>
            /\ conns[n][a].state \in {"DECIDING_CONNECTION", "CONNECTED"}
            /\ conns[n][a].state = "CONNECTED" => since[n][a].heard <= HeartbeatTimeout
      /\ \A m \in Node \ {n} : conns'[m] = conns[m]
  BY PassConnections
<1>9. TimedTypeOK'
  BY <1>1, <1>2, <1>3, <1>6, <1>7 DEF Counted, TimedTypeOK, Searching
<1>10. ReadSoonAfterStop'
  <2> SUFFICES ASSUME NEW w \in wire'
               PROVE  /\ stopped'[w.packet.from] <= w.age \/ w.age = Latency
                      /\ stopped'[w.packet.from] <= Latency + frame'[w.packet.to]
    BY DEF ReadSoonAfterStop
  <2>1. w.packet.to \in Node /\ frame'[w.packet.to] \in Nat
    BY <1>2, <1>3, <1>4, <1>7, TimesFacts
  <2>2. CASE w \in wire
    <3>1. /\ stopped[w.packet.from] <= w.age \/ w.age = Latency
          /\ stopped[w.packet.from] <= Latency + frame[w.packet.to]
      BY <2>2 DEF Counted, ReadSoonAfterStop
    <3>2. w.packet.from \in Node /\ stopped[w.packet.from] \in Nat /\ w.age \in Nat
      BY <1>4, <2>2, WireFacts, TimesFacts DEF Counted
    <3>3. w.packet.to = n => w.age < Latency
      BY <1>2, <2>2
    <3>4. w.packet.to # n => frame'[w.packet.to] = frame[w.packet.to]
      BY <1>7, <2>1
    <3> QED
      BY <1>2, <1>7, <3>1, <3>2, <3>3, <3>4, TimesFacts
  <2>3. CASE stopped'[w.packet.from] = 0 /\ w.age = 0
    BY <2>1, <2>3, TimesFacts
  <2> QED
    BY <1>3, <2>2, <2>3
<1>11. DecidedInFrame'
  <2> SUFFICES ASSUME NEW m \in alive, NEW a \in Node,
                      conns'[m][a].state = "DECIDING_CONNECTION"
               PROVE  phase'[m] = "receive" /\ since'[m][a].heard = 0
    BY <1>2 DEF DecidedInFrame
  <2>1. m \in Node \ {n}
    BY <1>4, <1>8
  <2> QED
    BY <1>2, <1>4, <1>6, <1>8, <2>1, SMTT(60) DEF Counted, DecidedInFrame
<1>12. SilenceCounted'
  <2> SUFFICES ASSUME NEW m \in alive, NEW a \in Node,
                      conns'[m][a].state \in {"DECIDING_CONNECTION", "CONNECTED"}
               PROVE  /\ since'[m][a].heard <= HeartbeatTimeout + frame'[m]
                      /\ stopped[a] <= since'[m][a].heard + Latency + FrameTime
    BY <1>2 DEF SilenceCounted
  <2>1. CASE m # n
    <3>1. m \in Node \ {n}
      BY <1>4, <2>1
    <3> QED
      BY <1>6, <1>7, <1>8, <3>1 DEF Counted, SilenceCounted
  <2>2. CASE m = n
    <3>1. conns'[n][a].state = "CONNECTED"
      BY <1>8, <2>2
    <3>2. since'[n][a].heard = since[n][a].heard /\ frame'[n] = 0
      BY <1>5, <1>6, <1>7, <3>1
    <3>3. stopped[a] <= since[n][a].heard + Latency + FrameTime
      BY <1>2, <1>8, <3>1 DEF Counted, SilenceCounted
    <3>4. since[n][a].heard \in Nat /\ since[n][a].heard <= HeartbeatTimeout
      <4>1. since[n][a] \in Times
        BY <1>4
      <4>2. conns[n][a].state = "DECIDING_CONNECTION" => since[n][a].heard = 0
        BY <1>2 DEF Counted, DecidedInFrame
      <4>3. since[n][a].heard \in Nat
        BY <4>1, TimesChange
      <4> QED
        BY <1>8, <3>1, <4>2, <4>3, TimesFacts
    <3> QED
      BY <2>2, <3>2, <3>3, <3>4, TimesFacts
  <2> QED
    BY <2>1, <2>2
<1> QED
  BY <1>1, <1>3, <1>9, <1>10, <1>11, <1>12 DEF Counted

-----------------------------------------------------------------------------
(***************************************************************************)
(* The invariant and what follows from it.                                 *)
(***************************************************************************)

\* The invariant holds at the start.
LEMMA TimedInitInv == TimedInit => IInv /\ TimedInv
<1> SUFFICES ASSUME TimedInit PROVE IInv /\ TimedInv
  OBVIOUS
<1>1. IInv
  BY InitInv DEF TimedInit
<1>2. \A n, a \in Node : conns[n][a].state = "None"
  BY DEF TimedInit, Init, NoConnection
<1>3. /\ PortCycle \in Nat \ {0} /\ BindAttempts \in Nat
      /\ ConfigPort \in [Node -> 0 .. PortCycle - 1]
      /\ DropChance \in [Node -> Nat] /\ Process = Node
  BY SocketAssumption, TimesAssumption DEF Port
<1>4. TimedTypeOK
  <2>1. 0 \in 0 .. FrameTime /\ 0 \in 0 .. NoticeTime + 1
    BY TimesFacts
  <2>2. \A n \in Node : DropChance[n] <= DropChance[n]
    BY <1>3
  <2> QED
    BY <1>3, <2>1, <2>2, TimesFacts DEF TimedInit, SocketInit, TimedTypeOK, Port
<1>5. StopCounted /\ ReadSoonAfterStop
  BY DEF TimedInit, StopCounted, ReadSoonAfterStop
<1>6. DecidedInFrame /\ SilenceCounted
  BY <1>2 DEF TimedInit, DecidedInFrame, SilenceCounted
<1>7. PortsTried
  <2>1. attemptsLeft \in [Node -> 0 .. BindAttempts] /\ port = ConfigPort
    BY <1>3 DEF TimedInit, SocketInit
  <2>2. \A n \in Node : Tried(n) = 0
    BY <1>3 DEF TimedInit, SocketInit, Tried
  <2>3. \A n \in Node : ConfigPort[n] = (ConfigPort[n] + 0) % PortCycle
    BY <1>3
  <2> QED
    BY <2>1, <2>2, <2>3 DEF PortsTried
<1> QED
  BY <1>1, <1>4, <1>5, <1>6, <1>7 DEF TimedInv

\* Steps that do not search for a port keep what the search has found.
LEMMA SearchKept ==
    ASSUME PortsTried, UNCHANGED Searching
    PROVE  PortsTried'
BY DEF PortsTried, Tried, Searching

\* The invariant is inductive.
LEMMA TimedStepInv ==
    ASSUME IInv, TimedInv, [TimedNext]_timedVars
    PROVE  IInv' /\ TimedInv'
<1>1. Counted /\ PortsTried /\ TimedTypeOK
  BY DEF TimedInv, Counted
<1>2. IInv'
  BY <1>1, TimedStepIInv
<1>3. ASSUME NEW n \in Node, Bind(n)
      PROVE  Counted' /\ PortsTried'
  BY <1>1, <1>3, BindKeepsCount
<1>4. ASSUME NEW n \in Node, Pass(n) \/ Crash(n)
      PROVE  Counted' /\ PortsTried'
  BY <1>1, <1>4, PassKeepsCount, CrashKeepsCount, SearchKept
<1>5. ASSUME NEW n \in Node, NEW a \in Node, Connect(n, a)
      PROVE  Counted' /\ PortsTried'
  <2>1. UNCHANGED Searching
    BY <1>5 DEF Connect, NothingSent, socketVars, Searching
  <2> QED
    BY <1>1, <1>5, <2>1, ConnectKeepsCount, SearchKept
<1>6. ASSUME NEW n \in Node, NEW a \in Node, UpdateSend(n, a)
      PROVE  Counted' /\ PortsTried'
  BY <1>1, <1>6, UpdateSendKeepsCount, SearchKept
<1>7. ASSUME NEW w \in wire, Read(w.packet.to, w)
      PROVE  Counted' /\ PortsTried'
  BY <1>1, <1>7, ReadKeepsCount, SearchKept
<1>8. ASSUME Tick
      PROVE  Counted' /\ PortsTried'
  BY <1>1, <1>8, TickKeepsCount, SearchKept
<1>9. ASSUME UNCHANGED timedVars
      PROVE  Counted' /\ PortsTried'
  <2>1. UNCHANGED <<vars, timeVars, countToDrop>> /\ UNCHANGED Searching
    BY <1>9 DEF timedVars, socketVars, Searching
  <2> QED
    BY <1>1, <2>1, SearchKept
       DEF Counted, TimedTypeOK, StopCounted, ReadSoonAfterStop, DecidedInFrame,
           SilenceCounted, vars, timeVars, Searching
<1>10. Counted' /\ PortsTried'
  BY <1>3, <1>4, <1>5, <1>6, <1>7, <1>8, <1>9 DEF TimedNext
<1> QED
  BY <1>2, <1>10 DEF TimedInv, Counted

\* With time, over any network that delivers or loses: the connections keep
\* their invariant, and what is counted keeps its own.
THEOREM TimedInvariance == TimedSpec => [](IInv /\ TimedInv)
<1>1. TimedInit => IInv /\ TimedInv
  BY TimedInitInv
<1>2. (IInv /\ TimedInv) /\ [TimedNext]_timedVars => (IInv /\ TimedInv)'
  BY TimedStepInv
<1> QED
  BY <1>1, <1>2, PTL DEF TimedSpec

\* The times stay within the bounds that are followed, and nothing is under
\* way that was not sent.
THEOREM TimedTypeCorrect == TimedSpec => []TimedTypeOK
<1>1. IInv /\ TimedInv => TimedTypeOK
  BY DEF TimedInv
<1> QED
  BY <1>1, TimedInvariance, PTL

\* A process that stops is noticed by everyone connected to it within the
\* latency, the timeout and two frames.
THEOREM StopIsNoticed == TimedSpec => []StopNoticed
<1>1. IInv /\ TimedInv => StopNoticed
  <2> SUFFICES ASSUME TimedInv, NEW n \in alive, NEW a \in Node \ alive,
                      conns[n][a].state = "CONNECTED"
               PROVE  ~ stopped[a] > NoticeTime
    BY DEF StopNoticed
  <2>1. /\ n \in Node /\ frame[n] \in 0 .. FrameTime
        /\ stopped[a] \in 0 .. NoticeTime + 1
        /\ since[n][a] \in Times
    BY DEF TimedInv, TimedTypeOK
  <2>2. since[n][a].heard \in Nat
    BY <2>1, TimesChange
  <2>3. /\ since[n][a].heard <= HeartbeatTimeout + frame[n]
        /\ stopped[a] <= since[n][a].heard + Latency + FrameTime
    BY DEF TimedInv, SilenceCounted
  <2> QED
    BY <2>1, <2>2, <2>3, TimesFacts DEF NoticeTime
<1> QED
  BY <1>1, TimedInvariance, PTL

\* The search for a port never uses up its attempts, whichever processes share
\* the host and whatever ports they were configured for.
THEOREM BindingEnds == TimedSpec => []BindEnds
<1>1. IInv /\ TimedInv => BindEnds
  BY SocketAssumption DEF TimedInv, PortsTried, BindEnds
<1> QED
  BY <1>1, TimedInvariance, PTL

-----------------------------------------------------------------------------
(***************************************************************************)
(* Connections are kept: the arithmetic of waiting for a packet.           *)
(***************************************************************************)

\* While everyone runs: what the steps below start from.
Running == IInv /\ TimedInv /\ Everyone /\ Kept

\* A smaller number of beats takes less time.
LEMMA BeatsGrow ==
    ASSUME NEW b \in Nat, NEW k \in Nat, NEW l \in Nat, k <= l
    PROVE  /\ k * b \in Nat /\ l * b \in Nat
           /\ k * b <= l * b
           /\ (k + 1) * b = k * b + b
<1>1. PICK d \in Nat : l = k + d
  <2>1. l - k \in Nat /\ l = k + (l - k)
    OBVIOUS
  <2> QED
    BY <2>1
<1>2. (k + d) * b = k * b + d * b /\ k * b \in Nat /\ d * b \in Nat
  OBVIOUS
<1>3. (k + 1) * b = k * b + b
  OBVIOUS
<1> QED
  BY <1>1, <1>2, <1>3

\* The constants of a pair of processes, and the times a handshake and a
\* silence stay below.
LEMMA PairNumbers ==
    ASSUME NEW c \in Clients, NEW s \in Servers
    PROVE  /\ c \in Node /\ s \in Node /\ c # s
           /\ Beat \in Nat /\ HeartbeatTime + FrameTime = Beat
           /\ LossesInARow(c) \in Nat /\ LossesInARow(s) \in Nat
           /\ LossesInARow(c) * Beat \in Nat /\ LossesInARow(s) * Beat \in Nat
           /\ (LossesInARow(c) + 1) * Beat = LossesInARow(c) * Beat + Beat
           /\ (LossesInARow(s) + 1) * Beat = LossesInARow(s) * Beat + Beat
           /\ Answered(s) = LossesInARow(s) * Beat + Beat + Latency + FrameTime
           /\ Answered(s) + LossesInARow(c) * Beat + Beat + Latency + FrameTime
                    <= HeartbeatTimeout
           /\ LossesInARow(c) * RetryTime \in Nat
           /\ LossesInARow(c) * RetryTime + Latency + FrameTime + Answered(s)
                    < (Attempts - 1) * RetryTime
<1>1. c \in Node /\ s \in Node /\ c # s
  BY NodesAssumption DEF Node
<1>2. \A n \in Node : LossesInARow(n) \in Nat
  BY TimesAssumption DEF LossesInARow
<1>3. Beat \in Nat /\ Latency \in Nat /\ FrameTime \in Nat /\ RetryTime \in Nat
      /\ HeartbeatTime + FrameTime = Beat
  BY TimesFacts DEF Beat
<1> DEFINE l == LossesInARow(c)
           k == LossesInARow(s)
<1>4. l \in Nat /\ k \in Nat
  BY <1>1, <1>2
<1>5. /\ (l + 1) * Beat = l * Beat + Beat /\ (k + 1) * Beat = k * Beat + Beat
      /\ l * Beat \in Nat /\ k * Beat \in Nat /\ l * RetryTime \in Nat
  BY <1>3, <1>4, BeatsGrow
<1>6. (k + l + 2) * Beat = k * Beat + l * Beat + Beat + Beat
  BY <1>3, <1>4
<1>7. (k + l + 2) * Beat + 2 * (Latency + FrameTime) <= HeartbeatTimeout
  BY <1>3, TimesAssumption
<1>8. l * RetryTime + (k + 1) * Beat + 2 * (Latency + FrameTime) < (Attempts - 1) * RetryTime
  BY <1>3, HandshakeAssumption
<1>9. /\ (Attempts - 1) * RetryTime \in Int
      /\ Answered(s) = (k + 1) * Beat + Latency + FrameTime
      /\ HeartbeatTimeout \in Nat
  BY <1>3, CountsAssumption, TimesFacts DEF Answered
<1> HIDE DEF l, k
<1>10. /\ Answered(s) = k * Beat + Beat + Latency + FrameTime
       /\ Answered(s) + l * Beat + Beat + Latency + FrameTime <= HeartbeatTimeout
       /\ l * RetryTime + Latency + FrameTime + Answered(s) < (Attempts - 1) * RetryTime
  BY <1>3, <1>5, <1>6, <1>7, <1>8, <1>9
<1> QED
  BY <1>1, <1>3, <1>4, <1>5, <1>10 DEF l, k

\* What is counted of a pair of processes, in one direction.
LEMMA CountedOfPair ==
    ASSUME TimedTypeOK, LossesCounted, NEW n \in Node, NEW a \in Node \ {n}
    PROVE  /\ since[n][a].request \in 0 .. RetryTime
           /\ since[n][a].sent \in 0 .. HeartbeatTime + 1
           /\ since[n][a].heard \in Nat
           /\ losses[n][a] \in Nat /\ LossesInARow(n) \in Nat
           /\ losses[n][a] <= LossesInARow(n)
           /\ losses[n][a] * Beat \in Nat
           /\ losses[n][a] * Beat <= LossesInARow(n) * Beat
           /\ frame[n] \in 0 .. FrameTime
           /\ Beat \in Nat
           /\ SendGap(n, a) \in Nat /\ SendGap(n, a) <= Beat
<1>1. since[n][a] \in Times /\ frame[n] \in 0 .. FrameTime /\ losses[n][a] \in Nat
  BY DEF TimedTypeOK
<1>2. /\ since[n][a].request \in 0 .. RetryTime
      /\ since[n][a].sent \in 0 .. HeartbeatTime + 1
      /\ since[n][a].heard \in Nat
  BY <1>1, TimesFacts DEF Times
<1>3. LossesInARow(n) \in Nat /\ Beat \in Nat
  BY TimesAssumption, TimesFacts DEF LossesInARow, Beat
<1>4. losses[n][a] <= LossesInARow(n)
  BY DEF LossesCounted
<1>5. losses[n][a] * Beat \in Nat /\ losses[n][a] * Beat <= LossesInARow(n) * Beat
  BY <1>1, <1>3, <1>4, BeatsGrow
<1>6. SendGap(n, a) \in Nat /\ SendGap(n, a) <= Beat
  BY <1>1, <1>2, TimesFacts DEF SendGap, Beat
<1> QED
  BY <1>1, <1>2, <1>3, <1>4, <1>5, <1>6

\* The age of a packet under way is at most Latency and a frame.
LEMMA AgeBound ==
    ASSUME IInv, TimedTypeOK, NEW w \in wire
    PROVE  Age(w) \in Nat /\ Age(w) <= Latency + FrameTime
<1>1. w.age \in 0 .. Latency /\ frame[w.packet.to] \in 0 .. FrameTime
  BY WireFacts DEF TimedTypeOK
<1> QED
  BY <1>1, TimesFacts DEF Age

\* Nobody waits longer than the losses in a row and the way of a packet take.
LEMMA WaitedBound ==
    ASSUME IInv, TimedTypeOK, LossesCounted, NEW n \in Node, NEW a \in Node \ {n},
           NEW types, NEW t \in Nat, NEW before \in Nat, Waited(n, a, types, t, before)
    PROVE  t <= before + LossesInARow(n) * Beat + Beat + Latency + FrameTime
<1>1. /\ losses[n][a] * Beat \in Nat /\ LossesInARow(n) * Beat \in Nat
      /\ losses[n][a] * Beat <= LossesInARow(n) * Beat
      /\ Beat \in Nat
      /\ SendGap(n, a) \in Nat /\ SendGap(n, a) <= Beat
      /\ (LossesInARow(n) + 1) * Beat = LossesInARow(n) * Beat + Beat
  BY CountedOfPair, BeatsGrow
<1>2. CASE t <= before + losses[n][a] * Beat + SendGap(n, a)
  BY <1>1, <1>2, TimesFacts
<1>3. ASSUME NEW w \in wire, t <= before + (LossesInARow(n) + 1) * Beat + Age(w)
      PROVE  t <= before + LossesInARow(n) * Beat + Beat + Latency + FrameTime
  <2>1. Age(w) \in Nat /\ Age(w) <= Latency + FrameTime
    BY AgeBound
  <2> QED
    BY <1>1, <1>3, <2>1, TimesFacts
<1> QED
  BY <1>2, <1>3 DEF Waited, UnderWay

\* A wait that goes on as before, or ends.
LEMMA WaitedStays ==
    ASSUME NEW n \in Node, NEW a \in Node, NEW types, NEW before \in Nat,
           NEW t \in Nat, NEW u \in Nat, u <= t,
           Waited(n, a, types, t, before),
           losses[n][a] * Beat \in Nat, SendGap(n, a) \in Nat,
           losses'[n][a] = losses[n][a], SendGap(n, a)' = SendGap(n, a),
           \A w \in UnderWay(n, a, types) : w \in wire' /\ Age(w)' = Age(w) /\ Age(w) \in Nat,
           (LossesInARow(n) + 1) * Beat \in Nat
    PROVE  Waited(n, a, types, u, before)'
<1>1. CASE t <= before + losses[n][a] * Beat + SendGap(n, a)
  <2>1. u <= before + losses'[n][a] * Beat + SendGap(n, a)'
    BY <1>1
  <2> QED
    BY <2>1 DEF Waited
<1>2. ASSUME NEW w \in UnderWay(n, a, types),
             t <= before + (LossesInARow(n) + 1) * Beat + Age(w)
      PROVE  Waited(n, a, types, u, before)'
  <2>1. /\ w \in wire' /\ Age(w)' = Age(w) /\ Age(w) \in Nat
        /\ w.packet.from = n /\ w.packet.to = a /\ w.packet.type \in types
    BY DEF UnderWay
  <2>2. u <= before + (LossesInARow(n) + 1) * Beat + Age(w)'
    BY <1>2, <2>1
  <2> QED
    BY <2>1, <2>2 DEF Waited, UnderWay
<1> QED
  BY <1>1, <1>2 DEF Waited

\* A packet of the kind waited for is sent: it is under way, or lost, and the
\* next may be lost a beat later.
LEMMA WaitedSent ==
    ASSUME NEW n \in Node, NEW a \in Node, NEW types, NEW before \in Nat,
           NEW t \in Nat, NEW u \in Nat, u <= t,
           Waited(n, a, types, t, before),
           losses[n][a] \in Nat, losses[n][a] <= LossesInARow(n), LossesInARow(n) \in Nat,
           Beat \in Nat, SendGap(n, a) \in Nat, SendGap(n, a) <= Beat,
           \A w \in UnderWay(n, a, types) : w \in wire' /\ Age(w)' = Age(w) /\ Age(w) \in Nat,
           since'[n][a].sent = 0, frame'[a] \in Nat,
           NEW p, p.from = n, p.to = a, p.type \in types,
           \/ [packet |-> p, age |-> 0] \in wire'
           \/ losses'[n][a] = losses[n][a] + 1
    PROVE  Waited(n, a, types, u, before)'
<1>1. /\ losses[n][a] * Beat \in Nat /\ LossesInARow(n) * Beat \in Nat
      /\ losses[n][a] * Beat <= LossesInARow(n) * Beat
      /\ (LossesInARow(n) + 1) * Beat = LossesInARow(n) * Beat + Beat
      /\ (losses[n][a] + 1) * Beat = losses[n][a] * Beat + Beat
  BY BeatsGrow
<1>2. CASE t <= before + losses[n][a] * Beat + SendGap(n, a)
  <2>1. CASE [packet |-> p, age |-> 0] \in wire'
    <3> DEFINE v == [packet |-> p, age |-> 0]
    <3>1. v.packet = p /\ v.age = 0
      OBVIOUS
    <3>2. Age(v)' \in Nat
      BY <3>1, TimesFacts DEF Age
    <3>3. v \in UnderWay(n, a, types)'
      BY <2>1, <3>1 DEF UnderWay
    <3> HIDE DEF v
    <3>4. u <= before + (LossesInARow(n) + 1) * Beat + Age(v)'
      BY <1>1, <1>2, <3>2
    <3> QED
      BY <3>3, <3>4 DEF Waited
  <2>2. CASE losses'[n][a] = losses[n][a] + 1
    <3>1. SendGap(n, a)' = 0
      BY TimesFacts DEF SendGap
    <3>2. losses'[n][a] * Beat = losses[n][a] * Beat + Beat
      BY <1>1, <2>2
    <3>3. u <= before + losses'[n][a] * Beat + SendGap(n, a)'
      BY <1>1, <1>2, <3>1, <3>2
    <3> QED
      BY <3>3 DEF Waited
  <2> QED
    BY <2>1, <2>2
<1>3. ASSUME NEW w \in UnderWay(n, a, types),
             t <= before + (LossesInARow(n) + 1) * Beat + Age(w)
      PROVE  Waited(n, a, types, u, before)'
  <2>1. /\ w \in wire' /\ Age(w)' = Age(w) /\ Age(w) \in Nat
        /\ w.packet.from = n /\ w.packet.to = a /\ w.packet.type \in types
    BY DEF UnderWay
  <2>2. u <= before + (LossesInARow(n) + 1) * Beat + Age(w)'
    BY <1>1, <1>3, <2>1
  <2> QED
    BY <2>1, <2>2 DEF Waited, UnderWay
<1> QED
  BY <1>2, <1>3 DEF Waited

\* With each tick a packet under way is older, or the next is nearer.
LEMMA WaitedTicks ==
    ASSUME NEW n \in Node, NEW a \in Node, NEW types, NEW before \in Nat,
           NEW t \in Nat, NEW u \in Nat, u <= t + 1,
           Waited(n, a, types, t, before),
           losses[n][a] * Beat \in Nat, SendGap(n, a) \in Nat,
           losses'[n][a] = losses[n][a],
           SendGap(n, a)' \in Nat, SendGap(n, a)' >= SendGap(n, a) + 1,
           \A w \in wire : \E v \in wire' :
                /\ v.packet = w.packet
                /\ Age(v)' \in Nat /\ Age(w) \in Nat /\ Age(v)' >= Age(w) + 1,
           (LossesInARow(n) + 1) * Beat \in Nat
    PROVE  Waited(n, a, types, u, before)'
<1>1. CASE t <= before + losses[n][a] * Beat + SendGap(n, a)
  <2>1. u <= before + losses'[n][a] * Beat + SendGap(n, a)'
    BY <1>1
  <2> QED
    BY <2>1 DEF Waited
<1>2. ASSUME NEW w \in UnderWay(n, a, types),
             t <= before + (LossesInARow(n) + 1) * Beat + Age(w)
      PROVE  Waited(n, a, types, u, before)'
  <2>1. w \in wire /\ w.packet.from = n /\ w.packet.to = a /\ w.packet.type \in types
    BY DEF UnderWay
  <2>2. PICK v \in wire' : /\ v.packet = w.packet
                           /\ Age(v)' \in Nat /\ Age(w) \in Nat /\ Age(v)' >= Age(w) + 1
    BY <2>1
  <2>3. u <= before + (LossesInARow(n) + 1) * Beat + Age(v)'
    BY <1>2, <2>2
  <2> QED
    BY <2>1, <2>2, <2>3 DEF Waited, UnderWay
<1> QED
  BY <1>1, <1>2 DEF Waited

\* Nobody has waited yet who has just heard.
LEMMA WaitedFresh ==
    ASSUME TimedTypeOK', NEW n \in Node, NEW a \in Node, NEW types, NEW before \in Nat,
           NEW t \in Nat, t <= before
    PROVE  Waited(n, a, types, t, before)'
<1>1. since'[n][a] \in Times /\ frame'[n] \in 0 .. FrameTime /\ losses'[n][a] \in Nat
  BY DEF TimedTypeOK
<1>2. since'[n][a].sent \in 0 .. HeartbeatTime + 1
  BY <1>1 DEF Times
<1>3. SendGap(n, a)' \in Nat
  BY <1>1, <1>2, TimesFacts DEF SendGap
<1>4. losses'[n][a] * Beat \in Nat
  BY <1>1, TimesFacts DEF Beat
<1>5. t <= before + losses'[n][a] * Beat + SendGap(n, a)'
  BY <1>3, <1>4
<1> QED
  BY <1>5 DEF Waited

-----------------------------------------------------------------------------
(***************************************************************************)
(* The arithmetic of asking for a connection.                              *)
(***************************************************************************)

\* Requests and the time since the first.
LEMMA AskedFacts ==
    ASSUME IInv, TimedTypeOK, LossesCounted, NEW c \in Clients, NEW s \in Servers
    PROVE  /\ Asked(c, s) \in Nat /\ conns[c][s].attemptsLeft = Attempts - Asked(c, s)
           /\ Asked(c, s) * RetryTime \in Nat
           /\ AskingTime(c, s) \in Int
           /\ AskingTime(c, s) = Asked(c, s) * RetryTime - RetryTime + since[c][s].request
           /\ AskingTime(c, s) <= Asked(c, s) * RetryTime
           /\ Asked(c, s) <= losses[c][s] =>
                Asked(c, s) * RetryTime <= LossesInARow(c) * RetryTime
<1>1. c \in Node /\ s \in Node \ {c}
  BY PairNumbers
<1>2. conns[c][s].attemptsLeft \in 0 .. Attempts
  <2>1. conns[c][s] \in Connection
    BY <1>1 DEF IInv, TypeOK
  <2> QED
    BY <2>1 DEF Connection
<1>3. /\ since[c][s].request \in 0 .. RetryTime /\ losses[c][s] \in Nat
      /\ LossesInARow(c) \in Nat /\ losses[c][s] <= LossesInARow(c)
  BY <1>1, CountedOfPair
<1>4. RetryTime \in Nat /\ Attempts \in Nat
  BY TimesFacts, CountsAssumption
<1>5. Asked(c, s) \in Nat /\ conns[c][s].attemptsLeft = Attempts - Asked(c, s)
  BY <1>2, <1>4 DEF Asked
<1> DEFINE k == Asked(c, s)
<1>6. AskingTime(c, s) = (k - 1) * RetryTime + since[c][s].request
  BY DEF AskingTime
<1> HIDE DEF k
<1>7. (k - 1) * RetryTime = k * RetryTime - RetryTime /\ k * RetryTime \in Nat
  BY <1>4, <1>5 DEF k
<1>8. k <= LossesInARow(c) => k * RetryTime <= LossesInARow(c) * RetryTime
  BY <1>3, <1>4, <1>5, BeatsGrow DEF k
<1> QED
  BY <1>3, <1>4, <1>5, <1>6, <1>7, <1>8 DEF k

\* A handshake takes less time than the attempts do.
LEMMA AskingBound ==
    ASSUME IInv, TimedTypeOK, LossesCounted, NEW c \in Clients, NEW s \in Servers,
           Asking(c, s),
           conns[s][c].state # "None" =>
                since[s][c].heard <= Answered(s)
    PROVE  AskingTime(c, s) < (Attempts - 1) * RetryTime
<1>1. c \in Node /\ s \in Node \ {c}
  BY PairNumbers
<1>2. /\ AskingTime(c, s) \in Int
      /\ AskingTime(c, s) <= Asked(c, s) * RetryTime
      /\ Asked(c, s) * RetryTime \in Nat
      /\ Asked(c, s) <= losses[c][s] =>
                Asked(c, s) * RetryTime <= LossesInARow(c) * RetryTime
  BY AskedFacts
<1>3. /\ LossesInARow(c) * RetryTime \in Nat
      /\ Answered(s) \in Nat
      /\ LossesInARow(c) * RetryTime + Latency + FrameTime + Answered(s)
                    < (Attempts - 1) * RetryTime
      /\ (Attempts - 1) * RetryTime \in Int
      /\ Latency \in Nat /\ FrameTime \in Nat
  BY PairNumbers, TimesFacts, CountsAssumption
<1>4. CASE conns[s][c].state = "None" /\ Asked(c, s) <= losses[c][s]
  BY <1>2, <1>3, <1>4
<1>5. ASSUME NEW w \in wire, AskingTime(c, s) <= LossesInARow(c) * RetryTime + Age(w)
      PROVE  AskingTime(c, s) < (Attempts - 1) * RetryTime
  <2>1. Age(w) \in Nat /\ Age(w) <= Latency + FrameTime
    BY AgeBound
  <2> QED
    BY <1>2, <1>3, <1>5, <2>1
<1>6. CASE conns[s][c].state # "None"
  <2>1. /\ AskingTime(c, s) <=
                LossesInARow(c) * RetryTime + Latency + FrameTime + since[s][c].heard
        /\ since[s][c].heard <= Answered(s)
    BY <1>6 DEF Asking, RequestRead
  <2>2. since[s][c].heard \in Nat
    BY <1>1, CountedOfPair
  <2> QED
    BY <1>2, <1>3, <2>1, <2>2
<1> QED
  BY <1>4, <1>5, <1>6 DEF Asking, RequestUnderWay, UnderWay

\* A client that does not ask again.
LEMMA AskingStays ==
    ASSUME NEW c \in Node, NEW s \in Node, Asking(c, s),
           conns'[c][s] = conns[c][s], since'[c][s].request = since[c][s].request,
           conns'[s][c].state = "None" <=> conns[s][c].state = "None",
           since'[s][c].heard = since[s][c].heard \/ conns[s][c].state = "None",
           losses'[c][s] = losses[c][s],
           \A w \in UnderWay(c, s, {"CONNECT_REQUEST"}) : w \in wire' /\ Age(w)' = Age(w)
    PROVE  Asking(c, s)'
<1>1. Asked(c, s)' = Asked(c, s) /\ AskingTime(c, s)' = AskingTime(c, s)
  BY DEF Asked, AskingTime
<1>2. RequestUnderWay(c, s) => RequestUnderWay(c, s)'
  BY <1>1 DEF RequestUnderWay, UnderWay
<1>3. conns[s][c].state # "None" /\ RequestRead(c, s) => RequestRead(c, s)'
  BY <1>1 DEF RequestRead
<1> QED
  BY <1>1, <1>2, <1>3 DEF Asking

\* A client asks again: its request is under way, or lost like all before it.
LEMMA AskingAgain ==
    ASSUME IInv, TimedTypeOK, LossesCounted, NEW c \in Clients, NEW s \in Servers,
           Asking(c, s),
           conns[c][s].requested => since[c][s].request >= RetryTime,
           conns'[c][s] = [conns[c][s] EXCEPT !.attemptsLeft = @ - 1, !.requested = TRUE],
           since'[c][s].request = 0,
           conns'[s][c] = conns[s][c], since'[s][c].heard = since[s][c].heard,
           \A w \in UnderWay(c, s, {"CONNECT_REQUEST"}) : w \in wire' /\ Age(w)' = Age(w),
           frame'[s] \in Nat,
           NEW p, p.from = c, p.to = s, p.type = "CONNECT_REQUEST",
           \/ [packet |-> p, age |-> 0] \in wire'
           \/ losses'[c][s] = losses[c][s] + 1
    PROVE  Asking(c, s)'
<1>1. c \in Node /\ s \in Node \ {c}
  BY PairNumbers
<1>2. /\ since[c][s].request \in 0 .. RetryTime /\ losses[c][s] \in Nat
      /\ since[s][c].heard \in Nat /\ LossesInARow(c) * RetryTime \in Nat
      /\ RetryTime \in Nat /\ Latency \in Nat /\ FrameTime \in Nat
  BY <1>1, CountedOfPair, PairNumbers, TimesFacts
<1>3. /\ Asked(c, s) \in Nat /\ conns[c][s].attemptsLeft = Attempts - Asked(c, s)
      /\ Asked(c, s) * RetryTime \in Nat
      /\ AskingTime(c, s) = Asked(c, s) * RetryTime - RetryTime + since[c][s].request
      /\ Asked(c, s) <= losses[c][s] =>
                Asked(c, s) * RetryTime <= LossesInARow(c) * RetryTime
  BY AskedFacts
<1>4. conns[c][s] \in Connection
  BY <1>1 DEF IInv, TypeOK
<1>5. conns'[c][s].attemptsLeft = conns[c][s].attemptsLeft - 1 /\ conns'[c][s].requested
  BY <1>4 DEF Connection
<1>6. Asked(c, s)' = Asked(c, s) + 1
  BY <1>3, <1>5, CountsAssumption DEF Asked
<1>7. AskingTime(c, s)' = Asked(c, s) * RetryTime
  <2>1. AskingTime(c, s)' = (Asked(c, s)' - 1) * RetryTime + since'[c][s].request
    BY DEF AskingTime
  <2>2. Asked(c, s)' - 1 = Asked(c, s)
    BY <1>3, <1>6
  <2> QED
    BY <1>3, <2>1, <2>2
<1>8. AskingTime(c, s)' = AskingTime(c, s) \/ Asked(c, s) = 0
  BY <1>2, <1>3, <1>7 DEF Asking
<1>9. ASSUME conns[s][c].state = "None", Asked(c, s) <= losses[c][s]
      PROVE  RequestUnderWay(c, s)'
  <2>1. CASE losses'[c][s] = losses[c][s] + 1
    BY <1>2, <1>3, <1>6, <1>9, <2>1 DEF RequestUnderWay
  <2>2. CASE [packet |-> p, age |-> 0] \in wire'
    <3> DEFINE v == [packet |-> p, age |-> 0]
    <3>1. v.packet = p /\ v.age = 0
      OBVIOUS
    <3>2. Age(v)' \in Nat
      BY <1>2, <3>1 DEF Age
    <3>3. v \in UnderWay(c, s, {"CONNECT_REQUEST"})'
      BY <2>2, <3>1 DEF UnderWay
    <3> HIDE DEF v
    <3>4. AskingTime(c, s)' <= LossesInARow(c) * RetryTime + Age(v)'
      BY <1>2, <1>3, <1>7, <1>9, <3>2
    <3> QED
      BY <3>3, <3>4 DEF RequestUnderWay
  <2> QED
    BY <2>1, <2>2
<1>10. ASSUME NEW w \in UnderWay(c, s, {"CONNECT_REQUEST"}), Asked(c, s) # 0,
              AskingTime(c, s) <= LossesInARow(c) * RetryTime + Age(w)
       PROVE  RequestUnderWay(c, s)'
  <2>1. AskingTime(c, s)' <= LossesInARow(c) * RetryTime + Age(w)'
    BY <1>8, <1>10
  <2>2. w \in UnderWay(c, s, {"CONNECT_REQUEST"})'
    BY DEF UnderWay
  <2> QED
    BY <2>1, <2>2 DEF RequestUnderWay
<1>11. conns[s][c].state = "None" => RequestUnderWay(c, s)'
  <2>1. Asked(c, s) = 0 => Asked(c, s) <= losses[c][s]
    BY <1>2
  <2> QED
    BY <1>9, <1>10, <2>1 DEF Asking, RequestUnderWay
<1>12. conns[s][c].state # "None" => RequestRead(c, s)'
  <2> SUFFICES ASSUME conns[s][c].state # "None" PROVE RequestRead(c, s)'
    OBVIOUS
  <2>1. RequestRead(c, s)
    BY DEF Asking
  <2>2. CASE AskingTime(c, s)' = AskingTime(c, s)
    BY <2>1, <2>2 DEF RequestRead
  <2>3. CASE Asked(c, s) = 0
    <3>1. AskingTime(c, s)' = 0
      BY <1>2, <1>7, <2>3
    <3> QED
      BY <1>2, <3>1 DEF RequestRead
  <2> QED
    BY <1>8, <2>2, <2>3
<1> QED
  BY <1>5, <1>11, <1>12 DEF Asking

\* With each tick the client asks a tick longer at most; so does whatever
\* accounts for it.
LEMMA AskingTicks ==
    ASSUME IInv, TimedTypeOK, LossesCounted, NEW c \in Clients, NEW s \in Servers,
           Asking(c, s),
           UNCHANGED conns, losses'[c][s] = losses[c][s],
           since'[c][s].request \in Nat,
           since'[c][s].request <= since[c][s].request + 1,
           conns[s][c].state # "None" => since'[s][c].heard = since[s][c].heard + 1,
           \A w \in wire : \E v \in wire' :
                /\ v.packet = w.packet
                /\ Age(v)' \in Nat /\ Age(w) \in Nat /\ Age(v)' >= Age(w) + 1
    PROVE  Asking(c, s)'
<1>1. c \in Node /\ s \in Node \ {c}
  BY PairNumbers
<1>2. /\ since[c][s].request \in Nat
      /\ since[s][c].heard \in Nat /\ LossesInARow(c) * RetryTime \in Nat
      /\ RetryTime \in Nat /\ Latency \in Nat /\ FrameTime \in Nat
  BY <1>1, CountedOfPair, PairNumbers, TimesFacts
<1>3. /\ Asked(c, s) \in Nat
      /\ AskingTime(c, s) \in Int
      /\ (Asked(c, s) - 1) * RetryTime \in Int
  BY <1>2, AskedFacts
<1>4. Asked(c, s)' = Asked(c, s)
  BY DEF Asked
<1>5. AskingTime(c, s)' \in Int /\ AskingTime(c, s)' <= AskingTime(c, s) + 1
  BY <1>2, <1>3, <1>4 DEF AskingTime
<1>6. conns[s][c].state = "None" => RequestUnderWay(c, s)'
  <2>1. ASSUME NEW w \in UnderWay(c, s, {"CONNECT_REQUEST"}),
               AskingTime(c, s) <= LossesInARow(c) * RetryTime + Age(w)
        PROVE  RequestUnderWay(c, s)'
    <3>1. /\ w \in wire /\ w.packet.from = c /\ w.packet.to = s
          /\ w.packet.type = "CONNECT_REQUEST"
      BY DEF UnderWay
    <3>2. PICK v \in wire' : /\ v.packet = w.packet
                             /\ Age(v)' \in Nat /\ Age(w) \in Nat /\ Age(v)' >= Age(w) + 1
      BY <3>1
    <3>3. AskingTime(c, s)' <= LossesInARow(c) * RetryTime + Age(v)'
      BY <1>2, <1>3, <1>5, <2>1, <3>2
    <3> QED
      BY <3>1, <3>2, <3>3 DEF RequestUnderWay, UnderWay
  <2>2. CASE Asked(c, s) <= losses[c][s]
    BY <1>4, <2>2 DEF RequestUnderWay
  <2> QED
    BY <2>1, <2>2 DEF Asking, RequestUnderWay
<1>7. conns[s][c].state # "None" => RequestRead(c, s)'
  BY <1>2, <1>3, <1>5 DEF Asking, RequestRead
<1> QED
  BY <1>4, <1>6, <1>7 DEF Asking

-----------------------------------------------------------------------------
(***************************************************************************)
(* A pair of a client and a server, and the steps of others.               *)
(***************************************************************************)

\* Neither end of a connection is silent for longer than the timeout, and the
\* server not for longer than a handshake while it is not answered.
LEMMA SilenceOfPair ==
    ASSUME IInv, TimedInv, Everyone, LossesCounted, NEW c \in Clients, NEW s \in Servers,
           BothEnds(c, s)
    PROVE  /\ conns[c][s].state = "CONNECTED" => since[c][s].heard <= HeartbeatTimeout
           /\ conns[s][c].state = "CONNECTED" => since[s][c].heard <= HeartbeatTimeout
           /\ conns[c][s].state = "REQUESTING_CONNECTION" /\ conns[s][c].state # "None" =>
                    since[s][c].heard <= Answered(s)
<1>1. c \in Node \ {s} /\ s \in Node \ {c} /\ TimedTypeOK
  BY PairNumbers DEF TimedInv
<1>2. since[c][s].heard \in Nat /\ since[s][c].heard \in Nat
  BY <1>1, CountedOfPair
<1>3. /\ Beat \in Nat /\ Latency \in Nat /\ FrameTime \in Nat /\ HeartbeatTimeout \in Nat
      /\ LossesInARow(c) * Beat \in Nat /\ LossesInARow(s) * Beat \in Nat
      /\ Answered(s) = LossesInARow(s) * Beat + Beat + Latency + FrameTime
      /\ Answered(s) + LossesInARow(c) * Beat + Beat + Latency + FrameTime
                    <= HeartbeatTimeout
  BY PairNumbers, TimesFacts
<1>4. Answered(s) \in Nat /\ Answered(s) <= HeartbeatTimeout
  BY <1>3
<1>5. conns[c][s].state = "CONNECTED" => since[c][s].heard <= Answered(s)
  <2> SUFFICES ASSUME conns[c][s].state = "CONNECTED"
               PROVE  since[c][s].heard <= Answered(s)
    OBVIOUS
  <2>1. Waited(s, c, {"HEARTBEAT"}, since[c][s].heard, 0)
    BY DEF BothEnds
  <2>2. since[c][s].heard <= 0 + LossesInARow(s) * Beat + Beat + Latency + FrameTime
    BY <1>1, <1>2, <2>1, WaitedBound
  <2> QED
    BY <1>2, <1>3, <2>2
<1>6. conns[c][s].state = "REQUESTING_CONNECTION" /\ conns[s][c].state # "None" =>
            since[s][c].heard <= Answered(s)
  <2> SUFFICES ASSUME conns[c][s].state = "REQUESTING_CONNECTION",
                      conns[s][c].state # "None"
               PROVE  since[s][c].heard <= Answered(s)
    OBVIOUS
  <2>1. conns[s][c].state \in {"DECIDING_CONNECTION", "CONNECTED"}
    BY DEF BothEnds, EndsAgree
  <2>2. CASE conns[s][c].state = "DECIDING_CONNECTION"
    <3>1. since[s][c].heard = 0
      BY <1>1, <2>2 DEF TimedInv, DecidedInFrame, Everyone
    <3> QED
      BY <1>4, <3>1
  <2>3. CASE conns[s][c].state = "CONNECTED"
    <3>1. Waited(s, c, {"CONNECT_ACCEPT", "HEARTBEAT"}, since[s][c].heard, 0)
      BY <2>3 DEF BothEnds
    <3>2. since[s][c].heard <= 0 + LossesInARow(s) * Beat + Beat + Latency + FrameTime
      BY <1>1, <1>2, <3>1, WaitedBound
    <3> QED
      BY <1>2, <1>3, <3>2
  <2> QED
    BY <2>1, <2>2, <2>3
<1>7. conns[s][c].state = "CONNECTED" => since[s][c].heard <= HeartbeatTimeout
  <2> SUFFICES ASSUME conns[s][c].state = "CONNECTED"
               PROVE  since[s][c].heard <= HeartbeatTimeout
    OBVIOUS
  <2>1. conns[c][s].state \in {"REQUESTING_CONNECTION", "CONNECTED"}
    BY DEF BothEnds, EndsAgree
  <2>2. CASE conns[c][s].state = "REQUESTING_CONNECTION"
    BY <1>2, <1>4, <1>6, <2>2, TimesFacts
  <2>3. CASE conns[c][s].state = "CONNECTED"
    <3>1. Waited(c, s, {"HEARTBEAT", "USER_PACKET"}, since[s][c].heard, Answered(s))
      BY <2>3 DEF BothEnds
    <3>2. since[s][c].heard <=
                Answered(s) + LossesInARow(c) * Beat + Beat + Latency + FrameTime
      BY <1>1, <1>2, <1>4, <3>1, WaitedBound
    <3> QED
      BY <1>2, <1>3, <3>2
  <2> QED
    BY <2>1, <2>2, <2>3
<1> QED
  BY <1>2, <1>4, <1>5, <1>6, <1>7, TimesFacts

\* What a process waits for stays on its way.
StaysUnderWay(n, a) ==
    \A w \in wire : w.packet.from = n /\ w.packet.to = a =>
        w \in wire' /\ Age(w)' = Age(w)

\* A wait in which nothing is sent and nothing arrives.
LEMMA WaitedOn ==
    ASSUME IInv, TimedTypeOK, LossesCounted, NEW n \in Node, NEW a \in Node \ {n},
           NEW types, NEW before \in Nat, NEW t \in Nat, Waited(n, a, types, t, before),
           losses'[n][a] = losses[n][a], SendGap(n, a)' = SendGap(n, a),
           StaysUnderWay(n, a)
    PROVE  Waited(n, a, types, t, before)'
<1>1. /\ losses[n][a] * Beat \in Nat /\ SendGap(n, a) \in Nat
      /\ LossesInARow(n) \in Nat /\ Beat \in Nat
  BY CountedOfPair
<1>2. \A w \in UnderWay(n, a, types) : w \in wire' /\ Age(w)' = Age(w) /\ Age(w) \in Nat
  BY AgeBound DEF UnderWay, StaysUnderWay
<1>3. (LossesInARow(n) + 1) * Beat \in Nat
  BY <1>1, BeatsGrow
<1> QED
  BY <1>1, <1>2, <1>3, WaitedStays, SMTT(40)

\* A wait in which a packet of the kind waited for is sent.
LEMMA WaitedOut ==
    ASSUME IInv, TimedTypeOK, TimedTypeOK', LossesCounted,
           NEW n \in Node, NEW a \in Node \ {n},
           NEW types, NEW before \in Nat, NEW t \in Nat, Waited(n, a, types, t, before),
           StaysUnderWay(n, a), since'[n][a].sent = 0,
           NEW p, p.from = n, p.to = a, p.type \in types,
           \/ [packet |-> p, age |-> 0] \in wire'
           \/ losses'[n][a] = losses[n][a] + 1
    PROVE  Waited(n, a, types, t, before)'
<1>1. /\ losses[n][a] \in Nat /\ losses[n][a] <= LossesInARow(n)
      /\ SendGap(n, a) \in Nat /\ SendGap(n, a) <= Beat
      /\ LossesInARow(n) \in Nat /\ Beat \in Nat
  BY CountedOfPair
<1>2. \A w \in UnderWay(n, a, types) : w \in wire' /\ Age(w)' = Age(w) /\ Age(w) \in Nat
  BY AgeBound DEF UnderWay, StaysUnderWay
<1>3. frame'[a] \in Nat
  BY TimesFacts DEF TimedTypeOK
<1> QED
  BY <1>1, <1>2, <1>3, WaitedSent

\* A step that touches neither end of a pair nor what is under way between them.
LEMMA PairStays ==
    ASSUME IInv, TimedTypeOK, LossesCounted, NEW c \in Clients, NEW s \in Servers,
           BothEnds(c, s),
           conns'[c][s] = conns[c][s], conns'[s][c] = conns[s][c],
           since'[c][s] = since[c][s], since'[s][c] = since[s][c],
           losses'[c][s] = losses[c][s], losses'[s][c] = losses[s][c],
           frame'[c] = frame[c], frame'[s] = frame[s],
           \A w \in wire \cup wire' :
                {w.packet.from, w.packet.to} = {c, s} => w \in wire /\ w \in wire'
    PROVE  BothEnds(c, s)'
<1>1. c \in Node \ {s} /\ s \in Node \ {c}
  BY PairNumbers
<1>2. StaysUnderWay(c, s) /\ StaysUnderWay(s, c)
  BY DEF StaysUnderWay, Age
<1>3. SendGap(c, s)' = SendGap(c, s) /\ SendGap(s, c)' = SendGap(s, c)
  BY DEF SendGap
<1>4. since[c][s].heard \in Nat /\ since[s][c].heard \in Nat /\ Answered(s) \in Nat
  BY <1>1, CountedOfPair, PairNumbers, TimesFacts
<1>5. EndsAgree(c, s)'
  BY DEF BothEnds, EndsAgree
<1>6. OnlyExpected(c, s)'
  BY DEF BothEnds, OnlyExpected
<1>7. ASSUME conns[c][s].state = "REQUESTING_CONNECTION"
      PROVE  /\ Asking(c, s)'
             /\ conns[s][c].state = "CONNECTED" =>
                    Waited(s, c, {"CONNECT_ACCEPT", "HEARTBEAT"}, since[s][c].heard, 0)'
  <2>1. Asking(c, s)'
    <3>1. Asking(c, s)
      BY <1>7 DEF BothEnds
    <3>2. \A w \in UnderWay(c, s, {"CONNECT_REQUEST"}) : w \in wire' /\ Age(w)' = Age(w)
      BY <1>2 DEF StaysUnderWay, UnderWay
    <3> QED
      BY <1>1, <3>1, <3>2, AskingStays
  <2>2. ASSUME conns[s][c].state = "CONNECTED"
        PROVE  Waited(s, c, {"CONNECT_ACCEPT", "HEARTBEAT"}, since[s][c].heard, 0)'
    <3>1. Waited(s, c, {"CONNECT_ACCEPT", "HEARTBEAT"}, since[s][c].heard, 0)
      BY <1>7, <2>2 DEF BothEnds
    <3> QED
      BY <1>1, <1>2, <1>3, <1>4, <3>1, WaitedOn
  <2> QED
    BY <2>1, <2>2
<1>8. ASSUME conns[c][s].state = "CONNECTED"
      PROVE  /\ Waited(s, c, {"HEARTBEAT"}, since[c][s].heard, 0)'
             /\ Waited(c, s, {"HEARTBEAT", "USER_PACKET"}, since[s][c].heard, Answered(s))'
  <2>1. /\ Waited(s, c, {"HEARTBEAT"}, since[c][s].heard, 0)
        /\ Waited(c, s, {"HEARTBEAT", "USER_PACKET"}, since[s][c].heard, Answered(s))
    BY <1>8 DEF BothEnds
  <2>2. Waited(s, c, {"HEARTBEAT"}, since[c][s].heard, 0)'
    BY <1>1, <1>2, <1>3, <1>4, <2>1, WaitedOn
  <2>3. Waited(c, s, {"HEARTBEAT", "USER_PACKET"}, since[s][c].heard, Answered(s))'
    BY <1>1, <1>2, <1>3, <1>4, <2>1, WaitedOn
  <2> QED
    BY <2>2, <2>3
<1> QED
  BY <1>5, <1>6, <1>7, <1>8 DEF BothEnds

-----------------------------------------------------------------------------
(***************************************************************************)
(* What send does to the losses.                                           *)
(***************************************************************************)

\* The drop counter after no packet and after one.
LEMMA CountAfterOne ==
    ASSUME NEW n \in Node, DropChance[n] # 0,
           countToDrop[n] \in Nat \ {0}, countToDrop[n] <= DropChance[n]
    PROVE  /\ CountAfter(n, 0) = countToDrop[n]
           /\ CountAfter(n, 1) = IF countToDrop[n] = 1 THEN DropChance[n]
                                 ELSE countToDrop[n] - 1
           /\ Drops(n, 1) <=> countToDrop[n] = 1
<1> DEFINE d == DropChance[n]
           k == countToDrop[n]
<1>1. d \in Nat \ {0} /\ k \in 1 .. d
  BY SocketAssumption, TimesAssumption
<1>2. /\ CountAfter(n, 0) = d - ((d - k + 0) % d)
      /\ CountAfter(n, 1) = d - ((d - k + 1) % d)
  BY <1>1 DEF CountAfter
<1>3. Drops(n, 1) <=> 1 >= k /\ (1 - k) % d = 0
  BY <1>1 DEF Drops
<1> HIDE DEF d, k
<1>4. /\ d - k + 0 \in 0 .. 2 * d - 1 /\ d - k + 0 < d
      /\ d - k + 1 \in 0 .. 2 * d - 1
      /\ k = 1 => ~ d - k + 1 < d /\ d - k + 1 - d = 0
      /\ k # 1 => d - k + 1 < d
  BY <1>1
<1>5. (d - k + 0) % d = d - k
  <2>1. (d - k + 0) % d = IF d - k + 0 < d THEN d - k + 0 ELSE d - k + 0 - d
    BY <1>1, <1>4, ModOnce
  <2> QED
    BY <1>1, <1>4, <2>1
<1>6. (d - k + 1) % d = IF k = 1 THEN 0 ELSE d - k + 1
  <2> DEFINE x == d - k + 1
  <2>1. x \in 0 .. 2 * d - 1 /\ (k = 1 => x - d = 0 /\ ~ x < d) /\ (k # 1 => x < d)
    BY <1>1
  <2> HIDE DEF x
  <2>2. x % d = IF x < d THEN x ELSE x - d
    BY <1>1, <2>1, ModOnce
  <2>3. x % d = IF k = 1 THEN 0 ELSE x
    BY <2>1, <2>2
  <2> QED
    BY <2>3 DEF x
<1>7. Drops(n, 1) <=> k = 1
  <2>1. CASE k = 1
    <3>1. 0 \in 0 .. 2 * d - 1 /\ 0 < d /\ 1 - k = 0
      BY <1>1, <2>1
    <3>2. 0 % d = 0
      BY <1>1, <3>1, ModOnce
    <3> QED
      BY <1>1, <1>3, <2>1, <3>1, <3>2
  <2>2. CASE k # 1
    BY <1>1, <1>3, <2>2
  <2> QED
    BY <2>1, <2>2
<1>8. CountAfter(n, 0) = k
  BY <1>1, <1>2, <1>5
<1>9. CountAfter(n, 1) = IF k = 1 THEN d ELSE k - 1
  BY <1>1, <1>2, <1>6
<1> QED
  BY <1>7, <1>8, <1>9 DEF d, k

\* What is sent is under way or lost, and the losses in a row stay below their
\* bound, whether the network or the drop counter takes the packets.
LEMMA SendOutcome ==
    ASSUME TimedTypeOK, Everyone, LossesCounted, NEW n \in Node, NEW sent,
           IsFiniteSet(sent), Send(n, sent, wire),
           \A p \in sent : p.to \in Node \ {n},
           \A p, q \in sent : p.to = q.to => p = q
    PROVE  /\ LossesCounted'
           /\ \A w \in wire : w \in wire'
           /\ \A m \in Node : m # n => losses'[m] = losses[m]
           /\ \A a \in Node : (\A p \in sent : p.to # a) => losses'[n][a] = losses[n][a]
           /\ \A p \in sent : \/ [packet |-> p, age |-> 0] \in wire'
                              \/ losses'[n][p.to] = losses[n][p.to] + 1
<1>1. PICK order \in SetToSeqs(sent) : \E lost \in SUBSET DOMAIN order :
        LET gone == lost \cup {k \in DOMAIN order : Drops(n, k)}
        IN  /\ \A k \in lost : losses[n][order[k].to] < MaxLosses[n]
            /\ wire' = wire \cup
                    {[packet |-> order[k], age |-> 0] :
                        k \in {j \in DOMAIN order \ gone : order[j].to \in alive}}
            /\ losses' = [losses EXCEPT ![n] = [a \in Node |->
                    IF a \notin alive \/ \A k \in DOMAIN order : order[k].to # a
                    THEN losses[n][a]
                    ELSE IF \E k \in gone : order[k].to = a THEN losses[n][a] + 1 ELSE 0]]
            /\ countToDrop' = [countToDrop EXCEPT ![n] = CountAfter(n, Len(order))]
  BY DEF Send
<1>2. PICK lost \in SUBSET DOMAIN order :
        LET gone == lost \cup {k \in DOMAIN order : Drops(n, k)}
        IN  /\ \A k \in lost : losses[n][order[k].to] < MaxLosses[n]
            /\ wire' = wire \cup
                    {[packet |-> order[k], age |-> 0] :
                        k \in {j \in DOMAIN order \ gone : order[j].to \in alive}}
            /\ losses' = [losses EXCEPT ![n] = [a \in Node |->
                    IF a \notin alive \/ \A k \in DOMAIN order : order[k].to # a
                    THEN losses[n][a]
                    ELSE IF \E k \in gone : order[k].to = a THEN losses[n][a] + 1 ELSE 0]]
            /\ countToDrop' = [countToDrop EXCEPT ![n] = CountAfter(n, Len(order))]
  BY <1>1
<1> DEFINE gone == lost \cup {k \in DOMAIN order : Drops(n, k)}
<1>3. /\ \A k \in lost : losses[n][order[k].to] < MaxLosses[n]
      /\ wire' = wire \cup
                {[packet |-> order[k], age |-> 0] :
                    k \in {j \in DOMAIN order \ gone : order[j].to \in alive}}
      /\ countToDrop' = [countToDrop EXCEPT ![n] = CountAfter(n, Len(order))]
  BY <1>2
<1>4. /\ alive = Node /\ losses \in [Node -> [Node -> Nat]] /\ countToDrop \in [Node -> Nat]
      /\ \A m \in Node : countToDrop[m] <= DropChance[m]
  BY DEF TimedTypeOK, Everyone
<1>5. /\ \A m \in Node : m # n => losses'[m] = losses[m]
      /\ \A a \in Node : losses'[n][a] =
            IF \A k \in DOMAIN order : order[k].to # a THEN losses[n][a]
            ELSE IF \E k \in gone : order[k].to = a THEN losses[n][a] + 1 ELSE 0
  <2> DEFINE after == [a \in Node |->
                    IF a \notin alive \/ \A k \in DOMAIN order : order[k].to # a
                    THEN losses[n][a]
                    ELSE IF \E k \in gone : order[k].to = a THEN losses[n][a] + 1 ELSE 0]
  <2>1. losses' = [losses EXCEPT ![n] = after]
    BY <1>2
  <2>2. \A a \in Node : after[a] =
            IF \A k \in DOMAIN order : order[k].to # a THEN losses[n][a]
            ELSE IF \E k \in gone : order[k].to = a THEN losses[n][a] + 1 ELSE 0
    BY <1>4
  <2> HIDE DEF after
  <2> QED
    BY <1>4, <2>1, <2>2
<1> HIDE DEF gone
<1>6. Cardinality(sent) \in Nat
  BY FS_CardinalityType
<1>7. /\ order \in [1 .. Cardinality(sent) -> sent] /\ DOMAIN order = 1 .. Cardinality(sent)
      /\ \A i, j \in 1 .. Cardinality(sent) : i # j => order[i] # order[j]
  BY DEF SetToSeqs
<1>8. Len(order) = Cardinality(sent)
  <2>1. order \in Seq(sent)
    BY <1>6, <1>7
  <2> QED
    BY <1>6, <1>7, <2>1
<1>9. \A p \in sent : \E k \in DOMAIN order : order[k] = p
  <2>1. order \in Injection(1 .. Cardinality(sent), sent)
    BY <1>7 DEF Injection, IsInjective
  <2>2. Cardinality(1 .. Cardinality(sent)) = Cardinality(sent)
    BY <1>6, FS_Interval
  <2>3. order \in Surjection(1 .. Cardinality(sent), sent)
    BY <2>1, <2>2, FS_Injection
  <2> QED
    BY <1>7, <2>3 DEF Surjection
<1>10. ASSUME NEW p \in sent
       PROVE  \/ [packet |-> p, age |-> 0] \in wire'
              \/ losses'[n][p.to] = losses[n][p.to] + 1
  <2>1. PICK k \in DOMAIN order : order[k] = p
    BY <1>9
  <2>2. p.to \in Node
    OBVIOUS
  <2>3. CASE k \in gone
    BY <1>5, <2>1, <2>2, <2>3
  <2>4. CASE k \notin gone
    BY <1>3, <1>4, <2>1, <2>2, <2>4
  <2> QED
    BY <2>3, <2>4
<1>11. \A a \in Node : (\A p \in sent : p.to # a) => losses'[n][a] = losses[n][a]
  BY <1>5, <1>7
<1>12. ASSUME DropChance[n] = 0, NEW a \in Node \ {n}
       PROVE  losses'[n][a] <= LossesInARow(n)
  <2>1. losses[n][a] \in Nat /\ MaxLosses[n] \in Nat /\ LossesInARow(n) = MaxLosses[n]
    BY <1>4, <1>12, TimesAssumption DEF LossesInARow
  <2>2. losses[n][a] <= LossesInARow(n)
    BY DEF LossesCounted
  <2>3. gone = lost
    BY <1>12 DEF gone, Drops
  <2>4. (\E k \in gone : order[k].to = a) => losses[n][a] + 1 <= MaxLosses[n]
    BY <1>3, <2>1, <2>3
  <2> QED
    BY <1>5, <2>1, <2>2, <2>4
<1>13. ASSUME DropChance[n] # 0
       PROVE  /\ countToDrop'[n] \in Nat \ {0}
              /\ \A a \in Node \ {n} :
                    /\ losses'[n][a] <= LossesInARow(n)
                    /\ losses'[n][a] = 1 => countToDrop'[n] = DropChance[n]
  <2>1. /\ DropChance[n] \in Nat \ {0, 1} /\ MaxLosses[n] = 0 /\ LossesInARow(n) = 1
        /\ Cardinality(Node) = 2 /\ IsFiniteSet(Node)
    BY <1>13, SocketAssumption, TimesAssumption DEF LossesInARow
  <2>2. /\ countToDrop[n] \in Nat \ {0} /\ countToDrop[n] <= DropChance[n]
        /\ \A a \in Node \ {n} :
                /\ losses[n][a] \in Nat /\ losses[n][a] <= 1
                /\ losses[n][a] = 1 => countToDrop[n] = DropChance[n]
    <3>1. \A a \in Node \ {n} : /\ losses[n][a] <= 1
                                /\ countToDrop[n] > 0
                                /\ losses[n][a] = 1 => countToDrop[n] = DropChance[n]
      BY <1>13, <2>1 DEF LossesCounted
    <3>2. Cardinality(Node \ {n}) = Cardinality(Node) - 1 /\ IsFiniteSet(Node \ {n})
      BY <2>1, FS_RemoveElement
    <3>3. Node \ {n} # {}
      BY <2>1, <3>2, FS_EmptySet
    <3> QED
      BY <1>4, <3>1, <3>3
  <2>3. lost = {}
    <3> SUFFICES ASSUME NEW k \in lost PROVE FALSE
      OBVIOUS
    <3>1. order[k].to \in Node
      BY <1>7
    <3>2. losses[n][order[k].to] < 0 /\ losses[n][order[k].to] \in Nat
      BY <1>3, <1>4, <2>1, <3>1
    <3> QED
      BY <3>2
  <2>4. gone = {k \in DOMAIN order : Drops(n, k)}
    BY <2>3 DEF gone
  <2>5. PICK b : Node \ {n} = {b}
    <3>1. IsFiniteSet(Node \ {n}) /\ Cardinality(Node \ {n}) = 1
      <4>1. Cardinality(Node \ {n}) = Cardinality(Node) - 1 /\ IsFiniteSet(Node \ {n})
        BY <2>1, FS_RemoveElement
      <4> QED
        BY <2>1, <4>1
    <3> QED
      BY <3>1, FS_Singleton
  <2>6. countToDrop'[n] = CountAfter(n, Cardinality(sent))
    BY <1>3, <1>4, <1>8
  <2>7. /\ CountAfter(n, 0) = countToDrop[n]
        /\ CountAfter(n, 1) = IF countToDrop[n] = 1 THEN DropChance[n]
                              ELSE countToDrop[n] - 1
        /\ Drops(n, 1) <=> countToDrop[n] = 1
    BY <1>13, <2>2, CountAfterOne
  <2>8. CASE sent = {}
    <3>1. Cardinality(sent) = 0
      BY <2>8, FS_EmptySet
    <3>2. \A a \in Node : losses'[n][a] = losses[n][a]
      BY <1>11, <2>8
    <3> QED
      BY <2>1, <2>2, <2>6, <2>7, <3>1, <3>2
  <2>9. CASE sent # {}
    <3>1. PICK p : sent = {p}
      <4>1. \A p, q \in sent : p = q
        BY <2>5
      <4> QED
        BY <2>9, <4>1
    <3>2. Cardinality(sent) = 1 /\ p.to = b
      BY <2>5, <3>1, FS_Singleton
    <3>3. DOMAIN order = {1} /\ order[1] = p
      BY <1>7, <3>1, <3>2
    <3>4. losses'[n][b] = IF countToDrop[n] = 1 THEN losses[n][b] + 1 ELSE 0
      BY <1>5, <2>4, <2>5, <2>7, <3>2, <3>3
    <3>5. countToDrop'[n] = IF countToDrop[n] = 1 THEN DropChance[n] ELSE countToDrop[n] - 1
      BY <2>6, <2>7, <3>2
    <3>6. /\ losses[n][b] \in Nat /\ losses[n][b] <= 1
          /\ losses[n][b] = 1 => countToDrop[n] = DropChance[n]
      BY <2>2, <2>5
    <3> QED
      BY <2>1, <2>2, <2>5, <3>4, <3>5, <3>6
  <2> QED
    BY <2>8, <2>9
<1>14. \A m \in Node : m # n => countToDrop'[m] = countToDrop[m]
  BY <1>3, <1>4
<1>15. LossesCounted'
  <2> SUFFICES ASSUME NEW m \in Node, NEW a \in Node \ {m}
               PROVE  /\ losses'[m][a] <= LossesInARow(m)
                      /\ DropChance[m] # 0 =>
                            /\ countToDrop'[m] > 0
                            /\ losses'[m][a] = 1 => countToDrop'[m] = DropChance[m]
    BY DEF LossesCounted, LossesInARow
  <2>1. CASE m # n
    BY <1>5, <1>14, <2>1 DEF LossesCounted
  <2>2. CASE m = n
    BY <1>12, <1>13, <2>2
  <2> QED
    BY <2>1, <2>2
<1> QED
  BY <1>3, <1>5, <1>10, <1>11, <1>15

-----------------------------------------------------------------------------
(***************************************************************************)
(* One lemma for each action: the connections are kept.                    *)
(***************************************************************************)

\* The parts of what is assumed.
LEMMA RunningFacts ==
    ASSUME Running
    PROVE  /\ IInv /\ TimedInv /\ TimedTypeOK /\ Partners /\ LossesCounted
           /\ alive = Node
           /\ conns \in [Node -> [Node -> Connection]]
           /\ since \in [Node -> [Node -> Times]]
           /\ losses \in [Node -> [Node -> Nat]]
           /\ frame \in [Node -> 0 .. FrameTime]
           /\ \A c \in Clients, s \in Servers : BothEnds(c, s)
BY DEF Running, TimedInv, TimedTypeOK, Everyone, Kept, IInv, TypeOK

\* createHost touches no connection.
LEMMA BindKeepsPairs ==
    ASSUME Running, NEW n \in Node, Bind(n)
    PROVE  Kept'
<1>1. UNCHANGED <<vars, timeVars>>
  BY DEF Bind
<1>2. countToDrop' = countToDrop
  BY DEF Bind, bindSucceeds, bindFails
<1>3. Partners' /\ LossesCounted'
  BY <1>1, <1>2, RunningFacts DEF Partners, LossesCounted, Has, vars, timeVars
<1>4. ASSUME NEW c \in Clients, NEW s \in Servers
      PROVE  BothEnds(c, s)'
  BY <1>1, RunningFacts, PairStays DEF vars, timeVars
<1> QED
  BY <1>3, <1>4 DEF Kept

\* A client begins to ask where nothing is under way.
LEMMA ConnectKeepsPairs ==
    ASSUME Running, TimedTypeOK', NEW n \in Node, NEW a \in Node, Connect(n, a)
    PROVE  Kept'
<1>1. /\ n \in Clients /\ a # n /\ ~ Has(n, a)
      /\ conns' = [conns EXCEPT ![n][a] =
            [NoConnection EXCEPT !.id = NextId(n),
                                 !.state = "REQUESTING_CONNECTION",
                                 !.attemptsLeft = Attempts]]
      /\ UNCHANGED <<wire, losses, countToDrop, frame>>
      /\ \E t : since' = [since EXCEPT ![n][a] = t]
  BY DEF Connect, connect, NothingSent, socketVars
<1>2. /\ \A m, b \in Node : m # n \/ b # a =>
            conns'[m][b] = conns[m][b] /\ since'[m][b] = since[m][b]
      /\ conns'[n][a] = [NoConnection EXCEPT !.id = NextId(n),
                                 !.state = "REQUESTING_CONNECTION",
                                 !.attemptsLeft = Attempts]
  BY <1>1, RunningFacts
<1>3. /\ conns'[n][a].state = "REQUESTING_CONNECTION"
      /\ conns'[n][a].attemptsLeft = Attempts
  BY <1>2 DEF NoConnection
<1>4. Partners'
  BY <1>1, <1>2, RunningFacts, NodesAssumption DEF Partners, Has
<1>5. LossesCounted'
  BY <1>1, RunningFacts DEF LossesCounted
<1>6. ASSUME NEW c \in Clients, NEW s \in Servers
      PROVE  BothEnds(c, s)'
  <2>1. c \in Node \ {s} /\ s \in Node \ {c} /\ s # n
    BY <1>1, PairNumbers
  <2>2. CASE c # n \/ s # a
    BY <1>1, <1>2, <2>1, <2>2, RunningFacts, PairStays
  <2>3. CASE c = n /\ s = a
    <3>1. conns[c][s].state = "None" /\ conns[s][c].state = "None"
      BY <1>1, <2>3, RunningFacts DEF BothEnds, EndsAgree, Has
    <3>2. conns'[c][s].state = "REQUESTING_CONNECTION" /\ conns'[s][c].state = "None"
      BY <1>2, <1>3, <2>1, <2>3, <3>1
    <3>3. EndsAgree(c, s)'
      BY <3>2 DEF EndsAgree
    <3>4. OnlyExpected(c, s)'
      BY <1>1, <3>1, RunningFacts DEF BothEnds, OnlyExpected
    <3>5. Asked(c, s)' = 0
      BY <1>3, <2>3, CountsAssumption DEF Asked
    <3>6. losses'[c][s] \in Nat
      BY <2>1 DEF TimedTypeOK
    <3>7. Asking(c, s)'
      BY <3>2, <3>5, <3>6 DEF Asking, RequestUnderWay
    <3> QED
      BY <3>2, <3>3, <3>4, <3>7 DEF BothEnds
  <2> QED
    BY <2>2, <2>3
<1> QED
  BY <1>4, <1>5, <1>6 DEF Kept

\* A user packet goes to a server that has accepted the client, and counts like
\* a heartbeat.
LEMMA UpdateSendKeepsPairs ==
    ASSUME Running, TimedTypeOK', NEW n \in Node, NEW a \in Node, UpdateSend(n, a)
    PROVE  Kept'
<1> DEFINE p == Packet("USER_PACKET", n, a)
<1>1. /\ n \in Senders /\ Has(n, a) /\ conns[n][a].id \in peers[n]
      /\ Send(n, {p}, wire)
      /\ since' = [since EXCEPT ![n][a].sent = 0]
      /\ UNCHANGED <<conns, frame>>
  BY DEF UpdateSend, updateSend
<1>2. n \in Clients /\ n # a
  BY <1>1, RunningFacts, HandshakeAssumption DEF Node, Partners
<1>3. a \in Servers /\ conns[n][a].wasConnected
  <2>1. PICK b \in Remotes(n) : conns[n][b].wasConnected /\ conns[n][b].id = conns[n][a].id
    BY <1>1, RunningFacts DEF IInv, PeersMatchConnections
  <2>2. a \in Remotes(n)
    BY <1>1 DEF Remotes
  <2>3. b = a
    BY <2>1, <2>2, RunningFacts DEF IInv, IdsDiffer
  <2> QED
    BY <1>2, <2>1, <2>2, <2>3, RunningFacts DEF IInv, ConnectedWasAccepted
<1>4. conns[n][a].state = "CONNECTED" /\ conns[a][n].state = "CONNECTED"
  <2>1. conns[n][a].state # "REQUESTING_CONNECTION"
    BY <1>3, RunningFacts DEF IInv, StateSettles
  <2> QED
    BY <1>1, <1>2, <1>3, <2>1, RunningFacts DEF BothEnds, EndsAgree, Has
<1>5. p.from = n /\ p.to = a /\ p.type = "USER_PACKET"
  BY DEF Packet
<1> HIDE DEF p
<1>6. /\ LossesCounted'
      /\ \A w \in wire : w \in wire'
      /\ \A m \in Node : m # n => losses'[m] = losses[m]
      /\ \A b \in Node : b # a => losses'[n][b] = losses[n][b]
      /\ \/ [packet |-> p, age |-> 0] \in wire'
         \/ losses'[n][a] = losses[n][a] + 1
  <2>1. IsFiniteSet({p}) /\ \A q \in {p} : q = p /\ q.to \in Node \ {n}
    BY <1>2, <1>5, FS_Singleton
  <2>2. Everyone /\ TimedTypeOK /\ LossesCounted
    BY RunningFacts DEF Everyone
  <2>3. \A q, r \in {p} : q.to = r.to => q = r
    OBVIOUS
  <2> HIDE DEF p
  <2> QED
    BY <1>1, <1>5, <2>1, <2>2, <2>3, SendOutcome
<1>7. \A w \in wire' : w \in wire \/ w.packet = p
  <2>1. IsFiniteSet({p})
    BY FS_Singleton
  <2> QED
    BY <1>1, <2>1, RunningFacts, SendFacts
<1>8. /\ \A m, b \in Node : m # n \/ b # a => since'[m][b] = since[m][b]
      /\ since'[n][a].sent = 0 /\ since'[n][a].heard = since[n][a].heard
  <2>1. since[n][a] \in Times /\ since' = [since EXCEPT ![n][a] = [since[n][a] EXCEPT !.sent = 0]]
    BY <1>1, RunningFacts
  <2>2. /\ [since[n][a] EXCEPT !.sent = 0].heard = since[n][a].heard
        /\ [since[n][a] EXCEPT !.sent = 0].sent = 0
    BY <2>1 DEF Times
  <2> QED
    BY <2>1, <2>2, RunningFacts
<1>9. Partners'
  BY <1>1, <1>5, <1>7, RunningFacts DEF Partners, Has
<1>10. ASSUME NEW c \in Clients, NEW s \in Servers
       PROVE  BothEnds(c, s)'
  <2>1. c \in Node \ {s} /\ s \in Node \ {c} /\ s # n
    BY <1>2, PairNumbers
  <2>2. CASE c # n \/ s # a
    <3>1. losses'[c][s] = losses[c][s] /\ losses'[s][c] = losses[s][c]
      BY <1>6, <2>1, <2>2
    <3>2. \A w \in wire \cup wire' : {w.packet.from, w.packet.to} = {c, s} =>
                w \in wire /\ w \in wire'
      <4>1. {n, a} # {c, s}
        BY <1>2, <2>1, <2>2
      <4>2. \A w \in wire' : w \in wire \/ {w.packet.from, w.packet.to} = {n, a}
        BY <1>5, <1>7
      <4> QED
        BY <1>6, <4>1, <4>2
    <3>3. since'[c][s] = since[c][s] /\ since'[s][c] = since[s][c]
      BY <1>8, <2>1, <2>2
    <3> QED
      BY <1>1, <3>1, <3>2, <3>3, RunningFacts, PairStays
  <2>3. CASE c = n /\ s = a
    <3>1. EndsAgree(c, s)'
      BY <1>1, RunningFacts DEF BothEnds, EndsAgree
    <3>2. OnlyExpected(c, s)'
      BY <1>1, <1>4, <1>5, <1>7, <2>1, <2>3, RunningFacts DEF BothEnds, OnlyExpected
    <3>3. /\ Waited(s, c, {"HEARTBEAT"}, since[c][s].heard, 0)
          /\ Waited(c, s, {"HEARTBEAT", "USER_PACKET"}, since[s][c].heard, Answered(s))
      BY <1>4, <2>3, RunningFacts DEF BothEnds
    <3>4. StaysUnderWay(c, s) /\ StaysUnderWay(s, c)
      BY <1>1, <1>6 DEF StaysUnderWay, Age
    <3>5. /\ since'[c][s].heard = since[c][s].heard /\ since'[s][c] = since[s][c]
          /\ since[c][s].heard \in Nat /\ since[s][c].heard \in Nat /\ Answered(s) \in Nat
      BY <1>8, <2>1, <2>3, RunningFacts, CountedOfPair, PairNumbers, TimesFacts
    <3>6. Waited(s, c, {"HEARTBEAT"}, since[c][s].heard, 0)'
      <4>1. losses'[s][c] = losses[s][c]
        BY <1>6, <2>1
      <4>2. SendGap(s, c)' = SendGap(s, c)
        <5>1. since'[s][c] = since[s][c] /\ frame' = frame
          BY <1>1, <3>5
        <5> QED
          BY <5>1 DEF SendGap
      <4> QED
        BY <2>1, <3>3, <3>4, <3>5, <4>1, <4>2, RunningFacts, WaitedOn
    <3>7. Waited(c, s, {"HEARTBEAT", "USER_PACKET"}, since[s][c].heard, Answered(s))'
      BY <1>5, <1>6, <1>8, <2>1, <2>3, <3>3, <3>4, <3>5, RunningFacts, WaitedOut
    <3>8. conns'[c][s].state = "CONNECTED"
      BY <1>1, <1>4, <2>3
    <3> QED
      BY <3>1, <3>2, <3>6, <3>7, <3>8 DEF BothEnds
  <2> QED
    BY <2>2, <2>3
<1> QED
  BY <1>6, <1>9, <1>10 DEF Kept

\* What reading a packet does to the connection it belongs to.
LEMMA ReadEffect ==
    ASSUME Running, NEW w \in wire, Read(w.packet.to, w)
    PROVE  LET n == w.packet.to
               a == w.packet.from
               type == w.packet.type
           IN  \/ /\ type = "CONNECT_REQUEST" /\ n \in Servers /\ ~ Has(n, a)
                  /\ conns'[n][a].state = "DECIDING_CONNECTION" /\ since'[n][a].heard = 0
               \/ /\ type \in {"CONNECT_ACCEPT", "HEARTBEAT"}
                  /\ conns[n][a].state = "REQUESTING_CONNECTION"
                  /\ conns'[n][a].state = "CONNECTED" /\ since'[n][a].heard = 0
               \/ /\ type \in {"HEARTBEAT", "USER_PACKET"} /\ conns[n][a].state = "CONNECTED"
                  /\ conns'[n][a] = conns[n][a]
                  /\ since'[n][a].heard = 0 /\ since'[n][a].sent = since[n][a].sent
               \/ type = "DISCONNECT"
               \/ /\ Ignored(n, a, type)
                  /\ conns' = conns /\ since' = since
<1> DEFINE n == w.packet.to
           a == w.packet.from
           type == w.packet.type
<1>1. n \in Node /\ a \in Node
  BY RunningFacts, WireFacts
<1>2. conns[n][a] \in Connection /\ since[n][a] \in Times
  BY <1>1, RunningFacts
<1>3. \/ /\ \/ onConnectRequest(n, a) /\ type = "CONNECT_REQUEST"
            \/ onConnectAccept(n, a)  /\ type = "CONNECT_ACCEPT"
            \/ onHeartbeat(n, a)      /\ type = "HEARTBEAT"
            \/ onUserPacket(n, a)     /\ type = "USER_PACKET"
            \/ type = "DISCONNECT"
            \/ /\ type = "HEARTBEAT" /\ conns[n][a].state = "CONNECTED"
               /\ conns' = conns
         /\ Heard(n, a, type)
      \/ Ignored(n, a, type) /\ conns' = conns /\ since' = since
  BY DEF Read
<1> HIDE DEF n, a, type
<1>4. ASSUME Heard(n, a, type), type # "DISCONNECT"
      PROVE  since'[n][a].heard = 0 /\ since'[n][a].sent = since[n][a].sent
  <2>1. since' = [since EXCEPT ![n][a] = [since[n][a] EXCEPT !.heard = 0]]
    BY <1>1, <1>4, RunningFacts DEF Heard
  <2>2. /\ [since[n][a] EXCEPT !.heard = 0].heard = 0
        /\ [since[n][a] EXCEPT !.heard = 0].sent = since[n][a].sent
    BY <1>2 DEF Times
  <2> QED
    BY <1>1, <2>1, <2>2, RunningFacts
<1>5. ASSUME onConnectRequest(n, a)
      PROVE  n \in Servers /\ ~ Has(n, a) /\ conns'[n][a].state = "DECIDING_CONNECTION"
  <2>1. conns' = [conns EXCEPT ![n][a] =
            [NoConnection EXCEPT !.id = NextId(n), !.state = "DECIDING_CONNECTION"]]
    BY <1>5 DEF onConnectRequest
  <2>2. conns'[n][a] =
            [NoConnection EXCEPT !.id = NextId(n), !.state = "DECIDING_CONNECTION"]
    BY <1>1, <2>1, RunningFacts
  <2>3. conns'[n][a].state = "DECIDING_CONNECTION"
    BY <2>2 DEF NoConnection
  <2> QED
    BY <1>5, <2>3 DEF onConnectRequest
<1>6. ASSUME BecomesAccepted(n, a)
      PROVE  /\ conns[n][a].state = "REQUESTING_CONNECTION"
             /\ conns'[n][a].state = "CONNECTED"
  <2>1. conns' = [conns EXCEPT ![n][a] =
            [conns[n][a] EXCEPT !.state = "CONNECTED", !.accepted = TRUE, !.wasConnected = TRUE]]
    BY <1>1, <1>6, RunningFacts DEF BecomesAccepted
  <2>2. [conns[n][a] EXCEPT !.state = "CONNECTED", !.accepted = TRUE,
                !.wasConnected = TRUE].state = "CONNECTED"
    BY <1>2 DEF Connection
  <2> QED
    BY <1>1, <1>6, <2>1, <2>2, RunningFacts DEF BecomesAccepted
<1>7. onUserPacket(n, a) => conns[n][a].state = "CONNECTED" /\ conns' = conns
  BY DEF onUserPacket
<1>8. \/ /\ type = "CONNECT_REQUEST" /\ n \in Servers /\ ~ Has(n, a)
         /\ conns'[n][a].state = "DECIDING_CONNECTION" /\ since'[n][a].heard = 0
      \/ /\ type \in {"CONNECT_ACCEPT", "HEARTBEAT"}
         /\ conns[n][a].state = "REQUESTING_CONNECTION"
         /\ conns'[n][a].state = "CONNECTED" /\ since'[n][a].heard = 0
      \/ /\ type \in {"HEARTBEAT", "USER_PACKET"} /\ conns[n][a].state = "CONNECTED"
         /\ conns'[n][a] = conns[n][a]
         /\ since'[n][a].heard = 0 /\ since'[n][a].sent = since[n][a].sent
      \/ type = "DISCONNECT"
      \/ /\ Ignored(n, a, type)
         /\ conns' = conns /\ since' = since
  BY <1>3, <1>4, <1>5, <1>6, <1>7 DEF onConnectAccept, onHeartbeat
<1> QED
  BY <1>8 DEF n, a, type

\* A packet of a client, at its server.
LEMMA ServerReadsPair ==
    ASSUME Running, TimedTypeOK', NEW w \in wire, Read(w.packet.to, w),
           NEW c \in Clients, NEW s \in Servers,
           w.packet.from = c, w.packet.to = s,
           UNCHANGED <<frame, losses>>, wire' = wire \ {w},
           conns'[c][s] = conns[c][s], since'[c][s] = since[c][s]
    PROVE  BothEnds(c, s)'
<1>1. c \in Node \ {s} /\ s \in Node \ {c}
  BY PairNumbers
<1>2. EndsAgree(c, s) /\ OnlyExpected(c, s)
  BY RunningFacts DEF BothEnds
<1>3. \/ w.packet.type = "CONNECT_REQUEST" /\ conns[c][s].state # "None"
      \/ /\ w.packet.type \in {"HEARTBEAT", "USER_PACKET"}
         /\ conns[c][s].state = "CONNECTED" /\ conns[s][c].state = "CONNECTED"
  BY <1>2 DEF OnlyExpected, EndsAgree
<1>4. StaysUnderWay(s, c)
  BY <1>1 DEF StaysUnderWay, Age
<1>5. \A types : w.packet.type \notin types => \A v \in UnderWay(c, s, types) :
            v \in wire' /\ Age(v)' = Age(v) /\ Age(v) \in Nat
  BY RunningFacts, AgeBound DEF UnderWay, Age
<1>6. /\ since[c][s].heard \in Nat /\ since[s][c].heard \in Nat /\ Answered(s) \in Nat
      /\ losses[c][s] * Beat \in Nat /\ SendGap(c, s) \in Nat
      /\ (LossesInARow(c) + 1) * Beat \in Nat
  BY <1>1, RunningFacts, CountedOfPair, PairNumbers, TimesFacts
<1>7. SendGap(c, s)' = SendGap(c, s)
  BY DEF SendGap
<1>8. CASE /\ w.packet.type = "CONNECT_REQUEST" /\ conns[s][c].state = "None"
           /\ conns'[s][c].state = "DECIDING_CONNECTION" /\ since'[s][c].heard = 0
  <2>1. conns[c][s].state = "REQUESTING_CONNECTION"
    BY <1>2, <1>3, <1>8 DEF EndsAgree
  <2>2. EndsAgree(c, s)'
    BY <1>8, <2>1 DEF EndsAgree
  <2>3. OnlyExpected(c, s)'
    BY <1>2, <1>8 DEF OnlyExpected
  <2>4. Asking(c, s)'
    <3>1. Asking(c, s) /\ RequestUnderWay(c, s)
      BY <1>8, <2>1, RunningFacts DEF BothEnds, Asking
    <3>2. /\ AskingTime(c, s) \in Int
          /\ AskingTime(c, s) <= Asked(c, s) * RetryTime
          /\ Asked(c, s) * RetryTime \in Nat
          /\ Asked(c, s) <= losses[c][s] =>
                Asked(c, s) * RetryTime <= LossesInARow(c) * RetryTime
          /\ LossesInARow(c) * RetryTime \in Nat
      BY RunningFacts, AskedFacts, PairNumbers
    <3>3. Asked(c, s)' = Asked(c, s) /\ AskingTime(c, s)' = AskingTime(c, s)
      BY DEF Asked, AskingTime
    <3>4. \A v \in wire : Age(v) \in Nat /\ Age(v) <= Latency + FrameTime
      BY RunningFacts, AgeBound
    <3>5. AskingTime(c, s) <= LossesInARow(c) * RetryTime + Latency + FrameTime
      BY <3>1, <3>2, <3>4, TimesFacts DEF RequestUnderWay, UnderWay
    <3>6. RequestRead(c, s)'
      BY <1>8, <3>2, <3>3, <3>5, TimesFacts DEF RequestRead
    <3> QED
      BY <1>8, <3>1, <3>3, <3>6 DEF Asking
  <2> QED
    BY <1>8, <2>1, <2>2, <2>3, <2>4 DEF BothEnds
<1>9. CASE conns'[s][c] = conns[s][c] /\ since'[s][c] = since[s][c]
            /\ w.packet.type = "CONNECT_REQUEST" /\ conns[s][c].state # "None"
  <2>1. EndsAgree(c, s)'
    BY <1>2, <1>9 DEF EndsAgree
  <2>2. OnlyExpected(c, s)'
    BY <1>2, <1>9 DEF OnlyExpected
  <2>3. SendGap(s, c)' = SendGap(s, c)
    BY <1>9 DEF SendGap
  <2>4. ASSUME conns[c][s].state = "REQUESTING_CONNECTION"
        PROVE  /\ Asking(c, s)'
               /\ conns[s][c].state = "CONNECTED" =>
                    Waited(s, c, {"CONNECT_ACCEPT", "HEARTBEAT"}, since[s][c].heard, 0)'
    <3>1. /\ Asking(c, s)
          /\ conns[s][c].state = "CONNECTED" =>
                Waited(s, c, {"CONNECT_ACCEPT", "HEARTBEAT"}, since[s][c].heard, 0)
      BY <2>4, RunningFacts DEF BothEnds
    <3>2. Asking(c, s)'
      BY <1>9, <3>1 DEF Asking, RequestRead, Asked, AskingTime
    <3> QED
      BY <1>1, <1>4, <1>6, <1>9, <2>3, <3>1, <3>2, RunningFacts, WaitedOn
  <2>5. ASSUME conns[c][s].state = "CONNECTED"
        PROVE  /\ Waited(s, c, {"HEARTBEAT"}, since[c][s].heard, 0)'
               /\ Waited(c, s, {"HEARTBEAT", "USER_PACKET"}, since[s][c].heard, Answered(s))'
    <3>1. /\ Waited(s, c, {"HEARTBEAT"}, since[c][s].heard, 0)
          /\ Waited(c, s, {"HEARTBEAT", "USER_PACKET"}, since[s][c].heard, Answered(s))
      BY <2>5, RunningFacts DEF BothEnds
    <3>2. Waited(s, c, {"HEARTBEAT"}, since[c][s].heard, 0)'
      BY <1>1, <1>4, <1>6, <2>3, <3>1, RunningFacts, WaitedOn
    <3>3. \A v \in UnderWay(c, s, {"HEARTBEAT", "USER_PACKET"}) :
                v \in wire' /\ Age(v)' = Age(v) /\ Age(v) \in Nat
      BY <1>5, <1>9
    <3>4. Waited(c, s, {"HEARTBEAT", "USER_PACKET"}, since[s][c].heard, Answered(s))'
      BY <1>1, <1>6, <1>7, <1>9, <3>1, <3>3, WaitedStays
    <3> QED
      BY <3>2, <3>4
  <2> QED
    BY <1>9, <2>1, <2>2, <2>4, <2>5 DEF BothEnds
<1>10. CASE /\ conns'[s][c] = conns[s][c] /\ conns[c][s].state = "CONNECTED"
            /\ since'[s][c].heard = 0 /\ since'[s][c].sent = since[s][c].sent
  <2>1. EndsAgree(c, s)'
    BY <1>2, <1>10 DEF EndsAgree
  <2>2. OnlyExpected(c, s)'
    BY <1>2, <1>10 DEF OnlyExpected
  <2>3. SendGap(s, c)' = SendGap(s, c)
    BY <1>10 DEF SendGap
  <2>4. Waited(s, c, {"HEARTBEAT"}, since[c][s].heard, 0)'
    <3>1. Waited(s, c, {"HEARTBEAT"}, since[c][s].heard, 0)
      BY <1>10, RunningFacts DEF BothEnds
    <3> QED
      BY <1>1, <1>4, <1>6, <2>3, <3>1, RunningFacts, WaitedOn
  <2>5. Waited(c, s, {"HEARTBEAT", "USER_PACKET"}, since[s][c].heard, Answered(s))'
    BY <1>1, <1>6, <1>10, WaitedFresh
  <2> QED
    BY <1>10, <2>1, <2>2, <2>4, <2>5 DEF BothEnds
<1> QED
  <2>1. \/ /\ w.packet.type = "CONNECT_REQUEST" /\ conns[s][c].state = "None"
           /\ conns'[s][c].state = "DECIDING_CONNECTION" /\ since'[s][c].heard = 0
        \/ /\ w.packet.type \in {"HEARTBEAT", "USER_PACKET"} /\ conns[s][c].state = "CONNECTED"
           /\ conns'[s][c] = conns[s][c]
           /\ since'[s][c].heard = 0 /\ since'[s][c].sent = since[s][c].sent
        \/ conns[s][c].state = "REQUESTING_CONNECTION"
        \/ Ignored(s, c, w.packet.type) /\ conns' = conns /\ since' = since
    BY <1>3, ReadEffect DEF Has
  <2>2. conns[s][c].state # "REQUESTING_CONNECTION"
    BY <1>2 DEF EndsAgree
  <2>3. Ignored(s, c, w.packet.type) =>
            w.packet.type = "CONNECT_REQUEST" /\ conns[s][c].state # "None"
    BY <1>3 DEF Ignored, Has
  <2> QED
    BY <1>3, <1>8, <1>9, <1>10, <2>1, <2>2, <2>3

\* A packet of a server, at its client.
LEMMA ClientReadsPair ==
    ASSUME Running, TimedTypeOK', NEW w \in wire, Read(w.packet.to, w),
           NEW c \in Clients, NEW s \in Servers,
           w.packet.from = s, w.packet.to = c,
           UNCHANGED <<frame, losses>>, wire' = wire \ {w},
           conns'[s][c] = conns[s][c], since'[s][c] = since[s][c]
    PROVE  BothEnds(c, s)'
<1>1. c \in Node \ {s} /\ s \in Node \ {c} /\ c \notin Servers
  BY PairNumbers, NodesAssumption
<1>2. EndsAgree(c, s) /\ OnlyExpected(c, s)
  BY RunningFacts DEF BothEnds
<1>3. /\ w.packet.type \in {"CONNECT_ACCEPT", "HEARTBEAT"}
      /\ conns[s][c].state = "CONNECTED"
      /\ conns[c][s].state \in {"REQUESTING_CONNECTION", "CONNECTED"}
  BY <1>2 DEF OnlyExpected, EndsAgree
<1>4. StaysUnderWay(c, s)
  BY <1>1 DEF StaysUnderWay, Age
<1>5. \A types : w.packet.type \notin types => \A v \in UnderWay(s, c, types) :
            v \in wire' /\ Age(v)' = Age(v) /\ Age(v) \in Nat
  BY RunningFacts, AgeBound DEF UnderWay, Age
<1>6. /\ since[c][s].heard \in Nat /\ since[s][c].heard \in Nat /\ Answered(s) \in Nat
      /\ losses[s][c] * Beat \in Nat /\ SendGap(s, c) \in Nat
      /\ (LossesInARow(s) + 1) * Beat \in Nat
  BY <1>1, RunningFacts, CountedOfPair, PairNumbers, TimesFacts
<1>7. SendGap(s, c)' = SendGap(s, c)
  BY DEF SendGap
<1>8. conns'[c][s].state = "CONNECTED" => OnlyExpected(c, s)' /\ EndsAgree(c, s)'
  BY <1>2, <1>3 DEF OnlyExpected, EndsAgree
<1>9. CASE /\ conns[c][s].state = "REQUESTING_CONNECTION"
           /\ conns'[c][s].state = "CONNECTED" /\ since'[c][s].heard = 0
  <2>1. since[s][c].heard <= Answered(s)
    BY <1>3, <1>9, SilenceOfPair, RunningFacts DEF Everyone
  <2>2. Waited(s, c, {"HEARTBEAT"}, since[c][s].heard, 0)'
    BY <1>1, <1>9, WaitedFresh
  <2>3. Waited(c, s, {"HEARTBEAT", "USER_PACKET"}, since[s][c].heard, Answered(s))'
    BY <1>1, <1>6, <2>1, WaitedFresh
  <2> QED
    BY <1>8, <1>9, <2>2, <2>3 DEF BothEnds
<1>10. ASSUME conns[c][s].state = "CONNECTED", conns'[c][s] = conns[c][s],
              since'[c][s].sent = since[c][s].sent
       PROVE  /\ conns'[c][s].state = "CONNECTED"
              /\ Waited(c, s, {"HEARTBEAT", "USER_PACKET"}, since[s][c].heard, Answered(s))'
  <2>1. Waited(c, s, {"HEARTBEAT", "USER_PACKET"}, since[s][c].heard, Answered(s))
    BY <1>10, RunningFacts DEF BothEnds
  <2>2. SendGap(c, s)' = SendGap(c, s)
    BY <1>10 DEF SendGap
  <2>3. losses'[c][s] = losses[c][s]
    OBVIOUS
  <2>4. Waited(c, s, {"HEARTBEAT", "USER_PACKET"}, since[s][c].heard, Answered(s))'
    BY <1>1, <1>4, <1>6, <2>1, <2>2, <2>3, RunningFacts, WaitedOn
  <2> QED
    BY <1>10, <2>4
<1>11. CASE /\ conns[c][s].state = "CONNECTED" /\ conns'[c][s] = conns[c][s]
            /\ since'[c][s].heard = 0 /\ since'[c][s].sent = since[c][s].sent
  <2>1. Waited(s, c, {"HEARTBEAT"}, since[c][s].heard, 0)'
    BY <1>1, <1>11, WaitedFresh
  <2> QED
    BY <1>8, <1>10, <1>11, <2>1 DEF BothEnds
<1>12. CASE /\ conns[c][s].state = "CONNECTED" /\ w.packet.type = "CONNECT_ACCEPT"
            /\ conns' = conns /\ since' = since
  <2>1. Waited(s, c, {"HEARTBEAT"}, since[c][s].heard, 0)
    BY <1>12, RunningFacts DEF BothEnds
  <2>2. \A v \in UnderWay(s, c, {"HEARTBEAT"}) :
                v \in wire' /\ Age(v)' = Age(v) /\ Age(v) \in Nat
    BY <1>5, <1>12
  <2>3. Waited(s, c, {"HEARTBEAT"}, since[c][s].heard, 0)'
    BY <1>1, <1>6, <1>7, <1>12, <2>1, <2>2, WaitedStays
  <2> QED
    BY <1>8, <1>10, <1>12, <2>3 DEF BothEnds
<1> QED
  <2>1. \/ /\ conns[c][s].state = "REQUESTING_CONNECTION"
           /\ conns'[c][s].state = "CONNECTED" /\ since'[c][s].heard = 0
        \/ /\ conns[c][s].state = "CONNECTED" /\ conns'[c][s] = conns[c][s]
           /\ since'[c][s].heard = 0 /\ since'[c][s].sent = since[c][s].sent
        \/ Ignored(c, s, w.packet.type) /\ conns' = conns /\ since' = since
    BY <1>1, <1>3, ReadEffect
  <2>2. Ignored(c, s, w.packet.type) =>
            conns[c][s].state = "CONNECTED" /\ w.packet.type = "CONNECT_ACCEPT"
    BY <1>3 DEF Ignored
  <2> QED
    BY <1>9, <1>11, <1>12, <2>1, <2>2

\* Reading a packet.
LEMMA ReadKeepsPairs ==
    ASSUME Running, TimedTypeOK', NEW w \in wire, Read(w.packet.to, w)
    PROVE  Kept'
<1> DEFINE n == w.packet.to
           a == w.packet.from
<1>1. /\ n \in Node /\ a \in Node
      /\ \A m, b \in Node : m # n \/ b # a => conns'[m][b] = conns[m][b]
      /\ UNCHANGED <<alive, frame, socketVars, losses>>
      /\ wire' = wire \ {w}
      /\ \A m, b \in Node : m # n \/ b # a => since'[m][b] = since[m][b]
  BY RunningFacts, ReadFacts DEF TimedInv, Counted
<1>2. LossesCounted'
  BY <1>1, RunningFacts DEF LossesCounted, socketVars
<1>3. Partners'
  <2>1. ASSUME NEW m \in Node, NEW b \in Node, Has(m, b)'
        PROVE  m # b /\ (m \in Servers => b \in Clients)
    <3>1. CASE Has(m, b)
      BY <3>1, RunningFacts DEF Partners
    <3>2. CASE ~ Has(m, b)
      <4>1. m = n /\ b = a
        BY <1>1, <2>1, <3>2 DEF Has
      <4>2. CASE w.packet.type = "CONNECT_REQUEST" /\ n \in Servers
        <5>1. a \in Clients
          BY <4>2, RunningFacts DEF Partners
        <5> QED
          BY <4>1, <4>2, <5>1, NodesAssumption
      <4>3. CASE w.packet.type = "DISCONNECT"
        <5>1. a \in Clients /\ n \in Servers => FALSE
          BY <4>3, RunningFacts DEF BothEnds, OnlyExpected
        <5>2. a \in Servers /\ n \in Clients => FALSE
          BY <4>3, RunningFacts DEF BothEnds, OnlyExpected
        <5>3. ~ onDisconnect(n, a)
          BY <2>1, <3>2, <4>1 DEF onDisconnect
        <5>4. conns' = conns
          BY <4>3, <5>3 DEF Read
        <5> QED
          BY <2>1, <3>2, <5>4 DEF Has
      <4>4. CASE conns' = conns
        BY <2>1, <3>2, <4>4 DEF Has
      <4>5. conns[n][a].state = "None"
        BY <3>2, <4>1 DEF Has
      <4> HIDE DEF n, a
      <4>6. \/ w.packet.type = "CONNECT_REQUEST" /\ n \in Servers
            \/ w.packet.type = "DISCONNECT"
            \/ conns' = conns
        BY <4>5, ReadEffect DEF n, a
      <4> QED
        BY <4>2, <4>3, <4>4, <4>6
    <3> QED
      BY <3>1, <3>2
  <2> QED
    BY <1>1, <2>1, RunningFacts DEF Partners
<1>4. ASSUME NEW c \in Clients, NEW s \in Servers
      PROVE  BothEnds(c, s)'
  <2>1. c \in Node \ {s} /\ s \in Node \ {c}
    BY PairNumbers
  <2>2. CASE a = c /\ n = s
    <3>1. conns'[c][s] = conns[c][s] /\ since'[c][s] = since[c][s]
      BY <1>1, <2>1, <2>2
    <3> QED
      BY <1>1, <2>2, <3>1, ServerReadsPair
  <2>3. CASE a = s /\ n = c
    <3>1. conns'[s][c] = conns[s][c] /\ since'[s][c] = since[s][c]
      BY <1>1, <2>1, <2>3
    <3> QED
      BY <1>1, <2>3, <3>1, ClientReadsPair
  <2>4. CASE ~ (a = c /\ n = s) /\ ~ (a = s /\ n = c)
    <3>1. /\ conns'[c][s] = conns[c][s] /\ conns'[s][c] = conns[s][c]
          /\ since'[c][s] = since[c][s] /\ since'[s][c] = since[s][c]
      BY <1>1, <2>1, <2>4
    <3>2. {a, n} # {c, s}
      BY <2>1, <2>4
    <3>3. \A v \in wire \cup wire' : {v.packet.from, v.packet.to} = {c, s} =>
                v \in wire /\ v \in wire'
      BY <1>1, <3>2
    <3> QED
      BY <1>1, <3>1, <3>3, RunningFacts, PairStays
  <2> QED
    BY <2>2, <2>3, <2>4
<1> QED
  BY <1>2, <1>3, <1>4 DEF Kept

\* A tick makes silences, waits and packets older alike.
LEMMA TickEffect ==
    ASSUME Running, Tick
    PROVE  /\ UNCHANGED <<conns, losses, countToDrop>>
           /\ \A n, a \in Node : Has(n, a) =>
                /\ since'[n][a].request \in Nat
                /\ since'[n][a].request <= since[n][a].request + 1
                /\ since'[n][a].heard \in Nat
                /\ since'[n][a].heard <= since[n][a].heard + 1
                /\ conns[n][a].state = "CONNECTED" =>
                        since'[n][a].heard = since[n][a].heard + 1
                /\ SendGap(n, a)' \in Nat /\ SendGap(n, a)' >= SendGap(n, a) + 1
           /\ \A n, a \in Node : conns[n][a].state # "DECIDING_CONNECTION"
           /\ \A v \in wire' : \E w \in wire : v.packet = w.packet
           /\ \A w \in wire : \E v \in wire' :
                /\ v.packet = w.packet
                /\ Age(v)' \in Nat /\ Age(w) \in Nat /\ Age(v)' >= Age(w) + 1
<1>1. /\ \A n \in alive : phase[n] = "app" /\ frame[n] < FrameTime
      /\ frame' = [n \in Node |-> IF n \in alive THEN UpTo(FrameTime, frame[n]) ELSE 0]
      /\ since' = [n \in Node |-> [a \in Node |->
            IF n \notin alive \/ ~ Has(n, a) THEN NoTimes
            ELSE [request |-> UpTo(RetryTime, since[n][a].request),
                  sent    |-> UpTo(HeartbeatTime + 1, since[n][a].sent),
                  heard   |-> UpTo(HeartbeatTimeout + FrameTime + 1, since[n][a].heard)]]]
      /\ wire' = {[w EXCEPT !.age = UpTo(Latency, @)] : w \in wire}
      /\ UNCHANGED <<conns, losses, countToDrop>>
  BY DEF Tick, vars, socketVars
<1>2. /\ alive = Node /\ since \in [Node -> [Node -> Times]]
      /\ frame \in [Node -> 0 .. FrameTime]
      /\ wire \subseteq [packet : net, age : 0 .. Latency]
  BY RunningFacts DEF TimedTypeOK
<1>3. \A n \in Node : /\ frame[n] \in Nat /\ frame'[n] = frame[n] + 1
                      /\ frame[n] < FrameTime
  <2> TAKE n \in Node
  <2>1. frame[n] \in Nat /\ frame[n] < FrameTime
    BY <1>1, <1>2, TimesFacts
  <2>2. frame'[n] = UpTo(FrameTime, frame[n])
    BY <1>1, <1>2
  <2> QED
    BY <2>1, <2>2 DEF UpTo
<1>4. ASSUME NEW n \in Node, NEW a \in Node, Has(n, a)
      PROVE  /\ since'[n][a].request \in Nat
             /\ since'[n][a].request <= since[n][a].request + 1
             /\ since'[n][a].heard \in Nat
             /\ since'[n][a].heard <= since[n][a].heard + 1
             /\ conns[n][a].state = "CONNECTED" =>
                    since'[n][a].heard = since[n][a].heard + 1
             /\ SendGap(n, a)' \in Nat /\ SendGap(n, a)' >= SendGap(n, a) + 1
  <2>1. /\ since[n][a].request \in 0 .. RetryTime
        /\ since[n][a].sent \in 0 .. HeartbeatTime + 1
        /\ since[n][a].heard \in 0 .. HeartbeatTimeout + FrameTime + 1
    BY <1>2 DEF Times
  <2>2. since'[n][a] =
            [request |-> UpTo(RetryTime, since[n][a].request),
             sent    |-> UpTo(HeartbeatTime + 1, since[n][a].sent),
             heard   |-> UpTo(HeartbeatTimeout + FrameTime + 1, since[n][a].heard)]
    BY <1>1, <1>2, <1>4
  <2>3. /\ since'[n][a].request = UpTo(RetryTime, since[n][a].request)
        /\ since'[n][a].sent = UpTo(HeartbeatTime + 1, since[n][a].sent)
        /\ since'[n][a].heard = UpTo(HeartbeatTimeout + FrameTime + 1, since[n][a].heard)
    BY <2>2
  <2>4. /\ since'[n][a].request \in Nat
        /\ since'[n][a].request <= since[n][a].request + 1
    BY <2>1, <2>3, TimesFacts DEF UpTo
  <2>5. /\ since'[n][a].heard \in Nat
        /\ since'[n][a].heard <= since[n][a].heard + 1
        /\ since[n][a].heard <= HeartbeatTimeout + FrameTime =>
                since'[n][a].heard = since[n][a].heard + 1
    BY <2>1, <2>3, TimesFacts DEF UpTo
  <2>6. conns[n][a].state = "CONNECTED" => since[n][a].heard <= HeartbeatTimeout + FrameTime
    <3> SUFFICES ASSUME conns[n][a].state = "CONNECTED"
                 PROVE  since[n][a].heard <= HeartbeatTimeout + FrameTime
      OBVIOUS
    <3>1. since[n][a].heard <= HeartbeatTimeout + frame[n]
      BY <1>2, RunningFacts DEF TimedInv, SilenceCounted
    <3>2. since[n][a].heard \in Nat
      BY <2>1, TimesFacts
    <3> QED
      BY <1>3, <3>1, <3>2, TimesFacts
  <2>7. /\ SendGap(n, a)' = IF since'[n][a].sent <= HeartbeatTime THEN since'[n][a].sent
                            ELSE HeartbeatTime + frame'[n]
        /\ SendGap(n, a) = IF since[n][a].sent <= HeartbeatTime THEN since[n][a].sent
                           ELSE HeartbeatTime + frame[n]
    BY DEF SendGap
  <2>8. since'[n][a].sent = IF since[n][a].sent < HeartbeatTime + 1
                            THEN since[n][a].sent + 1 ELSE HeartbeatTime + 1
    BY <2>3 DEF UpTo
  <2>9. SendGap(n, a)' \in Nat /\ SendGap(n, a)' >= SendGap(n, a) + 1
    BY <1>3, <2>1, <2>7, <2>8, TimesFacts
  <2> QED
    BY <2>4, <2>5, <2>6, <2>9
<1>5. \A n, a \in Node : conns[n][a].state # "DECIDING_CONNECTION"
  BY <1>1, <1>2, RunningFacts DEF TimedInv, DecidedInFrame
<1>6. \A w \in wire : [w EXCEPT !.age = UpTo(Latency, w.age)].packet = w.packet
  BY <1>2
<1>7. \A v \in wire' : \E w \in wire : v.packet = w.packet
  BY <1>1, <1>6
<1>8. ASSUME NEW w \in wire
      PROVE  \E v \in wire' :
                /\ v.packet = w.packet
                /\ Age(v)' \in Nat /\ Age(w) \in Nat /\ Age(v)' >= Age(w) + 1
  <2> DEFINE v == [w EXCEPT !.age = UpTo(Latency, w.age)]
  <2>1. v \in wire'
    BY <1>1
  <2>2. w.age \in 0 .. Latency /\ v.packet = w.packet /\ v.age = UpTo(Latency, w.age)
    BY <1>2
  <2>3. /\ frame[w.packet.to] \in Nat /\ frame'[w.packet.to] = frame[w.packet.to] + 1
    BY <1>3, RunningFacts, WireFacts
  <2> HIDE DEF v
  <2>4. /\ Age(v)' = IF v.age < Latency THEN v.age ELSE Latency + frame'[w.packet.to]
        /\ Age(w) = IF w.age < Latency THEN w.age ELSE Latency + frame[w.packet.to]
    BY <2>2 DEF Age
  <2>5. v.age = IF w.age < Latency THEN w.age + 1 ELSE Latency
    BY <2>2 DEF UpTo
  <2>6. Age(v)' \in Nat /\ Age(w) \in Nat /\ Age(v)' >= Age(w) + 1
    BY <2>2, <2>3, <2>4, <2>5, TimesFacts
  <2> QED
    BY <2>1, <2>2, <2>6
<1> QED
  BY <1>1, <1>4, <1>5, <1>7, <1>8

\* Time passes for both ends and for what is between them.
LEMMA TickKeepsPairs ==
    ASSUME Running, Tick
    PROVE  Kept'
<1>1. UNCHANGED <<conns, losses, countToDrop>>
  BY TickEffect
<1>2. LossesCounted'
  BY <1>1, RunningFacts DEF LossesCounted
<1>3. \A v \in wire' : \E w \in wire : v.packet = w.packet
  BY TickEffect
<1>4. Partners'
  BY <1>1, <1>3, RunningFacts DEF Partners, Has
<1>5. ASSUME NEW c \in Clients, NEW s \in Servers
      PROVE  BothEnds(c, s)'
  <2>1. c \in Node \ {s} /\ s \in Node \ {c}
    BY PairNumbers
  <2>2. EndsAgree(c, s)'
    BY <1>1, RunningFacts DEF BothEnds, EndsAgree
  <2>3. OnlyExpected(c, s)'
    BY <1>1, <1>3, RunningFacts DEF BothEnds, OnlyExpected
  <2>4. \A w \in wire : \E v \in wire' :
                /\ v.packet = w.packet
                /\ Age(v)' \in Nat /\ Age(w) \in Nat /\ Age(v)' >= Age(w) + 1
    BY TickEffect
  <2>5. ASSUME NEW n \in Node, NEW a \in Node \ {n}, NEW types, NEW before \in Nat,
               NEW t \in Nat, NEW u \in Nat, u <= t + 1,
               Has(n, a), Waited(n, a, types, t, before)
        PROVE  Waited(n, a, types, u, before)'
    <3>1. /\ losses[n][a] * Beat \in Nat /\ SendGap(n, a) \in Nat
          /\ (LossesInARow(n) + 1) * Beat \in Nat
      BY RunningFacts, CountedOfPair, BeatsGrow
    <3>2. SendGap(n, a)' \in Nat /\ SendGap(n, a)' >= SendGap(n, a) + 1
      BY <2>5, TickEffect
    <3>3. losses'[n][a] = losses[n][a]
      BY <1>1
    <3> QED
      BY <2>4, <2>5, <3>1, <3>2, <3>3, WaitedTicks
  <2>6. /\ since[c][s].heard \in Nat /\ since[s][c].heard \in Nat /\ Answered(s) \in Nat
    BY <2>1, RunningFacts, CountedOfPair, PairNumbers, TimesFacts
  <2>7. \A n, a \in Node : Has(n, a) =>
                since'[n][a].heard \in Nat /\ since'[n][a].heard <= since[n][a].heard + 1
    BY TickEffect
  <2>8. ASSUME conns[c][s].state = "REQUESTING_CONNECTION"
        PROVE  /\ Asking(c, s)'
               /\ conns[s][c].state = "CONNECTED" =>
                    Waited(s, c, {"CONNECT_ACCEPT", "HEARTBEAT"}, since[s][c].heard, 0)'
    <3>1. /\ Asking(c, s)
          /\ conns[s][c].state = "CONNECTED" =>
                Waited(s, c, {"CONNECT_ACCEPT", "HEARTBEAT"}, since[s][c].heard, 0)
      BY <2>8, RunningFacts DEF BothEnds
    <3>2. conns[s][c].state \in {"None", "CONNECTED"}
      <4>1. conns[s][c].state # "DECIDING_CONNECTION"
        BY <2>1, TickEffect
      <4> QED
        BY <2>8, <4>1, RunningFacts DEF BothEnds, EndsAgree
    <3>3. Has(c, s) /\ (conns[s][c].state # "None" => Has(s, c))
      BY <2>8 DEF Has
    <3>4. Asking(c, s)'
      <4>1. since'[c][s].request \in Nat /\ since'[c][s].request <= since[c][s].request + 1
        BY <2>1, <3>3, TickEffect
      <4>2. conns[s][c].state # "None" => since'[s][c].heard = since[s][c].heard + 1
        BY <2>1, <3>2, <3>3, TickEffect
      <4>3. losses'[c][s] = losses[c][s]
        BY <1>1
      <4> QED
        BY <1>1, <2>4, <3>1, <4>1, <4>2, <4>3, RunningFacts, AskingTicks
    <3>5. ASSUME conns[s][c].state = "CONNECTED"
          PROVE  Waited(s, c, {"CONNECT_ACCEPT", "HEARTBEAT"}, since[s][c].heard, 0)'
      <4>1. Has(s, c)
        BY <3>5 DEF Has
      <4>2. since'[s][c].heard \in Nat /\ since'[s][c].heard <= since[s][c].heard + 1
        BY <2>1, <2>7, <4>1
      <4> QED
        BY <2>1, <2>5, <2>6, <3>1, <3>5, <4>1, <4>2
    <3> QED
      BY <3>4, <3>5
  <2>9. ASSUME conns[c][s].state = "CONNECTED"
        PROVE  /\ Waited(s, c, {"HEARTBEAT"}, since[c][s].heard, 0)'
               /\ Waited(c, s, {"HEARTBEAT", "USER_PACKET"}, since[s][c].heard, Answered(s))'
    <3>1. Has(c, s) /\ Has(s, c)
      BY <2>9, RunningFacts DEF BothEnds, EndsAgree, Has
    <3>2. /\ Waited(s, c, {"HEARTBEAT"}, since[c][s].heard, 0)
          /\ Waited(c, s, {"HEARTBEAT", "USER_PACKET"}, since[s][c].heard, Answered(s))
      BY <2>9, RunningFacts DEF BothEnds
    <3>3. /\ since'[c][s].heard \in Nat /\ since'[c][s].heard <= since[c][s].heard + 1
          /\ since'[s][c].heard \in Nat /\ since'[s][c].heard <= since[s][c].heard + 1
      BY <2>1, <2>7, <3>1
    <3>4. Waited(s, c, {"HEARTBEAT"}, since[c][s].heard, 0)'
      BY <2>1, <2>5, <2>6, <3>1, <3>2, <3>3
    <3>5. Waited(c, s, {"HEARTBEAT", "USER_PACKET"}, since[s][c].heard, Answered(s))'
      BY <2>1, <2>5, <2>6, <3>1, <3>2, <3>3
    <3> QED
      BY <3>4, <3>5
  <2> QED
    BY <1>1, <2>2, <2>3, <2>8, <2>9 DEF BothEnds
<1> QED
  BY <1>2, <1>4, <1>5 DEF Kept

\* What a pass of n sends to a.
SentTo(n, a) == {p \in PassSends(n) : p.to = a}

\* What a pass does to one connection, and what it sends to the other end.
LEMMA PassEffect ==
    ASSUME Running, NEW n \in Node, NEW a \in Node, Pass(n)
    PROVE  LET c == conns[n][a]
           IN  /\ c.state = "None" =>
                    conns'[n][a].state = "None" /\ SentTo(n, a) = {}
               /\ c.state = "REQUESTING_CONNECTION" =>
                    \/ /\ conns'[n][a] = c /\ since'[n][a] = since[n][a]
                       /\ SentTo(n, a) = {}
                    \/ /\ c.requested => since[n][a].request >= RetryTime
                       /\ \/ c.attemptsLeft <= 1
                          \/ /\ conns'[n][a] =
                                    [c EXCEPT !.attemptsLeft = @ - 1, !.requested = TRUE]
                             /\ since'[n][a].request = 0
                             /\ SentTo(n, a) = {Packet("CONNECT_REQUEST", n, a)}
               /\ c.state = "DECIDING_CONNECTION" =>
                    /\ conns'[n][a].state = "CONNECTED"
                    /\ since'[n][a].heard = since[n][a].heard
                    /\ SentTo(n, a) = {Packet("CONNECT_ACCEPT", n, a)}
               /\ c.state = "CONNECTED" /\ since[n][a].heard <= HeartbeatTimeout =>
                    /\ conns'[n][a] = c
                    /\ \/ /\ since'[n][a] = since[n][a]
                          /\ since[n][a].sent <= HeartbeatTime
                          /\ SentTo(n, a) = {}
                       \/ /\ since'[n][a].heard = since[n][a].heard
                          /\ since'[n][a].sent = 0
                          /\ SentTo(n, a) = {Packet("HEARTBEAT", n, a)}
<1> DEFINE c == conns[n][a]
           t == Timers(n)[a]
           types == SentTypes(c, t)
           next == Updated(c, t)
<1>1. c \in Connection /\ since[n][a] \in Times
  BY RunningFacts
<1>2. conns'[n][a] = IF next.state = "DISCONNECTED" THEN NoConnection ELSE next
  <2> DEFINE after == [b \in Node |-> Updated(conns[n][b], Timers(n)[b])]
             gone  == {b \in Node : after[b].state = "DISCONNECTED"}
  <2>1. conns' = [conns EXCEPT ![n] =
                [b \in Node |-> IF b \in gone THEN NoConnection ELSE after[b]]]
    BY DEF Pass, UpdateConnections
  <2>2. conns'[n][a] = IF a \in gone THEN NoConnection ELSE after[a]
    BY <2>1, RunningFacts
  <2> QED
    BY <2>2
<1>3. SentTo(n, a) = {Packet(u, n, a) : u \in types}
  <2>1. \A p \in PassSends(n) : \E b \in Node :
            \E u \in SentTypes(conns[n][b], Timers(n)[b]) : p = Packet(u, n, b)
    BY DEF PassSends
  <2>2. \A u, b : Packet(u, n, b).to = b
    BY DEF Packet
  <2>3. ASSUME NEW p \in SentTo(n, a)
        PROVE  p \in {Packet(u, n, a) : u \in types}
    BY <2>1, <2>2 DEF SentTo
  <2>4. ASSUME NEW u \in types
        PROVE  Packet(u, n, a) \in SentTo(n, a)
    BY <2>2 DEF SentTo, PassSends
  <2> HIDE DEF types
  <2> QED
    BY <2>3, <2>4
<1>4. \A u : types = {u} => SentTo(n, a) = {Packet(u, n, a)}
  <2> HIDE DEF types
  <2> QED
    BY <1>3
<1>5. types = {} => SentTo(n, a) = {}
  <2> HIDE DEF types
  <2> QED
    BY <1>3
<1>6. since'[n][a] = TimesAfterPass(n, a)
  BY RunningFacts DEF Pass
<1>7. TimesAfterPass(n, a) =
            IF conns'[n][a] = NoConnection THEN NoTimes
            ELSE LET sent == {p.type : p \in SentTo(n, a)}
                 IN  [since[n][a] EXCEPT
                        !.request = IF "CONNECT_REQUEST" \in sent THEN 0 ELSE @,
                        !.sent    = IF sent \cap {"CONNECT_ACCEPT", "HEARTBEAT"} # {}
                                    THEN 0 ELSE @]
  BY DEF TimesAfterPass, SentTo
<1>8. NoConnection.state = "None"
  BY DEF NoConnection
<1>9. ASSUME conns'[n][a].state # "None"
      PROVE  /\ since'[n][a].heard = since[n][a].heard
             /\ SentTo(n, a) = {} => since'[n][a] = since[n][a]
             /\ \A u : SentTo(n, a) = {Packet(u, n, a)} =>
                    /\ u = "CONNECT_REQUEST" => since'[n][a].request = 0
                    /\ u \in {"CONNECT_ACCEPT", "HEARTBEAT"} => since'[n][a].sent = 0
  <2> DEFINE sent == {p.type : p \in SentTo(n, a)}
             r == IF "CONNECT_REQUEST" \in sent THEN 0 ELSE since[n][a].request
             s == IF sent \cap {"CONNECT_ACCEPT", "HEARTBEAT"} # {} THEN 0
                  ELSE since[n][a].sent
  <2>1. since'[n][a] = [since[n][a] EXCEPT !.request = r, !.sent = s]
    BY <1>6, <1>7, <1>8, <1>9
  <2>2. SentTo(n, a) = {} => r = since[n][a].request /\ s = since[n][a].sent
    OBVIOUS
  <2>3. ASSUME NEW u, SentTo(n, a) = {Packet(u, n, a)}
        PROVE  /\ u = "CONNECT_REQUEST" => r = 0
               /\ u \in {"CONNECT_ACCEPT", "HEARTBEAT"} => s = 0
    <3>1. sent = {u}
      BY <2>3 DEF Packet
    <3> HIDE DEF sent
    <3> QED
      BY <3>1
  <2> HIDE DEF r, s
  <2>4. /\ since'[n][a].heard = since[n][a].heard
        /\ since'[n][a].request = r /\ since'[n][a].sent = s
        /\ r = since[n][a].request /\ s = since[n][a].sent => since'[n][a] = since[n][a]
    BY <1>1, <2>1 DEF Times
  <2> QED
    BY <2>2, <2>3, <2>4
<1>10. /\ "retry" \in t <=> since[n][a].request >= RetryTime
       /\ "beat" \in t <=> since[n][a].sent > HeartbeatTime
       /\ "silence" \in t <=> since[n][a].heard > HeartbeatTimeout
  BY DEF Timers, Elapsed
<1> HIDE DEF t
<1>11. CASE c.state = "None"
  <2>1. types = {} /\ next = c
    BY <1>11 DEF SentTypes, Updated
  <2> QED
    BY <1>2, <1>5, <1>11, <2>1
<1>12. CASE c.state = "REQUESTING_CONNECTION" /\ ~ Asks(c, t)
  <2>1. types = {} /\ next = c
    BY <1>12 DEF SentTypes, Updated
  <2>2. conns'[n][a] = c
    BY <1>2, <1>12, <2>1
  <2> QED
    BY <1>5, <1>9, <1>12, <2>1, <2>2
<1>13. CASE c.state = "REQUESTING_CONNECTION" /\ Asks(c, t)
  <2>1. c.requested => since[n][a].request >= RetryTime
    BY <1>10, <1>13 DEF Asks
  <2>2. ASSUME ~ c.attemptsLeft <= 1
        PROVE  /\ conns'[n][a] = [c EXCEPT !.attemptsLeft = @ - 1, !.requested = TRUE]
               /\ since'[n][a].request = 0
               /\ SentTo(n, a) = {Packet("CONNECT_REQUEST", n, a)}
    <3>1. c.attemptsLeft \in Int
      BY <1>1, CountsAssumption DEF Connection
    <3>2. types = {"CONNECT_REQUEST"}
      BY <1>13, <2>2, <3>1 DEF SentTypes
    <3>3. next = [c EXCEPT !.attemptsLeft = c.attemptsLeft - 1, !.requested = TRUE]
      BY <1>13, <2>2 DEF Updated
    <3>4. next.state = "REQUESTING_CONNECTION"
      BY <1>1, <1>13, <3>3 DEF Connection
    <3>5. conns'[n][a] = next
      BY <1>2, <3>4
    <3> QED
      BY <1>4, <1>9, <3>2, <3>3, <3>4, <3>5
  <2> QED
    BY <1>13, <2>1, <2>2
<1>14. CASE c.state = "DECIDING_CONNECTION"
  <2>1. types = {"CONNECT_ACCEPT"}
    BY <1>14 DEF SentTypes
  <2>2. next = [c EXCEPT !.state = "CONNECTED", !.wasConnected = TRUE]
    BY <1>14 DEF Updated
  <2>3. next.state = "CONNECTED"
    BY <1>1, <2>2 DEF Connection
  <2>4. conns'[n][a].state = "CONNECTED"
    BY <1>2, <2>3
  <2> QED
    BY <1>4, <1>9, <1>14, <2>1, <2>4
<1>15. CASE c.state = "CONNECTED" /\ since[n][a].heard <= HeartbeatTimeout
  <2>1. since[n][a].heard \in Nat /\ since[n][a].sent \in Nat
    BY <1>1, TimesFacts DEF Times
  <2>2. "silence" \notin t
    BY <1>10, <1>15, <2>1, TimesFacts
  <2>3. next = c /\ conns'[n][a] = c
    BY <1>2, <1>15, <2>2 DEF Updated
  <2>4. CASE "beat" \in t
    <3>1. types = {"HEARTBEAT"}
      BY <1>15, <2>4 DEF SentTypes
    <3> QED
      BY <1>4, <1>9, <1>15, <2>3, <3>1
  <2>5. CASE "beat" \notin t
    <3>1. types = {}
      BY <1>15, <2>5 DEF SentTypes
    <3>2. since[n][a].sent <= HeartbeatTime
      BY <1>10, <2>1, <2>5, TimesFacts
    <3> QED
      BY <1>5, <1>9, <1>15, <2>3, <3>1, <3>2
  <2> QED
    BY <2>4, <2>5
<1> QED
  BY <1>11, <1>12, <1>13, <1>14, <1>15

\* What a pass does to the wire, the losses and the other processes.
LEMMA PassOutcome ==
    ASSUME Running, NEW n \in Node, Pass(n)
    PROVE  /\ LossesCounted'
           /\ \A m \in Node : m # n =>
                /\ conns'[m] = conns[m] /\ since'[m] = since[m]
                /\ losses'[m] = losses[m] /\ frame'[m] = frame[m]
           /\ \A a \in Node :
                /\ SentTo(n, a) = {} => losses'[n][a] = losses[n][a]
                /\ \A p : SentTo(n, a) = {p} =>
                        \/ [packet |-> p, age |-> 0] \in wire'
                        \/ losses'[n][a] = losses[n][a] + 1
           /\ \A w \in wire : w \in wire' /\ Age(w)' = Age(w)
           /\ \A w \in wire' : w \in wire \/ w.packet \in PassSends(n)
           /\ \A p \in PassSends(n) : p.from = n /\ p.to \in Node /\ Has(n, p.to)
<1>1. /\ \A p \in PassSends(n) : \E a \in Node :
            \E u \in SentTypes(conns[n][a], Timers(n)[a]) : p = Packet(u, n, a)
      /\ \A u, a : Packet(u, n, a).to = a /\ Packet(u, n, a).from = n
  BY DEF PassSends, Packet
<1>2. \A a \in Node : \A u, v \in SentTypes(conns[n][a], Timers(n)[a]) :
            u = v /\ Has(n, a)
  BY DEF SentTypes, Has
<1>3. \A p \in PassSends(n) : p.from = n /\ p.to \in Node /\ Has(n, p.to)
  BY <1>1, <1>2
<1>4. \A p, q \in PassSends(n) : p.to = q.to => p = q
  BY <1>1, <1>2
<1>5. \A p \in PassSends(n) : p.to \in Node \ {n}
  BY <1>3, RunningFacts DEF Partners
<1>6. IsFiniteSet(PassSends(n)) /\ Send(n, PassSends(n), wire)
  BY PassSendsFacts DEF Pass
<1>7. /\ LossesCounted'
      /\ \A w \in wire : w \in wire'
      /\ \A m \in Node : m # n => losses'[m] = losses[m]
      /\ \A a \in Node : (\A p \in PassSends(n) : p.to # a) => losses'[n][a] = losses[n][a]
      /\ \A p \in PassSends(n) : \/ [packet |-> p, age |-> 0] \in wire'
                                 \/ losses'[n][p.to] = losses[n][p.to] + 1
  BY <1>4, <1>5, <1>6, RunningFacts, SendOutcome DEF Everyone
<1>8. \A w \in wire' : w \in wire \/ w.packet \in PassSends(n)
  BY <1>6, RunningFacts, SendFacts
<1>9. \A m \in Node : m # n =>
            conns'[m] = conns[m] /\ since'[m] = since[m] /\ frame'[m] = frame[m]
  <2>1. /\ \E x : conns' = [conns EXCEPT ![n] = x]
        /\ \E x : since' = [since EXCEPT ![n] = x]
        /\ frame' = [frame EXCEPT ![n] = 0]
    BY DEF Pass, UpdateConnections
  <2> QED
    BY <2>1, RunningFacts
<1>10. ASSUME NEW w \in wire
       PROVE  Age(w)' = Age(w)
  <2>1. w.packet.to = n => w.age < Latency
    BY DEF Pass
  <2>2. w.packet.to \in Node
    BY RunningFacts, WireFacts
  <2> QED
    BY <1>9, <2>1, <2>2 DEF Age
<1>11. \A a \in Node : SentTo(n, a) = {} => losses'[n][a] = losses[n][a]
  BY <1>7 DEF SentTo
<1>12. ASSUME NEW a \in Node, NEW p, SentTo(n, a) = {p}
       PROVE  \/ [packet |-> p, age |-> 0] \in wire'
              \/ losses'[n][a] = losses[n][a] + 1
  <2>1. p \in PassSends(n) /\ p.to = a
    BY <1>12 DEF SentTo
  <2> QED
    BY <1>7, <2>1
<1> QED
  BY <1>3, <1>7, <1>8, <1>9, <1>10, <1>11, <1>12

\* A pass of the client of a pair: a request or a heartbeat leaves, or nothing.
LEMMA ClientPassesPair ==
    ASSUME Running, TimedTypeOK', NEW c \in Clients, NEW s \in Servers, Pass(c)
    PROVE  BothEnds(c, s)'
<1>1. c \in Node \ {s} /\ s \in Node \ {c}
  BY PairNumbers
<1>2. /\ conns'[s] = conns[s] /\ since'[s] = since[s] /\ losses'[s] = losses[s]
      /\ frame'[s] = frame[s]
      /\ \A w \in wire : w \in wire' /\ Age(w)' = Age(w)
      /\ \A w \in wire' : \/ w \in wire
                          \/ w.packet.from = c /\ (w.packet.to = s => w.packet \in SentTo(c, s))
  BY <1>1, PassOutcome DEF SentTo
<1>3. StaysUnderWay(c, s) /\ StaysUnderWay(s, c)
  BY <1>2 DEF StaysUnderWay
<1>4. SendGap(s, c)' = SendGap(s, c)
  BY <1>2 DEF SendGap
<1>5. /\ SentTo(c, s) = {} => losses'[c][s] = losses[c][s]
      /\ \A p : SentTo(c, s) = {p} => \/ [packet |-> p, age |-> 0] \in wire'
                                      \/ losses'[c][s] = losses[c][s] + 1
  BY <1>1, PassOutcome
<1>6. \A u : LET p == Packet(u, c, s) IN p.from = c /\ p.to = s /\ p.type = u
  BY DEF Packet
<1>7. EndsAgree(c, s) /\ OnlyExpected(c, s)
  BY RunningFacts DEF BothEnds
<1>8. since[c][s].heard \in Nat /\ since[s][c].heard \in Nat /\ Answered(s) \in Nat
  BY <1>1, RunningFacts, CountedOfPair, PairNumbers, TimesFacts
<1>9. CASE conns[c][s].state = "None"
  <2>1. conns'[c][s].state = "None" /\ SentTo(c, s) = {} /\ conns'[s][c].state = "None"
    BY <1>1, <1>2, <1>7, <1>9, PassEffect DEF EndsAgree
  <2>2. OnlyExpected(c, s)'
    BY <1>1, <1>2, <1>7, <1>9, <2>1 DEF OnlyExpected, EndsAgree
  <2> QED
    BY <2>1, <2>2 DEF BothEnds, EndsAgree
<1>10. CASE conns[c][s].state = "REQUESTING_CONNECTION"
  <2>1. /\ Asking(c, s)
        /\ conns[s][c].state = "CONNECTED" =>
                Waited(s, c, {"CONNECT_ACCEPT", "HEARTBEAT"}, since[s][c].heard, 0)
    BY <1>10, RunningFacts DEF BothEnds
  <2>2. conns[s][c].state = "CONNECTED" =>
            Waited(s, c, {"CONNECT_ACCEPT", "HEARTBEAT"}, since[s][c].heard, 0)'
    BY <1>1, <1>2, <1>3, <1>4, <1>8, <2>1, RunningFacts, WaitedOn
  <2>3. \A w \in UnderWay(c, s, {"CONNECT_REQUEST"}) : w \in wire' /\ Age(w)' = Age(w)
    BY <1>2 DEF UnderWay
  <2>4. CASE /\ conns'[c][s] = conns[c][s] /\ since'[c][s] = since[c][s]
             /\ SentTo(c, s) = {}
    <3>1. Asking(c, s)'
      BY <1>1, <1>2, <1>5, <2>1, <2>3, <2>4, AskingStays
    <3>2. EndsAgree(c, s)'
      BY <1>2, <1>7, <2>4 DEF EndsAgree
    <3>3. OnlyExpected(c, s)'
      BY <1>1, <1>2, <1>7, <2>4 DEF OnlyExpected
    <3> QED
      BY <1>2, <1>10, <2>2, <2>4, <3>1, <3>2, <3>3 DEF BothEnds
  <2>5. CASE /\ conns[c][s].requested => since[c][s].request >= RetryTime
             /\ conns'[c][s] =
                    [conns[c][s] EXCEPT !.attemptsLeft = @ - 1, !.requested = TRUE]
             /\ since'[c][s].request = 0
             /\ SentTo(c, s) = {Packet("CONNECT_REQUEST", c, s)}
    <3>1. frame'[s] \in Nat
      BY <1>1, TimesFacts DEF TimedTypeOK
    <3>2. /\ conns'[s][c] = conns[s][c] /\ since'[s][c].heard = since[s][c].heard
          /\ \/ [packet |-> Packet("CONNECT_REQUEST", c, s), age |-> 0] \in wire'
             \/ losses'[c][s] = losses[c][s] + 1
      BY <1>2, <1>5, <2>5
    <3>3. Asking(c, s)'
      <4> DEFINE p == Packet("CONNECT_REQUEST", c, s)
      <4>1. p.from = c /\ p.to = s /\ p.type = "CONNECT_REQUEST"
        BY <1>6
      <4>2. [packet |-> p, age |-> 0] \in wire' \/ losses'[c][s] = losses[c][s] + 1
        BY <3>2
      <4>3. IInv /\ TimedTypeOK /\ LossesCounted
        BY RunningFacts
      <4> HIDE DEF p
      <4> QED
        BY <2>1, <2>3, <2>5, <3>1, <3>2, <4>1, <4>2, <4>3, AskingAgain
    <3>4. conns'[c][s].state = "REQUESTING_CONNECTION"
      <4>1. conns[c][s] \in Connection
        BY <1>1, RunningFacts
      <4> QED
        BY <1>10, <2>5, <4>1 DEF Connection
    <3>5. EndsAgree(c, s)'
      BY <1>2, <1>7, <1>10, <3>4 DEF EndsAgree
    <3>6. OnlyExpected(c, s)'
      BY <1>1, <1>2, <1>6, <1>7, <1>10, <2>5, <3>4 DEF OnlyExpected
    <3> QED
      BY <1>2, <2>2, <3>3, <3>4, <3>5, <3>6 DEF BothEnds
  <2>6. CASE /\ conns[c][s].requested => since[c][s].request >= RetryTime
             /\ conns[c][s].attemptsLeft <= 1
    <3>1. AskingTime(c, s) < (Attempts - 1) * RetryTime
      <4>1. conns[s][c].state # "None" => since[s][c].heard <= Answered(s)
        BY <1>10, RunningFacts, SilenceOfPair DEF Everyone
      <4> QED
        BY <2>1, <4>1, RunningFacts, AskingBound
    <3>2. /\ conns[c][s].attemptsLeft \in Nat /\ conns[c][s].attemptsLeft > 0
          /\ Attempts \in Nat /\ RetryTime \in Nat
      <4>1. conns[c][s] \in Connection
        BY <1>1, RunningFacts
      <4>2. conns[c][s].attemptsLeft > 0
        BY <1>1, <1>10, RunningFacts DEF IInv, StateSettles
      <4> QED
        BY <4>1, <4>2, CountsAssumption, TimesFacts DEF Connection
    <3>3. Asked(c, s) = Attempts - 1
      BY <2>6, <3>2 DEF Asked
    <3>4. since[c][s].request \in 0 .. RetryTime
      BY <1>1, RunningFacts, CountedOfPair
    <3>5. CASE conns[c][s].requested
      <4>1. AskingTime(c, s) = Asked(c, s) * RetryTime - RetryTime + since[c][s].request
        BY RunningFacts, AskedFacts
      <4>2. since[c][s].request = RetryTime
        BY <2>6, <3>2, <3>4, <3>5
      <4>3. (Attempts - 1) * RetryTime \in Int
        BY <3>2
      <4> QED
        BY <3>1, <3>2, <3>3, <4>1, <4>2, <4>3
    <3>6. CASE ~ conns[c][s].requested
      <4>1. Attempts - 1 = 0
        BY <2>1, <3>3, <3>6 DEF Asking
      <4>2. (Attempts - 1) * RetryTime = 0
        BY <3>2, <4>1
      <4>3. /\ LossesInARow(c) * RetryTime \in Nat
            /\ LossesInARow(c) * RetryTime + Latency + FrameTime + Answered(s)
                    < (Attempts - 1) * RetryTime
        BY PairNumbers
      <4> QED
        BY <1>8, <4>2, <4>3, TimesFacts
    <3> QED
      BY <3>5, <3>6
  <2> QED
    BY <1>1, <1>10, <2>4, <2>5, <2>6, PassEffect
<1>11. CASE conns[c][s].state = "CONNECTED"
  <2>1. since[c][s].heard <= HeartbeatTimeout
    BY <1>11, RunningFacts, SilenceOfPair DEF Everyone
  <2>2. conns'[c][s] = conns[c][s] /\ since'[c][s].heard = since[c][s].heard
    BY <1>1, <1>11, <2>1, PassEffect
  <2>3. /\ Waited(s, c, {"HEARTBEAT"}, since[c][s].heard, 0)
        /\ Waited(c, s, {"HEARTBEAT", "USER_PACKET"}, since[s][c].heard, Answered(s))
    BY <1>11, RunningFacts DEF BothEnds
  <2>4. Waited(s, c, {"HEARTBEAT"}, since[c][s].heard, 0)'
    BY <1>1, <1>2, <1>3, <1>4, <1>8, <2>2, <2>3, RunningFacts, WaitedOn
  <2>5. \/ /\ since'[c][s] = since[c][s] /\ since[c][s].sent <= HeartbeatTime
           /\ SentTo(c, s) = {}
        \/ since'[c][s].sent = 0 /\ SentTo(c, s) = {Packet("HEARTBEAT", c, s)}
    BY <1>1, <1>11, <2>1, PassEffect
  <2>6. Waited(c, s, {"HEARTBEAT", "USER_PACKET"}, since[s][c].heard, Answered(s))'
    <3>1. CASE /\ since'[c][s] = since[c][s] /\ since[c][s].sent <= HeartbeatTime
               /\ SentTo(c, s) = {}
      <4>1. SendGap(c, s)' = SendGap(c, s)
        BY <3>1 DEF SendGap
      <4> QED
        BY <1>1, <1>2, <1>3, <1>5, <1>8, <2>3, <3>1, <4>1, RunningFacts, WaitedOn
    <3>2. CASE since'[c][s].sent = 0 /\ SentTo(c, s) = {Packet("HEARTBEAT", c, s)}
      <4>1. \/ [packet |-> Packet("HEARTBEAT", c, s), age |-> 0] \in wire'
            \/ losses'[c][s] = losses[c][s] + 1
        BY <1>5, <3>2
      <4> QED
        <5> DEFINE p == Packet("HEARTBEAT", c, s)
        <5>1. p.from = c /\ p.to = s /\ p.type \in {"HEARTBEAT", "USER_PACKET"}
          BY <1>6
        <5>2. IInv /\ TimedTypeOK /\ LossesCounted
          BY RunningFacts
        <5>3. since'[s][c].heard = since[s][c].heard
          BY <1>2
        <5>4. [packet |-> p, age |-> 0] \in wire' \/ losses'[c][s] = losses[c][s] + 1
          BY <4>1
        <5> HIDE DEF p
        <5> QED
          BY <1>1, <1>3, <1>8, <2>3, <3>2, <5>1, <5>2, <5>3, <5>4, WaitedOut
    <3> QED
      BY <2>5, <3>1, <3>2
  <2>7. EndsAgree(c, s)'
    BY <1>2, <1>7, <2>2 DEF EndsAgree
  <2>8. OnlyExpected(c, s)'
    BY <1>1, <1>2, <1>6, <1>7, <1>11, <2>2, <2>5 DEF OnlyExpected
  <2> QED
    BY <1>2, <1>11, <2>2, <2>4, <2>6, <2>7, <2>8 DEF BothEnds
<1> QED
  BY <1>7, <1>9, <1>10, <1>11 DEF EndsAgree

\* A pass of the server of a pair: an acceptance or a heartbeat leaves, or
\* nothing.
LEMMA ServerPassesPair ==
    ASSUME Running, TimedTypeOK', NEW c \in Clients, NEW s \in Servers, Pass(s)
    PROVE  BothEnds(c, s)'
<1>1. c \in Node \ {s} /\ s \in Node \ {c}
  BY PairNumbers
<1>2. /\ conns'[c] = conns[c] /\ since'[c] = since[c] /\ losses'[c] = losses[c]
      /\ frame'[c] = frame[c]
      /\ \A w \in wire : w \in wire' /\ Age(w)' = Age(w)
      /\ \A w \in wire' : \/ w \in wire
                          \/ w.packet.from = s /\ (w.packet.to = c => w.packet \in SentTo(s, c))
  BY <1>1, PassOutcome DEF SentTo
<1>3. StaysUnderWay(c, s) /\ StaysUnderWay(s, c)
  BY <1>2 DEF StaysUnderWay
<1>4. SendGap(c, s)' = SendGap(c, s)
  BY <1>2 DEF SendGap
<1>5. /\ SentTo(s, c) = {} => losses'[s][c] = losses[s][c]
      /\ \A p : SentTo(s, c) = {p} => \/ [packet |-> p, age |-> 0] \in wire'
                                      \/ losses'[s][c] = losses[s][c] + 1
  BY <1>1, PassOutcome
<1>6. \A u : LET p == Packet(u, s, c) IN p.from = s /\ p.to = c /\ p.type = u
  BY DEF Packet
<1>7. EndsAgree(c, s) /\ OnlyExpected(c, s)
  BY RunningFacts DEF BothEnds
<1>8. since[c][s].heard \in Nat /\ since[s][c].heard \in Nat /\ Answered(s) \in Nat
  BY <1>1, RunningFacts, CountedOfPair, PairNumbers, TimesFacts
<1>9. ASSUME conns[c][s].state = "REQUESTING_CONNECTION",
             conns'[s][c].state = "None" <=> conns[s][c].state = "None",
             since'[s][c].heard = since[s][c].heard \/ conns[s][c].state = "None"
      PROVE  Asking(c, s)'
  <2>1. Asking(c, s)
    BY <1>9, RunningFacts DEF BothEnds
  <2>2. \A w \in UnderWay(c, s, {"CONNECT_REQUEST"}) : w \in wire' /\ Age(w)' = Age(w)
    BY <1>2 DEF UnderWay
  <2> QED
    BY <1>1, <1>2, <1>9, <2>1, <2>2, AskingStays
<1>10. CASE conns[s][c].state = "None"
  <2>1. conns'[s][c].state = "None" /\ SentTo(s, c) = {}
    BY <1>1, <1>10, PassEffect
  <2>2. OnlyExpected(c, s)'
    BY <1>1, <1>2, <1>7, <1>10, <2>1 DEF OnlyExpected
  <2>3. EndsAgree(c, s)'
    BY <1>2, <1>7, <1>10, <2>1 DEF EndsAgree
  <2>4. conns[c][s].state \in {"None", "REQUESTING_CONNECTION"}
    BY <1>7, <1>10 DEF EndsAgree
  <2> QED
    BY <1>2, <1>9, <1>10, <2>1, <2>2, <2>3, <2>4 DEF BothEnds
<1>11. CASE conns[s][c].state = "DECIDING_CONNECTION"
  <2>1. /\ conns'[s][c].state = "CONNECTED" /\ since'[s][c].heard = since[s][c].heard
        /\ SentTo(s, c) = {Packet("CONNECT_ACCEPT", s, c)}
    BY <1>1, <1>11, PassEffect
  <2>2. conns[c][s].state = "REQUESTING_CONNECTION"
    BY <1>7, <1>11 DEF EndsAgree
  <2>3. since[s][c].heard = 0
    BY <1>1, <1>11, RunningFacts DEF TimedInv, DecidedInFrame
  <2>4. Waited(s, c, {"CONNECT_ACCEPT", "HEARTBEAT"}, since[s][c].heard, 0)'
    BY <1>1, <2>1, <2>3, WaitedFresh
  <2>5. OnlyExpected(c, s)'
    BY <1>1, <1>2, <1>6, <1>7, <1>11, <2>1 DEF OnlyExpected
  <2>6. EndsAgree(c, s)'
    BY <1>2, <2>1, <2>2 DEF EndsAgree
  <2> QED
    BY <1>2, <1>9, <1>11, <2>1, <2>2, <2>4, <2>5, <2>6 DEF BothEnds
<1>12. CASE conns[s][c].state = "CONNECTED"
  <2>1. since[s][c].heard <= HeartbeatTimeout
    BY <1>12, RunningFacts, SilenceOfPair DEF Everyone
  <2>2. conns'[s][c] = conns[s][c] /\ since'[s][c].heard = since[s][c].heard
    BY <1>1, <1>12, <2>1, PassEffect
  <2>3. \/ /\ since'[s][c] = since[s][c] /\ since[s][c].sent <= HeartbeatTime
           /\ SentTo(s, c) = {}
        \/ since'[s][c].sent = 0 /\ SentTo(s, c) = {Packet("HEARTBEAT", s, c)}
    BY <1>1, <1>12, <2>1, PassEffect
  <2>4. ASSUME NEW types, "HEARTBEAT" \in types, NEW t \in Nat, Waited(s, c, types, t, 0)
        PROVE  Waited(s, c, types, t, 0)'
    <3>1. CASE /\ since'[s][c] = since[s][c] /\ since[s][c].sent <= HeartbeatTime
               /\ SentTo(s, c) = {}
      <4>1. SendGap(s, c)' = SendGap(s, c)
        BY <3>1 DEF SendGap
      <4> QED
        BY <1>1, <1>3, <1>5, <2>4, <3>1, <4>1, RunningFacts, WaitedOn
    <3>2. CASE since'[s][c].sent = 0 /\ SentTo(s, c) = {Packet("HEARTBEAT", s, c)}
      <4> DEFINE p == Packet("HEARTBEAT", s, c)
      <4>1. p.from = s /\ p.to = c /\ p.type \in types
        BY <1>6, <2>4
      <4>2. IInv /\ TimedTypeOK /\ LossesCounted
        BY RunningFacts
      <4>3. [packet |-> p, age |-> 0] \in wire' \/ losses'[s][c] = losses[s][c] + 1
        BY <1>5, <3>2
      <4>4. /\ s \in Node /\ c \in Node \ {s} /\ StaysUnderWay(s, c)
            /\ since'[s][c].sent = 0 /\ TimedTypeOK'
        BY <1>1, <1>3, <3>2
      <4>5. 0 \in Nat /\ t \in Nat /\ Waited(s, c, types, t, 0)
        BY <2>4
      <4> HIDE DEF p
      <4> QED
        BY ONLY <4>1, <4>2, <4>3, <4>4, <4>5, WaitedOut
    <3> QED
      BY <2>3, <3>1, <3>2
  <2>5. ASSUME conns[c][s].state = "REQUESTING_CONNECTION"
        PROVE  Waited(s, c, {"CONNECT_ACCEPT", "HEARTBEAT"}, since[s][c].heard, 0)'
    <3>1. Waited(s, c, {"CONNECT_ACCEPT", "HEARTBEAT"}, since[s][c].heard, 0)
      BY <1>12, <2>5, RunningFacts DEF BothEnds
    <3> QED
      BY <1>8, <2>2, <2>4, <3>1
  <2>6. ASSUME conns[c][s].state = "CONNECTED"
        PROVE  /\ Waited(s, c, {"HEARTBEAT"}, since[c][s].heard, 0)'
               /\ Waited(c, s, {"HEARTBEAT", "USER_PACKET"}, since[s][c].heard, Answered(s))'
    <3>1. /\ Waited(s, c, {"HEARTBEAT"}, since[c][s].heard, 0)
          /\ Waited(c, s, {"HEARTBEAT", "USER_PACKET"}, since[s][c].heard, Answered(s))
      BY <2>6, RunningFacts DEF BothEnds
    <3>2. Waited(s, c, {"HEARTBEAT"}, since[c][s].heard, 0)'
      <4>1. since'[c][s].heard = since[c][s].heard
        BY <1>2
      <4> QED
        BY <1>8, <2>4, <3>1, <4>1
    <3>3. Waited(c, s, {"HEARTBEAT", "USER_PACKET"}, since[s][c].heard, Answered(s))'
      BY <1>1, <1>2, <1>3, <1>4, <1>8, <2>2, <3>1, RunningFacts, WaitedOn
    <3> QED
      BY <3>2, <3>3
  <2>7. EndsAgree(c, s)'
    BY <1>2, <1>7, <2>2 DEF EndsAgree
  <2>8. OnlyExpected(c, s)'
    BY <1>1, <1>2, <1>6, <1>7, <1>12, <2>2, <2>3 DEF OnlyExpected
  <2> QED
    BY <1>2, <1>9, <1>12, <2>2, <2>5, <2>6, <2>7, <2>8 DEF BothEnds
<1> QED
  BY <1>7, <1>10, <1>11, <1>12 DEF EndsAgree

\* A pass.
LEMMA PassKeepsPairs ==
    ASSUME Running, TimedTypeOK', NEW n \in Node, Pass(n)
    PROVE  Kept'
<1>1. LossesCounted'
  BY PassOutcome
<1>2. /\ \A m \in Node : m # n =>
                /\ conns'[m] = conns[m] /\ since'[m] = since[m]
                /\ losses'[m] = losses[m] /\ frame'[m] = frame[m]
      /\ \A w \in wire : w \in wire'
      /\ \A w \in wire' : w \in wire \/ w.packet \in PassSends(n)
      /\ \A p \in PassSends(n) : p.from = n /\ p.to \in Node /\ Has(n, p.to)
  BY PassOutcome
<1>3. ASSUME NEW m \in Node, NEW a \in Node, Has(m, a)'
      PROVE  Has(m, a)
  <2>1. conns[n][a].state = "None" => conns'[n][a].state = "None"
    BY PassEffect
  <2> QED
    BY <1>2, <1>3, <2>1 DEF Has
<1>4. \A p \in PassSends(n) : p.type = "CONNECT_REQUEST" => n \in Clients
  <2> SUFFICES ASSUME NEW p \in PassSends(n), p.type = "CONNECT_REQUEST"
               PROVE  n \in Clients
    OBVIOUS
  <2>1. PICK a \in Node : \E u \in SentTypes(conns[n][a], Timers(n)[a]) : p = Packet(u, n, a)
    BY DEF PassSends
  <2>2. "CONNECT_REQUEST" \in SentTypes(conns[n][a], Timers(n)[a])
    BY <2>1 DEF Packet
  <2>3. conns[n][a].state = "REQUESTING_CONNECTION"
    BY <2>2 DEF SentTypes
  <2> QED
    BY <2>3, RunningFacts DEF IInv, StateSettles
<1>5. Partners'
  <2>1. \A m, a \in Node : Has(m, a)' => m # a /\ (m \in Servers => a \in Clients)
    BY <1>3, RunningFacts DEF Partners
  <2>2. \A w \in wire' : w.packet.type = "CONNECT_REQUEST" => w.packet.from \in Clients
    BY <1>2, <1>4, RunningFacts DEF Partners
  <2> QED
    BY <2>1, <2>2 DEF Partners
<1>6. ASSUME NEW c \in Clients, NEW s \in Servers
      PROVE  BothEnds(c, s)'
  <2>1. CASE n = c
    BY <2>1, ClientPassesPair
  <2>2. CASE n = s
    BY <2>2, ServerPassesPair
  <2>3. CASE n # c /\ n # s
    <3>1. c \in Node /\ s \in Node
      BY PairNumbers
    <3>2. \A w \in wire \cup wire' : {w.packet.from, w.packet.to} = {c, s} =>
                w \in wire /\ w \in wire'
      BY <1>2, <2>3
    <3>3. /\ conns'[c][s] = conns[c][s] /\ conns'[s][c] = conns[s][c]
          /\ since'[c][s] = since[c][s] /\ since'[s][c] = since[s][c]
          /\ losses'[c][s] = losses[c][s] /\ losses'[s][c] = losses[s][c]
          /\ frame'[c] = frame[c] /\ frame'[s] = frame[s]
      BY <1>2, <2>3, <3>1
    <3> QED
      BY <3>2, <3>3, RunningFacts, PairStays
  <2> QED
    BY <2>1, <2>2, <2>3
<1> QED
  BY <1>1, <1>5, <1>6 DEF Kept

-----------------------------------------------------------------------------
(***************************************************************************)
(* Connections come about and are kept.                                    *)
(***************************************************************************)

\* The invariant of the pairs holds at the start.
LEMMA KeptInitInv == TimedInit => KeptInv
<1> SUFFICES ASSUME TimedInit PROVE Kept
  BY DEF KeptInv
<1>1. \A n, a \in Node : conns[n][a].state = "None"
  BY DEF TimedInit, Init, NoConnection
<1>2. wire = {} /\ \A n, a \in Node : losses[n][a] = 0
  BY DEF TimedInit
<1>3. Partners
  BY <1>1, <1>2 DEF Partners, Has
<1>4. LossesCounted
  <2>1. \A n \in Node : DropChance[n] \in Nat /\ LossesInARow(n) \in Nat
    BY SocketAssumption, TimesAssumption DEF LossesInARow
  <2>2. countToDrop = DropChance
    BY DEF TimedInit, SocketInit
  <2> QED
    BY <1>2, <2>1, <2>2 DEF LossesCounted
<1>5. \A c \in Clients, s \in Servers : BothEnds(c, s)
  <2> TAKE c \in Clients, s \in Servers
  <2>1. conns[c][s].state = "None" /\ conns[s][c].state = "None"
    BY <1>1 DEF Node
  <2> QED
    BY <1>2, <2>1 DEF BothEnds, EndsAgree, OnlyExpected
<1> QED
  BY <1>3, <1>4, <1>5 DEF Kept

\* It is inductive, until a process stops.
LEMMA KeptStepInv ==
    ASSUME IInv, TimedInv, KeptInv, [TimedNext]_timedVars
    PROVE  KeptInv'
<1> SUFFICES ASSUME Everyone' PROVE Kept'
  BY DEF KeptInv
<1>1. TimedTypeOK'
  BY TimedStepInv DEF TimedInv
<1>2. CASE UNCHANGED timedVars
  <2>1. Everyone /\ Kept
    BY <1>2 DEF timedVars, timeVars, Everyone, KeptInv
  <2>2. UNCHANGED <<conns, since, losses, frame, wire, countToDrop>>
    BY <1>2 DEF timedVars, vars, timeVars, socketVars
  <2>3. Running
    BY <2>1 DEF Running
  <2>4. Partners' /\ LossesCounted'
    BY <2>2, <2>3, RunningFacts DEF Partners, LossesCounted, Has
  <2>5. ASSUME NEW c \in Clients, NEW s \in Servers
        PROVE  BothEnds(c, s)'
    BY <2>2, <2>3, RunningFacts, PairStays
  <2> QED
    BY <2>4, <2>5 DEF Kept
<1>3. CASE TimedNext
  <2>1. ASSUME NEW n \in Node, Crash(n)
        PROVE  FALSE
    BY <2>1 DEF Crash, Everyone
  <2>2. alive' = alive
    BY <1>3, <2>1
       DEF TimedNext, Bind, Pass, Connect, UpdateSend, Read, Tick, timeVars
  <2>3. Running
    BY <2>2 DEF Running, KeptInv, Everyone
  <2> QED
    BY <1>1, <1>3, <2>1, <2>3, BindKeepsPairs, PassKeepsPairs, ConnectKeepsPairs,
       UpdateSendKeepsPairs, ReadKeepsPairs, TickKeepsPairs DEF TimedNext
<1> QED
  BY <1>2, <1>3

\* As long as everyone runs, both ends of each pair keep to the invariant.
THEOREM KeptInvariance == TimedSpec => []KeptInv
<1>1. IInv /\ TimedInv /\ KeptInv /\ [TimedNext]_timedVars => KeptInv'
  BY KeptStepInv
<1> QED
  BY <1>1, KeptInitInv, TimedInvariance, PTL DEF TimedSpec

\* No connection is given up for silence while everyone runs, for all times,
\* losses and numbers of processes the assumptions allow.
THEOREM ConnectionsKept == TimedSpec => []KeptAlive
<1>1. IInv /\ TimedInv /\ KeptInv => KeptAlive
  <2> SUFFICES ASSUME IInv, TimedInv, Everyone, Kept,
                      NEW n \in Node, NEW a \in Node, conns[n][a].state = "CONNECTED"
               PROVE  since[n][a].heard <= HeartbeatTimeout
    BY DEF KeptAlive, KeptInv
  <2>1. Has(n, a)
    BY DEF Has
  <2>2. CASE n \in Servers
    <3>1. a \in Clients
      BY <2>1, <2>2 DEF Kept, Partners
    <3> QED
      BY <2>2, <3>1, SilenceOfPair DEF Kept
  <2>3. CASE n \in Clients
    <3>1. conns[n][a].wasConnected
      BY DEF IInv, StateSettles
    <3>2. a \in Servers
      BY <2>1, <2>3, <3>1 DEF IInv, ConnectedWasAccepted, Remotes
    <3> QED
      BY <2>3, <3>2, SilenceOfPair DEF Kept
  <2> QED
    BY <2>2, <2>3 DEF Node
<1> QED
  BY <1>1, TimedInvariance, KeptInvariance, PTL

\* No attempt to connect to a server fails while everyone runs and no server
\* sends user packets.
THEOREM HandshakesSucceed == TimedSpec => []HandshakeSucceeds
<1>1. KeptInv => HandshakeSucceeds
  BY DEF KeptInv, Kept, BothEnds, EndsAgree, HandshakeSucceeds
<1> QED
  BY <1>1, KeptInvariance, PTL

=============================================================================
