----------------------------- MODULE UdpSocket -----------------------------
(***************************************************************************)
(* The socket of each process: the search for a port in createHost and the *)
(* deliberate loss in send (Config::packetDropChance).  All processes and  *)
(* the sockets of other programs share the ports of one host.              *)
(***************************************************************************)
EXTENDS Integers

CONSTANTS
    Process,
    PortCycle,      \* number of ports, 2^16 in the code
    BindAttempts,   \* DEFAULT_BIND_PORT_ATTEMPTS_COUNT, 20
    ConfigPort,     \* Config::port of each process
    OccupiedPorts,  \* ports of other programs
    DropChance      \* Config::packetDropChance of each process, 0 for never

Port == 0 .. PortCycle - 1

ASSUME SocketAssumption ==
    /\ PortCycle \in Nat \ {0} /\ BindAttempts \in Nat
    /\ ConfigPort \in [Process -> Port]
    /\ OccupiedPorts \subseteq Port
    /\ DropChance \in [Process -> Nat]

VARIABLES
    port,           \* the port each process has or will try next
    attemptsLeft,   \* of createHost
    bound,          \* createHost has returned
    countToDrop     \* m_countToNextPacketDrop

socketVars == <<port, attemptsLeft, bound, countToDrop>>

SocketInit ==
    /\ port = ConfigPort
    /\ attemptsLeft = [n \in Process |-> BindAttempts]
    /\ bound = [n \in Process |-> FALSE]
    /\ countToDrop = DropChance

Taken(p) == p \in OccupiedPorts \/ \E n \in Process : bound[n] /\ port[n] = p

(***************************************************************************)
(* createHost.  Its loop goes on while bind fails or no attempts are left, *)
(* so it has ended by the last attempt or never does; the model stops      *)
(* trying there.                                                           *)
(***************************************************************************)
bindSucceeds(n) ==
    /\ ~ bound[n] /\ attemptsLeft[n] >= 0
    /\ ~ Taken(port[n])
    /\ bound' = [bound EXCEPT ![n] = TRUE]
    /\ UNCHANGED <<port, attemptsLeft, countToDrop>>

\* The same port is tried again.
bindFailsInPlace(n) ==
    /\ ~ bound[n] /\ attemptsLeft[n] >= 0
    /\ Taken(port[n])
    /\ attemptsLeft' = [attemptsLeft EXCEPT ![n] = @ - 1]
    /\ UNCHANGED <<port, bound, countToDrop>>

bindFails(n) ==
    /\ ~ bound[n] /\ attemptsLeft[n] >= 0
    /\ Taken(port[n])
    /\ port' = [port EXCEPT ![n] = (@ + 1) % PortCycle]
    /\ attemptsLeft' = [attemptsLeft EXCEPT ![n] = @ - 1]
    /\ UNCHANGED <<bound, countToDrop>>

(***************************************************************************)
(* send.  Of a process's packets every DropChance-th is dropped, whichever *)
(* connections they belong to: k is counted from the present moment on.    *)
(***************************************************************************)
Drops(n, k) ==
    /\ DropChance[n] # 0
    /\ k >= countToDrop[n]
    /\ (k - countToDrop[n]) % DropChance[n] = 0

\* The counter does not start again at a drop.
CountAfterOnce(n, sent) ==
    IF DropChance[n] = 0 THEN 0 ELSE countToDrop[n] - sent

\* Counter after `sent` packets.
CountAfter(n, sent) ==
    IF DropChance[n] = 0 THEN 0
    ELSE DropChance[n] - ((DropChance[n] - countToDrop[n] + sent) % DropChance[n])

=============================================================================
