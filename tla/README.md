# Verification of nsf

nsf is a small C++ library over SFML's UDP sockets: connection management, and
a reliable and an unreliable message channel per connection. This directory
holds TLA+ models of it, the TLC runs that check them, and TLAPS proofs.
Paths below are relative to the repository's root.

## 1. Inventory

One process runs one `NSFImpl` on one thread. An application frame is
`updateReceive()` (socket loop, pass over the connections, delivery of
messages), the application's own calls (`send`, `connect`, `disconnect`), and
`updateSend()`. Nothing runs concurrently inside a process; all concurrency is
between processes, through a network that loses, duplicates, delays and
reorders datagrams.

| Component | State | Operations | Talks to |
|---|---|---|---|
| `ConnectionManager` (is a `UdpSocket`) | `m_connections` (id, address, state, attempts, three time stamps, two flags), `m_connectionIdGenerator` | `connect`, `disconnect`, `updateReceive`, `updateSend`, one handler per packet type | callbacks to the two below for every user packet and every connect / disconnect |
| `PacketManager` | per connection: next number, newest number received, rings of 1024 packets sent and received, RTT | `onSendPacket`, `onReceivePacket`, `onConnected`, `onDisconnected` | `onPacketAcked` to `ChannelManager` |
| `ChannelManager` / `Peer` | per connection: resend list, unreliable queue, store for early messages, queues to deliver, numbers | `send`, `onWritePacket`, `onReadPacket`, `onPacketAcked`, `updateReceive` | `onReceive` to the application |
| `UdpSocket` | socket, drop counter | `receive`, `send`, `createHost` | `onReceivePacket` of `ConnectionManager` |
| `PacketHeader`, `MessageHeader` | - | serialisation | - |
| `NSFImpl` | the three managers | forwards calls, wires callbacks | all |
| `Utils.hpp`, `InternalTypes.hpp` | - | circular comparison of 16-bit numbers | the two managers |

What is hard, and what makes each part correct:

- *PacketManager*: four structures at two ends (sent ring, received ring, ack
  field, ack bits) must speak of the same packets under every loss and
  reordering; numbers wrap at 2^16, rings at 1024. Correct means: an
  acknowledgement is true, given once, and complete within the window.
- *ChannelManager*: a message may be under way in several packets while acks
  of some of them return. Correct means: reliable messages are delivered in
  order, once, without gaps, from the first one; a message is forgotten by its
  sender only when it has been read; updateSend empties its queues and ends,
  and no packet is larger than 1350 bytes.
- *ConnectionManager*: handshake packets cross, repeat and outlive sessions,
  and several packets of one connection are handled in one frame before the
  pass that erases it. Correct means: the three layers' peers follow the
  connections, no assertion fails, attempts and disconnects end; with the real
  times, handshakes succeed, connections are kept while heartbeats get lost now
  and then, and a stopped process is noticed.
- *NSFImpl*: packets name addresses, not sessions, and the managers are told of
  connections in the middle of a frame. Correct means: nothing is acknowledged
  that the other application never gets, whatever becomes of the connections.
- *UdpSocket*: the search for a port must end, with a port of its own.

`PROJECT.json` lists every hazard found at its line, with the properties that
cover it or the reason none does yet.

## 2. Modules

| Module | Models |
|---|---|
| `SequenceNumbers` | numbers of width `SeqCycle` (2^16 in the code) and their comparison |
| `PacketPeer` | one end's acknowledgement record and the operations on it |
| `PacketManager` | two ends, the network, and what each end has got |
| `PacketAcks` | the abstract promise of the packet layer: true news, and all recent news |
| `AckBits` | the ack field as a word, and the two shift loops over it |
| `ChannelPeer` | one end's two channels and the operations on them, with sizes in bytes |
| `ReliableLink` | channels over packet layer at both ends of one connection |
| `OrderedChannel` | the abstract promise of the reliable channel |
| `EstablishedLink` | `ReliableLink` from the middle of a connection on, and its refinement of `OrderedChannel` |
| `ConnectionManager` | handshake, heartbeat, timeout, disconnect at all processes, and the peers that follow |
| `Session` | `NSFImpl`: `ConnectionManager` with a `PacketPeer` and a `ChannelPeer` behind every announced connection |
| `UdpSocket` | the search for a port, the drop counter |
| `TimedConnections` | `ConnectionManager` over `UdpSocket` with a clock, frames, latency, losses in a row, and processes that stop |
| `PacketManagerInvariant`, `ReliableLinkInvariant`, `ConnectionManagerInvariant`, `TimedConnectionsInvariant`, `KeptConnections`, `SessionInvariant` | the inductive invariants, and the assumptions they need beyond the module's own (that of `EstablishedLink` stands in that module) |
| `PacketPeerProofs`, `PacketManagerProofs`, `ChannelPeerProofs`, `ReliableLinkProofs`, `EstablishedLinkProofs`, `ConnectionManagerProofs`, `SessionProofs`, `TimedConnectionsProofs` | the proofs (section 4) |
| `MC...` | constants and symmetry for TLC |

How they correspond to the code:

- An action is a whole handler, with everything the handler calls. `ReliableLink!onReceivePacket`
  reads the packet's messages first and handles the acks second, as
  `ConnectionManager::onReceivePacket` does; `sendPacket` is one iteration of
  updateSend's loop, taking the number, the ack fields and the messages.
- `phase` is where a process's thread is: other processes move between the
  packets of one `updateReceive` and one `updateSend`, the own application
  does not.
- The network is the set of all packets ever sent. Delivering one does not
  remove it, so each may come late, again and again, or never.
- A ring of received packets is the set of its `RECEIVED` slots, because the
  code never reads more of it. The ack bits are the set of their distances;
  `AckBits` shows, for every header on the network, that writing and reading
  them by shifts agree.
- A message is its number and its size. What `onWritePacket` puts in a packet
  is computed from byte sizes, with the test in `size_t` wrapping below zero as
  in the code (`SizeCycle`). `due` is the test of `sentTimeMs`: it turns true
  when the resend time passes, oldest message first.
- `ConnectionManager` has no clock: every pass chooses which timers have
  elapsed. The timers of the code are milliseconds of one clock, so this allows
  more than the code does. `TimedConnections` adds the clock: the same actions
  with the timers computed from ages in ticks. Frames come every tick and take no
  time; at most one user packet per frame is modelled, because more change no timer.
- In `Session` whatever arrives from an address is handled by the connection
  the address has now, as in the code. `session` in a packet is history, only
  read by the property. Everything due fits one packet there, so one step is
  the whole loop of `updateSend` for a connection.
- A process that stops never comes back under its address with the old state:
  nothing is persisted, and a restart is a new process that connects anew
  (the reconnection of `Session`).
- `peers` stands for `PacketManager::m_peers`, `ChannelManager::m_peers` and
  what the application was told, because `NSFImpl`'s callbacks tell all three.
- Definitions whose comment describes something the code does *not* do (a
  dropped test, an off-by-one) stand before the definition they alter. They
  are not part of any specification; each shows that a property would notice.

## 3. What is checked

| Run | Instance | Result |
|---|---|---|
| `PacketAcks_NoWrap` | cycle 16, ring 4, window 2, 4 packets per end | acks true and once, `newest` right, the ack bits read as written, `PacketManager` implements `PacketAcks` (acks complete within the window); the invariant of the proofs |
| `PacketAcks_RingWrap` | 6 packets on 4 slots | **`AckTruthful` violated** |
| `ReliableLink_Stream` | 3 messages one way, 1 back, 2 per packet | order, no loss after reading, no early retirement; `LinkInv` |
| `ReliableLink_Established` | both channels, messages of 700 bytes, answers of 40 | `OrderedChannel` is implemented; updateSend gets on and drains; packets stay within 1350 bytes; `EstablishedInv` |
| `ReliableLink_FirstGap` | as Stream | **`DeliveredFromFirst` violated** |
| `ReliableLink_Stuck` | messages of 1330 bytes | **`SendLoopProgress` violated** |
| `Connections_TwoClients` | 1 server, 2 clients, a reconnection | peers follow, no assertion fails, clients connect to servers that accepted them; `IInv` |
| `Connections_Liveness` | 1 server, 1 client, 2 sessions, a retry | attempts and disconnects end |
| `Session_Single` | 1 server, 1 client, 1 session, 1 message each way | the peers of all managers agree, nothing is acknowledged that nobody gets; `SessionInv` |
| `Session_Reconnect` | the client connects twice | **`RetiredWasGiven` violated** |
| `TimedConnections_KeepAlive` | 1 server, 1 client, ticks of 125 ms, losses, a crash, one port for two | handshake succeeds, connections are kept, a stop is noticed, ports are found; `TimedInv`, `KeptInv` |
| `TimedConnections_Handshake` | the server's application talks | **`HandshakeSucceeds` violated** |

`LinkInv`, `EstablishedInv`, `IInv`, `SessionInv`, `TimedInv` and `KeptInv` are
the inductive invariants of section 4: the runs check them before anything is
proved from them, and fail when one of the definitions they rest on is altered.

### What the violated runs show

- *RingWrap.* The received ring is never cleaned and a slot's number is not
  compared, so from packet 1024 on a lost packet is acknowledged because of
  the one 1024 before it, and its reliable messages are lost.
- *FirstGap.* The test for a gap is an int difference and the first
  `lastDelivered` is 65535: any first arrival passes as the next message, and
  earlier ones are dropped when they come.
- *Stuck.* A message of 1328 to 1336 bytes is accepted by `send` but never fits
  behind a packet header; `updateSend` sends empty packets and does not return.
- *Reconnect.* A client that lost its half of a session and connects again is
  accepted by what is left of the old one. Old packets then speak for the new
  session. In the trace the ack of the old packet 0 erases a message that
  still waits to be sent, because waiting messages carry packet number 0. (The
  second defect bites within one session, too, as soon as a second message
  waits when packet 0 is acknowledged. `Session_Single` sends one message each
  way and so does not meet it.)
- *Handshake.* When the acceptance is lost only a heartbeat can stand for it:
  repeated requests are ignored, and a user packet from the server is dropped
  by the client that still waits, yet it postpones the server's heartbeat. The
  client fails after five attempts, or the server times out first, although
  no two packets in a row are lost.

Four more departures have no run of their own. With `NearlySizes` (659 bytes)
`PacketWithinLimit` is violated: after two such messages 1337 bytes are used,
the room left, 1336 - 1337, wraps, and everything else is appended. With
`IdCycle` = 2 and three connections `NoAssertFails` is violated: ids are
reused without looking. `CONNECTION_FAILED` is never left except by
`disconnect`, so `connect` to the same address is refused. On a client
`disconnect(id)` means everyone.

The passing properties say exactly what is left around these: contiguous *from
the first message delivered*, nothing lost *that has travelled in a packet*,
and `OrderedChannel` in full *once both packets 0 and the first messages are
behind*. `EstablishedLink` starts in such a state, one that `ReliableLink`
reaches.

### Bounds

The alphabets are small but every boundary is inside them. `SeqCycle` = 16
keeps the start value 15, the comparison's half and the first numbers apart.
A window of 2 against 4 packets makes news fall off its end. Four
packets on four slots fill the rings; six wrap them. Three messages in three
packets give a stored message, a gap that closes, and a resend under a new
packet number whose old ack is still under way. Two connections per process
are a session and its successor; the network keeps all packets of the first
for the second. `Attempts` = 2 is one request, then failure; 3 has a retry
(the code's 5 are four requests, because it decrements first);
`TimedConnections` has the 5.

The byte sizes are the code's. 700 bytes let one message of two into a packet
and leave an unreliable one behind. `size_t` has 2^16 values instead of 2^64:
only the wrap below zero matters.

In `TimedConnections` a tick is 125 ms, a frame and the latency, so the code's
1500, 1000 and 5000 ms are 12, 8 and 40 ticks. The network loses at most one
packet of the server in a row, and every second packet of the client goes to
its drop counter. `TimesAssumption` says when that many losses fit into a timeout;
with these times it holds with equality, so one more loss in a row would break
it: each loss costs a heartbeat, and as the server counts silence from the
request on, both directions' losses share one timeout. In `KeepAlive` only the
client's application talks (`Senders`), for the reason `Handshake` shows.

Packet and message numbers are followed for less than one cycle. In particular
nothing here speaks of a connection's packets beyond 65535.

### Fairness

`FairSpec` assumes of each process that again and again a pass over the
connections finds every outstanding request older than the retry time. An
application that keeps calling `updateReceive`, a socket loop that ends, and a
clock that runs justify this. The network is under no fairness, and neither
are the other calls of the application.

## 4. What is proved

Everything here holds for every value of the constants that satisfies the
named assumptions: any number of processes, messages, packets, any times, ring
and cycle lengths.

| Module | Theorems | Beyond the module's own assumptions |
|---|---|---|
| `PacketPeerProofs` | comparison of circular numbers: `AheadIsGreater`, `ComparisonDecides`, `ComparisonAsymmetric`; what each operation on a `PacketPeer` does; induction and recursion up to a number | - |
| `PacketManagerProofs` | `TypeOK`, `AckTruthful`, `AckedOnce`, `NewestIsLatest`, `Refinement` of `PacketAcks` | `NoWrapAssumption` |
| | `AckWordRoundTrip`: the shift loops of `AckBits` undo each other; `BitsAgree` | - (`NoWrapAssumption` for `BitsAgree`) |
| `ChannelPeerProofs` | what each operation on a `ChannelPeer` does, the bytes of a packet, what fits it (lemmas) | - |
| `ReliableLinkProofs` | `TypeOK`, `DeliveredContiguous`, `ReadNotForgotten`, `StoredWaitsForGap`, `RetiredAfterRead`, and the step property `SendLoopDrains` | `BoundsAssumption` |
| | `PacketWithinLimit` | and `NeverNearlyFull` of both ends' sizes |
| | the step property `SendLoopProgress` | and `EachFitsAlone` |
| `EstablishedLinkProofs` | `Refinement` of `OrderedChannel`, and the two above from the middle of a connection on | `EstablishedAssumption` |
| `ConnectionManagerProofs` | `TypeOK`, `PeersMatchConnections`, `NoAssertFails`, `ConnectedWasAccepted` | `IdsAssumption` |
| `SessionProofs` | a session is a behaviour of `ConnectionManager`; `SessionTypeOK`, and through the former all theorems of `ConnectionManagerProofs` | `IdsAssumption` |
| | `RetiredWasGiven` | `OneMessage`, and one connection per process or `[]OneSession` |
| `TimedConnectionsProofs` | `TimedTypeOK`, `StopNoticed`, `BindEnds` | `IdsAssumption`, `PortsAssumption` |
| | `KeptAlive`, `HandshakeSucceeds` | and `HandshakeAssumption` |

### The assumptions

- `NoWrapAssumption`: an end sends at most as many packets as the ring has
  slots, and the ring is less than half a cycle (1024 of 65536). Without the
  first, `AckTruthful` is false: see RingWrap. In the code it covers the first
  1024 packets each way. `BoundsAssumption` says the same of a link, and keeps
  messages within the first half cycle.
- `NeverNearlyFull`: no combination of the sizes an end sends fills a packet
  to within a message header (1337 to 1341 bytes), where the test for room
  wraps. `PacketWithinLimit` is false without it (`NearlySizes`). Sizes of 700
  bytes, and of 40, satisfy it: `MCEstablishedLink` names the fillings, and TLC
  evaluates that assumption.
- `EachFitsAlone`: a size that `send` accepts fits a packet behind its header,
  that is, no message has 1328 to 1336 bytes. `SendLoopProgress` is false
  without it: see Stuck.
- `EstablishedAssumption`: there is room for the three messages and the packets
  that precede the start.
- `IdsAssumption`: a process makes fewer connections than there are ids. The
  code reuses ids without looking, and `NoAssertFails` is then false.
- `OneMessage`: an application sends one reliable message to each peer.
  `OneSession`: at every moment, all user packets one process has sent another
  are of one connection, and of the present one if there is one; processes that
  connect once satisfy it (`RetiredMeansGivenOnce`). Without either
  `RetiredWasGiven` is false, and for the reasons given above for Reconnect: an
  earlier session's acks speak for the next, and a second message may wait
  under the number of packet 0 while that packet's ack comes.
- `PortsAssumption`: fewer ports are taken than `createHost` makes attempts,
  and the attempts are fewer than there are ports: a host where every port the
  search tries is taken is outside the theorem.
- `HandshakeAssumption`: servers' applications do not talk, and a client's
  attempts last longer than its lost requests, the server's lost answers and
  the way there and back. Without the first, `HandshakeSucceeds` is false: see
  Handshake. A server that talks only once its client has answered is outside
  the theorem, too, because `Senders` does not tell when.
- `TimesAssumption`, a module's own, says that the timeout covers the losses in
  a row both ways; it allows a drop counter only where there are two processes,
  because with more a connection may lose every packet to it.

### The packet layer

`AckTruthful` is not inductive: it does not say why the header a packet
carries is true when the packet arrives. `PacketManagerInvariant!IInv` follows
the news: the received ring marks exactly the packets got (`ReceivedRing`);
what a header names was marked when it was built, and marks stay
(`HeaderTrue`); slot *i* of the sent ring holds packet *i* or is untouched
(`SentRing`), so a number the sender finds there is its own slot's and, by the
header, got; and a reported packet's slot stays ACKED (`ReportedAcked`), which
is `AckedOnce`. The start value 65535 cannot match because its slot holds a
smaller number. `NewestInv` adds what `newest` is before and after the first
arrival, using that the comparison is plain `>` on the first half of the cycle
and that every such number is greater than the start value - which fails for a
ring of half a cycle.

The refinement needs the converse, that no news is lost: `NewsInv` says that a
header names every packet its sender had got within the window
(`HeaderComplete`, which rests on `NewestInv`: a window below a number that is
not the newest would miss some) and that a slot is ACKED only if its packet
was reported (`AckedReported`). A step of `onReceivePacket` then maps to
`Deliver` with the newly acked packets as the news, `onSendPacket` to `Send`.

That the set of distances may stand for the field is `AckWordRoundTrip`. After
*i* iterations the word written is less than 2^*i*, so that no shift loses a
bit, and twice what it was before, plus the bit of distance *i*; halving it in
the reading loop therefore goes back through the same words.

### The channels

The receiver's properties do not follow from one another: a message delivered
twice would be one that `lastDelivered` has forgotten. `InStep` ties all of the
receiver's state to one unknown, the first number that arrived: what was
delivered and what waits for delivery are runs of consecutive numbers from
there, the number after them is missing, and the store holds everything read
beyond it. Handing over one message keeps this (`MessageInStep`: it is old,
waits, or closes the gap together with a run of the store); that a whole packet
of messages does is an induction over finite sets. The library's induction
theorems cannot be used (they take an operator); instead the fold of
`ChannelPeer` is shown to satisfy its recursion, and the induction runs on the
well-foundedness of strict inclusion, as a least counterexample.

The sender's half is why an ack means what it says. `FiledUnderCarrier`: a
message that has travelled is filed under a packet that carried it (a resend
files it anew, under a packet that carries it too). `ReceivedRead`: an end has
read what the packets it marks carried. `HeaderTrue` and `SentRing` are those
of the packet layer. With `NumberedOnce` an ack of the packet a message is filed
under is news of that packet only, and the message was read:
`RetiredAfterRead`.

`EstablishedInv` adds that packet 0 is acknowledged, which removes the
departure FirstGap shows and the premature ack of waiting messages
(`FiledMeansWritten`: packet number 0 is never a reason), and that the first
message delivered was number 0. Then every step maps to one of
`OrderedChannel`: `sendReliable` to its `Accept`, an arriving packet with its
messages and its acks to `Packet`, the end of `updateReceive` to `HandOver`,
anything else to none.

What fits a packet is arithmetic over sets of messages. `Bytes` folds over a
set with `CHOOSE`; that it is a sum, from which any message may be taken first
(`BytesFacts`), is an induction over finite sets, again as a least
counterexample. `Filled` then follows a packet message by message in the order
of their numbers: each was found to have room behind those before it, so the
bytes used stay among the fillings that `NeverNearlyFull` provides, none of
which is beyond the limit. The reliable messages fill the packet to a filling,
the unreliable ones go on from there. `SizesInv` supplies what the lemma asks
of the queues: finitely many messages, each numbered once, of sizes the
application sends. For `SendLoopProgress` the first message that does not fit
is looked at: if no message due is before it, it has a packet to itself
(`PacketTakesMessage`).

### The connections

`PeersMatchConnections` needs to know which connections have been announced:
`StateSettles` says what the state says about `wasConnected`. It needs
`IdsDiffer`, because the callbacks name an id and a second connection with the
same one would be told or forgotten in its place. `ConnectedWasAccepted` is
about packets that may have been under way for long; `AcceptedInWriting` and
`OnlyServersAccept` say which of them can exist at all. Every handler marks one
connection at most and only in few ways; the pass of `updateReceive` over all
connections is the long case.

`Session` adds two managers and must not get in the way: the first theorem of
`SessionProofs` says its steps are steps of `ConnectionManager` or none.

`RetiredWasGiven` relates all of them: an ack is written by the packet layer,
for a message the channel has put in line, and the connections decide whether
the line is delivered. `SessionInv` follows the message. It waits until the
first packet, and from then on is filed under a packet that carries it
(`MessageKept`), so no ack can be about it before it has travelled. Where its
packet is marked it has been put in line (`MessageTaken`), and it is given in the
same frame or its connection goes, and the line with it (`MessageGiven`). A
header is written only between frames, when the line is empty: what it
acknowledges has been given (`AcksTrue`). `SessionsKnown` is what a new
connection needs: packets under way are of connections already announced, so a
connection that is announced starts with none of its own.

### Time

`StopNoticed` needs the way of a stopped process's last packets:
`ReadSoonAfterStop` bounds how long after the stop one may still be under way,
`SilenceCounted` how far a connection's count of silence can lag behind the
stop, and that a count never passes the timeout by more than the frame in which
the pass finds it. `DecidedInFrame` closes the gap between a request and the
pass that answers it, when there is a connection with nothing heard on it.

`BindEnds` is a counting argument. `PortsTried`: every port a search has tried
belongs to another program or to a process that has bound it. Attempts are
fewer than ports, so the ports tried differ; the pigeonhole needs the
cardinality theorems of the library.

`KeptAlive` and `HandshakeSucceeds` are about two ends and what is under way
between them, so neither end's clock is an invariant by itself. `EndsAgree`
says that the client is a step behind the server on the way up, and
`OnlyExpected` that no packet of an earlier session is left to disturb it (as
long as everyone runs there is no earlier session). `Waited` accounts for a
silence: it is that of the packets lost in a row, at a beat each, and of the
time since the last one was sent; or a packet is under way that will end it,
and the silence is not more than the losses allowed and that packet's age. Each
kind of step is one lemma: time passes (`WaitedTicks`), a packet is sent and
lost or not (`WaitedOut`), a packet arrives (`WaitedFresh`), the rest changes
nothing (`WaitedOn`). The server hears the client's first heartbeat only after
the handshake, which is what `before` allows for. `Asking` does the same
for requests: those sent were lost in a row, or one is under way, or the
server has read one and has been counting since. The drop counter needs
`LossesCounted`: after a drop it begins a round, so that the next packet
passes.

### Only model-checked

- Liveness, the packet layer beyond the first cycle of its rings, and numbers
  beyond the first half of their cycle.

`RetiredWasGiven` is neither checked nor proved for several messages in one
session. It is false in general; of those that have travelled,
`RetiredAfterRead` says the part that concerns the link.

## 5. Not modelled

- Round-trip times (real arithmetic nothing decides on), logging, the writing
  of header fields one by one.
- Calls of the application from inside its callbacks. They change `m_connections`
  under the loop that makes them: `connect` may reallocate it, and
  `disconnect(id)` in `onDisconnected` takes a connection that is about to be
  erased back to DISCONNECTING.
- Second cycles of packet and message numbers.
- How often an unreliable message of a duplicated packet is handed over.
- `NetworkPlayer`, the example.

## 6. Plan

The order is by weight for the user of the library. Done: packet layer,
reliable link in bytes with its abstract channel, connections, sessions, time
and the socket, the proofs above. Next:

1. Callbacks that re-enter `connect` and `disconnect`.
2. A link with a clock: a round trip longer than the resend time, and liveness
   of delivery under a fair network.
3. A link whose message numbers start just before the wrap.
4. `Session` with several clients, where broadcasts differ from unicasts (with
   one peer they coincide), in a smaller state space.

## 7. Running

    tlc -config PacketAcks_NoWrap.cfg MCPacketManagerInvariant
    tlapm PacketManagerProofs.tla

Each run's module is in `PROJECT.json`. The longest run takes about a minute
and a half on two cores, the longest proof module about six minutes.
