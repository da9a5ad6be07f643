# A TLA+ model of renet

renet is a network library for games: messages over channels with different
guarantees, on top of an authenticated connection over UDP (or over Steam).
This directory models the parts of it that keep state, checks them with TLC on
small instances and proves some of the results with TLAPS for every instance.
`PROJECT.json` maps every definition to the lines it models and lists the runs,
the mutants, the hazards and the theorems.

## 1. The system

| part | source | state | operations | what is hard |
|---|---|---|---|---|
| pending acks | `renet/src/remote_connection.rs` | sorted list of ranges of received packets | `add_pending_ack`, `acked_largest` | packets in any order, merging, the limit |
| packets | `renet/src/packet.rs` | none | `to_bytes`, `from_bytes` | unsigned differences, ranges written backwards, fields read by position, buffer sizes |
| reliable channel, sending | `renet/src/channel/reliable.rs` | unacked messages, memory | `send_message`, `get_packets_to_send`, ack handlers | byte budget, resends, slices in turns |
| reliable channel, receiving | same, `slice_constructor.rs` | slices, messages, received ids, memory | `process_message`, `process_slice`, `receive_message` | duplicates, late slices, out-of-order delivery, error paths |
| unreliable channel | `renet/src/channel/unreliable.rs` | queues, slices and their times, memory | both sides, discarding of old slices | reordering, two maps that must agree |
| connection | `renet/src/remote_connection.rs` | sequence numbers, sent packets, acks, channels | `send_message`, `receive_message`, `update`, `get_packets_to_send`, `process_packet` | loss, duplication, acks of acks, lost-packet timeout |
| statistics | `renet/src/connection_stats.rs` | ring of counters | `update`, `sent_packets`, `acked_packet`, `packet_loss` | late acks, skipped buckets, subtraction |
| server | `renet/src/server.rs` | connections, events | add, remove, disconnect, local clients | who removes what, and when the application learns of it |
| replay protection | `renetcode/src/replay_protection.rs` | ring of sequence numbers | `already_received`, `advance_sequence` | slots shared by sequence numbers |
| netcode client | `renetcode/src/client.rs` | handshake state, server index, clocks | `process_packet`, `update`, payloads, `disconnect` | timeouts, late packets, failover |
| netcode server | `renetcode/src/server.rs` | slots, pending clients, token entries | requests, responses, `update`, `disconnect` | concurrent handshakes, expiry, full tables |
| UDP transports | `renet_netcode/src/*.rs` | a socket and a netcode end | `update`, `send_packets`, `disconnect` | two layers with their own idea of who is connected, early returns |
| Steam transports | `renet_steam/src/*.rs` | Steam connections | the same | events queued by Steam, ends that Steam does not report |
| programs | `demo_chat`, `demo_bevy`, `bevy_renet` | rosters, projectiles | a frame: update, events, messages, send | joins and leaves in one frame |

A message goes from the application to a channel of its `RenetClient`, which
puts it, or slices of it, in packets with increasing sequence numbers. The
transport encrypts a packet with the netcode end and sends it. On the other
side the transport, the netcode end (which refuses replays) and the
`RenetClient` take it in turn; the `RenetClient` notes the sequence number in
`pending_acks`, and its next Ack packet tells the peer. The server has one
`RenetClient` for each connected client, kept by a `RenetServer`, which the
transport tells of clients that come and go and which tells the application
through events.

## 2. The modules

Modules above others in the list are used by them.

| module | models | state and actions |
|---|---|---|
| `AckRanges` | the list of ranges | operators; a range `start..end` is a record, the list a sequence |
| `AckCodec` | the encoding of an Ack packet | operators; the bytes are the numbers written as varints |
| `PacketCodec` | the encoding of packets with messages and slices | operators; the bytes are a sequence of fields, each with the bytes it takes |
| `PendingAcks` | acknowledgements at one end | `pending_acks`, `sent_packets` (Ack packets only), history `received`; one action per way the list changes |
| `Slices` | messages and slices | operators on sizes; a message is a model value with a size |
| `SendChannelReliable` | the sending side | a record per channel; `get_packets_to_send` by what it computes |
| `SendLoop` | the loops of `get_packets_to_send` | one channel; the loops as folds, compared with the former; every packet goes through `PacketCodec` |
| `ReceiveChannelReliable` | the receiving side | a record per channel; operations return it and `Ok` or not |
| `ReliableDelivery` | what `SendType::ReliableOrdered` and `::ReliableUnordered` promise | abstract: sequences of sent and delivered messages |
| `RenetConnection` | two `RenetClient`s and a network | functions of the two ends; one action per method and per kind of packet |
| `UnreliableChannel` | both sides of an unreliable channel and a network | one action per method; the network carries what `PacketCodec` writes |
| `ConnectionStats` | the packet counters | the ring, and how many packets of each time are outstanding |
| `ReplayWindow` | what the replay protection refuses | an operator on the set of sequence numbers let through |
| `ReplayProtection` | the ring buffer that computes it | the ring, history `accepted` |
| `NetcodePackets` | packets and connect tokens | operators; what a receiver can decode |
| `NetcodeClient`, `NetcodeServer` | the two ends of the handshake | a record; every method an operator from a record to a record and packets |
| `RenetClientStatus` | the status of a `RenetClient` as transports set it | operators on `Connecting`, `Connected` or the reason of the end |
| `NetcodeClientTransport` | the client's UDP transport | operators from a `NetcodeClient` and a status to both and packets |
| `Netcode` | clients with their transports, servers and a network | functions of addresses; one action per call an application or a transport makes |
| `RenetServer` | connections and events | operators on a record |
| `NetcodeServerTransport` | `RenetServer` over the UDP transport, local clients | `server`, `netcode` (who has a slot), `local`, `view` (what the application knows); an action per call, in any order |
| `Applications` | the server programs of the repository on that transport, and what their clients make of the messages | adds `sent`, `replica`, `projectile`, `panicked`; a frame of a program is an action |
| `SteamServerTransport` | `RenetServer` over the Steam transport | `server`, `connections`, Steam's own `peer` and `socket` |
| `Steam` | that server, Steam and the client transports | adds `client`, the two states of each user's client |

`MC*` modules give constants their values; `ConnectionLemmas`, `MemoryLemmas`,
`RenetConnectionSteps` and the `*Proofs` modules hold the proofs (section 4).

Abstractions made throughout:

* A payload is a model value with a size; a slice is the pair of the message
  and its index. Reassembly is defined on the slices collected: it yields the
  message that has exactly those slices.
* The network is the set of packets sent. In `RenetConnection` and `Netcode`
  any packet may be processed at any later time, again or never: that is loss,
  delay, reordering and duplication. In `Applications` a reliable channel is a
  queue, which is what `ReliableDelivery` promises, and in `Steam` the queue of
  events is Steam's.
* Encryption is abstract: a packet decodes exactly under the key it was made
  with. The replay window of a connection is the set of sequence numbers let
  through, of which `ReplayWindow` says what it refuses; `WindowIsExact` is that
  the ring of `ReplayProtection` refuses the same.
* Time is counted in ticks, each end having its own clock.
* Logging, error texts, addresses and user data as bytes are left out.
* Counters of 64 bits count packets or messages of one connection and are taken
  not to overflow; where the code subtracts unsigned numbers, a property says
  the result is not negative.

Points of the correspondence that are easy to miss:

* `process_packet` enters a packet in `pending_acks` before it looks at the
  content. `ProcessReliable` does so too; what keeps this from losing messages
  is that an error disconnects the end.
* `get_packets_to_send` of a connection serves the channels in the order of the
  configuration, each taking from `available_bytes_per_tick`. The model has one
  channel per direction, which is offered `AvailableBytes`.
* `Due`, `Chosen`, `Pushed`, `PacketItems` and `MarkSent` describe the result of
  the sending loops without a loop, which is what proofs need; `SendLoop` has
  the loops. `i + 1 % num_slices` is modelled as Rust parses it.
* A pending client of the netcode server keeps the keys of the request that
  created it (`or_insert_with`), while the challenge is made for the latest
  request.
* A timed-out or disconnected client is removed from the netcode server at once;
  `RenetServer` learns of it in `handle_server_result`, in the same call.
* The loops of the transports (`Received` over the packets of an update, over the
  disconnected clients, over the events of Steam) and of the programs
  (`HandleEvents`) are recursive functions of the number of turns made, whose
  value at the last turn is what the call leaves.
* `disconnect_local_client` returns early for a client that is disconnected.
* The client transport sets the status of the `RenetClient` from the state of
  the `NetcodeClient` before it reads any packet: a client is connected in one
  layer an update before it is in the other. `TransportUpdate` takes the
  `NetcodeClient` after the receive loop as an argument; `ClientReceive` has one
  packet in the loop, and several packets are several updates of duration 0.
* `new_local_client` makes the client's end with `new_from_server`
  (`renet/src/server.rs:277`): its channels are those of the other direction.
* In the Bevy programs the plugins order the systems of a frame; within
  `PostUpdate` the removal of projectiles and `send_packets` are not ordered, and
  a message written after `send_packets` goes out one frame later. A queue of
  messages does not tell the two apart.

## 3. The runs

| run | question | bounds |
|---|---|---|
| `pending_acks` | Is the list of ranges exact in any order of packets and acks? | 7 sequence numbers, limit of 2 ranges, 2 Ack packets: enough for every case of `add_pending_ack` at the limit |
| `connection` | Does a reliable channel keep its promise over a bad network? | 2 messages, small or of two slices, 3 packets one way and 2 back, one tick at each end, after which everything is resent and taken for lost, memory for one sliced message, 2000 bytes a tick: one slice and one small message (the instance with 4 packets and no tick at the server, 809,518 states, holds as well) |
| `connection_reassembly` | Is a message assembled only once? (violated) | as above with 6 packets, unordered |
| `send_loop` | Is the description of the sending loops right, and do its packets survive the wire? | 3 messages of 600, 1200 (the largest unsliced) and more bytes, 4 budgets, 3 times |
| `replay_protection` | Is the window exact? | ring of 3, 10 sequence numbers: three times around |
| `unreliable_channel` | Reassembly, memory, discarding | 4 messages, one empty, two of them sliced; memory for part of them |
| `netcode_same_user` | Two handshakes of one user at once | 2 addresses, which share a token, and a second token of the same user, 1 server of 2 slots, 3 challenges, failing sockets; no clock |
| `netcode_lifecycle` | One connection from beginning to end | 2 tokens in turn, 1 slot, payloads of the server, expiry and timeout of 1, server clock to 2, `set_max_clients` of 0 and 1 |
| `netcode_failover` | Does connecting come to an end, and do both layers end? | 2 servers, expiry at 4, timeout of 1, client clock to 6: beyond expiry and all timeouts |
| `applications` | Do the layers, the application and its clients agree? | 2 remote clients, 1 local, 2 packets per update, one event left in the queue; the four programs |
| `steam_transport` | The same over Steam, with the clients | 2 users, 1 place, 3 queued events |
| `connection_stats` | Is the loss a fraction? | 4 buckets of 2 ticks, updates of 1, 3 and 8 ticks (8 is a full turn), clock to 15: a bucket is reused and counted again |

What they show, by property:

* `RangesSeparated`, `OnlyReceivedIsAcked`, `ReceiveForgetsNothing`,
  `AckedLargestIsExact`: the ranges stay sorted and apart, cover only received
  packets, and change by exactly what was received or acknowledged, except for
  the oldest range given up at the limit. `AckPacketRoundTrip`: such a list
  survives the encoding, and no subtraction in it goes below zero.
* `NothingAckedIsMissing`: a sender forgets a message, or a slice, only when
  its peer has it. `DeliversReliably`: the connection implements
  `ReliableDelivery`; `sent` and `delivered` map to themselves, `in_order` is
  the set of ends whose receiving channel is ordered. `MemoryIsAccounted`: the
  memory counters are the memory in use and stay within the limits.
* `LoopIsDescribed`, `SlicesTakeTurns`: see section 2; a slice that was never
  sent goes before one that was. `PacketsSurviveTheWire`: every packet the loop
  makes fits the buffer and netcode's limit and is read back as it was, for
  short and long sequence numbers.
* `WindowIsExact`, `NoReplay`: a sequence number is refused exactly when it was
  let through before or has left the window.
* `SlicesHaveTimes`: the `expect` in `discard_incomplete_old_slices` never
  fails. `DeliveredAtMostOnce`, `IncompleteIsGivenUp`: no duplicates, and no
  incomplete message holds memory for ever.
* `SeatsAreConsistent`, `OneAddressPerToken`, `NoLateSeat`: no user and no
  address has two slots, a slot has the data of its token, a token serves one
  address (while the table of tokens is large enough), and none is seated after
  expiry. `ConnectedWasSeated`: a client takes itself for connected only after
  its server gave it that slot for that token. `ConnectingEnds`: a client does
  not try for ever. `EndsTogether`: whichever of `RenetClient` and
  `NetcodeClient` ends first, the other follows.
* `EventsTellTheTruth`: the events alternate and lead to the connections the
  server has. `LayersAgree`, `SteamLayersAgree`, `HeldConnectionsEnd`: the
  transport and the `RenetServer` know the same clients.
  `DisconnectedIsRemoved`: a disconnected client is removed in time.
* `RostersConverge`, `AuthorsAreKnown`, `ProjectilesEnd`: what a client makes of
  the messages of the chat, the game and the example. It has the players the
  server has, whatever mix of joins and leaves a frame handles; it knows the
  author of a text; and it removes the projectiles the game removed.
* `EndReachesClient`, `ConnectedIsServed`: a Steam client learns of the end of
  its connection, is answered when it asks to connect, and is served once
  connected.
* `LossIsAFraction`, `OutstandingIsCounted`: no bucket counts more acks than
  packets, so that `packet_loss` does not underflow.

Deadlock is checked except where a bound (packets, time) ends every behaviour.

Every property has a mutant, a change of one mapped definition such as a
dropped guard or a missing reset, under which TLC finds the property violated.

### Fairness

* `netcode_failover`: weak fairness of a client's `update`, which an application
  calls on every tick. Nothing is assumed of the network or of the servers.
* `unreliable_channel`: weak fairness of `update`, for the same reason.
* `applications`: fairness of the transport's `update` and of `get_event`, both
  of which an application calls in its loop, for the program that makes any call
  at any time. That of `update` is strong, since the bound on the event queue
  disables it now and then, and since the socket may fail on some calls, though
  not on all of them. The programs that work in frames have invariants only.
* `steam_transport`: weak fairness of the `update` of the server's transport and
  of each client's, which are called on every frame. Nothing is assumed of Steam.

### Differences between comments and code

`connection_reassembly` is expected to fail. `process_slice` says "Message
already assembled" where it returns early, but an unordered channel does not
recognise a message it delivered out of order: a late copy of a slice opens a
new constructor and reserves its memory, which is given back only if all the
slices come again. The application still gets the message only once.

The modules also contain these behaviours, which no run asks about:

* The limit of 64 pending ranges (`remote_connection.rs:658`) is not applied when
  a range is inserted before another one (646-650).
* `discard_incomplete_old_slices` stops at the first message that is recent
  enough, on the ground that later messages were sent later
  (`unreliable.rs:204`); the times are those of arrival, so that an old message
  may be kept longer than 3 seconds, though not for ever.
* After `set_max_clients` lowered the limit, clients that are pending are still
  seated; after it raised the limit, the slots are as many as before, and a
  client is challenged and then denied (`renetcode/src/server.rs:478`).
* `disconnect_local_client` leaves the connection of a client that disconnected
  itself before (`renet/src/server.rs:287`).
* `RenetServer::disconnect` has no effect on the Steam transport, whose `update`
  does not ask for `disconnections_id` (`renet_steam/src/server.rs:146`); nor
  does `RenetClient::disconnect` close a client's Steam connection.
* The places of a Steam server are counted when a user asks to connect and taken
  when Steam reports the connection, so that more than `max_clients` may have
  been accepted in between (`renet_steam/src/server.rs:163`).
* The chat server panics when a client connects and leaves in one update
  (`demo_chat/src/server.rs:64`, `unwrap` of its user data), and, as the example
  of `bevy_renet` does, on an error of the transport.
* The game answers a new client with the players its query found at the start of
  the frame. If one of them left earlier in the same frame, the client is told
  of the removal first and of the player afterwards, and keeps it; this is why
  `RostersConverge` asks for no more than all the players there. The example
  (`bevy_renet/examples/simple.rs`) tells a client of one that joined before it
  in the same frame twice.

## 4. The proofs

Each theorem is for every value of the constants under these assumptions, which
TLC evaluates for the instances of the runs. Packet numbers, sizes, times,
limits and bounds are naturals, the limit on ranges, the replay buffer and a
second positive ones (`MaxAckRangesAssumption`, `PacketSequencesAssumption`,
`WindowAssumption`, `ReplayAssumption`, `MessagesAssumption`,
`SendChannelAssumption`, `ReceiveChannelAssumption`, `ConnectionAssumption`,
`TimeAssumption`). Each connect token has a key of its own and at least one host,
no host has a client's address, and the limits of a server are positive
(`NetcodeAssumption`, `ServerAssumption`). Remote and local clients of a
`RenetServer` are different and finitely many, the chat's host and the game's bot
are not clients (`IdsAssumption`, `AppsAssumption`), and a Steam server has a
number of places (`SteamAssumption`). The statistics have at least three buckets,
and packets are forgotten before all buckets but one have passed
(`StatsAssumption`; in the code there are 20 buckets of 300 ms and packets are
forgotten after 3 s).

The provers have no induction. Where a proof needs one, over the turns of a loop
or the size of a set, it comes from `SetInduction`, a lemma on sets of numbers
that follows from the least element of a nonempty set. A recursive function in a
model is a `CHOOSE`, so each loop has two lemmas: that a function with the
recursive equation exists, and what its value after any number of turns is.

### Pending acks

`ConnectionLemmas` has the lemmas on the operators: what each case of
`add_pending_ack` (extend after, extend before, merge, insert, append at the
limit) and `acked_largest` do to the numbers covered, and that the ranges stay
separated.

`ComponentProofs` proves `AcksIInv == AcksTypeOK /\ RangesSeparated /\
OnlyReceivedIsAcked` inductive. The separation is needed for everything else:
the search in `add_pending_ack` stops at the first range that is adjacent, and
`acked_largest` at the first that ends later, which is right only for a sorted
list. From it follow, for every limit and every order of packets,

* `TypeCorrect`, `AlwaysSeparated`, `AcksAreHonest`: the invariants of the run;
* `ReceiveIsExact`, `AckIsExact`: the action properties of the run;
* `AckPacketsSurvive`: every list a connection can have is written without a
  subtraction below zero, and read back as it was. `to_bytes` writes the ranges
  from the last one, each as its size and the gap to the one written before;
  the proof goes through the ranges in that order and shows that the start
  `from_bytes` has reached is the start of the range just read.

### Reliable channels and the connection

`ConnectionLemmas` has the lemmas on the two sides of a channel: the order
of the sending loop is total, so that packets get consecutive numbers; every
piece sent is a piece of a message that was given; what `process_message`,
`process_slice` and `receive_message` keep and return; `receive_message` gives
an id once, and in an ordered channel after all smaller ones.

`RenetConnectionSteps` and `RenetConnectionProofs` prove `IInv` inductive:

* `Numbered`: a packet number of an end stands for one packet, whose parts are
  pieces of messages that end was handed;
* `SentOK`: what `sent_packets` records under a number is what its packet carries;
* `AcksOK`: an end that is not disconnected holds the pieces of every packet its
  `pending_acks` cover, and an Ack packet covers only packets whose pieces its
  sender holds;
* `ChannelsOK`: ids, messages and collected slices of both channels agree with
  the messages sent and delivered;
* `NothingAckedIsMissing` itself.

The lemmas before the steps are in `RenetConnectionSteps`, with the steps of
`process_packet`; `RenetConnectionProofs` has the other steps and the theorems.
`NothingAckedIsMissing` alone is not inductive: an acknowledgement speaks of
packet numbers, and only `SentOK`, `Numbered` and `AcksOK` together lead from
the number to the pieces. The condition on `disconnected` is what makes
`add_pending_ack` before the content safe: after an error the number stays in
`pending_acks`, and no Ack packet is sent any more. Results:

* `TypesStayCorrect`, `NothingAckedGetsLost`: invariants of the run;
* `MemoryStaysAccounted`: the memory counter of either side of a channel is the
  memory in use, for every size and number of messages. The counters are sums
  over the messages held, and `MemoryLemmas` first shows that a sum over a finite
  set does not depend on the order in which the elements are taken, and what adding
  or removing one does to it. The invariant (`MemoryUsed`) gives every message id
  the size of the message sent under it, whether or not it is held, so that a step
  changes only the set added up. The error path that could break it is
  `process_message` at the end of `process_slice`: it has room always, because the
  reservation of the slices was given back just before and is no smaller than the
  message.
* `ConnectionDeliversReliably`: the refinement. Initial states map to initial
  states; an accepted `send_message` is a `Send`, `receive_message` a `Deliver`,
  and every other step leaves the mapped variables alone.

### Netcode

`NetcodeProofs` has the server's side first, then the clients and transports. The
key of a connect token ties things together: the invariant says that the data in
challenges, responses, pending connections and slots is that of the token with
their key, that a keep-alive tells of a slot its server once gave for that key
and address, and that no pending connection outlives its token by the server's
clock. The last one holds because `update` removes expired pending connections in
the call that moves the clock. Results:

* `SeatsStayConsistent`: the Response handler looks for the id in the challenge
  token, and seats the id of the pending connection; they are the same one;
* `ConnectedClientsWereSeated`: packets of earlier tokens or servers do not make
  a client connected;
* `NeverSeatedLate`: the Response handler need not look at the expiry;
* `TokensStayAtOneAddress`: a token serves one address, if there are no more
  tokens than `TokenEntries` (`TokensFit`). `find_or_add_connect_token_entry`
  overwrites the oldest entry of a full table, so without that assumption the
  property is false. `OneAddressPerToken` speaks of those seated, and is not
  inductive: the invariant adds that every pending connection, every slot and
  everyone ever seated has its entry in the table, that the entries are of
  different tokens, and so that there is room for a token that has none.

`NetcodeTypeCorrect` is `TypeOK`, with its own invariant: no client is ahead of its
clock in any time it notes, one that is connecting or connected has a host of its
token to talk to, and a server stays within its slots, its pending connections and
its token entries. The client subtracts the times it notes from its clock
(`time_since_last_received_packet`, `generate_packet`), and so never underflows. The bounds of the server are counts, which is
why the conclusion stands at the end of the module, behind the theorems on finite
sets.

A section of the module is about the ring buffer of the replay protection, for every
buffer size: `RingTypeCorrect`, `ExactWindow` (`WindowIsExact`) and
`NeverReplayed` (`NoReplay`). By `WindowIsExact` the ring refuses exactly what
`WindowRefuses` refuses, which is the operator by which the packets of `Netcode`
are decoded. It is not inductive; its strengthening says that a slot holds a
number that was let through and belongs there, and that every number let through
is found in its slot unless a newer one is. Two numbers in the same slot differ by
at least the buffer size, so that the older one has left the window.

### The server, its transport and the programs

`ApplicationsProofs` is about `Applications`, and with it
`NetcodeServerTransport` and `RenetServer`, for any number of clients, packets in
an update and events in the queue. The first invariant is `Told(view, server) /\
LayersAgree`: replaying the queued events on what the application knows, each one
tells something new, and the last one leads to the clients the server has. The
turns of a loop do not keep it as it is, since between `add_connection` and the
end of an update the layers differ: `Kept` and `LayersOK` are what every turn
keeps. From it

* `TransportLayersAgree`: after every call the netcode layer and the
  `RenetServer` have the same remote clients, whatever came in the update;
* `EventsAreTrue`: the application, reading its events, never learns that a
  client joined whom it knows, or left whom it does not know.

`Rosters` is the invariant on the programs that work in frames. It speaks of what
a client will have when it has read all it was sent (`Shows`): all players the
server has, in the chat and the example no other, no projectile the game does not
have, and every author of a text known when the text is read (`Serves`). Within
the loop over the events of a frame this is false, as a client that joins later in
the frame has been sent nothing yet, or only a part: `Follows` weakens it by the
players the frame began with, until the client's own event has been handled.

* `RostersDoConverge`, `AuthorsAreAlwaysKnown`, `ProjectilesDoEnd`: the three
  invariants of the run, for any number of clients that join and leave in a frame
  in any order.

### The Steam transport

`SteamProofs`: an event of a user in Steam's queue may be stale when it is
handled. The invariant says, for every user and every position of the queue, that
a connection the transport holds is one Steam has or one whose `Disconnected` is
still in the queue, that no user it holds has a `Connected` in the queue, and that
a `Connecting` behind which nothing of the user follows is one Steam still waits
for. Each turn of the loop over the queue moves the position.

* `SteamLayersStayEqual`: the transport has a Steam connection for exactly the
  clients of the `RenetServer`;
* `HeldConnectionsDoEnd`: no connection that Steam has ended stays without an
  event that will remove it.

### The statistics

`ComponentProofs`, second part. A bucket is reset when the clock comes to it, and
with it what it says of the packets of an earlier turn of the ring; an ack of one of
them would then be counted where no packet was. `StatsInv` is `OutstandingIsCounted`
with the types and that no packet was sent after now. That it is kept rests on
`SameBucket`: two times that are less than `DISCARD_AFTER` apart and fall in one
bucket of the ring fall in one bucket of time, so that the clock does not leave
and re-enter a bucket while `RenetClient::update` holds a packet of it. It holds for
every number and length of buckets and every duration `update` may be called with,
one that skips a whole turn included.

* `OutstandingStaysCounted`, `LossStaysAFraction`: the invariants of the run.

### Only model-checked

* Liveness (`ConnectingEnds`, `EndsTogether`, `IncompleteIsGivenUp`,
  `DisconnectedIsRemoved`, `EndReachesClient`, `ConnectedIsServed`) and the absence
  of deadlock: the prover does neither fairness nor `ENABLED`.
* That the packets of the sending loops are read back as they were
  (`PacketsSurviveTheWire`), and that the loops of `SendLoop` compute what
  `SendChannelReliable` describes (`LoopIsDescribed`, `SlicesTakeTurns`): the
  loops and the readers are folds over sequences with operators as arguments,
  which the provers cannot instantiate.
* The invariants of `UnreliableChannel` (`SlicesHaveTimes`, `MemoryIsAccounted`,
  `DeliveredAtMostOnce`): its network carries what `PacketCodec` writes, so that a
  proof would need the round trip of the encoding first, and its loops are folds too.

## 5. Not modelled

* Cryptography and the byte layout of netcode packets and tokens: they compute
  without state, and are covered by the tests of the crate. A packet decodes
  under its key and not under another.
* The byte counters and the round-trip time of a connection: display data.
* Several channels in one connection: a channel is offered any amount of bytes
  the others may leave, and its packets and numbers are its own.
* The scheduler of Bevy: the order of systems that the plugins ask for is the
  order of a frame in `Applications`. The visualizer, movement, input and user
  interfaces of the demos.
* That a reliable message is delivered in the end: the model has bounds on time
  and packets, within which a network that loses packets need not let one
  through; without them the counters grow and TLC does not end.

## 6. Plan

1. `RenetConnection` with two channels that share `available_bytes_per_tick` and
   the packet numbers.
2. Delivery in the end, of an abstraction in which packet numbers and times are
   compared only.
3. The memory that late slices hold in an unordered channel, and when it is given
   back.
4. `SendLoop` and `PacketCodec` with recursive functions in place of folds, and the
   proofs of their properties; then those of `UnreliableChannel`.
