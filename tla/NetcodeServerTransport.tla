----------------------- MODULE NetcodeServerTransport -----------------------
(***************************************************************************)
(* RenetServer driven by the UDP transport of renet_netcode, with the      *)
(* local clients an application may add beside it.  The NetcodeServer is   *)
(* the set of clients it has in its slots (module NetcodeServer has the    *)
(* rest); its results come from the network.  A local client is a          *)
(* RenetClient that the application holds.                                 *)
(*                                                                         *)
(* view is what an application that follows the events takes to be the     *)
(* connected clients.                                                      *)
(***************************************************************************)
EXTENDS RenetServer

CONSTANTS RemoteIds, LocalIds,   \* ids of netcode clients and of local clients
          MaxPackets,            \* bound on the packets one update receives
          MaxEvents              \* bound on the events an application leaves in the queue

ASSUME IdsAssumption ==
  /\ Ids = RemoteIds \cup LocalIds /\ RemoteIds \cap LocalIds = {}
  /\ IsFiniteSet(Ids) /\ MaxPackets \in Nat

VARIABLES server, netcode, local, view

transportVars == <<server, netcode, local, view>>

\* Both layers, as handle_server_result has them at hand.
Layers == [server |-> server, netcode |-> netcode]

\* process_packet of the NetcodeServer and handle_server_result for its result.
Receive(layers, packet) ==
  IF packet.type = "Response" /\ packet.id \notin layers.netcode THEN
    [server |-> AddConnection(layers.server, packet.id), netcode |-> layers.netcode \cup {packet.id}]
  ELSE IF packet.type = "Disconnect" /\ packet.id \in layers.netcode THEN
    [server |-> RemoveConnection(layers.server, packet.id), netcode |-> layers.netcode \ {packet.id}]
  ELSE IF packet.type = "Invalid" /\ packet.id \in layers.netcode THEN
    [layers EXCEPT !.server = DisconnectWithReason(@, {packet.id}, "Error")]
  ELSE layers

\* The loop over the packets the socket has.
Received(layers, arrivals) ==
  LET after[k \in 0 .. Len(arrivals)] ==
        IF k = 0 THEN layers ELSE Receive(after[k - 1], arrivals[k])
  IN  after[Len(arrivals)]

\* Mutant of Drop: the result of NetcodeServer::disconnect is not handled.
DropUnhandled(layers, id) == [layers EXCEPT !.netcode = @ \ {id}]

\* NetcodeServer::disconnect (or a timeout) and handle_server_result.
Drop(layers, id) ==
  IF id \in layers.netcode
  THEN [server |-> RemoveConnection(layers.server, id), netcode |-> layers.netcode \ {id}]
  ELSE layers

\* order is the one in which a loop meets the clients: that of the slots or of a HashMap.
DropAll(layers, ids, order) ==
  LET after[k \in 0 .. Len(order)] ==
        IF k = 0 THEN layers
        ELSE IF order[k] \in ids THEN Drop(after[k - 1], order[k]) ELSE after[k - 1]
  IN  after[Len(order)]

\* A HashMap's iteration meets its members in any order.
OrdersOf(S) == Injection(1 .. Cardinality(S), S)

Orders == OrdersOf(RemoteIds)

\* What a packet can do here; an Invalid one holds a payload the connection rejects.
Packets == [type : {"Response", "Disconnect", "Invalid"}, id : RemoteIds]
Arrivals == UNION {[1 .. n -> Packets] : n \in 0 .. MaxPackets}

Becomes(layers) == server' = layers.server /\ netcode' = layers.netcode

Queued == Len(server.events) < MaxEvents

\* update, for the packets that arrive and the clients update_client finds timed out.
Updated(arrivals, timed_out, order) ==
  LET updated == DropAll(Received(Layers, arrivals), timed_out, order)
  IN  DropAll(updated, DisconnectionsId(updated.server), order)

-----------------------------------------------------------------------------
\* Mutant of Update: clients the server disconnected are left to the network.
UpdateWithoutDisconnects(arrivals, timed_out, order) ==
  /\ Queued
  /\ Becomes(DropAll(Received(Layers, arrivals), timed_out, order))
  /\ UNCHANGED <<local, view>>

Update(arrivals, timed_out, order) ==
  /\ Queued
  /\ Becomes(Updated(arrivals, timed_out, order))
  /\ UNCHANGED <<local, view>>

\* The socket fails: update returns before it looks at timeouts and disconnections.
UpdateFails(arrivals) ==
  /\ Queued
  /\ Becomes(Received(Layers, arrivals))
  /\ UNCHANGED <<local, view>>

(***************************************************************************)
(* send_packets, send_message and the broadcasts: an operation fails for   *)
(* some connected clients, whose packets cannot be serialized or whose     *)
(* channel is out of memory.                                               *)
(***************************************************************************)
SendFails(failing) ==
  /\ failing \subseteq ClientsId(server)
  /\ server' = DisconnectWithReason(server, failing, "Error")
  /\ UNCHANGED <<netcode, local, view>>

TransportDisconnectAll(order) ==
  /\ Queued
  /\ Becomes(DropAll(Layers, netcode, order))
  /\ UNCHANGED <<local, view>>

Kick(ids) ==
  /\ ids \subseteq DOMAIN server.connections
  /\ server' = DisconnectWithReason(server, ids, "DisconnectedByServer")
  /\ UNCHANGED <<netcode, local, view>>

\* What an application makes of an event.
Follow(known, event) ==
  IF event.type = "ClientConnected" THEN known \cup {event.id} ELSE known \ {event.id}

GetEvent ==
  /\ server.events # <<>>
  /\ view' = Follow(view, Head(server.events))
  /\ server' = [server EXCEPT !.events = Tail(@)]
  /\ UNCHANGED <<netcode, local>>

-----------------------------------------------------------------------------
NewLocalClient(id) ==
  /\ Queued /\ id \notin DOMAIN local
  /\ server' = AddConnection(server, id)
  /\ local' = [x \in DOMAIN local \cup {id} |-> IF x = id THEN "Connected" ELSE local[x]]
  /\ UNCHANGED <<netcode, view>>

\* The application drops the client once it has called disconnect_local_client.
DisconnectLocalClient(id) ==
  /\ Queued /\ id \in DOMAIN local
  /\ server' = IF local[id] = "Connected" THEN RemoveConnection(server, id) ELSE server
  /\ local' = Restrict(local, DOMAIN local \ {id})
  /\ UNCHANGED <<netcode, view>>

\* The two sides exchange their packets; each side may find an error in them.
ProcessLocalClient(id, clientFails, serverFails) ==
  /\ id \in DOMAIN local /\ id \in DOMAIN server.connections
  /\ local[id] = "Connected" /\ ~ IsDisconnected(server, id)
  /\ local' = [local EXCEPT ![id] = IF clientFails THEN "Disconnected" ELSE @]
  /\ server' = IF serverFails /\ ~ clientFails
               THEN DisconnectWithReason(server, {id}, "Error") ELSE server
  /\ UNCHANGED <<netcode, view>>

\* The application calls disconnect on the local RenetClient, or an operation fails.
LocalClientDisconnects(id) ==
  /\ id \in DOMAIN local /\ local[id] = "Connected"
  /\ local' = [local EXCEPT ![id] = "Disconnected"]
  /\ UNCHANGED <<server, netcode, view>>

Updates ==
  \E arrivals \in Arrivals, timed_out \in SUBSET netcode, order \in Orders :
    Update(arrivals, timed_out, order)

TransportNext ==
  \/ Updates
  \/ \E arrivals \in Arrivals : UpdateFails(arrivals)
  \/ \E order \in Orders : TransportDisconnectAll(order)
  \/ \E ids \in (SUBSET Ids) \ {{}} : SendFails(ids) \/ Kick(ids)
  \/ GetEvent
  \/ \E id \in LocalIds :
       \/ NewLocalClient(id) \/ DisconnectLocalClient(id) \/ LocalClientDisconnects(id)
       \/ \E c, s \in BOOLEAN : ProcessLocalClient(id, c, s)

-----------------------------------------------------------------------------
(***************************************************************************)
(* The events, replayed from what the application knows, alternate between *)
(* connected and disconnected and end at the connections the server has:   *)
(* an application that follows them misses no client and frees none twice. *)
(***************************************************************************)
EventsTellTheTruth ==
  LET events == server.events
      known[k \in 0 .. Len(events)] == IF k = 0 THEN view ELSE Follow(known[k - 1], events[k])
  IN  /\ \A k \in DOMAIN events :
           events[k].type = "ClientConnected" <=> events[k].id \notin known[k - 1]
      /\ known[Len(events)] \cap Ids = DOMAIN server.connections

(***************************************************************************)
(* Between calls of the transport, the clients the NetcodeServer has in    *)
(* its slots are the remote connections of the RenetServer: no connection  *)
(* without a peer, and no peer whose payloads find no connection.          *)
(***************************************************************************)
LayersAgree == netcode = DOMAIN server.connections \ LocalIds
=============================================================================
