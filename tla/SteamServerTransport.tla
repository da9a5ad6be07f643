------------------------ MODULE SteamServerTransport ------------------------
(***************************************************************************)
(* RenetServer driven by the Steam transport.  peer is where Steam has the *)
(* connection of each user, socket the events its listen socket queues for *)
(* the server; module Steam says how they come about.  The application     *)
(* takes the server's events at once: what they tell it is the subject of  *)
(* module NetcodeServerTransport.                                          *)
(***************************************************************************)
EXTENDS RenetServer

CONSTANTS MaxClients,      \* max_clients
          Permitted,       \* the ids access_permission admits
          MaxEvents        \* bound on the listen socket's queue

ASSUME SteamAssumption == MaxClients \in Nat /\ Permitted \subseteq Ids

VARIABLES server, connections, peer, socket

serverVars == <<server, connections, peer, socket>>

ServerInit ==
  /\ server = NewRenetServer
  /\ connections = {}
  /\ peer = [id \in Ids |-> "idle"]
  /\ socket = <<>>

Drained(renetServer) == [renetServer EXCEPT !.events = NewRenetServer.events]

Layers == [server |-> server, connections |-> connections, peer |-> peer]

\* The answer to a Connecting event.
Admit(layers, id) == Cardinality(ClientsId(layers.server)) < MaxClients /\ id \in Permitted

\* The connection an event tells of is over: its end is behind it in the queue.
Stale(k) == \E j \in k + 1 .. Len(socket) : socket[j].id = socket[k].id

\* Mutant of Handle: the transport keeps a connection Steam has ended.
HandleKeepsEnded(layers, k) ==
  LET id == socket[k].id IN
  IF socket[k].type = "Connected" THEN
    [layers EXCEPT !.server = AddConnection(@, id), !.connections = @ \cup {id}]
  ELSE IF socket[k].type = "Disconnected" THEN [layers EXCEPT !.server = RemoveConnection(@, id)]
  ELSE IF Stale(k) THEN layers
  ELSE [layers EXCEPT !.peer[id] = IF Admit(layers, id) THEN "accepted" ELSE "idle"]

\* Mutant of Handle: the limit is checked again, and the connection dropped in silence.
HandleChecksAgain(layers, k) ==
  LET id == socket[k].id IN
  IF socket[k].type = "Connected" THEN
    IF ~ Admit(layers, id) THEN layers
    ELSE [layers EXCEPT !.server = AddConnection(@, id), !.connections = @ \cup {id}]
  ELSE IF socket[k].type = "Disconnected" THEN
    [layers EXCEPT !.server = RemoveConnection(@, id), !.connections = @ \ {id}]
  ELSE IF Stale(k) THEN layers
  ELSE [layers EXCEPT !.peer[id] = IF Admit(layers, id) THEN "accepted" ELSE "idle"]

\* The k-th event of the listen socket; a peer that gave up is neither accepted nor rejected.
Handle(layers, k) ==
  LET id == socket[k].id IN
  IF socket[k].type = "Connected" THEN
    [layers EXCEPT !.server = AddConnection(@, id), !.connections = @ \cup {id}]
  ELSE IF socket[k].type = "Disconnected" THEN
    [layers EXCEPT !.server = RemoveConnection(@, id), !.connections = @ \ {id}]
  ELSE IF Stale(k) THEN layers
  ELSE [layers EXCEPT !.peer[id] = IF Admit(layers, id) THEN "accepted" ELSE "idle"]

\* The loop over the events.
Handled ==
  LET after[k \in 0 .. Len(socket)] == IF k = 0 THEN Layers ELSE Handle(after[k - 1], k)
  IN  after[Len(socket)]

Becomes(layers) ==
  server' = Drained(layers.server) /\ connections' = layers.connections /\ peer' = layers.peer

-----------------------------------------------------------------------------
\* invalid: the connected clients that sent a payload their connection rejects.
Update(invalid) ==
  /\ Becomes([Handled EXCEPT
       !.server = DisconnectWithReason(@, invalid \cap Handled.connections, "Error")])
  /\ socket' = <<>>

\* Closing a connection ends it on Steam's side, with no event for the server; one that
\* had ended, and perhaps been followed by a request for another, stays as it is.
Closed(ids) == [id \in Ids |-> IF id \in ids /\ peer[id] = "connected" THEN "idle" ELSE peer[id]]

\* Mutant of DisconnectClient: the closed connection stays in the map.
DisconnectClientKeepsEntry(id) ==
  /\ peer' = Closed({id} \cap connections)
  /\ server' = Drained(RemoveConnection(server, id))
  /\ UNCHANGED <<connections, socket>>

DisconnectClient(id) ==
  /\ connections' = connections \ {id}
  /\ peer' = Closed({id} \cap connections)
  /\ server' = Drained(RemoveConnection(server, id))
  /\ UNCHANGED socket

DisconnectAll ==
  /\ connections' = {}
  /\ peer' = Closed(connections)
  /\ server' = [server EXCEPT !.connections = Restrict(@, DOMAIN @ \ connections)]
  /\ UNCHANGED socket

\* send_packets, send_message or a broadcast fails for some connected clients.
SendFails(failing) ==
  /\ failing \subseteq ClientsId(server)
  /\ server' = DisconnectWithReason(server, failing, "Error")
  /\ UNCHANGED <<connections, peer, socket>>

\* RenetServer::disconnect and disconnect_all
Kick(ids) ==
  /\ ids \subseteq DOMAIN server.connections
  /\ server' = DisconnectWithReason(server, ids, "DisconnectedByServer")
  /\ UNCHANGED <<connections, peer, socket>>

Updates == \E invalid \in SUBSET Ids : Update(invalid)

ServerNext ==
  \/ Updates
  \/ DisconnectAll
  \/ \E ids \in (SUBSET Ids) \ {{}} : SendFails(ids) \/ Kick(ids)
  \/ \E id \in Ids : DisconnectClient(id)

-----------------------------------------------------------------------------
(***************************************************************************)
(* The Steam connections the transport holds are the connections of the    *)
(* RenetServer, whichever side ended a connection and however the end of   *)
(* one and the start of the next are queued.                               *)
(***************************************************************************)
SteamLayersAgree == connections = DOMAIN server.connections

(***************************************************************************)
(* Every connection the transport holds is one Steam still has, or one     *)
(* whose end is in the listen socket's queue.                              *)
(***************************************************************************)
HeldConnectionsEnd ==
  \A id \in connections :
    peer[id] = "connected" \/ \E k \in DOMAIN socket : socket[k] = [type |-> "Disconnected", id |-> id]
=============================================================================
