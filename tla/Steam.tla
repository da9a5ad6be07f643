-------------------------------- MODULE Steam --------------------------------
(***************************************************************************)
(* The Steam transports of the server and of its clients, one client       *)
(* program per user.  Steam is external: a client asks to connect, Steam   *)
(* reports the connection once the server accepted it, and reports its end *)
(* to the server when the client closes it or it is lost, but not when the *)
(* server itself closed it.  The client is not told: it asks Steam for the *)
(* state of its connection.                                                *)
(***************************************************************************)
EXTENDS SteamServerTransport, RenetClientStatus

VARIABLE client    \* of each user: the ConnectionState of the transport, the RenetClient's status

vars == <<serverVars, client>>

Init ==
  /\ ServerInit
  /\ client = [id \in Ids |-> [state |-> "Disconnected", renet |-> "Transport"]]

-----------------------------------------------------------------------------
\* Steam: the connection of a user moves on, and the server is told.
Report(id, from, to, type) ==
  /\ peer[id] = from /\ Len(socket) < MaxEvents
  /\ peer' = [peer EXCEPT ![id] = to]
  /\ socket' = Append(socket, [type |-> type, id |-> id])
  /\ UNCHANGED <<server, connections>>

Established(id) == Report(id, "accepted", "connected", "Connected") /\ UNCHANGED client

Ends(id) == \E from \in {"connecting", "accepted", "connected"} : Report(id, from, "idle", "Disconnected")

Lost(id) == Ends(id) /\ UNCHANGED client

-----------------------------------------------------------------------------
\* A new RenetClient and SteamClientTransport::new_p2p or new_ip.
NewClient(id) ==
  /\ client[id].state = "Disconnected"
  /\ Report(id, "idle", "connecting", "Connecting")
  /\ client' = [client EXCEPT ![id] = [state |-> "Connected", renet |-> "Connecting"]]

\* What get_connection_info says of the transport's connection.
ClientIsDisconnected(id) == client[id].state = "Disconnected" \/ peer[id] = "idle"

\* Mutant of ClientUpdate: the state Steam reports is asked only while connected.
ClientUpdateOnceConnected(id) ==
  /\ client' = [client EXCEPT ![id] =
       IF ClientIsDisconnected(id) /\ client[id].renet # "Connecting"
       THEN [state |-> "Disconnected", renet |-> Ended(@.renet, "Transport")]
       ELSE [@ EXCEPT !.renet = SetStatus(@, peer[id] = "connected")]]
  /\ UNCHANGED serverVars

ClientUpdate(id) ==
  /\ client' = [client EXCEPT ![id] =
       IF ClientIsDisconnected(id) THEN [state |-> "Disconnected", renet |-> Ended(@.renet, "Transport")]
       ELSE [@ EXCEPT !.renet = SetStatus(@, peer[id] = "connected")]]
  /\ UNCHANGED serverVars

\* SteamClientTransport::disconnect: the connection is closed if Steam still has it.
ClientDisconnect(id) ==
  /\ client[id].state = "Connected"
  /\ client' = [client EXCEPT ![id].state = "Disconnected"]
  /\ \/ Ends(id)
     \/ peer[id] = "idle" /\ UNCHANGED serverVars

\* RenetClient::disconnect, or an error in a packet or a channel, which ends it alike:
\* Steam is not told.
RenetClientEnds(id) ==
  /\ client' = [client EXCEPT ![id].renet = Ended(@, "DisconnectedByClient")]
  /\ UNCHANGED serverVars

Next ==
  \/ ServerNext /\ UNCHANGED client
  \/ \E id \in Ids :
       \/ Established(id) \/ Lost(id)
       \/ NewClient(id) \/ ClientUpdate(id) \/ ClientDisconnect(id) \/ RenetClientEnds(id)

(***************************************************************************)
(* Both applications call update on every frame.                           *)
(***************************************************************************)
Spec ==
  /\ Init /\ [][Next]_vars
  /\ WF_vars(Updates /\ UNCHANGED client)
  /\ \A id \in Ids : WF_vars(ClientUpdate(id))

-----------------------------------------------------------------------------
(***************************************************************************)
(* A client whose connection is gone, refused or closed by the server,     *)
(* closed by itself or lost, is told: its RenetClient is disconnected,     *)
(* unless the user has started again by then.                              *)
(***************************************************************************)
EndReachesClient ==
  \A id \in Ids :
    ClientIsDisconnected(id) ~> client[id].renet \in RenetReasons \/ ~ClientIsDisconnected(id)

(***************************************************************************)
(* A client that asks to connect gets an answer, and one whose RenetClient *)
(* takes itself to be connected gets its connection at the server, unless  *)
(* Steam ends the connection first.                                        *)
(***************************************************************************)
ConnectedIsServed ==
  \A id \in Ids :
    /\ peer[id] = "connecting" ~> peer[id] # "connecting"
    /\ peer[id] = "connected" ~> id \in connections \/ peer[id] # "connected"
=============================================================================
