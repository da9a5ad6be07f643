----------------------------- MODULE RenetServer -----------------------------
(***************************************************************************)
(* RenetServer as its transports see it: the connections with their status *)
(* and the events for the application.  What happens inside a connection   *)
(* is the subject of module RenetConnection; here an operation on it fails *)
(* or not, and a failed one disconnects it with a reason.                  *)
(***************************************************************************)
EXTENDS Integers, Sequences, FiniteSets, Functions

CONSTANT Ids

NewRenetServer == [connections |-> <<>>, events |-> <<>>]

IsDisconnected(r, id) == r.connections[id] # "Connected"

ClientsId(r) == {id \in DOMAIN r.connections : ~ IsDisconnected(r, id)}
DisconnectionsId(r) == {id \in DOMAIN r.connections : IsDisconnected(r, id)}

\* Mutant of AddConnection: the event is pushed for a known client too.
AddConnectionAgain(r, id) ==
  [connections |-> [x \in DOMAIN r.connections \cup {id} |->
                      IF x = id THEN "Connected" ELSE r.connections[x]],
   events |-> Append(r.events, [type |-> "ClientConnected", id |-> id])]

AddConnection(r, id) ==
  IF id \in DOMAIN r.connections THEN r
  ELSE [connections |-> [x \in DOMAIN r.connections \cup {id} |->
                           IF x = id THEN "Connected" ELSE r.connections[x]],
        events |-> Append(r.events, [type |-> "ClientConnected", id |-> id])]

RemoveConnection(r, id) ==
  IF id \notin DOMAIN r.connections THEN r
  ELSE [connections |-> Restrict(r.connections, DOMAIN r.connections \ {id}),
        events |-> Append(r.events, [type |-> "ClientDisconnected", id |-> id])]

\* disconnect_with_reason on each connection of a set; the first reason stays.
DisconnectWithReason(r, ids, reason) ==
  [r EXCEPT !.connections =
     [id \in DOMAIN @ |-> IF id \in ids /\ ~ IsDisconnected(r, id) THEN reason ELSE @[id]]]
=============================================================================
