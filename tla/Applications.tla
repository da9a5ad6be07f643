---------------------------- MODULE Applications ----------------------------
(***************************************************************************)
(* The server programs of the repository on top of RenetServer and its UDP *)
(* transport, with the rosters their clients keep: the chat demo (chat),   *)
(* the Bevy demo (game), the example of bevy_renet (simple), and a program *)
(* that makes any legal call at any time (any).  The first three work in   *)
(* frames: update the transport, take all events, read the clients'        *)
(* messages, send.  In the Bevy programs the plugins fix that order.       *)
(*                                                                         *)
(* view is the server's roster (usernames, lobby).  The reliable ordered   *)
(* channel to a client is a queue, which is what module ReliableDelivery   *)
(* promises.  Of an entity only its identity is kept.                      *)
(***************************************************************************)
EXTENDS NetcodeServerTransport

CONSTANTS Apps,          \* the programs to check
          Host, Bot,     \* the chat's host and the game's bot, players without a client
          MaxSent        \* bound on the messages on their way to a client when a frame starts

ASSUME AppsAssumption == Apps \subseteq {"any", "chat", "game", "simple"} /\ {Host, Bot} \cap Ids = {}

VARIABLES app,         \* the program that runs
          sent,        \* messages on their way to each client
          replica,     \* what each client has made of those it got
          projectile,  \* whether the game has its projectile
          panicked

appVars == <<app, sent, replica, projectile, panicked>>
vars == <<transportVars, appVars>>

NewReplica == [players |-> {}, projectile |-> FALSE]

\* ChatServer::new puts the host among the usernames.
NewView == IF app = "chat" THEN {Host} ELSE {}

Init ==
  /\ app \in Apps
  /\ server = NewRenetServer /\ netcode = {} /\ local = <<>> /\ view = NewView
  /\ sent = [id \in Ids |-> <<>>]
  /\ replica = [id \in Ids |-> NewReplica]
  /\ projectile = FALSE /\ panicked = FALSE

-----------------------------------------------------------------------------
(***************************************************************************)
(* A program's state while it handles its events: its roster, what it has  *)
(* sent, whether it panicked; layers are those the transport left.         *)
(***************************************************************************)
Broadcast(state, layers, message) ==
  [state EXCEPT !.sent = [id \in Ids |->
     IF id \in ClientsId(layers.server) THEN Append(@[id], message) ELSE @[id]]]

SendAll(state, layers, id, messages) ==
  IF id \in ClientsId(layers.server) THEN [state EXCEPT !.sent[id] = @ \o messages] ELSE state

Joins(id) == [type |-> "Joins", id |-> id]
Leaves(id) == [type |-> "Leaves", id |-> id]

\* A message for each of a set of players, in the order of a query or of a HashMap.
JoinsAll(players) == CHOOSE joins \in OrdersOf({Joins(id) : id \in players}) : TRUE

Left(state, layers, id) ==
  Broadcast([state EXCEPT !.view = @ \ {id}], layers, Leaves(id))

\* Mutant of ChatConnected: the new client gets the usernames before its own is among them.
ChatConnectedEarly(state, layers, id) ==
  IF id \notin layers.netcode THEN [state EXCEPT !.panicked = TRUE]
  ELSE SendAll(Broadcast([state EXCEPT !.view = @ \cup {id}], layers, Joins(id)),
               layers, id, << [type |-> "InitClient", players |-> state.view] >>)

\* user_data(client_id).unwrap() panics for a client that has left by then.
ChatConnected(state, layers, id) ==
  IF id \notin layers.netcode THEN [state EXCEPT !.panicked = TRUE]
  ELSE SendAll(Broadcast([state EXCEPT !.view = @ \cup {id}], layers, Joins(id)),
               layers, id, << [type |-> "InitClient", players |-> state.view \cup {id}] >>)

\* players: those the query finds, which are the ones at the start of the frame.
GameConnected(state, layers, id, players) ==
  Broadcast([SendAll(state, layers, id, JoinsAll(players)) EXCEPT !.view = @ \cup {id}],
            layers, Joins(id))

SimpleConnected(state, layers, id) ==
  Broadcast([SendAll(state, layers, id, JoinsAll(state.view)) EXCEPT !.view = @ \cup {id}],
            layers, Joins(id))

\* players: as for GameConnected.
HandleEvent(state, layers, event, players) ==
  IF state.panicked THEN state
  ELSE IF event.type = "ClientDisconnected" THEN Left(state, layers, event.id)
  ELSE IF app = "chat" THEN ChatConnected(state, layers, event.id)
  ELSE IF app = "game" THEN GameConnected(state, layers, event.id, players)
  ELSE SimpleConnected(state, layers, event.id)

\* The loop over the events.
HandleEvents(state, layers) ==
  LET events == layers.server.events
      handled[k \in 0 .. Len(events)] ==
        IF k = 0 THEN state ELSE HandleEvent(handled[k - 1], layers, events[k], state.view)
  IN  handled[Len(events)]

Touched(layers, id) == \E k \in DOMAIN layers.server.events : layers.server.events[k].id = id

(***************************************************************************)
(* The loop over the clients' messages, with one message from one client:  *)
(* a text that the chat broadcasts, or an attack by a player the game's    *)
(* query finds.  The input of a player is not seen here.                   *)
(***************************************************************************)
ReadsText(state, layers, from) == Broadcast(state, layers, [type |-> "Says", id |-> from])

ReadsAttack(state, layers, from) ==
  IF state.projectile \/ Touched(layers, from) THEN state
  ELSE Broadcast([state EXCEPT !.projectile = TRUE], layers, [type |-> "Spawn"])

HandleMessages(state, layers, from) ==
  IF from \notin ClientsId(layers.server) \/ app = "simple" THEN state
  ELSE IF app = "chat" THEN ReadsText(state, layers, from)
  ELSE ReadsAttack(state, layers, from)

\* A connection that ended in this update took its channel with it, and its client.
Before(layers) ==
  [view |-> view, panicked |-> FALSE, projectile |-> projectile,
   sent |-> [id \in Ids |-> IF Touched(layers, id) THEN <<>> ELSE sent[id]]]

\* A panic ends the program, and with it every connection and client.
Panics ==
  /\ panicked' = TRUE
  /\ server' = NewRenetServer /\ netcode' = {} /\ view' = NewView
  /\ sent' = [id \in Ids |-> <<>>]
  /\ replica' = [id \in Ids |-> NewReplica]
  /\ projectile' = FALSE
  /\ UNCHANGED <<app, local>>

FrameEnds(state, layers) ==
  IF state.panicked THEN Panics
  ELSE
    /\ server' = [layers.server EXCEPT !.events = <<>>] /\ netcode' = layers.netcode
    /\ view' = state.view /\ sent' = state.sent /\ projectile' = state.projectile
    /\ replica' = [id \in Ids |-> IF Touched(layers, id) THEN NewReplica ELSE replica[id]]
    /\ UNCHANGED <<app, local, panicked>>

Framed == app # "any" /\ ~ panicked /\ \A id \in Ids : Len(sent[id]) <= MaxSent

\* Mutant of Frame: the clients' messages are read before the events.
FrameReadsFirst(arrivals, timed_out, order, from) ==
  /\ Framed
  /\ LET layers == Updated(arrivals, timed_out, order)
     IN  FrameEnds(HandleEvents(HandleMessages(Before(layers), layers, from), layers), layers)

Frame(arrivals, timed_out, order, from) ==
  /\ Framed
  /\ LET layers == Updated(arrivals, timed_out, order)
         handled == HandleEvents(Before(layers), layers)
     IN  FrameEnds(HandleMessages(handled, layers, from), layers)

\* The socket fails: the chat unwraps the result, the example panics on a transport error.
FrameFails(arrivals, from) ==
  /\ Framed
  /\ \/ /\ app = "game"
        /\ LET layers == Received(Layers, arrivals)
           IN  FrameEnds(HandleMessages(HandleEvents(Before(layers), layers), layers, from), layers)
     \/ /\ app # "game"
        /\ Panics

\* The host's text box and kick button, between two frames.
HostSays ==
  /\ Framed /\ app = "chat"
  /\ sent' = Broadcast(Before(Layers), Layers, [type |-> "Says", id |-> Host]).sent
  /\ UNCHANGED <<transportVars, app, replica, projectile, panicked>>

HostKicks(id) ==
  /\ Framed /\ app = "chat" /\ id \in ClientsId(server)
  /\ Kick({id})
  /\ UNCHANGED appVars

\* A client's channel runs out of memory, or one of its packets cannot be built.
SendFailsIn(id) == Framed /\ SendFails({id}) /\ UNCHANGED appVars

SpawnBot ==
  /\ Framed /\ app = "game" /\ Bot \notin view
  /\ view' = view \cup {Bot}
  /\ sent' = Broadcast(Before(Layers), Layers, Joins(Bot)).sent
  /\ UNCHANGED <<server, netcode, local, app, replica, projectile, panicked>>

BotAutocast ==
  /\ Framed /\ app = "game" /\ Bot \in view /\ ~ projectile
  /\ projectile' = TRUE
  /\ sent' = Broadcast(Before(Layers), Layers, [type |-> "Spawn"]).sent
  /\ UNCHANGED <<transportVars, app, replica, panicked>>

\* Mutant of ProjectileRemoved: the clients are not told.
ProjectileRemovedInSilence ==
  /\ Framed /\ projectile
  /\ projectile' = FALSE
  /\ UNCHANGED <<transportVars, app, sent, replica, panicked>>

\* update_projectiles_system and projectile_on_removal_system
ProjectileRemoved ==
  /\ Framed /\ projectile
  /\ projectile' = FALSE
  /\ sent' = Broadcast(Before(Layers), Layers, [type |-> "Despawn"]).sent
  /\ UNCHANGED <<transportVars, app, replica, panicked>>

\* The program is started again.
Restart == panicked /\ panicked' = FALSE /\ UNCHANGED <<transportVars, app, sent, replica, projectile>>

-----------------------------------------------------------------------------
\* A client's handling of one message, in the example, in the chat and in the game.
ApplyRoster(r, message) ==
  [r EXCEPT !.players = IF message.type = "Joins" THEN @ \cup {message.id} ELSE @ \ {message.id}]

ApplyChat(r, message) ==
  CASE message.type = "InitClient" -> [r EXCEPT !.players = message.players]
    [] message.type = "Says" -> r
    [] OTHER -> ApplyRoster(r, message)

ApplyGame(r, message) ==
  IF message.type \in {"Spawn", "Despawn"} THEN [r EXCEPT !.projectile = message.type = "Spawn"]
  ELSE ApplyRoster(r, message)

Apply(r, message) ==
  IF app = "chat" THEN ApplyChat(r, message)
  ELSE IF app = "game" THEN ApplyGame(r, message)
  ELSE ApplyRoster(r, message)

ReceiveMessage(id) ==
  /\ id \in ClientsId(server) /\ sent[id] # <<>>
  /\ replica' = [replica EXCEPT ![id] = Apply(@, Head(sent[id]))]
  /\ sent' = [sent EXCEPT ![id] = Tail(@)]
  /\ UNCHANGED <<transportVars, app, projectile, panicked>>

Frames ==
  \E arrivals \in Arrivals, timed_out \in SUBSET netcode, order \in Orders, from \in Ids :
    Frame(arrivals, timed_out, order, from)

AnyCall == app = "any" /\ TransportNext /\ UNCHANGED appVars

Next ==
  \/ AnyCall
  \/ Frames
  \/ \E arrivals \in Arrivals, from \in RemoteIds : FrameFails(arrivals, from)
  \/ HostSays \/ SpawnBot \/ BotAutocast \/ ProjectileRemoved \/ Restart
  \/ \E id \in RemoteIds : HostKicks(id) \/ SendFailsIn(id) \/ ReceiveMessage(id)

(***************************************************************************)
(* The fairness is that of the program whose calls come in any order: its  *)
(* loop updates the transport and drains the events.  The fairness of      *)
(* updates is strong: the bound MaxEvents disables them at times, and the  *)
(* socket may fail, though not for ever.                                   *)
(***************************************************************************)
Spec ==
  /\ Init /\ [][Next]_vars
  /\ SF_vars(app = "any" /\ Updates /\ UNCHANGED appVars)
  /\ WF_vars(app = "any" /\ GetEvent /\ UNCHANGED appVars)

-----------------------------------------------------------------------------
(***************************************************************************)
(* A remote connection that is disconnected, by the application or by an   *)
(* error, is removed, so that the application gets its event; a program    *)
(* that works in frames removes it in the next one.                        *)
(***************************************************************************)
DisconnectedIsRemoved ==
  \A id \in RemoteIds :
    app = "any" /\ id \in DisconnectionsId(server) ~> id \notin DisconnectionsId(server)

\* What a client will have once it has read the first n messages on their way to it.
Reads(id, n) ==
  LET read[k \in 0 .. n] == IF k = 0 THEN replica[id] ELSE Apply(read[k - 1], sent[id][k])
  IN  read[n]

(***************************************************************************)
(* Once a connected client has read what was sent to it, it has every      *)
(* player of the server's roster, however many joins and leaves fell into  *)
(* the frames since it came; in the chat and in the example it has no      *)
(* other.  (The game may show it one that left in the frame it came in.)   *)
(***************************************************************************)
RostersConverge ==
  app # "any" =>
    \A id \in ClientsId(server) :
      LET players == Reads(id, Len(sent[id])).players
      IN  view \subseteq players /\ (app # "game" => players = view)

(***************************************************************************)
(* A text of the chat reaches a client after the name of its author: the   *)
(* client never shows a new message as one of an unknown user.             *)
(***************************************************************************)
AuthorsAreKnown ==
  \A id \in ClientsId(server) : \A k \in DOMAIN sent[id] :
    sent[id][k].type = "Says" => sent[id][k].id \in Reads(id, k - 1).players

(***************************************************************************)
(* A client that has read what was sent to it shows no projectile that the *)
(* game has removed.                                                       *)
(***************************************************************************)
ProjectilesEnd ==
  \A id \in ClientsId(server) : Reads(id, Len(sent[id])).projectile => projectile
=============================================================================
