----------------------------- MODULE SteamProofs -----------------------------
(***************************************************************************)
(* The Steam transport of the server for every number of users, every      *)
(* limit and every length of the listen socket's queue.                    *)
(*                                                                         *)
(* A connection the transport holds is one of Steam's, unless its end is   *)
(* queued.  That a Connected event does not enter one that ended needs to  *)
(* be known of the queue: what it holds of a user is in the order in which *)
(* Steam's connection of the user went through its states.                 *)
(***************************************************************************)
EXTENDS Steam, WellFoundedInduction, TLAPS

(***************************************************************************)
(* Induction, on a set in place of a predicate.                            *)
(***************************************************************************)
LEMMA SetInduction ==
  ASSUME NEW S, 0 \in S, \A n \in Nat : n \in S => n + 1 \in S
  PROVE  \A n \in Nat : n \in S
<1> DEFINE T == {n \in Nat : n \notin S}
<1> SUFFICES ASSUME T # {} PROVE FALSE
  OBVIOUS
<1>1. PICK x \in T : \A y \in T : ~ (<<y, x>> \in OpToRel(<, Nat))
  BY NatLessThanWellFounded, WFMin, T \in SUBSET Nat
<1>2. \A y \in T : ~ (y < x)
  BY <1>1, Zenon DEF OpToRel
<1>3. x \in Nat /\ x \notin S
  OBVIOUS
<1>4. x # 0 /\ x - 1 \in Nat
  BY <1>3
<1>5. x - 1 \in S
  BY <1>2, <1>4
<1> QED BY <1>3, <1>4, <1>5

-----------------------------------------------------------------------------
SocketEvents == [type : {"Connecting", "Connected", "Disconnected"}, id : Ids]

Is(event, type, id) == event.type = type /\ event.id = id

\* An event of a user behind the k-th of a queue.
Later(queue, k, type, id) == \E j \in k + 1 .. Len(queue) : Is(queue[j], type, id)

(***************************************************************************)
(* What is known of a user when the first k events of the queue have been  *)
(* handled: held says whether the transport has a connection of the user,  *)
(* state where Steam has its connection.                                   *)
(***************************************************************************)
UserOK(id, held, state, queue, k) ==
  /\ held => state = "connected" \/ Later(queue, k, "Disconnected", id)
  /\ state = "accepted" => ~ held /\ ~ Later(queue, k, "Connected", id)
  /\ \A j \in k + 1 .. Len(queue) : Is(queue[j], "Connected", id) =>
       /\ ~ held /\ ~ Later(queue, j, "Connected", id)
       /\ state = "connected" \/ Later(queue, j, "Disconnected", id)
  /\ \A j \in k + 1 .. Len(queue) : Is(queue[j], "Connecting", id) =>
       state = "connecting" \/ \E i \in j + 1 .. Len(queue) : queue[i].id = id

LayersOK(layers, queue, k) ==
  /\ DOMAIN layers = {"server", "connections", "peer"}
  /\ DOMAIN layers.server = {"connections", "events"}
  /\ layers.connections = DOMAIN layers.server.connections
  /\ layers.connections \subseteq Ids /\ DOMAIN layers.peer = Ids
  /\ \A id \in Ids : UserOK(id, id \in layers.connections, layers.peer[id], queue, k)

IInv == socket \in Seq(SocketEvents) /\ LayersOK(Layers, socket, 0)

-----------------------------------------------------------------------------
LEMMA AddFacts ==
  ASSUME NEW r, DOMAIN r = {"connections", "events"}, NEW id
  PROVE  /\ DOMAIN AddConnection(r, id) = {"connections", "events"}
         /\ DOMAIN AddConnection(r, id).connections = DOMAIN r.connections \cup {id}
<1>1. CASE id \in DOMAIN r.connections
  BY <1>1 DEF AddConnection
<1>2. CASE id \notin DOMAIN r.connections
  BY <1>2 DEF AddConnection
<1> QED BY <1>1, <1>2

LEMMA RemoveFacts ==
  ASSUME NEW r, DOMAIN r = {"connections", "events"}, NEW id
  PROVE  /\ DOMAIN RemoveConnection(r, id) = {"connections", "events"}
         /\ DOMAIN RemoveConnection(r, id).connections = DOMAIN r.connections \ {id}
<1>1. CASE id \notin DOMAIN r.connections
  BY <1>1 DEF RemoveConnection
<1>2. CASE id \in DOMAIN r.connections
  BY <1>2 DEF RemoveConnection, Restrict
<1> QED BY <1>1, <1>2

LEMMA DisconnectFacts ==
  ASSUME NEW r, DOMAIN r = {"connections", "events"}, NEW ids, NEW reason
  PROVE  /\ DOMAIN DisconnectWithReason(r, ids, reason) = {"connections", "events"}
         /\ DOMAIN DisconnectWithReason(r, ids, reason).connections = DOMAIN r.connections
BY DEF DisconnectWithReason

LEMMA DrainedFacts ==
  ASSUME NEW r, DOMAIN r = {"connections", "events"}
  PROVE  DOMAIN Drained(r) = {"connections", "events"} /\ Drained(r).connections = r.connections
BY DEF Drained

-----------------------------------------------------------------------------
\* A user whom the next event does not concern.
LEMMA OthersOK ==
  ASSUME NEW queue \in Seq(SocketEvents), NEW k \in Nat, k + 1 <= Len(queue),
         NEW id \in Ids, queue[k + 1].id # id,
         NEW held, NEW state, UserOK(id, held, state, queue, k)
  PROVE  UserOK(id, held, state, queue, k + 1)
<1>1. Len(queue) \in Nat
  OBVIOUS
<1>2. \A type : Later(queue, k, type, id) => Later(queue, k + 1, type, id)
  <2> SUFFICES ASSUME NEW type, NEW j \in k + 1 .. Len(queue), Is(queue[j], type, id)
               PROVE  j \in (k + 1) + 1 .. Len(queue)
    BY DEF Later
  <2>1. j # k + 1
    BY DEF Is
  <2> QED BY <1>1, <2>1
<1>3. \A type : Later(queue, k + 1, type, id) => Later(queue, k, type, id)
  BY <1>1 DEF Later
<1>4. \A j \in (k + 1) + 1 .. Len(queue) : j \in k + 1 .. Len(queue)
  BY <1>1
<1> QED BY <1>2, <1>3, <1>4 DEF UserOK

LEMMA ConnectedOK ==
  ASSUME NEW queue \in Seq(SocketEvents), NEW k \in Nat, k + 1 <= Len(queue),
         NEW id \in Ids, Is(queue[k + 1], "Connected", id),
         NEW held, NEW state, UserOK(id, held, state, queue, k)
  PROVE  UserOK(id, TRUE, state, queue, k + 1)
<1>1. Len(queue) \in Nat /\ k + 1 \in k + 1 .. Len(queue)
  OBVIOUS
<1>2. /\ ~ Later(queue, k + 1, "Connected", id)
      /\ state = "connected" \/ Later(queue, k + 1, "Disconnected", id)
  BY <1>1 DEF UserOK
<1>3. state # "accepted"
  BY <1>1 DEF UserOK, Later
<1>4. \A j \in (k + 1) + 1 .. Len(queue) : ~ Is(queue[j], "Connected", id)
  BY <1>2 DEF Later
<1>5. \A j \in (k + 1) + 1 .. Len(queue) : j \in k + 1 .. Len(queue)
  BY <1>1
<1> QED BY <1>2, <1>3, <1>4, <1>5 DEF UserOK

LEMMA DisconnectedOK ==
  ASSUME NEW queue \in Seq(SocketEvents), NEW k \in Nat, k + 1 <= Len(queue),
         NEW id \in Ids, NEW held, NEW state, UserOK(id, held, state, queue, k)
  PROVE  UserOK(id, FALSE, state, queue, k + 1)
<1>1. \A j \in (k + 1) + 1 .. Len(queue) : j \in k + 1 .. Len(queue)
  OBVIOUS
<1>2. \A type : Later(queue, k + 1, type, id) => Later(queue, k, type, id)
  BY <1>1 DEF Later
<1> QED BY <1>1, <1>2 DEF UserOK

\* A request that is still waiting for its answer, from a user of whom nothing is held.
LEMMA ConnectingOK ==
  ASSUME NEW queue \in Seq(SocketEvents), NEW k \in Nat, k + 1 <= Len(queue),
         NEW id \in Ids, Is(queue[k + 1], "Connecting", id),
         \A j \in (k + 1) + 1 .. Len(queue) : queue[j].id # id,
         NEW held, NEW state, UserOK(id, held, state, queue, k), NEW answer
  PROVE  UserOK(id, held, answer, queue, k + 1)
<1>1. Len(queue) \in Nat /\ k + 1 \in k + 1 .. Len(queue)
  OBVIOUS
<1>2. state = "connecting"
  BY <1>1 DEF UserOK
<1>3. \A type : ~ Later(queue, k + 1, type, id)
  BY DEF Later, Is
<1>4. ~ Later(queue, k, "Disconnected", id)
  <2> SUFFICES ASSUME NEW j \in k + 1 .. Len(queue), Is(queue[j], "Disconnected", id) PROVE FALSE
    BY DEF Later
  <2>1. j # k + 1
    BY DEF Is
  <2>2. j \in (k + 1) + 1 .. Len(queue)
    BY <1>1, <2>1
  <2> QED BY <2>2 DEF Is
<1>5. ~ held
  BY <1>2, <1>4 DEF UserOK
<1> QED BY <1>3, <1>5 DEF UserOK, Is

\* A request whose end is behind it.
LEMMA StaleOK ==
  ASSUME NEW queue \in Seq(SocketEvents), NEW k \in Nat, k + 1 <= Len(queue),
         NEW id \in Ids, Is(queue[k + 1], "Connecting", id),
         NEW held, NEW state, UserOK(id, held, state, queue, k)
  PROVE  UserOK(id, held, state, queue, k + 1)
<1>1. Len(queue) \in Nat
  OBVIOUS
<1>2. Later(queue, k, "Disconnected", id) => Later(queue, k + 1, "Disconnected", id)
  <2> SUFFICES ASSUME NEW j \in k + 1 .. Len(queue), Is(queue[j], "Disconnected", id)
               PROVE  j \in (k + 1) + 1 .. Len(queue)
    BY DEF Later
  <2>1. j # k + 1
    BY DEF Is
  <2> QED BY <1>1, <2>1
<1>3. \A j \in (k + 1) + 1 .. Len(queue) : j \in k + 1 .. Len(queue)
  BY <1>1
<1>4. Later(queue, k + 1, "Connected", id) => Later(queue, k, "Connected", id)
  BY <1>3 DEF Later
<1> QED BY <1>2, <1>3, <1>4 DEF UserOK

\* One event of the listen socket.
LEMMA HandleOK ==
  ASSUME socket \in Seq(SocketEvents), NEW k \in Nat, k + 1 <= Len(socket),
         NEW layers, LayersOK(layers, socket, k)
  PROVE  LayersOK(Handle(layers, k + 1), socket, k + 1)
<1> DEFINE id == socket[k + 1].id
           type == socket[k + 1].type
           new == Handle(layers, k + 1)
           r == layers.server
<1>1. id \in Ids /\ type \in {"Connecting", "Connected", "Disconnected"}
  <2>1. socket[k + 1] \in SocketEvents
    OBVIOUS
  <2> QED BY <2>1 DEF SocketEvents
<1>2. /\ DOMAIN layers = {"server", "connections", "peer"}
      /\ DOMAIN r = {"connections", "events"}
      /\ layers.connections = DOMAIN r.connections
      /\ layers.connections \subseteq Ids /\ DOMAIN layers.peer = Ids
  BY DEF LayersOK
<1>3. \A u \in Ids : UserOK(u, u \in layers.connections, layers.peer[u], socket, k)
  BY DEF LayersOK
<1>4. \A u \in Ids \ {id} : UserOK(u, u \in layers.connections, layers.peer[u], socket, k + 1)
  BY <1>3, OthersOK
<1> HIDE DEF id, type, new, r
<1>5. CASE type = "Connected"
  <2>1. new = [layers EXCEPT !.server = AddConnection(r, id), !.connections = @ \cup {id}]
    BY <1>5 DEF new, Handle, id, type, r
  <2>2. /\ DOMAIN new = {"server", "connections", "peer"} /\ new.server = AddConnection(r, id)
        /\ new.connections = layers.connections \cup {id} /\ new.peer = layers.peer
    BY <1>2, <2>1
  <2>3. /\ DOMAIN new.server = {"connections", "events"}
        /\ DOMAIN new.server.connections = DOMAIN r.connections \cup {id}
    BY <1>2, <2>2, AddFacts
  <2>4. UserOK(id, TRUE, layers.peer[id], socket, k + 1)
    <3>1. Is(socket[k + 1], "Connected", id)
      BY <1>5 DEF Is, id, type
    <3> QED BY <1>1, <1>3, <3>1, ConnectedOK
  <2>5. ASSUME NEW u \in Ids
        PROVE  UserOK(u, u \in new.connections, new.peer[u], socket, k + 1)
    <3>1. CASE u = id
      <4>1. (u \in new.connections) = TRUE
        BY <2>2, <3>1
      <4> QED BY <2>2, <2>4, <3>1, <4>1
    <3>2. CASE u # id
      <4>1. (u \in new.connections) = (u \in layers.connections)
        BY <2>2, <3>2
      <4> QED BY <1>4, <2>2, <3>2, <4>1
    <3> QED BY <3>1, <3>2
  <2> QED BY <1>1, <1>2, <2>2, <2>3, <2>5 DEF LayersOK, new
<1>6. CASE type = "Disconnected"
  <2>1. new = [layers EXCEPT !.server = RemoveConnection(r, id), !.connections = @ \ {id}]
    BY <1>6 DEF new, Handle, id, type, r
  <2>2. /\ DOMAIN new = {"server", "connections", "peer"} /\ new.server = RemoveConnection(r, id)
        /\ new.connections = layers.connections \ {id} /\ new.peer = layers.peer
    BY <1>2, <2>1
  <2>3. /\ DOMAIN new.server = {"connections", "events"}
        /\ DOMAIN new.server.connections = DOMAIN r.connections \ {id}
    BY <1>2, <2>2, RemoveFacts
  <2>4. UserOK(id, FALSE, layers.peer[id], socket, k + 1)
    BY <1>1, <1>3, DisconnectedOK
  <2>5. ASSUME NEW u \in Ids
        PROVE  UserOK(u, u \in new.connections, new.peer[u], socket, k + 1)
    <3>1. CASE u = id
      <4>1. (u \in new.connections) = FALSE
        BY <2>2, <3>1
      <4> QED BY <2>2, <2>4, <3>1, <4>1
    <3>2. CASE u # id
      <4>1. (u \in new.connections) = (u \in layers.connections)
        BY <2>2, <3>2
      <4> QED BY <1>4, <2>2, <3>2, <4>1
    <3> QED BY <3>1, <3>2
  <2> QED BY <1>2, <2>2, <2>3, <2>5 DEF LayersOK, new
<1>7. CASE type = "Connecting" /\ Stale(k + 1)
  <2>1. new = layers
    BY <1>7 DEF new, Handle, id, type
  <2>2. UserOK(id, id \in layers.connections, layers.peer[id], socket, k + 1)
    <3>1. Is(socket[k + 1], "Connecting", id)
      BY <1>7 DEF Is, id, type
    <3> QED BY <1>1, <1>3, <3>1, StaleOK
  <2>3. \A u \in Ids : UserOK(u, u \in layers.connections, layers.peer[u], socket, k + 1)
    BY <1>4, <2>2
  <2> QED BY <1>2, <2>1, <2>3 DEF LayersOK, new, r
<1>8. CASE type = "Connecting" /\ ~ Stale(k + 1)
  <2> DEFINE answer == IF Admit(layers, id) THEN "accepted" ELSE "idle"
  <2>1. new = [layers EXCEPT !.peer[id] = answer]
    BY <1>8 DEF new, Handle, id, type
  <2> HIDE DEF answer
  <2>2. /\ DOMAIN new = {"server", "connections", "peer"} /\ new.server = r
        /\ new.connections = layers.connections /\ DOMAIN new.peer = Ids
        /\ new.peer[id] = answer /\ \A u \in Ids \ {id} : new.peer[u] = layers.peer[u]
    BY <1>1, <1>2, <2>1 DEF r
  <2>3. UserOK(id, id \in layers.connections, answer, socket, k + 1)
    <3>1. Is(socket[k + 1], "Connecting", id)
      BY <1>8 DEF Is, id, type
    <3>2. \A j \in (k + 1) + 1 .. Len(socket) : socket[j].id # id
      BY <1>8 DEF Stale, id
    <3> QED BY <1>1, <1>3, <3>1, <3>2, ConnectingOK
  <2>4. \A u \in Ids : UserOK(u, u \in new.connections, new.peer[u], socket, k + 1)
    BY <1>4, <2>2, <2>3
  <2> QED BY <1>2, <2>2, <2>4 DEF LayersOK, new
<1> QED BY <1>1, <1>5, <1>6, <1>7, <1>8

-----------------------------------------------------------------------------
HandledStep(n, f) == [k \in 0 .. n |-> IF k = 0 THEN Layers ELSE Handle(f[k - 1], k)]

LEMMA HandledExists ==
  ASSUME NEW n \in Nat
  PROVE  \E f : f = HandledStep(n, f)
<1> DEFINE S == {m \in Nat : \E f : f = HandledStep(m, f)}
<1>1. 0 \in S
  <2>1. [k \in 0 .. 0 |-> Layers] = HandledStep(0, [k \in 0 .. 0 |-> Layers])
    BY DEF HandledStep
  <2> QED BY <2>1
<1>2. ASSUME NEW m \in Nat, m \in S PROVE m + 1 \in S
  <2>1. PICK f : f = HandledStep(m, f)
    BY <1>2
  <2> DEFINE g == [k \in 0 .. m + 1 |-> IF k = m + 1 THEN Handle(f[m], m + 1) ELSE f[k]]
  <2>2. ASSUME NEW k \in 0 .. m + 1
        PROVE  g[k] = IF k = 0 THEN Layers ELSE Handle(g[k - 1], k)
    <3>1. CASE k = m + 1
      BY <3>1
    <3>2. CASE k # m + 1
      <4>1. k \in 0 .. m /\ (k # 0 => k - 1 \in 0 .. m + 1 /\ k - 1 # m + 1)
        BY <3>2
      <4>2. f[k] = IF k = 0 THEN Layers ELSE Handle(f[k - 1], k)
        BY <2>1, <4>1 DEF HandledStep
      <4> QED BY <3>2, <4>1, <4>2
    <3> QED BY <3>1, <3>2
  <2>3. g = HandledStep(m + 1, g)
    BY <2>2 DEF HandledStep
  <2> HIDE DEF g
  <2> QED BY <2>3
<1> HIDE DEF S
<1>3. n \in S
  BY <1>1, <1>2, SetInduction
<1> QED BY <1>3 DEF S

LEMMA HandledOK ==
  ASSUME IInv
  PROVE  LayersOK(Handled, socket, Len(socket))
<1> DEFINE n == Len(socket)
           after == CHOOSE f : f = HandledStep(n, f)
<1>1. n \in Nat /\ socket \in Seq(SocketEvents)
  BY DEF IInv
<1>2. Handled = after[n]
  BY DEF Handled, HandledStep
<1> HIDE DEF n
<1>3. after = HandledStep(n, after)
  BY <1>1, HandledExists
<1> HIDE DEF after
<1>4. ASSUME NEW k \in 0 .. n
      PROVE  after[k] = IF k = 0 THEN Layers ELSE Handle(after[k - 1], k)
  BY <1>3 DEF HandledStep
<1> DEFINE S == {k \in Nat : k <= n => LayersOK(after[k], socket, k)}
<1>5. 0 \in S
  BY <1>1, <1>4 DEF IInv
<1>6. ASSUME NEW k \in Nat, k \in S PROVE k + 1 \in S
  <2> SUFFICES ASSUME k + 1 <= n PROVE LayersOK(after[k + 1], socket, k + 1)
    OBVIOUS
  <2>1. k + 1 \in 0 .. n /\ k + 1 # 0 /\ (k + 1) - 1 = k
    BY <1>1
  <2>2. LayersOK(after[k], socket, k)
    BY <1>1, <1>6
  <2>3. after[k + 1] = Handle(after[k], k + 1)
    BY <1>4, <2>1
  <2> QED BY <1>1, <2>2, <2>3, HandleOK DEF n
<1> HIDE DEF S
<1>7. n \in S
  BY <1>1, <1>5, <1>6, SetInduction
<1> QED BY <1>1, <1>2, <1>7 DEF S, n

-----------------------------------------------------------------------------
\* What was behind an event stays behind it when another is queued.
LEMMA LaterAppended ==
  ASSUME NEW queue \in Seq(SocketEvents), NEW event \in SocketEvents, NEW j \in Nat,
         NEW type, NEW id
  PROVE  LET new == Append(queue, event) IN
         /\ new \in Seq(SocketEvents) /\ Len(new) = Len(queue) + 1 /\ Len(queue) \in Nat
         /\ \A k \in 1 .. Len(queue) : new[k] = queue[k]
         /\ new[Len(queue) + 1] = event
         /\ Later(queue, j, type, id) => Later(new, j, type, id)
         /\ Later(new, j, type, id) => Later(queue, j, type, id) \/ Is(event, type, id)
         /\ j <= Len(queue) /\ Is(event, type, id) => Later(new, j, type, id)
<1> DEFINE new == Append(queue, event)
           n == Len(queue)
<1>1. /\ new \in Seq(SocketEvents) /\ Len(new) = n + 1 /\ n \in Nat
      /\ \A k \in 1 .. n : new[k] = queue[k]
      /\ new[n + 1] = event
  OBVIOUS
<1> HIDE DEF new
<1>2. \A k \in j + 1 .. n : k \in j + 1 .. n + 1 /\ k \in 1 .. n
  BY <1>1
<1>3. \A k \in j + 1 .. n + 1 : k \in j + 1 .. n \/ k = n + 1
  BY <1>1
<1>4. j <= n => n + 1 \in j + 1 .. n + 1
  BY <1>1
<1>5. Later(queue, j, type, id) => Later(new, j, type, id)
  BY <1>1, <1>2 DEF Later
<1>6. Later(new, j, type, id) => Later(queue, j, type, id) \/ Is(event, type, id)
  BY <1>1, <1>2, <1>3 DEF Later
<1>7. j <= n /\ Is(event, type, id) => Later(new, j, type, id)
  BY <1>1, <1>4 DEF Later
<1> QED BY <1>1, <1>5, <1>6, <1>7 DEF new

\* A user whom the queued event does not concern.
LEMMA OthersAppended ==
  ASSUME NEW queue \in Seq(SocketEvents), NEW event \in SocketEvents,
         NEW id \in Ids, event.id # id,
         NEW held, NEW state, UserOK(id, held, state, queue, 0)
  PROVE  UserOK(id, held, state, Append(queue, event), 0)
<1> DEFINE new == Append(queue, event)
           n == Len(queue)
<1>1. /\ Len(new) = n + 1 /\ n \in Nat /\ new[n + 1] = event
      /\ \A k \in 1 .. n : new[k] = queue[k]
  BY LaterAppended
<1>2. \A type : ~ Is(event, type, id)
  BY DEF Is
<1>3. \A type : \A j \in Nat : Later(new, j, type, id) <=> Later(queue, j, type, id)
  BY <1>2, LaterAppended
<1> HIDE DEF new
<1>4. \A j \in 0 + 1 .. Len(new) : \A type : Is(new[j], type, id) =>
        j \in 0 + 1 .. n /\ j \in Nat /\ Is(queue[j], type, id)
  BY <1>1, <1>2
<1>5. \A j \in 0 + 1 .. n :
        (\E i \in j + 1 .. n : queue[i].id = id) => \E i \in j + 1 .. Len(new) : new[i].id = id
  <2> SUFFICES ASSUME NEW j \in 0 + 1 .. n, NEW i \in j + 1 .. n, queue[i].id = id
               PROVE  i \in j + 1 .. Len(new) /\ new[i].id = id
    OBVIOUS
  <2>1. i \in j + 1 .. n + 1 /\ i \in 1 .. n
    BY <1>1
  <2> QED BY <1>1, <2>1
<1> QED BY <1>3, <1>4, <1>5 DEF UserOK, new

\* The state of the user's connection when Steam reports an event of it.
LEMMA ReportedUser ==
  ASSUME NEW queue \in Seq(SocketEvents), NEW event \in SocketEvents,
         NEW id \in Ids, event.id = id,
         NEW held, NEW from, UserOK(id, held, from, queue, 0), NEW to,
         \/ event.type = "Connected" /\ from = "accepted" /\ to = "connected"
         \/ event.type = "Disconnected" /\ to = "idle"
         \/ event.type = "Connecting" /\ from = "idle" /\ to = "connecting"
  PROVE  UserOK(id, held, to, Append(queue, event), 0)
<1> DEFINE new == Append(queue, event)
           n == Len(queue)
<1>1. /\ Len(new) = n + 1 /\ n \in Nat /\ new[n + 1] = event
      /\ \A k \in 1 .. n : new[k] = queue[k]
  BY LaterAppended
<1>2. \A type : \A j \in Nat :
        /\ Later(queue, j, type, id) => Later(new, j, type, id)
        /\ Later(new, j, type, id) => Later(queue, j, type, id) \/ event.type = type
        /\ j <= n /\ event.type = type => Later(new, j, type, id)
  BY LaterAppended DEF Is
<1>3. ~ Later(new, n + 1, "Connected", id)
  BY <1>1 DEF Later
<1> HIDE DEF new
<1>4. ASSUME NEW j \in 0 + 1 .. Len(new)
      PROVE  j \in Nat /\ (j = n + 1 \/ (j \in 0 + 1 .. n /\ j <= n /\ new[j] = queue[j]))
  BY <1>1
<1>5. held => to = "connected" \/ Later(new, 0, "Disconnected", id)
  BY <1>1, <1>2 DEF UserOK
<1>6. to # "accepted"
  OBVIOUS
<1>7. ASSUME NEW j \in 0 + 1 .. Len(new), Is(new[j], "Connected", id)
      PROVE  /\ ~ held /\ ~ Later(new, j, "Connected", id)
             /\ to = "connected" \/ Later(new, j, "Disconnected", id)
  <2>1. CASE j = n + 1
    <3>1. event.type = "Connected"
      BY <1>1, <1>7, <2>1 DEF Is
    <3>2. ~ held /\ to = "connected"
      BY <3>1 DEF UserOK
    <3> QED BY <1>1, <1>3, <2>1, <3>2
  <2>2. CASE j \in 0 + 1 .. n /\ j <= n /\ new[j] = queue[j]
    <3>1. /\ ~ held /\ ~ Later(queue, j, "Connected", id)
          /\ from = "connected" \/ Later(queue, j, "Disconnected", id)
      BY <1>7, <2>2 DEF UserOK
    <3>2. from # "accepted"
      <4>1. Later(queue, 0, "Connected", id)
        BY <1>7, <2>2 DEF Later
      <4> QED BY <4>1 DEF UserOK
    <3> QED BY <1>2, <1>4, <2>2, <3>1, <3>2
  <2> QED BY <1>4, <2>1, <2>2
<1>8. ASSUME NEW j \in 0 + 1 .. Len(new), Is(new[j], "Connecting", id)
      PROVE  to = "connecting" \/ \E i \in j + 1 .. Len(new) : new[i].id = id
  <2>1. CASE j = n + 1
    BY <1>1, <1>8, <2>1 DEF Is
  <2>2. CASE j \in 0 + 1 .. n
    <3>1. n + 1 \in j + 1 .. Len(new)
      BY <1>1, <2>2
    <3> QED BY <1>1, <3>1
  <2> QED BY <1>4, <2>1, <2>2
<1> QED BY <1>5, <1>6, <1>7, <1>8 DEF UserOK, new

\* All events are handled.
LEMMA AllHandled ==
  ASSUME NEW queue \in Seq(SocketEvents), NEW id \in Ids, NEW held, NEW state,
         UserOK(id, held, state, queue, Len(queue))
  PROVE  UserOK(id, held, state, <<>>, 0)
<1>1. \A type : ~ Later(queue, Len(queue), type, id) /\ ~ Later(<<>>, 0, type, id)
  BY DEF Later
<1> QED BY <1>1 DEF UserOK

-----------------------------------------------------------------------------
LEMMA Facts ==
  ASSUME IInv
  PROVE  /\ socket \in Seq(SocketEvents)
         /\ DOMAIN server = {"connections", "events"} /\ connections = DOMAIN server.connections
         /\ connections \subseteq Ids /\ DOMAIN peer = Ids
         /\ \A id \in Ids : UserOK(id, id \in connections, peer[id], socket, 0)
BY DEF IInv, LayersOK, Layers

LEMMA FactsSuffice ==
  ASSUME /\ socket' \in Seq(SocketEvents)
         /\ DOMAIN server' = {"connections", "events"} /\ connections' = DOMAIN server'.connections
         /\ connections' \subseteq Ids /\ DOMAIN peer' = Ids
         /\ \A id \in Ids : UserOK(id, id \in connections', peer'[id], socket', 0)
  PROVE  IInv'
BY DEF IInv, LayersOK, Layers

LEMMA InitIInv == Init => IInv
<1> SUFFICES ASSUME Init PROVE IInv
  OBVIOUS
<1>1. /\ DOMAIN server = {"connections", "events"} /\ DOMAIN server.connections = {}
      /\ connections = {} /\ peer = [id \in Ids |-> "idle"] /\ socket = <<>>
  BY DEF Init, ServerInit, NewRenetServer
<1>2. ASSUME NEW id \in Ids PROVE UserOK(id, id \in connections, peer[id], socket, 0)
  BY <1>1 DEF UserOK, Later
<1>3. socket \in Seq(SocketEvents)
  BY <1>1
<1> QED BY <1>1, <1>2, <1>3 DEF IInv, LayersOK, Layers

LEMMA UpdateStep ==
  ASSUME IInv, NEW invalid, Update(invalid)
  PROVE  IInv'
<1> DEFINE r == DisconnectWithReason(Handled.server, invalid \cap Handled.connections, "Error")
           layers == [Handled EXCEPT !.server = r]
<1>1. /\ DOMAIN Handled = {"server", "connections", "peer"}
      /\ DOMAIN Handled.server = {"connections", "events"}
      /\ Handled.connections = DOMAIN Handled.server.connections
      /\ Handled.connections \subseteq Ids /\ DOMAIN Handled.peer = Ids
      /\ \A id \in Ids :
           UserOK(id, id \in Handled.connections, Handled.peer[id], socket, Len(socket))
  BY HandledOK DEF LayersOK
<1>2. server' = Drained(layers.server) /\ connections' = layers.connections /\ peer' = layers.peer
      /\ socket' = <<>>
  BY DEF Update, Becomes
<1>3. DOMAIN r = {"connections", "events"}
      /\ DOMAIN r.connections = DOMAIN Handled.server.connections
  <2>1. DOMAIN Handled.server = {"connections", "events"}
    BY <1>1
  <2> QED BY <2>1, DisconnectFacts, Zenon
<1> HIDE DEF r
<1>4. server' = Drained(r) /\ connections' = Handled.connections /\ peer' = Handled.peer
  BY <1>1, <1>2
<1>5. DOMAIN server' = {"connections", "events"} /\ server'.connections = r.connections
  BY <1>3, <1>4, DrainedFacts
<1>6. \A id \in Ids : UserOK(id, id \in connections', peer'[id], socket', 0)
  BY <1>1, <1>2, <1>4, Facts, AllHandled
<1>7. socket' \in Seq(SocketEvents)
  BY <1>2
<1> QED BY <1>1, <1>3, <1>4, <1>5, <1>6, <1>7, FactsSuffice

\* The server closes the connections it holds of some users.
LEMMA CloseStep ==
  ASSUME IInv, NEW ids, connections' = connections \ ids, peer' = Closed(ids \cap connections),
         socket' = socket, DOMAIN server' = {"connections", "events"},
         DOMAIN server'.connections = DOMAIN server.connections \ ids
  PROVE  IInv'
<1>1. ASSUME NEW id \in Ids
      PROVE  UserOK(id, id \in connections', peer'[id], socket', 0)
  <2>1. UserOK(id, id \in connections, peer[id], socket, 0)
    BY Facts
  <2>2. CASE id \in ids
    <3>1. (id \in connections') = FALSE
      BY <2>2
    <3>2. peer'[id] = IF id \in connections /\ peer[id] = "connected" THEN "idle" ELSE peer[id]
      BY <2>2 DEF Closed
    <3>3. UserOK(id, FALSE, peer'[id], socket, 0)
      BY <2>1, <3>2 DEF UserOK
    <3> QED BY <3>1, <3>3
  <2>3. CASE id \notin ids
    <3>1. (id \in connections') = (id \in connections) /\ peer'[id] = peer[id]
      BY <2>3 DEF Closed
    <3> QED BY <2>1, <3>1
  <2> QED BY <2>2, <2>3
<1>2. DOMAIN peer' = Ids
  BY DEF Closed
<1> QED BY <1>1, <1>2, Facts, FactsSuffice

LEMMA DisconnectStep ==
  ASSUME IInv, NEW ids, NEW reason, server' = DisconnectWithReason(server, ids, reason),
         connections' = connections, peer' = peer, socket' = socket
  PROVE  IInv'
<1>1. DOMAIN server' = {"connections", "events"}
      /\ DOMAIN server'.connections = DOMAIN server.connections
  BY Facts, DisconnectFacts
<1> QED BY <1>1, Facts, FactsSuffice

LEMMA ServerStep ==
  ASSUME IInv, ServerNext
  PROVE  IInv'
<1>1. CASE Updates
  BY <1>1, UpdateStep DEF Updates
<1>2. CASE DisconnectAll
  <2>1. /\ connections' = connections \ connections
        /\ peer' = Closed(connections \cap connections) /\ socket' = socket
        /\ server' = [server EXCEPT !.connections =
                        Restrict(server.connections, DOMAIN server.connections \ connections)]
    BY <1>2 DEF DisconnectAll
  <2>2. DOMAIN server' = {"connections", "events"}
        /\ DOMAIN server'.connections = DOMAIN server.connections \ connections
    BY <2>1, Facts DEF Restrict
  <2> QED BY <2>1, <2>2, CloseStep
<1>3. CASE \E ids \in (SUBSET Ids) \ {{}} : SendFails(ids) \/ Kick(ids)
  BY <1>3, DisconnectStep DEF SendFails, Kick
<1>4. ASSUME NEW id \in Ids, DisconnectClient(id) PROVE IInv'
  <2> DEFINE r == RemoveConnection(server, id)
  <2>1. connections' = connections \ {id} /\ peer' = Closed({id} \cap connections)
        /\ socket' = socket /\ server' = Drained(r)
    BY <1>4 DEF DisconnectClient
  <2>2. DOMAIN r = {"connections", "events"}
        /\ DOMAIN r.connections = DOMAIN server.connections \ {id}
    BY Facts, RemoveFacts
  <2> HIDE DEF r
  <2>3. DOMAIN server' = {"connections", "events"} /\ server'.connections = r.connections
    BY <2>1, <2>2, DrainedFacts
  <2> QED BY <2>1, <2>2, <2>3, CloseStep
<1> QED BY <1>1, <1>2, <1>3, <1>4 DEF ServerNext

\* The moves of a user's connection that Steam reports.
Reported(from, to, type) ==
  \/ type = "Connected" /\ from = "accepted" /\ to = "connected"
  \/ type = "Disconnected" /\ to = "idle"
  \/ type = "Connecting" /\ from = "idle" /\ to = "connecting"

LEMMA ReportStep ==
  ASSUME IInv, NEW id \in Ids, NEW from, NEW to, NEW type, Report(id, from, to, type),
         Reported(from, to, type)
  PROVE  IInv'
<1> DEFINE event == [type |-> type, id |-> id]
<1>1. /\ peer[id] = from /\ peer' = [peer EXCEPT ![id] = to] /\ socket' = Append(socket, event)
      /\ server' = server /\ connections' = connections
  BY DEF Report
<1>2. event \in SocketEvents /\ event.id = id /\ event.type = type
  BY DEF SocketEvents, Reported
<1> HIDE DEF event
<1>3. socket' \in Seq(SocketEvents) /\ DOMAIN peer' = Ids /\ peer'[id] = to
      /\ \A u \in Ids \ {id} : peer'[u] = peer[u]
  BY <1>1, <1>2, Facts
<1>4. UserOK(id, id \in connections, to, Append(socket, event), 0)
  BY <1>1, <1>2, Facts, ReportedUser DEF Reported
<1>5. \A u \in Ids \ {id} : UserOK(u, u \in connections, peer[u], Append(socket, event), 0)
  BY <1>2, Facts, OthersAppended
<1>6. \A u \in Ids : UserOK(u, u \in connections', peer'[u], socket', 0)
  BY <1>1, <1>3, <1>4, <1>5
<1> QED BY <1>1, <1>3, <1>6, Facts, FactsSuffice

LEMMA NextIInv == IInv /\ [Next]_vars => IInv'
<1> SUFFICES ASSUME IInv, [Next]_vars PROVE IInv'
  OBVIOUS
<1>0. ASSUME UNCHANGED serverVars PROVE IInv'
  BY <1>0, Facts, FactsSuffice DEF serverVars
<1>1. CASE ServerNext
  BY <1>1, ServerStep
<1>2. ASSUME NEW id \in Ids, Established(id) \/ Ends(id) \/ NewClient(id) PROVE IInv'
  BY <1>2, ReportStep DEF Established, Ends, NewClient, Reported
<1>3. ASSUME NEW id \in Ids, ClientUpdate(id) \/ RenetClientEnds(id) PROVE IInv'
  BY <1>0, <1>3 DEF ClientUpdate, RenetClientEnds
<1>4. ASSUME NEW id \in Ids, ClientDisconnect(id) \/ Lost(id) PROVE IInv'
  BY <1>0, <1>2, <1>4 DEF ClientDisconnect, Lost
<1>5. CASE UNCHANGED vars
  BY <1>0, <1>5 DEF vars
<1> QED BY <1>1, <1>2, <1>3, <1>4, <1>5 DEF Next

(***************************************************************************)
(* The map of Steam connections and the RenetServer have the same clients, *)
(* for every interleaving of the users' connections with update,           *)
(* disconnect_client and disconnect_all.                                   *)
(***************************************************************************)
THEOREM SteamLayersStayEqual == Spec => []SteamLayersAgree
<1>1. IInv => SteamLayersAgree
  BY DEF IInv, LayersOK, Layers, SteamLayersAgree
<1> QED BY <1>1, InitIInv, NextIInv, PTL DEF Spec

(***************************************************************************)
(* The transport holds no connection that is gone for good: Steam still    *)
(* has it, or its Disconnected event is waiting for update, also when the  *)
(* user has come and gone several times since the last update.             *)
(***************************************************************************)
THEOREM HeldConnectionsDoEnd == Spec => []HeldConnectionsEnd
<1>1. IInv => HeldConnectionsEnd
  <2> SUFFICES ASSUME IInv, NEW id \in connections, peer[id] # "connected"
               PROVE  \E k \in DOMAIN socket : socket[k] = [type |-> "Disconnected", id |-> id]
    BY DEF HeldConnectionsEnd
  <2>1. UserOK(id, id \in connections, peer[id], socket, 0) /\ socket \in Seq(SocketEvents)
    BY Facts
  <2>2. PICK k \in 0 + 1 .. Len(socket) : Is(socket[k], "Disconnected", id)
    BY <2>1 DEF UserOK, Later
  <2>3. k \in DOMAIN socket /\ socket[k] \in SocketEvents
    BY <2>1
  <2>4. socket[k] = [type |-> "Disconnected", id |-> id]
    BY <2>2, <2>3 DEF SocketEvents, Is
  <2> QED BY <2>3, <2>4
<1> QED BY <1>1, InitIInv, NextIInv, PTL DEF Spec
=============================================================================
