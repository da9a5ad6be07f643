---------------------------- MODULE NetcodeProofs ----------------------------
(***************************************************************************)
(* Netcode for every number of clients, servers, slots and tokens, every   *)
(* timeout and every expiry: what a connect token's key ties together.     *)
(*                                                                         *)
(* The look-up of the client id in the Response handler reads the id of    *)
(* the challenge token, while the slot gets the id of the pending          *)
(* connection, which another request may have made.  The two are the same  *)
(* because a Response decodes only under the key of the pending            *)
(* connection, its challenge token came in a Challenge under that key, and *)
(* a key belongs to one connect token.  So the invariant follows the data  *)
(* of a token through the packets, the clients and the servers.            *)
(*                                                                         *)
(* The later sections are about the types and the bounds of clients and    *)
(* servers, about the connect token entries, and about the ring buffer of  *)
(* the replay protection, for every buffer size: that it computes the      *)
(* window by which the packets are decoded here.                           *)
(***************************************************************************)
EXTENDS Netcode, ReplayProtection, TLAPS

OfToken(key, client_id, user_data) ==
  \E t \in AllTokens : key = t.key /\ user_data = t.key /\ client_id = t.client_id

\* The slot a KeepAlive of a server tells its client of.
Told(p) == [server |-> p.from, slot |-> p.client_index, key |-> p.key, addr |-> p.to]

PacketOK(p, seated) ==
  /\ p.type = "ConnectionRequest" => p.token \in AllTokens /\ p.from \in ClientAddrs
  /\ p.type \in {"Challenge", "Response"} =>
       OfToken(p.key, p.token_data.client_id, p.token_data.user_data)
  /\ p.type = "KeepAlive" => p.from \in ClientAddrs \/ Told(p) \in seated

ClientFields ==
  {"addr", "token", "state", "connect_start_time", "last_packet_send_time",
   "last_packet_received_time", "current_time", "sequence", "server_addr_index",
   "challenge_token_sequence", "challenge_token_data", "client_index", "replay_protection"}

HasSlot(c, a) ==
  [server |-> ServerAddr(c), slot |-> c.client_index, key |-> c.token.key, addr |-> a]

ClientOK(c, a) ==
  /\ DOMAIN c = ClientFields /\ c.addr = a /\ c.token \in AllTokens
  /\ c.state = "SendingConnectionResponse" =>
       OfToken(c.token.key, c.challenge_token_data.client_id, c.challenge_token_data.user_data)
  /\ c.state \in Connecting => c.server_addr_index \in 0 .. Len(c.token.hosts) - 1

\* A client that is, or whose RenetClient takes itself to be, connected.
StatusOK(c, status, a, seated) ==
  c.state = "Connected" \/ status = "Connected" =>
    c.state \notin Connecting /\ HasSlot(c, a) \in seated

ServerFields ==
  {"addr", "clients", "pending_clients", "connect_token_entries", "max_clients",
   "challenge_sequence", "global_sequence", "current_time"}

ConnectionFields ==
  {"confirmed", "sequence", "client_id", "addr", "key", "timeout_seconds", "expire_timestamp",
   "user_data", "last_packet_received_time", "last_packet_send_time", "replay_protection"}

ConnectionOK(c) ==
  DOMAIN c = ConnectionFields /\ OfToken(c.key, c.client_id, c.user_data)

PendingOK(c, a, now) == ConnectionOK(c) /\ c.addr = a /\ AsSecs(now) <= c.expire_timestamp

ServerOK(s) ==
  /\ DOMAIN s = ServerFields /\ s.current_time \in Nat
  /\ \A i \in DOMAIN s.clients :
       ConnectionOK(s.clients[i]) /\ s.clients[i].addr \notin DOMAIN s.pending_clients
  /\ \A i, j \in DOMAIN s.clients : i # j =>
       s.clients[i].client_id # s.clients[j].client_id /\ s.clients[i].addr # s.clients[j].addr
  /\ \A a \in DOMAIN s.pending_clients : PendingOK(s.pending_clients[a], a, s.current_time)

\* The keys and addresses of the connections a server has.
People(s) ==
  {<<s.clients[i].key, s.clients[i].addr>> : i \in DOMAIN s.clients}
    \cup {<<s.pending_clients[a].key, s.pending_clients[a].addr>> : a \in DOMAIN s.pending_clients}

\* From s to t no one comes without a connect token entry.
KeepsPeople(s, t) ==
  t.connect_token_entries = s.connect_token_entries /\ People(t) \subseteq People(s)

EntersToken(s, t, addr, token) ==
  /\ EntryAllowed(s, addr, token.key) /\ t.connect_token_entries = Entered(s, addr, token.key)
  /\ People(t) \subseteq People(s) \cup {<<token.key, addr>>}

Moves(s, t) ==
  /\ t.addr = s.addr
  /\ KeepsPeople(s, t) \/ \E addr : \E token \in AllTokens : EntersToken(s, t, addr, token)

IInv ==
  /\ DOMAIN clients = ClientAddrs /\ DOMAIN renet = ClientAddrs
  /\ DOMAIN servers = ServerAddrs /\ DOMAIN runs = ClientAddrs
  /\ \A a \in ClientAddrs :
       ClientOK(clients[a], a) /\ StatusOK(clients[a], renet[a], a, joined) /\ runs[a] \in Nat \ {0}
  /\ \A s \in ServerAddrs : ServerOK(servers[s]) /\ servers[s].addr = s
  /\ \A p \in network : PacketOK(p, joined)

-----------------------------------------------------------------------------
LEMMA TokenFacts ==
  ASSUME NEW t \in AllTokens
  PROVE  /\ t.expire_timestamp \in Nat
         /\ Len(t.hosts) \in Nat /\ Len(t.hosts) >= 1
         /\ \A k \in 0 .. Len(t.hosts) - 1 : t.hosts[k + 1] \notin ClientAddrs
<1>1. PICK a \in ClientAddrs : t \in Range(Tokens[a])
  BY DEF AllTokens
<1>2. PICK i \in DOMAIN Tokens[a] : t = Tokens[a][i]
  BY <1>1 DEF Range
<1>3. t.expire_timestamp \in Nat /\ t.hosts \in Seq(STRING)
  <2>1. Tokens[a] \in Seq(ConnectTokens)
    BY NetcodeAssumption
  <2>2. t \in ConnectTokens
    BY <1>2, <2>1
  <2> QED BY <2>2 DEF ConnectTokens
<1>4. Len(t.hosts) \in 1 .. MaxHosts /\ Range(t.hosts) \cap ClientAddrs = {}
  BY NetcodeAssumption
<1>5. DOMAIN t.hosts = 1 .. Len(t.hosts) /\ Len(t.hosts) \in Nat
  BY <1>3
<1>6. ASSUME NEW k \in 0 .. Len(t.hosts) - 1
      PROVE  t.hosts[k + 1] \notin ClientAddrs
  <2>1. k + 1 \in DOMAIN t.hosts
    BY <1>5
  <2>2. t.hosts[k + 1] \in Range(t.hosts)
    BY <2>1 DEF Range
  <2> QED BY <1>4, <2>2
<1>7. Len(t.hosts) >= 1
  <2>1. \A n \in 1 .. MaxHosts : n >= 1
    BY DEF MaxHosts
  <2> QED BY <1>4, <2>1
<1> QED BY <1>3, <1>5, <1>6, <1>7

LEMMA OneToken ==
  ASSUME NEW key, NEW id1, NEW id2, NEW data1, NEW data2,
         OfToken(key, id1, data1), OfToken(key, id2, data2)
  PROVE  id1 = id2 /\ data1 = data2
  BY NetcodeAssumption, Zenon DEF OfToken

LEMMA SecondsAreIntegers ==
  ASSUME NEW n \in Nat
  PROVE  AsSecs(n) \in Int
  BY TimeAssumption DEF AsSecs

LEMMA MoreSeats ==
  ASSUME NEW p, NEW J, NEW K, J \subseteq K, PacketOK(p, J)
  PROVE  PacketOK(p, K)
  BY DEF PacketOK

-----------------------------------------------------------------------------
(***************************************************************************)
(* The methods of the server.  Most of them keep who is in which slot and  *)
(* who is pending, or remove some.                                         *)
(***************************************************************************)
SameIdentity(c, d) ==
  /\ DOMAIN c = ConnectionFields
  /\ c.key = d.key /\ c.client_id = d.client_id /\ c.user_data = d.user_data
  /\ c.addr = d.addr /\ c.expire_timestamp = d.expire_timestamp

LEMMA FewerConnections ==
  ASSUME NEW s, ServerOK(s), NEW t,
         DOMAIN t = ServerFields, t.current_time \in Nat,
         \A i \in DOMAIN t.clients :
           i \in DOMAIN s.clients /\ SameIdentity(t.clients[i], s.clients[i]),
         \A a \in DOMAIN t.pending_clients :
           /\ a \in DOMAIN s.pending_clients
           /\ SameIdentity(t.pending_clients[a], s.pending_clients[a])
           /\ AsSecs(t.current_time) <= s.pending_clients[a].expire_timestamp
  PROVE  ServerOK(t) /\ People(t) \subseteq People(s)
<1>0. People(t) \subseteq People(s)
  BY DEF People, SameIdentity
<1>1. \A i \in DOMAIN t.clients :
        ConnectionOK(t.clients[i]) /\ t.clients[i].addr \notin DOMAIN t.pending_clients
  BY DEF ServerOK, ConnectionOK, SameIdentity
<1>2. \A i, j \in DOMAIN t.clients : i # j =>
        t.clients[i].client_id # t.clients[j].client_id /\ t.clients[i].addr # t.clients[j].addr
  BY DEF ServerOK, SameIdentity
<1>3. ASSUME NEW a \in DOMAIN t.pending_clients
      PROVE  PendingOK(t.pending_clients[a], a, t.current_time)
  <2>1. PendingOK(s.pending_clients[a], a, s.current_time)
        /\ SameIdentity(t.pending_clients[a], s.pending_clients[a])
        /\ AsSecs(t.current_time) <= s.pending_clients[a].expire_timestamp
    BY DEF ServerOK
  <2> QED BY <2>1, Zenon DEF PendingOK, ConnectionOK, SameIdentity
<1> QED BY <1>0, <1>1, <1>2, <1>3 DEF ServerOK

\* What a method of the server gives: a server, packets, and no client seated too late.
ResultOK(s, r) ==
  /\ ServerOK(r.server) /\ Moves(s, r.server)
  /\ \A q \in r.out : PacketOK(q, Seated(r.server))
  /\ \A i \in DOMAIN r.server.clients :
       i \notin DOMAIN s.clients => AsSecs(s.current_time) <= r.server.clients[i].expire_timestamp

LEMMA SameSelf ==
  ASSUME NEW s, ServerOK(s)
  PROVE  /\ \A i \in DOMAIN s.clients : SameIdentity(s.clients[i], s.clients[i])
         /\ \A a \in DOMAIN s.pending_clients :
              /\ SameIdentity(s.pending_clients[a], s.pending_clients[a])
              /\ AsSecs(s.current_time) <= s.pending_clients[a].expire_timestamp
  BY DEF ServerOK, PendingOK, ConnectionOK, SameIdentity

LEMMA NoNewSlot ==
  ASSUME NEW s, NEW t, ServerOK(t), Moves(s, t), DOMAIN t.clients \subseteq DOMAIN s.clients,
         NEW packets, \A q \in packets : PacketOK(q, Seated(t))
  PROVE  ResultOK(s, Replies(t, packets))
  BY DEF ResultOK, Replies

LEMMA NoReply ==
  ASSUME NEW s, ServerOK(s)
  PROVE  ResultOK(s, Replies(s, {}))
<1>1. Moves(s, s)
  BY DEF Moves, KeepsPeople
<1> QED BY <1>1, NoNewSlot

\* A connection in a slot is heard, or sends; the others stay.
LEMMA SlotUpdated ==
  ASSUME NEW s, ServerOK(s), NEW slot, NEW c, NEW t,
         slot \in DOMAIN s.clients => SameIdentity(c, s.clients[slot]),
         DOMAIN t = ServerFields, t.current_time = s.current_time,
         t.pending_clients = s.pending_clients, t.clients = [s.clients EXCEPT ![slot] = c],
         t.addr = s.addr, t.connect_token_entries = s.connect_token_entries
  PROVE  ServerOK(t) /\ Moves(s, t) /\ DOMAIN t.clients = DOMAIN s.clients
<1>1. DOMAIN t.clients = DOMAIN s.clients
  OBVIOUS
<1>2. \A i \in DOMAIN t.clients : SameIdentity(t.clients[i], s.clients[i])
  BY SameSelf
<1>3. s.current_time \in Nat
  BY DEF ServerOK
<1>4. ServerOK(t) /\ People(t) \subseteq People(s)
  BY <1>1, <1>2, <1>3, SameSelf, FewerConnections
<1> QED BY <1>1, <1>4, Zenon DEF Moves, KeepsPeople

\* A connection leaves its slot.
LEMMA SlotFreed ==
  ASSUME NEW s, ServerOK(s), NEW slot
  PROVE  LET t == [s EXCEPT !.clients = Without(@, slot)] IN ServerOK(t) /\ Moves(s, t)
<1> DEFINE t == [s EXCEPT !.clients = Without(@, slot)]
<1>1. /\ DOMAIN t = ServerFields /\ t.current_time \in Nat /\ t.current_time = s.current_time
      /\ t.pending_clients = s.pending_clients /\ t.clients = Without(s.clients, slot)
      /\ t.addr = s.addr /\ t.connect_token_entries = s.connect_token_entries
  BY DEF ServerOK, ServerFields
<1> HIDE DEF t
<1>2. \A i \in DOMAIN t.clients :
        i \in DOMAIN s.clients /\ SameIdentity(t.clients[i], s.clients[i])
  BY <1>1, SameSelf DEF Without
<1>3. ServerOK(t) /\ People(t) \subseteq People(s)
  BY <1>1, <1>2, SameSelf, FewerConnections
<1>4. Moves(s, t)
  BY <1>1, <1>3, Zenon DEF Moves, KeepsPeople
<1> QED BY <1>3, <1>4 DEF t

LEMMA ProcessConnectedOK ==
  ASSUME NEW s, ServerOK(s), NEW slot, NEW p
  PROVE  ResultOK(s, ProcessConnected(s, slot, p))
<1> DEFINE client == s.clients[slot]
           heard == [client EXCEPT !.last_packet_received_time = s.current_time,
                                   !.replay_protection = Advanced(@, p)]
           c == [heard EXCEPT !.confirmed = @ \/ p.type \in {"Payload", "KeepAlive"}]
           t == [s EXCEPT !.clients[slot] = c]
<1>1. CASE ~ Decodes(p, client.key, client.replay_protection)
  BY <1>1, NoReply DEF ProcessConnected
<1>2. CASE Decodes(p, client.key, client.replay_protection) /\ p.type = "Disconnect"
  <2> DEFINE u == [s EXCEPT !.clients = Without(@, slot)]
  <2>1. ProcessConnected(s, slot, p) = Replies(u, {})
    BY <1>2 DEF ProcessConnected
  <2>2. ServerOK(u) /\ Moves(s, u)
    BY SlotFreed
  <2>3. DOMAIN u.clients \subseteq DOMAIN s.clients
    BY DEF Without, ServerOK, ServerFields
  <2> HIDE DEF u
  <2> QED BY <2>1, <2>2, <2>3, NoNewSlot
<1>3. CASE Decodes(p, client.key, client.replay_protection) /\ p.type # "Disconnect"
  <2>1. ProcessConnected(s, slot, p) = Replies(t, {})
    BY <1>3 DEF ProcessConnected
  <2>2. slot \in DOMAIN s.clients => DOMAIN client = ConnectionFields
    BY DEF ServerOK, ConnectionOK
  <2>3. slot \in DOMAIN s.clients => SameIdentity(c, client)
    BY <2>2 DEF SameIdentity, ConnectionFields
  <2>4. /\ DOMAIN t = ServerFields /\ t.current_time = s.current_time
        /\ t.pending_clients = s.pending_clients /\ t.clients = [s.clients EXCEPT ![slot] = c]
        /\ t.addr = s.addr /\ t.connect_token_entries = s.connect_token_entries
    BY DEF ServerOK, ServerFields
  <2> HIDE DEF c, t
  <2>5. ServerOK(t) /\ Moves(s, t) /\ DOMAIN t.clients = DOMAIN s.clients
    BY <2>3, <2>4, SlotUpdated
  <2> QED BY <2>1, <2>5, NoNewSlot
<1> QED BY <1>1, <1>2, <1>3

LEMMA UpdateClientOK ==
  ASSUME NEW s, ServerOK(s), NEW slot \in DOMAIN s.clients
  PROVE  ResultOK(s, UpdateClient(s, slot)) /\ ResultOK(s, DisconnectClient(s, slot))
<1> DEFINE client == s.clients[slot]
           c == [client EXCEPT !.sequence = @ + 1, !.last_packet_send_time = s.current_time]
           t == [s EXCEPT !.clients[slot].sequence = @ + 1,
                          !.clients[slot].last_packet_send_time = s.current_time]
           q == KeepAlive(s.addr, client.addr, client.key, client.sequence, slot)
<1>1. ResultOK(s, DisconnectClient(s, slot))
  <2> DEFINE u == [s EXCEPT !.clients = Without(@, slot)]
             d == Sealed("Disconnect", s.addr, client.addr, client.key, client.sequence)
  <2>1. DisconnectClient(s, slot) = Replies(u, {d})
    BY DEF DisconnectClient
  <2>2. ServerOK(u) /\ Moves(s, u)
    BY SlotFreed
  <2>3. DOMAIN u.clients \subseteq DOMAIN s.clients
    BY DEF Without, ServerOK, ServerFields
  <2>4. PacketOK(d, Seated(u))
    BY DEF PacketOK, Sealed
  <2> HIDE DEF u, d
  <2> QED BY <2>1, <2>2, <2>3, <2>4, NoNewSlot
<1>2. ASSUME UpdateClient(s, slot) = Replies(t, {q})
      PROVE  ResultOK(s, UpdateClient(s, slot))
  <2>1. DOMAIN client = ConnectionFields
    BY DEF ServerOK, ConnectionOK
  <2>2. SameIdentity(c, client)
    BY <2>1 DEF SameIdentity, ConnectionFields
  <2>3. /\ DOMAIN t = ServerFields /\ t.current_time = s.current_time
        /\ t.pending_clients = s.pending_clients /\ t.clients = [s.clients EXCEPT ![slot] = c]
        /\ t.addr = s.addr /\ t.connect_token_entries = s.connect_token_entries
    BY DEF ServerOK, ServerFields
  <2> HIDE DEF t
  <2>4. ServerOK(t) /\ Moves(s, t) /\ DOMAIN t.clients = DOMAIN s.clients
    BY <2>2, <2>3, SlotUpdated
  <2>5. Told(q) = Slot(t.addr, slot, t.clients[slot])
    BY <2>2, <2>3 DEF Told, KeepAlive, Slot, SameIdentity
  <2>6. PacketOK(q, Seated(t))
    BY <2>4, <2>5 DEF PacketOK, KeepAlive, Seated
  <2> HIDE DEF q
  <2> QED BY <1>2, <2>4, <2>6, NoNewSlot
<1>3. \/ UpdateClient(s, slot) = DisconnectClient(s, slot)
      \/ UpdateClient(s, slot) = Replies(t, {q})
      \/ UpdateClient(s, slot) = Replies(s, {})
  BY DEF UpdateClient
<1> QED BY <1>1, <1>2, <1>3, NoReply

LEMMA GeneratePayloadOK ==
  ASSUME NEW s, ServerOK(s), NEW client_id
  PROVE  ResultOK(s, GeneratePayloadFor(s, client_id))
<1> DEFINE slot == Min(SlotsOfId(s, client_id))
           client == s.clients[slot]
           c == [client EXCEPT !.sequence = @ + 1, !.last_packet_send_time = s.current_time]
           t == [s EXCEPT !.clients[slot].sequence = @ + 1,
                          !.clients[slot].last_packet_send_time = s.current_time]
           q == Sealed("Payload", s.addr, client.addr, client.key, client.sequence)
<1>1. GeneratePayloadFor(s, client_id) = Replies(t, {q})
  BY DEF GeneratePayloadFor
<1>2. PacketOK(q, Seated(t))
  BY DEF PacketOK, Sealed
<1>3. DOMAIN t = ServerFields /\ t.current_time = s.current_time
      /\ t.pending_clients = s.pending_clients
      /\ t.addr = s.addr /\ t.connect_token_entries = s.connect_token_entries
  BY DEF ServerOK, ServerFields
<1>4. t.clients = [s.clients EXCEPT ![slot] = c]
  BY Zenon DEF ServerOK, ServerFields
<1> HIDE DEF q, slot
<1>5. slot \in DOMAIN s.clients => SameIdentity(c, client)
  <2>1. slot \in DOMAIN s.clients => DOMAIN client = ConnectionFields
    BY DEF ServerOK, ConnectionOK
  <2> QED BY <2>1 DEF SameIdentity, ConnectionFields
<1> HIDE DEF t, c
<1>6. ServerOK(t) /\ Moves(s, t) /\ DOMAIN t.clients = DOMAIN s.clients
  BY <1>3, <1>4, <1>5, SlotUpdated
<1> QED BY <1>1, <1>2, <1>6, NoNewSlot

LEMMA SetMaxClientsOK ==
  ASSUME NEW s, ServerOK(s), NEW n
  PROVE  ResultOK(s, Replies(SetMaxClients(s, n), {}))
<1> DEFINE t == SetMaxClients(s, n)
<1>1. /\ DOMAIN t = ServerFields /\ t.current_time = s.current_time
      /\ t.pending_clients = s.pending_clients /\ t.clients = s.clients
      /\ t.addr = s.addr /\ t.connect_token_entries = s.connect_token_entries
  BY DEF SetMaxClients, ServerOK, ServerFields
<1> HIDE DEF t
<1>2. ServerOK(t) /\ Moves(s, t)
  BY <1>1, Zenon DEF ServerOK, Moves, KeepsPeople, People
<1>3. ResultOK(s, Replies(t, {}))
  BY <1>1, <1>2, NoNewSlot
<1> QED BY <1>3 DEF t

\* Time passes; the pending connections whose token expired go.
LEMMA ServerUpdateOK ==
  ASSUME NEW s, ServerOK(s)
  PROVE  ResultOK(s, Replies(ServerUpdate(s, 1), {}))
<1> DEFINE t == ServerUpdate(s, 1)
           now == s.current_time + 1
           live == {a \in DOMAIN s.pending_clients : AsSecs(now) <= s.pending_clients[a].expire_timestamp}
<1>1. /\ DOMAIN t = ServerFields /\ t.current_time = now /\ t.clients = s.clients
      /\ t.pending_clients = [a \in live |-> s.pending_clients[a]]
      /\ t.addr = s.addr /\ t.connect_token_entries = s.connect_token_entries
  BY DEF ServerUpdate, ServerOK, ServerFields, Restrict
<1>2. now \in Nat
  BY DEF ServerOK
<1> HIDE DEF t, now
<1>3. ServerOK(t) /\ People(t) \subseteq People(s)
  BY <1>1, <1>2, SameSelf, FewerConnections
<1>4. Moves(s, t)
  BY <1>1, <1>3, Zenon DEF Moves, KeepsPeople
<1>5. ResultOK(s, Replies(t, {}))
  BY <1>1, <1>3, <1>4, NoNewSlot
<1> QED BY <1>5 DEF t

\* A pending connection goes, comes, or is made again.
LEMMA PendingRemoved ==
  ASSUME NEW s, ServerOK(s), NEW a, NEW t,
         DOMAIN t = ServerFields, t.current_time = s.current_time, t.clients = s.clients,
         t.pending_clients = Without(s.pending_clients, a)
  PROVE  ServerOK(t) /\ People(t) \subseteq People(s)
<1>1. s.current_time \in Nat
  BY DEF ServerOK
<1> QED BY <1>1, SameSelf, FewerConnections DEF Without

LEMMA PendingAdded ==
  ASSUME NEW s, ServerOK(s), NEW a, NEW c, PendingOK(c, a, s.current_time),
         \A i \in DOMAIN s.clients : s.clients[i].addr # a, NEW t,
         DOMAIN t = ServerFields, t.current_time = s.current_time, t.clients = s.clients,
         t.pending_clients = With(s.pending_clients, a, c)
  PROVE  ServerOK(t) /\ People(t) \subseteq People(s) \cup {<<c.key, a>>}
<1>1. \A i \in DOMAIN t.clients :
        ConnectionOK(t.clients[i]) /\ t.clients[i].addr \notin DOMAIN t.pending_clients
  BY DEF ServerOK, With
<1>2. \A b \in DOMAIN t.pending_clients : PendingOK(t.pending_clients[b], b, t.current_time)
  BY DEF ServerOK, With
<1>3. ServerOK(t)
  BY <1>1, <1>2 DEF ServerOK
<1>4. c.addr = a
  BY DEF PendingOK
<1> QED BY <1>3, <1>4 DEF People, With

LEMMA ConnectionRequestOK ==
  ASSUME NEW s, ServerOK(s), NEW addr, NEW token \in AllTokens
  PROVE  ResultOK(s, HandleConnectionRequest(s, addr, token))
<1> DEFINE r == HandleConnectionRequest(s, addr, token)
           entered == [s EXCEPT !.connect_token_entries = Entered(s, addr, token.key),
                                !.global_sequence = @ + 1]
           pending == IF addr \in DOMAIN s.pending_clients THEN s.pending_clients[addr]
                      ELSE NewConnection(s, addr, token)
           c == [pending EXCEPT !.last_packet_received_time = s.current_time,
                                !.last_packet_send_time = s.current_time]
           n == s.challenge_sequence + 1
<1>1. CASE Rejected(s, token) \/ Denied(s, addr, token)
  BY <1>1, NoReply DEF HandleConnectionRequest
<1>2. CASE /\ ~ (Rejected(s, token) \/ Denied(s, addr, token))
           /\ Cardinality(DOMAIN s.clients) >= s.max_clients
  <2> DEFINE t == [entered EXCEPT !.pending_clients = Without(@, addr)]
             q == Sealed("ConnectionDenied", s.addr, addr, token.key, s.global_sequence)
  <2>1. r = Replies(t, {q})
    BY <1>2 DEF HandleConnectionRequest
  <2>2. /\ DOMAIN t = ServerFields /\ t.current_time = s.current_time /\ t.clients = s.clients
        /\ t.pending_clients = Without(s.pending_clients, addr)
        /\ t.addr = s.addr /\ t.connect_token_entries = Entered(s, addr, token.key)
    BY DEF ServerOK, ServerFields
  <2>3. PacketOK(q, Seated(t))
    BY DEF PacketOK, Sealed
  <2> HIDE DEF t, q, r
  <2>4. ServerOK(t) /\ People(t) \subseteq People(s)
    BY <2>2, PendingRemoved
  <2>5. Moves(s, t)
    <3>1. EntersToken(s, t, addr, token)
      BY <1>2, <2>2, <2>4, Zenon DEF Denied, EntersToken
    <3> QED BY <2>2, <3>1, Zenon DEF Moves
  <2>6. ResultOK(s, r)
    BY <2>1, <2>2, <2>3, <2>4, <2>5, NoNewSlot
  <2> QED BY <2>6 DEF r
<1>3. CASE /\ ~ (Rejected(s, token) \/ Denied(s, addr, token))
           /\ ~ (Cardinality(DOMAIN s.clients) >= s.max_clients)
  <2> DEFINE t == [entered EXCEPT !.challenge_sequence = n, !.pending_clients = With(@, addr, c)]
             q == Challenge(s.addr, addr, token.key, s.global_sequence, n,
                            ChallengeToken(s.addr, n, token))
  <2>1. r = Replies(t, {q})
    BY <1>3 DEF HandleConnectionRequest
  <2>2. /\ DOMAIN t = ServerFields /\ t.current_time = s.current_time /\ t.clients = s.clients
        /\ t.pending_clients = With(s.pending_clients, addr, c)
        /\ t.addr = s.addr /\ t.connect_token_entries = Entered(s, addr, token.key)
    BY DEF ServerOK, ServerFields
  <2>3. PacketOK(q, Seated(t))
    BY DEF PacketOK, Challenge, ChallengeToken, OfToken
  <2>4. \A i \in DOMAIN s.clients : s.clients[i].addr # addr
    BY <1>3 DEF Denied, SlotsOfAddr
  <2>5. PendingOK(pending, addr, s.current_time)
    <3>1. CASE addr \in DOMAIN s.pending_clients
      BY <3>1 DEF ServerOK
    <3>2. CASE addr \notin DOMAIN s.pending_clients
      <4>1. pending = NewConnection(s, addr, token)
        BY <3>2
      <4>2. /\ DOMAIN NewConnection(s, addr, token) = ConnectionFields
            /\ NewConnection(s, addr, token).addr = addr
            /\ NewConnection(s, addr, token).key = token.key
            /\ NewConnection(s, addr, token).client_id = token.client_id
            /\ NewConnection(s, addr, token).user_data = token.key
            /\ NewConnection(s, addr, token).expire_timestamp = token.expire_timestamp
        BY DEF NewConnection, ConnectionFields
      <4>3. AsSecs(s.current_time) <= token.expire_timestamp
        <5>1. AsSecs(s.current_time) \in Int /\ token.expire_timestamp \in Int
          BY SecondsAreIntegers, TokenFacts DEF ServerOK
        <5>2. ~ (AsSecs(s.current_time) >= token.expire_timestamp)
          BY <1>3 DEF Rejected
        <5> QED BY <5>1, <5>2
      <4>4. OfToken(token.key, token.client_id, token.key)
        BY DEF OfToken
      <4> QED BY <4>1, <4>2, <4>3, <4>4 DEF PendingOK, ConnectionOK
    <3> QED BY <3>1, <3>2
  <2>a. <<pending.key, addr>> \in People(s) \cup {<<token.key, addr>>}
    <3>1. CASE addr \in DOMAIN s.pending_clients
      BY <3>1 DEF People, ServerOK, PendingOK
    <3>2. CASE addr \notin DOMAIN s.pending_clients
      BY <3>2 DEF NewConnection
    <3> QED BY <3>1, <3>2
  <2> HIDE DEF pending
  <2>6. PendingOK(c, addr, s.current_time) /\ c.key = pending.key
    BY <2>5 DEF PendingOK, ConnectionOK, ConnectionFields
  <2> HIDE DEF t, q, r, c
  <2>7. ServerOK(t) /\ People(t) \subseteq People(s) \cup {<<c.key, addr>>}
    BY <2>2, <2>4, <2>6, PendingAdded, Zenon
  <2>8. Moves(s, t)
    <3>1. EntryAllowed(s, addr, token.key)
      BY <1>3, Zenon DEF Denied
    <3>2. EntersToken(s, t, addr, token)
      BY <2>2, <2>a, <2>6, <2>7, <3>1 DEF EntersToken
    <3> QED BY <2>2, <3>2, Zenon DEF Moves
  <2>9. ResultOK(s, r)
    BY <2>1, <2>2, <2>3, <2>7, <2>8, NoNewSlot
  <2> QED BY <2>9 DEF r
<1> QED BY <1>1, <1>2, <1>3

(***************************************************************************)
(* The Response handler.  Its look-up of the challenge token's client id   *)
(* is a look-up of the pending connection's.                               *)
(***************************************************************************)
LEMMA SeatOK ==
  ASSUME NEW s, ServerOK(s), NEW a \in DOMAIN s.pending_clients, NEW p,
         LET pending == s.pending_clients[a]
         IN  OfToken(pending.key, p.token_data.client_id, p.token_data.user_data),
         SlotsOfId(s, p.token_data.client_id) = {}
  PROVE  ResultOK(s, Seat(s, s.pending_clients[a], p))
<1> DEFINE pending == s.pending_clients[a]
           removed == [s EXCEPT !.pending_clients = Without(@, pending.addr)]
           slot == Min(FreeSlots(s))
           c == [pending EXCEPT !.user_data = p.token_data.user_data, !.sequence = @ + 1,
                                !.last_packet_send_time = s.current_time]
           r == Seat(s, pending, p)
<1>1. /\ PendingOK(pending, a, s.current_time) /\ pending.addr = a
      /\ DOMAIN pending = ConnectionFields
      /\ OfToken(pending.key, pending.client_id, pending.user_data)
  BY DEF ServerOK, PendingOK, ConnectionOK
<1>2. pending.client_id = p.token_data.client_id /\ pending.user_data = p.token_data.user_data
  <2> HIDE DEF pending
  <2>1. OfToken(pending.key, p.token_data.client_id, p.token_data.user_data)
    BY DEF pending
  <2> QED BY <1>1, <2>1, OneToken
<1>3. \A i \in DOMAIN s.clients :
        s.clients[i].client_id # pending.client_id /\ s.clients[i].addr # a
  BY <1>2 DEF SlotsOfId, ServerOK
<1>4. CASE FreeSlots(s) = {}
  <2> DEFINE t == [removed EXCEPT !.global_sequence = @ + 1]
             q == Sealed("ConnectionDenied", s.addr, pending.addr, pending.key, s.global_sequence)
  <2>1. r = Replies(t, {q})
    BY <1>4 DEF Seat, ServerOK, ServerFields
  <2>2. /\ DOMAIN t = ServerFields /\ t.current_time = s.current_time /\ t.clients = s.clients
        /\ t.pending_clients = Without(s.pending_clients, pending.addr)
        /\ t.addr = s.addr /\ t.connect_token_entries = s.connect_token_entries
    BY DEF ServerOK, ServerFields
  <2>3. PacketOK(q, Seated(t))
    BY DEF PacketOK, Sealed
  <2> HIDE DEF t, q, r
  <2>4. ServerOK(t) /\ Moves(s, t)
    BY <2>2, PendingRemoved DEF Moves, KeepsPeople
  <2>5. ResultOK(s, r)
    BY <2>1, <2>2, <2>3, <2>4, NoNewSlot
  <2> QED BY <2>5 DEF r
<1>5. CASE FreeSlots(s) # {}
  <2> DEFINE t == [removed EXCEPT !.clients = With(@, slot, c)]
             q == KeepAlive(s.addr, pending.addr, pending.key, pending.sequence, slot)
  <2>1. r = Replies(t, {q})
    BY <1>5 DEF Seat
  <2>2. /\ DOMAIN t = ServerFields /\ t.current_time = s.current_time /\ t.addr = s.addr
        /\ t.clients = With(s.clients, slot, c)
        /\ t.pending_clients = Without(s.pending_clients, a)
        /\ t.connect_token_entries = s.connect_token_entries
    BY <1>1 DEF ServerOK, ServerFields
  <2>3. /\ DOMAIN c = ConnectionFields /\ c.addr = a /\ c.key = pending.key
        /\ c.client_id = pending.client_id /\ c.user_data = pending.user_data
        /\ c.expire_timestamp = pending.expire_timestamp
    BY <1>1, <1>2 DEF ConnectionFields
  <2> HIDE DEF t, slot, c
  <2>4. PacketOK(q, Seated(t))
    <3>1. Told(q) = Slot(t.addr, slot, t.clients[slot]) /\ slot \in DOMAIN t.clients
      BY <1>1, <2>2, <2>3, Zenon DEF Told, KeepAlive, Slot, With
    <3> QED BY <3>1 DEF PacketOK, KeepAlive, Seated
  <2>5. \A i \in DOMAIN t.clients : t.clients[i] = IF i = slot THEN c ELSE s.clients[i]
    BY <2>2 DEF With
  <2>6. \A i \in DOMAIN t.clients : i # slot => i \in DOMAIN s.clients
    BY <2>2 DEF With
  <2>7. \A i \in DOMAIN t.clients :
          ConnectionOK(t.clients[i]) /\ t.clients[i].addr \notin DOMAIN t.pending_clients
    <3>1. ConnectionOK(c)
      BY <1>1, <2>3, Zenon DEF ConnectionOK
    <3> QED BY <2>2, <2>3, <2>5, <2>6, <3>1, Zenon DEF ServerOK, Without
  <2>8. \A i, j \in DOMAIN t.clients : i # j =>
          t.clients[i].client_id # t.clients[j].client_id /\ t.clients[i].addr # t.clients[j].addr
    <3>1. \A i \in DOMAIN s.clients :
            c.client_id # s.clients[i].client_id /\ c.addr # s.clients[i].addr
      BY <1>1, <1>3, <2>3
    <3>2. \A i, j \in DOMAIN s.clients : i # j =>
            s.clients[i].client_id # s.clients[j].client_id /\ s.clients[i].addr # s.clients[j].addr
      BY DEF ServerOK
    <3> QED BY <2>5, <2>6, <3>1, <3>2
  <2>9. \A b \in DOMAIN t.pending_clients : PendingOK(t.pending_clients[b], b, t.current_time)
    BY <2>2 DEF ServerOK, Without
  <2>10. ServerOK(t)
    BY <2>2, <2>7, <2>8, <2>9, Zenon DEF ServerOK
  <2>11. \A i \in DOMAIN t.clients : i \notin DOMAIN s.clients =>
           AsSecs(s.current_time) <= t.clients[i].expire_timestamp
    BY <1>1, <2>3, <2>5, <2>6, Zenon DEF PendingOK
  <2>12. Moves(s, t)
    <3>1. <<c.key, c.addr>> \in People(s)
      BY <1>1, <2>3, Zenon DEF People
    <3>2. \A i \in DOMAIN t.clients : <<t.clients[i].key, t.clients[i].addr>> \in People(s)
      BY <2>5, <2>6, <3>1 DEF People
    <3>3. \A b \in DOMAIN t.pending_clients :
            <<t.pending_clients[b].key, t.pending_clients[b].addr>> \in People(s)
      BY <2>2, Zenon DEF People, Without
    <3>4. People(t) \subseteq People(s)
      BY <3>2, <3>3, Zenon DEF People
    <3> QED BY <2>2, <3>4, Zenon DEF Moves, KeepsPeople
  <2> HIDE DEF q, r
  <2>13. ResultOK(s, r)
    BY <2>1, <2>4, <2>10, <2>11, <2>12, Zenon DEF ResultOK, Replies
  <2> QED BY <2>13 DEF r
<1> QED BY <1>4, <1>5

\* Decoding a packet of a pending connection updates it.
Heard(s, addr, p) ==
  [s.pending_clients[addr] EXCEPT !.last_packet_received_time = s.current_time,
                                  !.replay_protection = Advanced(@, p)]

Decoded(s, addr, p) == [s EXCEPT !.pending_clients[addr] = Heard(s, addr, p)]

LEMMA PendingHeard ==
  ASSUME NEW s, ServerOK(s), NEW addr \in DOMAIN s.pending_clients, NEW p
  PROVE  /\ ServerOK(Decoded(s, addr, p)) /\ Decoded(s, addr, p).clients = s.clients
         /\ Decoded(s, addr, p).current_time = s.current_time
         /\ addr \in DOMAIN Decoded(s, addr, p).pending_clients
         /\ Decoded(s, addr, p).pending_clients[addr] = Heard(s, addr, p)
         /\ Heard(s, addr, p).key = s.pending_clients[addr].key
         /\ Decoded(s, addr, p).addr = s.addr
         /\ Decoded(s, addr, p).connect_token_entries = s.connect_token_entries
         /\ People(Decoded(s, addr, p)) \subseteq People(s)
<1> DEFINE pending == s.pending_clients[addr]
           heard == Heard(s, addr, p)
           decoded == Decoded(s, addr, p)
<1>1. DOMAIN pending = ConnectionFields /\ pending.addr = addr
  BY DEF ServerOK, PendingOK, ConnectionOK
<1>2. SameIdentity(heard, pending)
  BY <1>1 DEF SameIdentity, ConnectionFields, Heard
<1>3. /\ DOMAIN decoded = ServerFields /\ decoded.clients = s.clients
      /\ decoded.current_time = s.current_time
      /\ decoded.pending_clients = [s.pending_clients EXCEPT ![addr] = heard]
      /\ decoded.addr = s.addr /\ decoded.connect_token_entries = s.connect_token_entries
  BY DEF ServerOK, ServerFields, Decoded
<1> HIDE DEF heard, decoded
<1>4. \A b \in DOMAIN decoded.pending_clients :
        /\ b \in DOMAIN s.pending_clients
        /\ SameIdentity(decoded.pending_clients[b], s.pending_clients[b])
        /\ AsSecs(decoded.current_time) <= s.pending_clients[b].expire_timestamp
  BY <1>2, <1>3, SameSelf
<1>5. s.current_time \in Nat
  BY DEF ServerOK
<1>6. ServerOK(decoded) /\ People(decoded) \subseteq People(s)
  BY <1>3, <1>4, <1>5, SameSelf, FewerConnections, Zenon
<1>7. heard.key = pending.key
  BY <1>2 DEF SameIdentity
<1> QED BY <1>3, <1>6, <1>7 DEF heard, decoded

LEMMA ProcessResponseOK ==
  ASSUME NEW s, ServerOK(s), NEW a \in DOMAIN s.pending_clients, NEW p,
         LET pending == s.pending_clients[a]
         IN  OfToken(pending.key, p.token_data.client_id, p.token_data.user_data)
  PROVE  ResultOK(s, ProcessResponse(s, s.pending_clients[a], p))
<1> DEFINE pending == s.pending_clients[a]
           r == ProcessResponse(s, pending, p)
           t == [s EXCEPT !.pending_clients = Without(@, pending.addr)]
<1>1. \/ r = Replies(s, {})
      \/ r = Replies(t, {})
      \/ r = Seat(s, pending, p) /\ SlotsOfId(s, p.token_data.client_id) = {}
  BY DEF ProcessResponse
<1>2. /\ DOMAIN t = ServerFields /\ t.current_time = s.current_time /\ t.clients = s.clients
      /\ t.pending_clients = Without(s.pending_clients, pending.addr)
      /\ t.addr = s.addr /\ t.connect_token_entries = s.connect_token_entries
  BY DEF ServerOK, ServerFields
<1> HIDE DEF r, t
<1>3. ServerOK(t) /\ Moves(s, t)
  BY <1>2, PendingRemoved DEF Moves, KeepsPeople
<1>4. ResultOK(s, Replies(t, {}))
  BY <1>2, <1>3, NoNewSlot
<1>5. ResultOK(s, r)
  BY <1>1, <1>4, NoReply, SeatOK
<1> QED BY <1>5 DEF r

LEMMA ProcessPendingOK ==
  ASSUME NEW s, ServerOK(s), NEW addr \in DOMAIN s.pending_clients, NEW p, NEW J, PacketOK(p, J)
  PROVE  ResultOK(s, ProcessPending(s, addr, p))
<1> DEFINE pending == s.pending_clients[addr]
           heard == Heard(s, addr, p)
           decoded == Decoded(s, addr, p)
           r == ProcessPending(s, addr, p)
<1>1. /\ ServerOK(decoded) /\ decoded.clients = s.clients
      /\ decoded.current_time = s.current_time
      /\ addr \in DOMAIN decoded.pending_clients /\ decoded.pending_clients[addr] = heard
      /\ heard.key = pending.key
  BY PendingHeard
<1>a. /\ decoded.addr = s.addr /\ decoded.connect_token_entries = s.connect_token_entries
      /\ People(decoded) \subseteq People(s)
  BY PendingHeard
<1>2. \/ r = Replies(s, {})
      \/ p.type = "ConnectionRequest" /\ r = HandleConnectionRequest(decoded, addr, p.token)
      \/ /\ p.type = "Response" /\ Decodes(p, pending.key, pending.replay_protection)
         /\ r = ProcessResponse(decoded, heard, p)
      \/ r = Replies(decoded, {})
  BY DEF ProcessPending, Heard, Decoded
<1> HIDE DEF decoded, heard, r
<1>3. \A x : ResultOK(decoded, x) => ResultOK(s, x)
  <2>1. ASSUME NEW t, Moves(decoded, t) PROVE Moves(s, t)
    <3>1. CASE KeepsPeople(decoded, t)
      BY <1>a, <2>1, <3>1 DEF Moves, KeepsPeople
    <3>2. ASSUME NEW b, NEW token \in AllTokens, EntersToken(decoded, t, b, token)
          PROVE  EntersToken(s, t, b, token)
      <4>1. EntryAllowed(s, b, token.key) /\ Entered(decoded, b, token.key) = Entered(s, b, token.key)
        BY <1>1, <1>a, <3>2 DEF EntersToken, EntryAllowed, Entered, Known
      <4> QED BY <1>a, <3>2, <4>1 DEF EntersToken
    <3> QED BY <1>a, <2>1, <3>1, <3>2 DEF Moves
  <2> QED BY <1>1, <2>1, Zenon DEF ResultOK
<1>4. CASE p.type = "ConnectionRequest" /\ r = HandleConnectionRequest(decoded, addr, p.token)
  <2>1. p.token \in AllTokens
    BY <1>4 DEF PacketOK
  <2> QED BY <1>1, <1>3, <1>4, <2>1, ConnectionRequestOK DEF r
<1>5. CASE /\ p.type = "Response" /\ Decodes(p, pending.key, pending.replay_protection)
           /\ r = ProcessResponse(decoded, heard, p)
  <2>1. p.key = pending.key
    BY <1>5 DEF Decodes
  <2>2. OfToken(p.key, p.token_data.client_id, p.token_data.user_data)
    BY <1>5 DEF PacketOK
  <2>3. OfToken(decoded.pending_clients[addr].key, p.token_data.client_id, p.token_data.user_data)
    BY <1>1, <2>1, <2>2
  <2>4. ResultOK(decoded, ProcessResponse(decoded, decoded.pending_clients[addr], p))
    BY <1>1, <2>3, ProcessResponseOK
  <2> QED BY <1>1, <1>3, <1>5, <2>4 DEF r
<1>6. ResultOK(s, Replies(decoded, {}))
  BY <1>1, <1>3, NoReply
<1> QED BY <1>2, <1>4, <1>5, <1>6, NoReply DEF r

LEMMA ServerProcessPacketOK ==
  ASSUME NEW s, ServerOK(s), NEW addr, NEW p, NEW J, PacketOK(p, J)
  PROVE  ResultOK(s, ServerProcessPacket(s, addr, p))
<1>1. p.type = "ConnectionRequest" => ResultOK(s, HandleConnectionRequest(s, addr, p.token))
  BY ConnectionRequestOK DEF PacketOK
<1>2. addr \in DOMAIN s.pending_clients => ResultOK(s, ProcessPending(s, addr, p))
  BY ProcessPendingOK
<1>3. ResultOK(s, ProcessConnected(s, Min(SlotsOfAddr(s, addr)), p))
  BY ProcessConnectedOK
<1> QED BY <1>1, <1>2, <1>3, NoReply DEF ServerProcessPacket

-----------------------------------------------------------------------------
(***************************************************************************)
(* The methods of the client, and then those of its transport.  From c to  *)
(* d a client keeps its token's data, is connected only to a slot its      *)
(* server gave it, and does not go back to connecting.                     *)
(***************************************************************************)
Follows(c, d, a, seated) ==
  /\ ClientOK(d, a)
  /\ d.state = "Connected" => HasSlot(d, a) \in seated
  /\ c.state \notin Connecting => d.state \notin Connecting /\ HasSlot(d, a) = HasSlot(c, a)

SlotKnown(c, a, seated) == c.state = "Connected" => HasSlot(c, a) \in seated

LEMMA FollowsSelf ==
  ASSUME NEW a, NEW J, NEW c, ClientOK(c, a), SlotKnown(c, a, J)
  PROVE  Follows(c, c, a, J)
  BY DEF Follows, SlotKnown

LEMMA FollowsTransitive ==
  ASSUME NEW a, NEW J, NEW c, NEW d, NEW e, Follows(c, d, a, J), Follows(d, e, a, J)
  PROVE  Follows(c, e, a, J)
  BY DEF Follows

\* Most steps change nothing the invariant speaks of but the state.
LEMMA FollowsSame ==
  ASSUME NEW a, NEW J, NEW c, ClientOK(c, a), SlotKnown(c, a, J), NEW d, DOMAIN d = ClientFields,
         d.addr = c.addr, d.token = c.token, d.server_addr_index = c.server_addr_index,
         d.client_index = c.client_index, d.challenge_token_data = c.challenge_token_data,
         d.state = c.state \/ d.state \notin Connecting \cup {"Connected"}
  PROVE  Follows(c, d, a, J)
<1>1. HasSlot(d, a) = HasSlot(c, a)
  BY DEF HasSlot, ServerAddr
<1>2. ClientOK(d, a)
  BY DEF ClientOK, Connecting
<1> QED BY <1>1, <1>2 DEF Follows, SlotKnown

LEMMA DisconnectOK ==
  ASSUME NEW a, NEW J, NEW c, ClientOK(c, a), SlotKnown(c, a, J)
  PROVE  /\ Follows(c, Disconnect(c).client, a, J)
         /\ Disconnect(c).client.state \notin Connecting \cup {"Connected"}
         /\ \A q \in Disconnect(c).out : PacketOK(q, J)
<1> DEFINE d == [c EXCEPT !.state = "DisconnectedByClient"]
<1>1. Disconnect(c).client = d
  BY DEF Disconnect, Sends
<1>2. /\ DOMAIN d = ClientFields /\ d.addr = c.addr /\ d.token = c.token
      /\ d.server_addr_index = c.server_addr_index /\ d.client_index = c.client_index
      /\ d.challenge_token_data = c.challenge_token_data
      /\ d.state \notin Connecting \cup {"Connected"}
  BY DEF ClientOK, ClientFields, Connecting
<1>3. \A q \in Disconnect(c).out : PacketOK(q, J)
  BY DEF Disconnect, Sends, Sealed, PacketOK
<1> HIDE DEF d
<1> QED BY <1>1, <1>2, <1>3, FollowsSame, Zenon

\* A packet is received: the handshake goes on only with what the server answered.
LEMMA HandleOK ==
  ASSUME NEW a, NEW J, NEW c, ClientOK(c, a), SlotKnown(c, a, J),
         NEW p, PacketOK(p, J), p.to = a, p.from = ServerAddr(c),
         p.type # "ConnectionRequest" => p.key = c.token.key
  PROVE  Follows(c, Handle(c, p), a, J)
<1> DEFINE heard == [c EXCEPT !.last_packet_received_time = c.current_time]
           d == Handle(c, p)
<1>1. /\ DOMAIN heard = ClientFields /\ heard.addr = c.addr /\ heard.token = c.token
      /\ heard.server_addr_index = c.server_addr_index /\ heard.client_index = c.client_index
      /\ heard.challenge_token_data = c.challenge_token_data /\ heard.state = c.state
  BY DEF ClientOK, ClientFields
<1>2. CASE p.type = "Challenge" /\ c.state = "SendingConnectionRequest"
  <2>1. /\ DOMAIN d = ClientFields /\ d.addr = c.addr /\ d.token = c.token
        /\ d.server_addr_index = c.server_addr_index /\ d.challenge_token_data = p.token_data
        /\ d.state = "SendingConnectionResponse"
    BY <1>2 DEF Handle, ClientOK, ClientFields
  <2>2. OfToken(c.token.key, p.token_data.client_id, p.token_data.user_data)
    BY <1>2 DEF PacketOK
  <2> HIDE DEF d
  <2>3. ClientOK(d, a)
    BY <1>2, <2>1, <2>2, Zenon DEF ClientOK, Connecting
  <2>4. Follows(c, d, a, J)
    BY <1>2, <2>1, <2>3, Zenon DEF Follows, Connecting
  <2> QED BY <2>4 DEF d
<1>3. CASE p.type = "KeepAlive" /\ c.state = "SendingConnectionResponse"
  <2>1. /\ DOMAIN d = ClientFields /\ d.addr = c.addr /\ d.token = c.token
        /\ d.server_addr_index = c.server_addr_index /\ d.client_index = p.client_index
        /\ d.state = "Connected"
    BY <1>3 DEF Handle, ClientOK, ClientFields
  <2>2. p.from \notin ClientAddrs
    <3>1. c.token \in AllTokens /\ c.server_addr_index \in 0 .. Len(c.token.hosts) - 1
      BY <1>3 DEF ClientOK, Connecting
    <3> QED BY <3>1, TokenFacts DEF ServerAddr
  <2>3. Told(p) \in J
    BY <1>3, <2>2 DEF PacketOK
  <2> HIDE DEF d
  <2>4. HasSlot(d, a) = Told(p)
    BY <1>3, <2>1, Zenon DEF HasSlot, Told, ServerAddr
  <2>5. ClientOK(d, a)
    BY <2>1 DEF ClientOK, Connecting
  <2>6. Follows(c, d, a, J)
    BY <1>3, <2>1, <2>3, <2>4, <2>5 DEF Follows, Connecting
  <2> QED BY <2>6 DEF d
<1>4. CASE /\ ~ (p.type = "Challenge" /\ c.state = "SendingConnectionRequest")
           /\ ~ (p.type = "KeepAlive" /\ c.state = "SendingConnectionResponse")
  <2>1. \/ d = c
        \/ d = heard
        \/ d = [heard EXCEPT !.state = "ConnectionDenied"]
        \/ d = [heard EXCEPT !.state = "DisconnectedByServer"]
    BY <1>4 DEF Handle
  <2>2. /\ DOMAIN d = ClientFields /\ d.addr = c.addr /\ d.token = c.token
        /\ d.server_addr_index = c.server_addr_index /\ d.client_index = c.client_index
        /\ d.challenge_token_data = c.challenge_token_data
        /\ d.state = c.state \/ d.state \notin Connecting \cup {"Connected"}
    <3> HIDE DEF heard, d
    <3>1. CASE d = c
      BY <3>1, Zenon DEF ClientOK
    <3>2. CASE d = heard
      BY <1>1, <3>2
    <3>3. CASE d = [heard EXCEPT !.state = "ConnectionDenied"]
      BY <1>1, <3>3 DEF ClientFields, Connecting
    <3>4. CASE d = [heard EXCEPT !.state = "DisconnectedByServer"]
      BY <1>1, <3>4 DEF ClientFields, Connecting
    <3> QED BY <2>1, <3>1, <3>2, <3>3, <3>4
  <2> HIDE DEF d
  <2>3. Follows(c, d, a, J)
    BY <2>2, FollowsSame, Zenon
  <2> QED BY <2>3, Zenon DEF d
<1> QED BY <1>2, <1>3, <1>4

LEMMA ReceiveOK ==
  ASSUME NEW a, NEW J, NEW c, ClientOK(c, a), SlotKnown(c, a, J),
         NEW p, PacketOK(p, J), p.to = a
  PROVE  Follows(c, Receive(c, p), a, J)
<1> DEFINE h == [c EXCEPT !.replay_protection = Advanced(@, p)]
<1>1. /\ DOMAIN h = ClientFields /\ h.addr = c.addr /\ h.token = c.token
      /\ h.server_addr_index = c.server_addr_index /\ h.client_index = c.client_index
      /\ h.challenge_token_data = c.challenge_token_data /\ h.state = c.state
  BY DEF ClientOK, ClientFields
<1>2. \/ Receive(c, p) = c
      \/ /\ p.from = ServerAddr(c) /\ Decodes(p, c.token.key, c.replay_protection)
         /\ Receive(c, p) = Handle(h, p)
  BY DEF Receive, ClientProcessPacket
<1> HIDE DEF h
<1>3. Follows(c, h, a, J)
  BY <1>1, FollowsSame, Zenon
<1>4. ClientOK(h, a) /\ SlotKnown(h, a, J)
  BY <1>3 DEF Follows, SlotKnown
<1>5. CASE /\ p.from = ServerAddr(c) /\ Decodes(p, c.token.key, c.replay_protection)
           /\ Receive(c, p) = Handle(h, p)
  <2>1. p.from = ServerAddr(h)
    BY <1>1, <1>5, Zenon DEF ServerAddr
  <2>2. p.type # "ConnectionRequest" => p.key = h.token.key
    BY <1>1, <1>5, Zenon DEF Decodes
  <2>3. Follows(h, Handle(h, p), a, J)
    BY <1>4, <2>1, <2>2, HandleOK
  <2> QED BY <1>3, <1>5, <2>3, FollowsTransitive
<1> QED BY <1>2, <1>5, FollowsSelf

\* Time passes: a timeout ends the attempt, or goes on to the next server.
LEMMA UpdateInternalStateOK ==
  ASSUME NEW a, NEW J, NEW c, ClientOK(c, a), SlotKnown(c, a, J), NEW duration
  PROVE  Follows(c, UpdateInternalState(c, duration), a, J)
<1> DEFINE later == [c EXCEPT !.current_time = c.current_time + duration]
           reason == IF c.state = "SendingConnectionResponse"
                     THEN "ConnectionResponseTimedOut" ELSE "ConnectionRequestTimedOut"
           d == UpdateInternalState(c, duration)
<1>1. /\ DOMAIN later = ClientFields /\ later.addr = c.addr /\ later.token = c.token
      /\ later.server_addr_index = c.server_addr_index /\ later.client_index = c.client_index
      /\ later.challenge_token_data = c.challenge_token_data /\ later.state = c.state
  BY DEF ClientOK, ClientFields
<1>2. \/ d = later
      \/ d = [later EXCEPT !.state = "ConnectTokenExpired"]
      \/ d = [later EXCEPT !.state = "ConnectionTimedOut"]
      \/ c.state \in Connecting /\ d = NextServer(later, reason)
  BY DEF UpdateInternalState
<1> HIDE DEF later, d
<1>3. CASE \/ d = later
           \/ d = [later EXCEPT !.state = "ConnectTokenExpired"]
           \/ d = [later EXCEPT !.state = "ConnectionTimedOut"]
  <2>1. /\ DOMAIN d = ClientFields /\ d.addr = c.addr /\ d.token = c.token
        /\ d.server_addr_index = c.server_addr_index /\ d.client_index = c.client_index
        /\ d.challenge_token_data = c.challenge_token_data
        /\ d.state = c.state \/ d.state \notin Connecting \cup {"Connected"}
    BY <1>1, <1>3 DEF ClientFields, Connecting
  <2> QED BY <2>1, FollowsSame, Zenon DEF d
<1>4. CASE c.state \in Connecting /\ d = NextServer(later, reason)
  <2>1. c.token \in AllTokens /\ c.server_addr_index \in 0 .. Len(c.token.hosts) - 1
        /\ Len(c.token.hosts) \in Nat
    BY <1>4, TokenFacts DEF ClientOK
  <2>2. /\ DOMAIN d = ClientFields /\ d.addr = a /\ d.token = c.token
        /\ d.server_addr_index = c.server_addr_index + 1
        /\ \/ d.state = "SendingConnectionRequest" /\ c.server_addr_index + 1 < Len(c.token.hosts)
           \/ d.state = reason
    BY <1>1, <1>4 DEF NextServer, ClientFields, ClientOK
  <2>3. reason \notin Connecting \cup {"Connected"}
    BY DEF Connecting
  <2>4. d.state \in Connecting => d.server_addr_index \in 0 .. Len(d.token.hosts) - 1
    BY <2>1, <2>2, <2>3
  <2>5. d.state # "SendingConnectionResponse" /\ d.state # "Connected"
    BY <2>2
  <2>6. ClientOK(d, a)
    BY <2>1, <2>2, <2>4, <2>5 DEF ClientOK
  <2> QED BY <1>4, <2>5, <2>6 DEF Follows, d
<1> QED BY <1>2, <1>3, <1>4

LEMMA GeneratePacketOK ==
  ASSUME NEW a \in ClientAddrs, NEW J, NEW c, ClientOK(c, a), SlotKnown(c, a, J)
  PROVE  /\ Follows(c, GeneratePacket(c).client, a, J)
         /\ \A q \in GeneratePacket(c).out : PacketOK(q, J)
<1> DEFINE to == ServerAddr(c)
           key == c.token.key
           request == ConnectionRequest(c.addr, to, c.sequence, c.token)
           response == Response(c.addr, to, key, c.sequence, c.challenge_token_sequence,
                                c.challenge_token_data)
           alive == KeepAlive(c.addr, to, key, c.sequence, 0)
           packet == IF c.state = "SendingConnectionRequest" THEN request
                     ELSE IF c.state = "SendingConnectionResponse" THEN response ELSE alive
           d == [c EXCEPT !.sequence = @ + 1, !.last_packet_send_time = c.current_time]
<1>1. GeneratePacket(c) = Sends(c, {}) \/ GeneratePacket(c) = Sends(d, {packet})
  BY DEF GeneratePacket
<1>2. /\ DOMAIN d = ClientFields /\ d.addr = c.addr /\ d.token = c.token
      /\ d.server_addr_index = c.server_addr_index /\ d.client_index = c.client_index
      /\ d.challenge_token_data = c.challenge_token_data /\ d.state = c.state
  BY DEF ClientOK, ClientFields
<1>3. PacketOK(packet, J)
  <2>1. PacketOK(request, J)
    BY Zenon DEF PacketOK, ConnectionRequest, ClientOK
  <2>2. c.state = "SendingConnectionResponse" => PacketOK(response, J)
    BY Zenon DEF PacketOK, Response, ClientOK
  <2>3. PacketOK(alive, J)
    BY Zenon DEF PacketOK, KeepAlive, ClientOK
  <2> HIDE DEF request, response, alive
  <2> QED BY <2>1, <2>2, <2>3
<1> HIDE DEF d, packet
<1>4. Follows(c, d, a, J)
  BY <1>2, FollowsSame, Zenon
<1> QED BY <1>1, <1>3, <1>4, FollowsSelf DEF Sends

LEMMA ClientUpdateOK ==
  ASSUME NEW a \in ClientAddrs, NEW J, NEW c, ClientOK(c, a), SlotKnown(c, a, J), NEW duration
  PROVE  /\ Follows(c, ClientUpdate(c, duration).client, a, J)
         /\ \A q \in ClientUpdate(c, duration).out : PacketOK(q, J)
<1> DEFINE d == UpdateInternalState(c, duration)
<1>1. Follows(c, d, a, J)
  BY UpdateInternalStateOK
<1>2. ClientOK(d, a) /\ SlotKnown(d, a, J)
  BY <1>1 DEF Follows, SlotKnown
<1> HIDE DEF d
<1>3. Follows(d, GeneratePacket(d).client, a, J) /\ \A q \in GeneratePacket(d).out : PacketOK(q, J)
  BY <1>2, GeneratePacketOK
<1>4. ClientUpdate(c, duration) = GeneratePacket(d)
  BY DEF ClientUpdate, d
<1> QED BY <1>1, <1>3, <1>4, FollowsTransitive, Zenon

-----------------------------------------------------------------------------
\* What a call of the transport gives.
CallOK(r, a, seated) ==
  /\ ClientOK(r.peer.netcode, a)
  /\ StatusOK(r.peer.netcode, r.peer.renet, a, seated)
  /\ \A q \in r.out : PacketOK(q, seated)

\* The status of the RenetClient follows that of the NetcodeClient before the call.
LEMMA CallFollows ==
  ASSUME NEW a, NEW J, NEW c, NEW d, Follows(c, d, a, J), NEW status,
         status = "Connected" => c.state \notin Connecting /\ HasSlot(c, a) \in J,
         NEW out, \A q \in out : PacketOK(q, J)
  PROVE  CallOK(Calls(d, status, out), a, J)
<1>1. d.state = "Connected" => d.state \notin Connecting
  BY DEF Connecting
<1>2. StatusOK(d, status, a, J)
  BY <1>1 DEF StatusOK, Follows
<1> QED BY <1>2 DEF CallOK, Calls, Follows

LEMMA TransportUpdateOK ==
  ASSUME NEW a \in ClientAddrs, NEW J, NEW peer, ClientOK(peer.netcode, a),
         StatusOK(peer.netcode, peer.renet, a, J),
         NEW received, Follows(peer.netcode, received, a, J), NEW duration, NEW fails
  PROVE  CallOK(TransportUpdate(peer, received, duration, fails), a, J)
<1> DEFINE c == peer.netcode
           r == TransportUpdate(peer, received, duration, fails)
           status == SetStatus(peer.renet, c.state = "Connected")
           updated == ClientUpdate(received, duration)
<1>1. SlotKnown(c, a, J)
  BY Zenon DEF SlotKnown, StatusOK
<1>2. \/ r = Calls(c, Ended(peer.renet, "Transport"), {})
      \/ /\ peer.renet \in RenetReasons
         /\ r = Calls(Disconnect(c).client, peer.renet, Disconnect(c).out)
      \/ r = Calls(received, status, {})
      \/ r = Calls(updated.client, status, updated.out)
  BY Zenon DEF TransportUpdate
<1>3. ClientOK(received, a) /\ SlotKnown(received, a, J)
  BY DEF Follows, SlotKnown
<1>4. Follows(received, updated.client, a, J) /\ \A q \in updated.out : PacketOK(q, J)
  BY <1>3, ClientUpdateOK, Zenon
<1>5. status = "Connected" => c.state = "Connected"
  BY DEF SetStatus, RenetReasons
<1>6. status = "Connected" => c.state \notin Connecting /\ HasSlot(c, a) \in J
  BY <1>1, <1>5 DEF SlotKnown, Connecting
<1>7. Ended(peer.renet, "Transport") # "Connected"
  BY DEF Ended, RenetReasons
<1> HIDE DEF r, status, updated
<1>8. CASE r = Calls(c, Ended(peer.renet, "Transport"), {})
  BY <1>1, <1>7, <1>8, FollowsSelf, CallFollows DEF r
<1>9. CASE /\ peer.renet \in RenetReasons
           /\ r = Calls(Disconnect(c).client, peer.renet, Disconnect(c).out)
  <2>1. peer.renet # "Connected"
    BY <1>9 DEF RenetReasons
  <2> QED BY <1>1, <1>9, <2>1, DisconnectOK, CallFollows, Zenon DEF r
<1>10. CASE r = Calls(received, status, {})
  BY <1>6, <1>10, CallFollows DEF r
<1>11. CASE r = Calls(updated.client, status, updated.out)
  <2>1. Follows(c, updated.client, a, J)
    BY <1>4, FollowsTransitive, Zenon
  <2> QED BY <1>4, <1>6, <1>11, <2>1, CallFollows, Zenon DEF r
<1> QED BY <1>2, <1>8, <1>9, <1>10, <1>11, Zenon DEF r

LEMMA SendPacketsOK ==
  ASSUME NEW a, NEW J, NEW peer, ClientOK(peer.netcode, a),
         StatusOK(peer.netcode, peer.renet, a, J)
  PROVE  CallOK(SendPackets(peer), a, J) /\ CallOK(TransportDisconnect(peer), a, J)
<1> DEFINE c == peer.netcode
           d == [c EXCEPT !.sequence = @ + 1, !.last_packet_send_time = c.current_time]
           q == Sealed("Payload", c.addr, ServerAddr(c), c.token.key, c.sequence)
<1>1. SlotKnown(c, a, J)
      /\ (peer.renet = "Connected" => c.state \notin Connecting /\ HasSlot(c, a) \in J)
  BY DEF SlotKnown, StatusOK
<1>2. CallOK(Calls(c, peer.renet, {}), a, J)
  BY <1>1, FollowsSelf, CallFollows
<1>3. CallOK(Calls(Disconnect(c).client, peer.renet, Disconnect(c).out), a, J)
  BY <1>1, DisconnectOK, CallFollows, Zenon
<1>4. /\ DOMAIN d = ClientFields /\ d.addr = c.addr /\ d.token = c.token
      /\ d.server_addr_index = c.server_addr_index /\ d.client_index = c.client_index
      /\ d.challenge_token_data = c.challenge_token_data /\ d.state = c.state
  BY DEF ClientOK, ClientFields
<1>5. PacketOK(q, J)
  BY DEF PacketOK, Sealed
<1>6. GeneratePayload(c).client = d /\ GeneratePayload(c).out = {q}
  BY DEF GeneratePayload, Sends
<1> HIDE DEF d, q
<1>7. Follows(c, d, a, J)
  BY <1>1, <1>4, FollowsSame, Zenon
<1>8. CallOK(Calls(d, peer.renet, {q}), a, J)
  BY <1>1, <1>5, <1>7, CallFollows
<1>9. SendPackets(peer) \in {Calls(d, peer.renet, {q}), Calls(c, peer.renet, {})}
  BY <1>6, Zenon DEF SendPackets
<1>10. TransportDisconnect(peer) \in
         {Calls(Disconnect(c).client, peer.renet, Disconnect(c).out), Calls(c, peer.renet, {})}
  BY Zenon DEF TransportDisconnect
<1> QED BY <1>2, <1>3, <1>8, <1>9, <1>10, Zenon

-----------------------------------------------------------------------------
\* The steps of the system: a client makes a call, or a server does.
LEMMA NewClientOK ==
  ASSUME NEW a \in ClientAddrs, NEW k \in 1 .. Len(Tokens[a]), NEW now, NEW J
  PROVE  ClientOK(NewClient(a, Tokens[a][k], now), a)
         /\ StatusOK(NewClient(a, Tokens[a][k], now), "Connecting", a, J)
<1> DEFINE t == Tokens[a][k]
           c == NewClient(a, t, now)
<1>1. t \in AllTokens
  <2>1. k \in DOMAIN Tokens[a]
    BY NetcodeAssumption
  <2> QED BY <2>1 DEF AllTokens, Range
<1> HIDE DEF t
<1>2. /\ DOMAIN c = ClientFields /\ c.addr = a /\ c.token = t
      /\ c.state = "SendingConnectionRequest" /\ c.server_addr_index = 0
  BY Zenon DEF NewClient, ClientFields
<1> HIDE DEF c
<1>3. 0 \in 0 .. Len(t.hosts) - 1
  BY <1>1, TokenFacts
<1>4. ClientOK(c, a)
  BY <1>1, <1>2, <1>3 DEF ClientOK
<1>5. StatusOK(c, "Connecting", a, J)
  BY <1>2 DEF StatusOK
<1> QED BY <1>4, <1>5 DEF c, t

LEMMA ClientStepOK ==
  ASSUME IInv, NEW a \in ClientAddrs, NEW r, CallOK(r, a, joined), ClientStep(a, r)
  PROVE  IInv'
<1>1. /\ clients' = [clients EXCEPT ![a] = r.peer.netcode] /\ DOMAIN clients = ClientAddrs
      /\ renet' = [renet EXCEPT ![a] = r.peer.renet] /\ DOMAIN renet = ClientAddrs
      /\ network' = network \cup r.out
      /\ runs' = runs /\ servers' = servers /\ joined' = joined
  BY Zenon DEF ClientStep, IInv
<1>2. \A b \in ClientAddrs :
        ClientOK(clients'[b], b) /\ StatusOK(clients'[b], renet'[b], b, joined)
  BY <1>1, Zenon DEF IInv, CallOK
<1>3. \A p \in network' : PacketOK(p, joined)
  BY <1>1, Zenon DEF IInv, CallOK
<1>4. DOMAIN clients' = ClientAddrs /\ DOMAIN renet' = ClientAddrs
  BY <1>1
<1> QED BY <1>1, <1>2, <1>3, <1>4, Zenon DEF IInv

LEMMA ServerStepOK ==
  ASSUME IInv, NEW s \in ServerAddrs, NEW r, ResultOK(servers[s], r), ServerStep(s, r)
  PROVE  IInv'
<1>1. /\ servers' = [servers EXCEPT ![s] = r.server] /\ DOMAIN servers = ServerAddrs
      /\ network' = network \cup r.out /\ joined' = joined \cup Seated(r.server)
      /\ clients' = clients /\ renet' = renet /\ runs' = runs
  BY Zenon DEF ServerStep, IInv
<1>2. \A t \in ServerAddrs : ServerOK(servers'[t]) /\ servers'[t].addr = t
  BY <1>1, Zenon DEF IInv, ResultOK, Moves
<1>3. joined \subseteq joined' /\ Seated(r.server) \subseteq joined'
  BY <1>1, Zenon
<1>4. \A p \in network' : PacketOK(p, joined')
  <2>1. \A p \in network : PacketOK(p, joined')
    BY <1>3, MoreSeats, Zenon DEF IInv
  <2>2. \A p \in r.out : PacketOK(p, joined')
    BY <1>3, MoreSeats, Zenon DEF ResultOK
  <2> QED BY <1>1, <2>1, <2>2, Zenon
<1>5. \A a \in ClientAddrs : StatusOK(clients[a], renet[a], a, joined')
  BY <1>3, Zenon DEF IInv, StatusOK
<1>6. DOMAIN servers' = ServerAddrs
  BY <1>1
<1> QED BY <1>1, <1>2, <1>4, <1>5, <1>6, Zenon DEF IInv

\* A step of the system is a call of a client, a new run of one, or a method of a server.
LEMMA ClientActionOK ==
  ASSUME IInv, NEW a \in ClientAddrs
  PROVE  /\ \A duration \in {0, 1} : ClientTick(a, duration) => IInv'
         /\ \A p \in network, fails \in SocketFails : ClientReceive(a, p, fails) => IInv'
         /\ ClientSend(a) => IInv'
         /\ Leave(a) => IInv'
<1> DEFINE peer == Peer(a)
<1>1. peer.netcode = clients[a] /\ peer.renet = renet[a]
  BY DEF Peer
<1> HIDE DEF peer
<1>2. ClientOK(peer.netcode, a) /\ StatusOK(peer.netcode, peer.renet, a, joined)
  BY <1>1 DEF IInv
<1>3. SlotKnown(clients[a], a, joined)
  BY <1>1, <1>2 DEF SlotKnown, StatusOK
<1>4. ASSUME NEW duration \in {0, 1}, ClientTick(a, duration)
      PROVE  IInv'
  <2>1. Follows(peer.netcode, clients[a], a, joined)
    BY <1>1, <1>2, <1>3, FollowsSelf
  <2>2. CallOK(TransportUpdate(peer, clients[a], duration, FALSE), a, joined)
    BY <1>2, <2>1, TransportUpdateOK, Zenon
  <2> QED BY <1>4, <2>2, ClientStepOK, Zenon DEF ClientTick, peer
<1>5. ASSUME NEW p \in network, NEW fails \in SocketFails, ClientReceive(a, p, fails)
      PROVE  IInv'
  <2>1. PacketOK(p, joined) /\ p.to = a
    BY <1>5, Zenon DEF IInv, ClientReceive
  <2>2. Follows(peer.netcode, Receive(clients[a], p), a, joined)
    BY <1>1, <1>2, <1>3, <2>1, ReceiveOK, Zenon
  <2>3. CallOK(TransportUpdate(peer, Receive(clients[a], p), 0, fails), a, joined)
    BY <1>2, <2>2, TransportUpdateOK
  <2> QED BY <1>5, <2>3, ClientStepOK, Zenon DEF ClientReceive, peer
<1>6. CallOK(SendPackets(peer), a, joined) /\ CallOK(TransportDisconnect(peer), a, joined)
  BY <1>2, SendPacketsOK
<1>7. ClientSend(a) => IInv'
  BY <1>6, ClientStepOK DEF ClientSend, peer
<1>8. Leave(a) => IInv'
  BY <1>6, ClientStepOK DEF Leave, peer
<1> QED BY <1>4, <1>5, <1>7, <1>8

\* A restarted client takes the next of its tokens.
LEMMA NextToken ==
  ASSUME IInv, NEW a \in ClientAddrs, Restart(a)
  PROVE  /\ runs[a] + 1 \in 1 .. Len(Tokens[a]) /\ runs[a] + 1 \in Nat \ {0}
         /\ runs' = [runs EXCEPT ![a] = runs[a] + 1] /\ runs'[a] = runs[a] + 1
<1>1. Tokens[a] \in Seq(ConnectTokens)
  BY NetcodeAssumption, Zenon
<1>2. Len(Tokens[a]) \in Nat
  BY <1>1
<1>3. runs[a] \in Nat \ {0} /\ DOMAIN runs = ClientAddrs
  BY Zenon DEF IInv
<1>4. runs[a] < Len(Tokens[a]) /\ runs' = [runs EXCEPT ![a] = runs[a] + 1]
  BY Zenon DEF Restart
<1> QED BY <1>2, <1>3, <1>4

LEMMA RestartOK ==
  ASSUME IInv, NEW a \in ClientAddrs, Restart(a)
  PROVE  IInv'
<1> DEFINE k == runs[a] + 1
           c == NewClient(a, Tokens[a][k], clients[a].current_time)
<1>1. /\ k \in 1 .. Len(Tokens[a]) /\ runs' = [runs EXCEPT ![a] = k] /\ runs'[a] = k
      /\ k \in Nat \ {0}
  BY NextToken, Zenon
<1>2. ClientOK(c, a) /\ StatusOK(c, "Connecting", a, joined)
  BY <1>1, NewClientOK, Zenon
<1>3. clients' = [clients EXCEPT ![a] = c] /\ renet' = [renet EXCEPT ![a] = "Connecting"]
      /\ UNCHANGED <<servers, network, joined>>
  BY <1>1, Zenon DEF Restart
<1> HIDE DEF c, k
<1>4. /\ DOMAIN clients' = ClientAddrs /\ DOMAIN renet' = ClientAddrs /\ DOMAIN runs' = ClientAddrs
      /\ \A b \in ClientAddrs : /\ ClientOK(clients'[b], b)
                                /\ StatusOK(clients'[b], renet'[b], b, joined)
                                /\ runs'[b] \in Nat \ {0}
  BY <1>1, <1>2, <1>3, Zenon DEF IInv
<1> QED BY <1>3, <1>4, Zenon DEF IInv

LEMMA RenetDisconnectsOK ==
  ASSUME IInv, NEW a \in ClientAddrs, NEW reason \in OwnReasons, RenetDisconnects(a, reason)
  PROVE  IInv'
<1>1. /\ DOMAIN renet' = ClientAddrs /\ \A b \in ClientAddrs \ {a} : renet'[b] = renet[b]
      /\ renet'[a] = Ended(renet[a], reason)
      /\ UNCHANGED <<clients, runs, servers, network, joined>>
  BY Zenon DEF RenetDisconnects, IInv
<1>2. renet'[a] # "Connected"
  BY <1>1, NetcodeAssumption DEF Ended, RenetReasons
<1>3. \A b \in ClientAddrs : StatusOK(clients[b], renet'[b], b, joined)
  BY <1>1, <1>2, Zenon DEF IInv, StatusOK
<1> QED BY <1>1, <1>3, Zenon DEF IInv

\* Every step of a server is a method with a good result.
LEMMA ServerActionOK ==
  ASSUME IInv, NEW s \in ServerAddrs,
         \/ ServerTick(s)
         \/ \E p \in network : ServerReceive(s, p)
         \/ \E i \in DOMAIN servers[s].clients :
              ServerUpdateClient(s, i) \/ ServerSend(s, i) \/ ServerDisconnect(s, i)
         \/ \E n \in NewMaxClients : ChangeMaxClients(s, n)
  PROVE  \E r : ResultOK(servers[s], r) /\ ServerStep(s, r)
<1>1. ServerOK(servers[s])
  BY Zenon DEF IInv
<1>2. CASE ServerTick(s)
  BY <1>1, <1>2, ServerUpdateOK, Zenon DEF ServerTick
<1>3. ASSUME NEW p \in network, ServerReceive(s, p)
      PROVE  \E r : ResultOK(servers[s], r) /\ ServerStep(s, r)
  <2>1. PacketOK(p, joined)
    BY Zenon DEF IInv
  <2> QED BY <1>1, <1>3, <2>1, ServerProcessPacketOK, Zenon DEF ServerReceive
<1>4. ASSUME NEW i \in DOMAIN servers[s].clients,
             ServerUpdateClient(s, i) \/ ServerSend(s, i) \/ ServerDisconnect(s, i)
      PROVE  \E r : ResultOK(servers[s], r) /\ ServerStep(s, r)
  <2>1. CASE ServerUpdateClient(s, i)
    BY <1>1, <2>1, UpdateClientOK DEF ServerUpdateClient
  <2>2. CASE ServerSend(s, i)
    BY <1>1, <2>2, GeneratePayloadOK, Zenon DEF ServerSend
  <2>3. CASE ServerDisconnect(s, i)
    BY <1>1, <2>3, UpdateClientOK DEF ServerDisconnect
  <2> QED BY <1>4, <2>1, <2>2, <2>3
<1>5. ASSUME NEW n \in NewMaxClients, ChangeMaxClients(s, n)
      PROVE  \E r : ResultOK(servers[s], r) /\ ServerStep(s, r)
  BY <1>1, <1>5, SetMaxClientsOK DEF ChangeMaxClients
<1> QED BY <1>2, <1>3, <1>4, <1>5

-----------------------------------------------------------------------------
LEMMA NewServerOK ==
  ASSUME NEW s
  PROVE  ServerOK(NewServer(s, 0)) /\ NewServer(s, 0).addr = s
<1> DEFINE t == NewServer(s, 0)
<1>0. DOMAIN t = ServerFields
  BY Zenon DEF NewServer, ServerFields
<1>1. /\ DOMAIN t = ServerFields /\ t.current_time \in Nat
      /\ DOMAIN t.clients = {} /\ DOMAIN t.pending_clients = {} /\ t.addr = s
  <2>1. t.current_time = 0 /\ t.clients = <<>> /\ t.pending_clients = <<>> /\ t.addr = s
    BY DEF NewServer
  <2> HIDE DEF t
  <2> QED BY <1>0, <2>1
<1> HIDE DEF t
<1>2. \A i \in DOMAIN t.clients :
        ConnectionOK(t.clients[i]) /\ t.clients[i].addr \notin DOMAIN t.pending_clients
  BY <1>1
<1>3. \A i, j \in DOMAIN t.clients : i # j =>
        t.clients[i].client_id # t.clients[j].client_id /\ t.clients[i].addr # t.clients[j].addr
  BY <1>1
<1>4. \A a \in DOMAIN t.pending_clients : PendingOK(t.pending_clients[a], a, t.current_time)
  BY <1>1
<1>5. ServerOK(t)
  BY <1>1, <1>2, <1>3, <1>4, Zenon DEF ServerOK
<1> QED BY <1>1, <1>5 DEF t

LEMMA InitIInv == Init => IInv
<1> SUFFICES ASSUME Init PROVE IInv
  OBVIOUS
<1>1. \A a \in ClientAddrs : 1 \in 1 .. Len(Tokens[a])
  BY NetcodeAssumption
<1>2. \A a \in ClientAddrs :
        ClientOK(clients[a], a) /\ StatusOK(clients[a], renet[a], a, joined) /\ runs[a] \in Nat \ {0}
  <2> SUFFICES ASSUME NEW a \in ClientAddrs
               PROVE  /\ ClientOK(clients[a], a) /\ StatusOK(clients[a], renet[a], a, joined)
                      /\ runs[a] \in Nat \ {0}
    OBVIOUS
  <2> DEFINE c == NewClient(a, Tokens[a][1], 0)
  <2>1. clients[a] = c /\ renet[a] = "Connecting" /\ runs[a] = 1
    BY DEF Init
  <2>2. ClientOK(c, a) /\ StatusOK(c, "Connecting", a, joined)
    BY <1>1, NewClientOK
  <2> HIDE DEF c
  <2> QED BY <2>1, <2>2
<1>3. ASSUME NEW s \in ServerAddrs
      PROVE  ServerOK(servers[s]) /\ servers[s].addr = s
  BY NewServerOK DEF Init
<1> QED BY <1>2, <1>3, Zenon DEF Init, IInv

LEMMA NextIInv == IInv /\ [Next]_vars => IInv'
<1> SUFFICES ASSUME IInv, [Next]_vars PROVE IInv'
  OBVIOUS
<1>1. ASSUME NEW a \in ClientAddrs, Updates(a) \/ ClientSend(a) \/ Leave(a)
      PROVE  IInv'
  BY <1>1, ClientActionOK DEF Updates
<1>2. ASSUME NEW a \in ClientAddrs, Restart(a)
      PROVE  IInv'
  BY <1>2, RestartOK
<1>3. ASSUME NEW a \in ClientAddrs, NEW reason \in OwnReasons, RenetDisconnects(a, reason)
      PROVE  IInv'
  BY <1>3, RenetDisconnectsOK
<1>4. ASSUME NEW a \in ClientAddrs, NEW p \in network, NEW fails \in SocketFails,
             ClientReceive(a, p, fails)
      PROVE  IInv'
  BY <1>4, ClientActionOK
<1>5. ASSUME NEW s \in ServerAddrs,
             \/ ServerTick(s)
             \/ \E p \in network : ServerReceive(s, p)
             \/ \E i \in DOMAIN servers[s].clients :
                  ServerUpdateClient(s, i) \/ ServerSend(s, i) \/ ServerDisconnect(s, i)
             \/ \E n \in NewMaxClients : ChangeMaxClients(s, n)
      PROVE  IInv'
  BY <1>5, ServerActionOK, ServerStepOK
<1>6. CASE UNCHANGED vars
  BY <1>6, Zenon DEF vars, IInv
<1> QED BY <1>1, <1>2, <1>3, <1>4, <1>5, <1>6 DEF Next

LEMMA SpecIInv == Spec => []IInv
  BY InitIInv, NextIInv, PTL DEF Spec

(***************************************************************************)
(* However many clients share a user, and whatever the network does: a     *)
(* server never has a client id or an address in two slots, nor an address *)
(* both in a slot and pending, and each seat is of one connect token.      *)
(***************************************************************************)
THEOREM SeatsStayConsistent == Spec => []SeatsAreConsistent
<1>1. IInv => SeatsAreConsistent
  <2> SUFFICES ASSUME IInv, NEW s \in ServerAddrs
               PROVE  LET seats == servers[s].clients IN
                        /\ \A i, j \in DOMAIN seats : i # j =>
                             seats[i].client_id # seats[j].client_id /\ seats[i].addr # seats[j].addr
                        /\ \A i \in DOMAIN seats :
                             /\ seats[i].addr \notin DOMAIN servers[s].pending_clients
                             /\ \E t \in AllTokens :
                                  /\ seats[i].key = t.key /\ seats[i].user_data = t.key
                                  /\ seats[i].client_id = t.client_id
    BY Zenon DEF SeatsAreConsistent
  <2>1. ServerOK(servers[s])
    BY Zenon DEF IInv
  <2>2. \A i \in DOMAIN servers[s].clients : \E t \in AllTokens :
          /\ servers[s].clients[i].key = t.key /\ servers[s].clients[i].user_data = t.key
          /\ servers[s].clients[i].client_id = t.client_id
    BY <2>1, Zenon DEF ServerOK, ConnectionOK, OfToken
  <2> QED BY <2>1, <2>2, Zenon DEF ServerOK
<1> QED BY <1>1, SpecIInv, PTL

(***************************************************************************)
(* A client that is connected, in either layer, was seated by its server   *)
(* for its token at its slot: neither a late packet of an earlier run nor  *)
(* one of a server that was given up completes a handshake.                *)
(***************************************************************************)
THEOREM ConnectedClientsWereSeated == Spec => []ConnectedWasSeated
<1>1. IInv => ConnectedWasSeated
  BY Zenon DEF IInv, StatusOK, HasSlot, ConnectedWasSeated
<1> QED BY <1>1, SpecIInv, PTL

(***************************************************************************)
(* No step gives a slot to a client whose token has expired, although the  *)
(* Response handler does not look at the expiry: update removes an expired *)
(* pending connection in the step that moves the clock.                    *)
(***************************************************************************)
THEOREM NeverSeatedLate == Spec => NoLateSeat
<1> DEFINE InTime == \A s \in ServerAddrs : \A i \in DOMAIN servers'[s].clients :
                       i \notin DOMAIN servers[s].clients =>
                         AsSecs(servers[s].current_time) <= servers'[s].clients[i].expire_timestamp
<1>1. IInv /\ [Next]_vars => [InTime]_vars
  <2> SUFFICES ASSUME IInv, Next PROVE InTime
    OBVIOUS
  <2>1. ASSUME servers' = servers PROVE InTime
    BY <2>1
  <2>2. ASSUME NEW s \in ServerAddrs, NEW r, ResultOK(servers[s], r), ServerStep(s, r)
        PROVE  InTime
    <3>1. servers' = [servers EXCEPT ![s] = r.server] /\ DOMAIN servers = ServerAddrs
      BY <2>2, Zenon DEF ServerStep, IInv
    <3>2. servers'[s] = r.server /\ \A t \in ServerAddrs \ {s} : servers'[t] = servers[t]
      BY <3>1
    <3> QED BY <2>2, <3>2, Zenon DEF ResultOK
  <2>3. ASSUME NEW a \in ClientAddrs,
               \/ Updates(a) \/ ClientSend(a) \/ Leave(a) \/ Restart(a)
               \/ \E reason \in OwnReasons : RenetDisconnects(a, reason)
               \/ \E p \in network, fails \in SocketFails : ClientReceive(a, p, fails)
        PROVE  servers' = servers
    BY <2>3, Zenon DEF Updates, ClientTick, ClientSend, Leave, Restart, RenetDisconnects, ClientReceive,
                ClientStep
  <2>4. ASSUME NEW s \in ServerAddrs,
               \/ ServerTick(s)
               \/ \E p \in network : ServerReceive(s, p)
               \/ \E i \in DOMAIN servers[s].clients :
                    ServerUpdateClient(s, i) \/ ServerSend(s, i) \/ ServerDisconnect(s, i)
               \/ \E n \in NewMaxClients : ChangeMaxClients(s, n)
        PROVE  InTime
    BY <2>2, <2>4, ServerActionOK, Zenon
  <2> HIDE DEF InTime
  <2> QED BY <2>1, <2>3, <2>4 DEF Next
<1> QED BY <1>1, SpecIInv, PTL DEF Spec, NoLateSeat

-----------------------------------------------------------------------------
(***************************************************************************)
(* What the types and the bounds say of a client.  Its times are compared, *)
(* so the clock must not run behind them; the index of the server address  *)
(* is of a host of the token as long as the client is not disconnected.    *)
(***************************************************************************)
\* The states of a client that is not disconnected.
LiveStates == Connecting \cup {"Connected"}

ClientTyped(c, a) ==
  /\ DOMAIN c = ClientFields /\ c.token \in Range(Tokens[a])
  /\ c.state \in LiveStates \cup Reasons
  /\ c.state \notin Reasons => c.server_addr_index \in 0 .. Len(c.token.hosts) - 1
  /\ c.current_time \in Nat
  /\ c.last_packet_send_time \in NotSent .. c.current_time
  /\ c.last_packet_received_time \in 0 .. c.current_time

\* From c to d the client stays with its server, and no time goes back.
Ages(c, d) ==
  /\ DOMAIN d = ClientFields /\ d.token = c.token
  /\ d.state \in LiveStates \cup Reasons /\ (d.state \notin Reasons => c.state \notin Reasons)
  /\ d.server_addr_index = c.server_addr_index
  /\ d.current_time \in Nat /\ c.current_time <= d.current_time
  /\ d.last_packet_send_time \in {NotSent, c.last_packet_send_time, d.current_time}
  /\ d.last_packet_received_time \in {c.last_packet_received_time, d.current_time}

LEMMA AgesTyped ==
  ASSUME NEW a, NEW c, ClientTyped(c, a), NEW d, Ages(c, d)
  PROVE  ClientTyped(d, a)
<1>1. c.current_time \in Nat /\ c.last_packet_send_time \in NotSent .. c.current_time
      /\ c.last_packet_received_time \in 0 .. c.current_time
  BY Zenon DEF ClientTyped
<1>2. /\ d.current_time \in Nat /\ c.current_time <= d.current_time
      /\ d.last_packet_send_time \in {NotSent, c.last_packet_send_time, d.current_time}
      /\ d.last_packet_received_time \in {c.last_packet_received_time, d.current_time}
  BY DEF Ages
<1>3. d.last_packet_send_time \in NotSent .. d.current_time
      /\ d.last_packet_received_time \in 0 .. d.current_time
  BY <1>1, <1>2 DEF NotSent
<1> QED BY <1>2, <1>3, Zenon DEF ClientTyped, Ages



\* A method that leaves the clock and the token alone.
LEMMA AgesNow ==
  ASSUME NEW a, NEW c, ClientTyped(c, a), NEW d, DOMAIN d = ClientFields, d.token = c.token,
         d.state \in LiveStates \cup Reasons, d.state \notin Reasons => c.state \notin Reasons,
         d.server_addr_index = c.server_addr_index, d.current_time = c.current_time,
         d.last_packet_send_time \in {NotSent, c.last_packet_send_time, c.current_time},
         d.last_packet_received_time \in {c.last_packet_received_time, c.current_time}
  PROVE  ClientTyped(d, a)
<1>1. c.current_time \in Nat /\ c.current_time <= c.current_time
  BY DEF ClientTyped
<1>2. Ages(c, d)
  BY <1>1, Zenon DEF Ages
<1> QED BY <1>2, AgesTyped

LEMMA HandleTyped ==
  ASSUME NEW a, NEW c, ClientTyped(c, a), NEW p
  PROVE  ClientTyped(Handle(c, p), a)
<1> DEFINE d == Handle(c, p)
           heard == [c EXCEPT !.last_packet_received_time = c.current_time]
           response == [heard EXCEPT !.state = "SendingConnectionResponse",
                                     !.challenge_token_sequence = p.token_sequence,
                                     !.challenge_token_data = p.token_data,
                                     !.last_packet_send_time = NotSent]
           connected == [heard EXCEPT !.state = "Connected", !.client_index = p.client_index]
<1>1. \/ d = c
      \/ d = heard
      \/ d = [heard EXCEPT !.state = "ConnectionDenied"]
      \/ d = [heard EXCEPT !.state = "DisconnectedByServer"]
      \/ c.state = "SendingConnectionRequest" /\ d = response
      \/ c.state = "SendingConnectionResponse" /\ d = connected
  BY DEF Handle
<1>2. DOMAIN c = ClientFields /\ c.state \in LiveStates \cup Reasons
  BY DEF ClientTyped
<1>3. /\ DOMAIN heard = ClientFields /\ heard.token = c.token
      /\ heard.server_addr_index = c.server_addr_index /\ heard.state = c.state
      /\ heard.current_time = c.current_time
      /\ heard.last_packet_send_time = c.last_packet_send_time
      /\ heard.last_packet_received_time = c.current_time
  BY <1>2 DEF ClientFields
<1> HIDE DEF d, heard
<1>4. /\ DOMAIN d = ClientFields /\ d.token = c.token
      /\ d.server_addr_index = c.server_addr_index /\ d.current_time = c.current_time
      /\ d.last_packet_send_time \in {NotSent, c.last_packet_send_time, c.current_time}
      /\ d.last_packet_received_time \in {c.last_packet_received_time, c.current_time}
  <2>1. CASE d = c \/ d = heard
    BY <1>2, <1>3, <2>1
  <2>2. CASE d = [heard EXCEPT !.state = "ConnectionDenied"]
    BY <1>3, <2>2 DEF ClientFields
  <2>3. CASE d = [heard EXCEPT !.state = "DisconnectedByServer"]
    BY <1>3, <2>3 DEF ClientFields
  <2>4. CASE d = response
    BY <1>3, <2>4 DEF ClientFields
  <2>5. CASE d = connected
    BY <1>3, <2>5 DEF ClientFields
  <2> QED BY <1>1, <2>1, <2>2, <2>3, <2>4, <2>5, Zenon
<1>5. /\ d.state \in LiveStates \cup Reasons
      /\ d.state \notin Reasons => c.state \notin Reasons
  BY <1>1, <1>2, <1>3, Zenon DEF ClientFields, LiveStates, Connecting, Reasons
<1> QED BY <1>4, <1>5, AgesNow, Zenon DEF d

LEMMA ReceiveTyped ==
  ASSUME NEW a, NEW c, ClientTyped(c, a), NEW p
  PROVE  ClientTyped(Receive(c, p), a)
<1> DEFINE h == [c EXCEPT !.replay_protection = Advanced(@, p)]
<1>1. DOMAIN c = ClientFields /\ c.state \in LiveStates \cup Reasons
  BY DEF ClientTyped
<1>2. /\ DOMAIN h = ClientFields /\ h.token = c.token /\ h.state = c.state
      /\ h.server_addr_index = c.server_addr_index /\ h.current_time = c.current_time
      /\ h.last_packet_send_time = c.last_packet_send_time
      /\ h.last_packet_received_time = c.last_packet_received_time
  BY <1>1 DEF ClientFields
<1>3. Receive(c, p) = c \/ Receive(c, p) = Handle(h, p)
  BY DEF Receive, ClientProcessPacket
<1> HIDE DEF h
<1>4. ClientTyped(h, a)
  BY <1>1, <1>2, AgesNow, Zenon
<1> QED BY <1>3, <1>4, HandleTyped

LEMMA UpdateInternalStateTyped ==
  ASSUME NEW a \in ClientAddrs, NEW c, ClientTyped(c, a), NEW duration \in Nat
  PROVE  ClientTyped(UpdateInternalState(c, duration), a)
<1> DEFINE now == c.current_time + duration
           later == [c EXCEPT !.current_time = now]
           reason == IF c.state = "SendingConnectionResponse"
                     THEN "ConnectionResponseTimedOut" ELSE "ConnectionRequestTimedOut"
           next == [later EXCEPT !.server_addr_index = @ + 1, !.state = "SendingConnectionRequest",
                      !.connect_start_time = later.current_time, !.last_packet_send_time = NotSent,
                      !.last_packet_received_time = later.current_time,
                      !.challenge_token_sequence = 0]
           d == UpdateInternalState(c, duration)
<1>1. /\ DOMAIN c = ClientFields /\ c.state \in LiveStates \cup Reasons /\ c.current_time \in Nat
      /\ c.token \in Range(Tokens[a])
  BY DEF ClientTyped
<1>2. now \in Nat /\ c.current_time <= now
  BY <1>1
<1>3. /\ DOMAIN later = ClientFields /\ later.token = c.token /\ later.state = c.state
      /\ later.server_addr_index = c.server_addr_index /\ later.current_time = now
      /\ later.last_packet_send_time = c.last_packet_send_time
      /\ later.last_packet_received_time = c.last_packet_received_time
  BY <1>1 DEF ClientFields
<1>4. \/ d = later
      \/ d = [later EXCEPT !.state = "ConnectTokenExpired"]
      \/ d = [later EXCEPT !.state = "ConnectionTimedOut"]
      \/ d = [later EXCEPT !.server_addr_index = @ + 1, !.state = reason]
      \/ /\ c.state \in Connecting /\ later.server_addr_index + 1 < Len(later.token.hosts)
         /\ d = next
  BY DEF UpdateInternalState, NextServer
<1> HIDE DEF d, later, now
<1>5. ClientTyped(later, a)
  <2>1. Ages(c, later)
    BY <1>1, <1>2, <1>3, Zenon DEF Ages
  <2> QED BY <2>1, AgesTyped
<1>6. CASE \/ d = later
           \/ d = [later EXCEPT !.state = "ConnectTokenExpired"]
           \/ d = [later EXCEPT !.state = "ConnectionTimedOut"]
  <2>1. /\ DOMAIN d = ClientFields /\ d.token = later.token
        /\ d.server_addr_index = later.server_addr_index /\ d.current_time = later.current_time
        /\ d.last_packet_send_time = later.last_packet_send_time
        /\ d.last_packet_received_time = later.last_packet_received_time
        /\ d.state = later.state \/ d.state \in Reasons
    BY <1>3, <1>6 DEF ClientFields, Reasons
  <2>2. d.state \in LiveStates \cup Reasons /\ (d.state \notin Reasons => later.state \notin Reasons)
    BY <1>1, <1>3, <2>1
  <2> QED BY <1>5, <2>1, <2>2, AgesNow, Zenon DEF d
<1>7. CASE d = [later EXCEPT !.server_addr_index = @ + 1, !.state = reason]
  <2>1. /\ DOMAIN d = ClientFields /\ d.token = later.token /\ d.state \in Reasons
        /\ d.current_time = later.current_time
        /\ d.last_packet_send_time = later.last_packet_send_time
        /\ d.last_packet_received_time = later.last_packet_received_time
    BY <1>3, <1>7 DEF ClientFields, Reasons
  <2> QED BY <1>5, <2>1, Zenon DEF ClientTyped, d
<1>8. CASE /\ c.state \in Connecting /\ later.server_addr_index + 1 < Len(later.token.hosts)
           /\ d = next
  <2>1. /\ DOMAIN d = ClientFields /\ d.token = c.token /\ d.state = "SendingConnectionRequest"
        /\ d.current_time = now /\ d.last_packet_send_time = NotSent
        /\ d.last_packet_received_time = now
        /\ d.server_addr_index = c.server_addr_index + 1
    BY <1>3, <1>8 DEF ClientFields
  <2>2. c.state \notin Reasons
    BY <1>8 DEF Connecting, Reasons
  <2>3. c.server_addr_index \in 0 .. Len(c.token.hosts) - 1 /\ Len(c.token.hosts) \in Nat
    <3>1. c.token \in AllTokens
      BY <1>1 DEF AllTokens
    <3> QED BY <2>2, <3>1, TokenFacts DEF ClientTyped
  <2>4. c.server_addr_index + 1 \in 0 .. Len(c.token.hosts) - 1
    BY <1>3, <1>8, <2>3
  <2>5. NotSent \in NotSent .. now /\ now \in 0 .. now
    BY <1>2 DEF NotSent
  <2>6. "SendingConnectionRequest" \in LiveStates \cup Reasons
    BY DEF LiveStates, Connecting
  <2> QED BY <1>1, <1>2, <2>1, <2>4, <2>5, <2>6, Zenon DEF ClientTyped, d
<1> QED BY <1>4, <1>6, <1>7, <1>8, Zenon

LEMMA ClientUpdateTyped ==
  ASSUME NEW a \in ClientAddrs, NEW c, ClientTyped(c, a), NEW duration \in Nat
  PROVE  ClientTyped(ClientUpdate(c, duration).client, a)
<1> DEFINE u == UpdateInternalState(c, duration)
           d == [u EXCEPT !.sequence = @ + 1, !.last_packet_send_time = u.current_time]
           r == ClientUpdate(c, duration)
<1>1. ClientTyped(u, a)
  BY UpdateInternalStateTyped
<1>2. r.client = u \/ r.client = d
  BY DEF ClientUpdate, GeneratePacket, Sends
<1> HIDE DEF u, r
<1>3. DOMAIN u = ClientFields /\ u.state \in LiveStates \cup Reasons
  BY <1>1 DEF ClientTyped
<1>4. /\ DOMAIN d = ClientFields /\ d.token = u.token /\ d.state = u.state
      /\ d.server_addr_index = u.server_addr_index /\ d.current_time = u.current_time
      /\ d.last_packet_send_time = u.current_time
      /\ d.last_packet_received_time = u.last_packet_received_time
  BY <1>3 DEF ClientFields
<1> HIDE DEF d
<1>5. ClientTyped(d, a)
  BY <1>1, <1>3, <1>4, AgesNow, Zenon
<1> QED BY <1>1, <1>2, <1>5 DEF r

\* What a call of the transport gives.
CallTyped(r, a) == ClientTyped(r.peer.netcode, a) /\ r.peer.renet \in Statuses

LEMMA CallsTyped ==
  ASSUME NEW a, NEW c, ClientTyped(c, a), NEW status \in Statuses, NEW out
  PROVE  CallTyped(Calls(c, status, out), a)
  BY Zenon DEF CallTyped, Calls

LEMMA StatusTyped ==
  ASSUME NEW status \in Statuses, NEW connected, NEW reason \in RenetReasons
  PROVE  SetStatus(status, connected) \in Statuses /\ Ended(status, reason) \in Statuses
  BY DEF SetStatus, Ended, Statuses

LEMMA DisconnectTyped ==
  ASSUME NEW a, NEW c, ClientTyped(c, a)
  PROVE  ClientTyped(Disconnect(c).client, a)
<1> DEFINE d == [c EXCEPT !.state = "DisconnectedByClient"]
<1>1. Disconnect(c).client = d
  BY DEF Disconnect, Sends
<1>2. DOMAIN c = ClientFields
  BY DEF ClientTyped
<1>3. /\ DOMAIN d = ClientFields /\ d.token = c.token /\ d.state \in Reasons
      /\ d.server_addr_index = c.server_addr_index /\ d.current_time = c.current_time
      /\ d.last_packet_send_time = c.last_packet_send_time
      /\ d.last_packet_received_time = c.last_packet_received_time
  BY <1>2 DEF ClientFields, Reasons
<1> HIDE DEF d
<1>4. ClientTyped(d, a)
  BY <1>3, AgesNow, Zenon
<1> QED BY <1>1, <1>4

LEMMA TransportTyped ==
  ASSUME NEW a \in ClientAddrs, NEW peer, ClientTyped(peer.netcode, a), peer.renet \in Statuses,
         NEW received, ClientTyped(received, a), NEW duration \in Nat, NEW fails
  PROVE  /\ CallTyped(TransportUpdate(peer, received, duration, fails), a)
         /\ CallTyped(SendPackets(peer), a) /\ CallTyped(TransportDisconnect(peer), a)
<1> DEFINE c == peer.netcode
           d == [c EXCEPT !.sequence = @ + 1, !.last_packet_send_time = c.current_time]
           status == SetStatus(peer.renet, c.state = "Connected")
           over == Ended(peer.renet, "Transport")
           updated == ClientUpdate(received, duration)
           leaving == Disconnect(c)
           sent == GeneratePayload(c)
<1>1. status \in Statuses /\ over \in Statuses
  <2>1. "Transport" \in RenetReasons
    BY DEF RenetReasons
  <2> QED BY <2>1, StatusTyped
<1>2. ClientTyped(updated.client, a) /\ ClientTyped(leaving.client, a)
  BY ClientUpdateTyped, DisconnectTyped, Zenon
<1>3. ClientTyped(sent.client, a)
  <2>1. sent.client = d
    BY DEF GeneratePayload, Sends
  <2>2. DOMAIN c = ClientFields /\ c.state \in LiveStates \cup Reasons
    BY Zenon DEF ClientTyped
  <2>3. /\ DOMAIN d = ClientFields /\ d.token = c.token /\ d.state = c.state
        /\ d.server_addr_index = c.server_addr_index /\ d.current_time = c.current_time
        /\ d.last_packet_send_time = c.current_time
        /\ d.last_packet_received_time = c.last_packet_received_time
    BY <2>2 DEF ClientFields
  <2> HIDE DEF d
  <2>4. ClientTyped(d, a)
    BY <2>2, <2>3, AgesNow, Zenon
  <2> QED BY <2>1, <2>4
<1>4. TransportUpdate(peer, received, duration, fails) \in
        {Calls(c, over, {}), Calls(leaving.client, peer.renet, leaving.out),
         Calls(received, status, {}), Calls(updated.client, status, updated.out)}
  BY Zenon DEF TransportUpdate
<1>5. SendPackets(peer) \in {Calls(sent.client, peer.renet, sent.out), Calls(c, peer.renet, {})}
  BY Zenon DEF SendPackets
<1>6. TransportDisconnect(peer) \in
        {Calls(leaving.client, peer.renet, leaving.out), Calls(c, peer.renet, {})}
  BY Zenon DEF TransportDisconnect
<1> HIDE DEF status, over, updated, leaving, sent
<1>7. /\ CallTyped(Calls(c, over, {}), a)
      /\ CallTyped(Calls(leaving.client, peer.renet, leaving.out), a)
      /\ CallTyped(Calls(received, status, {}), a)
      /\ CallTyped(Calls(updated.client, status, updated.out), a)
      /\ CallTyped(Calls(sent.client, peer.renet, sent.out), a)
      /\ CallTyped(Calls(c, peer.renet, {}), a)
  BY <1>1, <1>2, <1>3, CallsTyped, Zenon
<1> QED BY <1>4, <1>5, <1>6, <1>7, Zenon

LEMMA NewClientTyped ==
  ASSUME NEW a \in ClientAddrs, NEW k \in 1 .. Len(Tokens[a]), NEW now \in Nat
  PROVE  ClientTyped(NewClient(a, Tokens[a][k], now), a)
<1> DEFINE t == Tokens[a][k]
           c == NewClient(a, t, now)
<1>1. t \in Range(Tokens[a]) /\ t \in AllTokens
  <2>1. k \in DOMAIN Tokens[a]
    BY NetcodeAssumption
  <2> QED BY <2>1 DEF AllTokens, Range
<1> HIDE DEF t
<1>2. /\ DOMAIN c = ClientFields /\ c.token = t /\ c.state = "SendingConnectionRequest"
      /\ c.server_addr_index = 0 /\ c.current_time = now /\ c.last_packet_send_time = NotSent
      /\ c.last_packet_received_time = now
  BY Zenon DEF NewClient, ClientFields
<1> HIDE DEF c
<1>3. 0 \in 0 .. Len(t.hosts) - 1
  BY <1>1, TokenFacts
<1>4. NotSent \in NotSent .. now /\ now \in 0 .. now
  BY DEF NotSent
<1>5. "SendingConnectionRequest" \in LiveStates \cup Reasons
  BY DEF LiveStates, Connecting
<1>6. ClientTyped(c, a)
  BY <1>1, <1>2, <1>3, <1>4, <1>5, Zenon DEF ClientTyped
<1> QED BY <1>6 DEF c, t

-----------------------------------------------------------------------------
(***************************************************************************)
(* The bounds of a server: the slots, the pending connections, and the     *)
(* connect token entries.                                                  *)
(***************************************************************************)
EntriesFit(entries) == (\E S : entries \in Seq(S)) /\ Len(entries) <= TokenEntries

ServerTyped(s) ==
  /\ DOMAIN s.clients \subseteq Slots
  /\ DOMAIN s.pending_clients \subseteq ClientAddrs
  /\ IsFiniteSet(DOMAIN s.pending_clients)
  /\ Cardinality(DOMAIN s.pending_clients) <= MaxPendingClients
  /\ EntriesFit(s.connect_token_entries)

\* From s to t one connection becomes pending at most, and only if there is room.
Grows(s, t) ==
  /\ DOMAIN t.clients \subseteq DOMAIN s.clients \cup Slots
  /\ \/ DOMAIN t.pending_clients \subseteq DOMAIN s.pending_clients
     \/ /\ ~ (Cardinality(DOMAIN s.pending_clients) >= MaxPendingClients)
        /\ \E addr \in ClientAddrs :
             DOMAIN t.pending_clients \subseteq DOMAIN s.pending_clients \cup {addr}

LEMMA EnteredFits ==
  ASSUME NEW s, EntriesFit(s.connect_token_entries), NEW addr, NEW mac
  PROVE  EntriesFit(Entered(s, addr, mac))
<1> DEFINE old == s.connect_token_entries
           entry == [time |-> s.current_time, address |-> addr, mac |-> mac]
           new == Entered(s, addr, mac)
           k == Oldest(old)
<1>1. \/ new = old
      \/ Len(old) < TokenEntries /\ new = Append(old, entry)
      \/ new = [old EXCEPT ![k] = entry]
  BY Zenon DEF Entered
<1>2. PICK S : old \in Seq(S)
  BY DEF EntriesFit
<1>3. Len(old) <= TokenEntries /\ TokenEntries \in Nat
  BY ServerAssumption DEF EntriesFit
<1> HIDE DEF old, entry, new, k
<1>4. old \in Seq(S \cup {entry}) /\ Len(old) \in Nat /\ DOMAIN old = 1 .. Len(old)
  BY <1>2
<1>5. CASE new = old
  BY <1>2, <1>3, <1>5 DEF EntriesFit, new
<1>6. CASE Len(old) < TokenEntries /\ new = Append(old, entry)
  <2>1. new \in Seq(S \cup {entry}) /\ Len(new) = Len(old) + 1
    BY <1>4, <1>6
  <2>2. Len(new) <= TokenEntries
    BY <1>3, <1>4, <1>6, <2>1
  <2> QED BY <2>1, <2>2 DEF EntriesFit, new
<1>7. CASE new = [old EXCEPT ![k] = entry]
  <2>1. DOMAIN new = 1 .. Len(old) /\ \A i \in 1 .. Len(old) : new[i] \in S \cup {entry}
    BY <1>4, <1>7
  <2>2. new = [i \in 1 .. Len(old) |-> new[i]]
    BY <1>4, <1>7, Zenon
  <2>3. new \in [1 .. Len(old) -> S \cup {entry}]
    BY <2>1, <2>2
  <2>4. new \in Seq(S \cup {entry}) /\ Len(new) = Len(old)
    BY <1>4, <2>3
  <2> QED BY <1>3, <2>4 DEF EntriesFit, new
<1> QED BY <1>1, <1>5, <1>6, <1>7

LEMMA FewerGrows ==
  ASSUME NEW s, NEW t, DOMAIN t.clients \subseteq DOMAIN s.clients \cup Slots,
         DOMAIN t.pending_clients \subseteq DOMAIN s.pending_clients
  PROVE  Grows(s, t)
  BY Zenon DEF Grows

LEMMA SlotMethodsGrow ==
  ASSUME NEW s, ServerOK(s), NEW slot, NEW p, NEW client_id, NEW n
  PROVE  /\ Grows(s, s)
         /\ Grows(s, ProcessConnected(s, slot, p).server)
         /\ Grows(s, UpdateClient(s, slot).server)
         /\ Grows(s, DisconnectClient(s, slot).server)
         /\ Grows(s, GeneratePayloadFor(s, client_id).server)
         /\ Grows(s, SetMaxClients(s, n))
         /\ Grows(s, ServerUpdate(s, 1))
<1>1. DOMAIN s = ServerFields
  BY DEF ServerOK
<1>2. ASSUME NEW t, DOMAIN t.clients \subseteq DOMAIN s.clients,
             DOMAIN t.pending_clients \subseteq DOMAIN s.pending_clients
      PROVE  Grows(s, t)
  BY <1>2, FewerGrows
<1>3. ASSUME NEW k, NEW c PROVE Grows(s, [s EXCEPT !.clients[k] = c])
  BY <1>1, <1>2 DEF ServerFields
<1>4. ASSUME NEW k PROVE Grows(s, [s EXCEPT !.clients = Without(@, k)])
  BY <1>1, <1>2 DEF ServerFields, Without
<1>5. ASSUME NEW k
      PROVE  Grows(s, [s EXCEPT !.clients[k].sequence = @ + 1,
                                !.clients[k].last_packet_send_time = s.current_time])
  <2> DEFINE t == [s EXCEPT !.clients[k].sequence = @ + 1,
                            !.clients[k].last_packet_send_time = s.current_time]
  <2>1. DOMAIN t.clients = DOMAIN s.clients /\ t.pending_clients = s.pending_clients
    BY <1>1 DEF ServerFields
  <2> HIDE DEF t
  <2>2. Grows(s, t)
    BY <1>2, <2>1
  <2> QED BY <2>2 DEF t
<1>6. Grows(s, s)
  BY <1>2
<1>7. Grows(s, ProcessConnected(s, slot, p).server)
  BY <1>3, <1>4, <1>6 DEF ProcessConnected, Replies
<1>8. Grows(s, DisconnectClient(s, slot).server)
  BY <1>4 DEF DisconnectClient, Replies
<1>9. Grows(s, UpdateClient(s, slot).server)
  BY <1>5, <1>6, <1>8, Zenon DEF UpdateClient, Replies
<1>10. Grows(s, GeneratePayloadFor(s, client_id).server)
  BY <1>5, Zenon DEF GeneratePayloadFor, Replies
<1>11. Grows(s, SetMaxClients(s, n))
  BY <1>1, <1>2 DEF SetMaxClients, ServerFields
<1>12. Grows(s, ServerUpdate(s, 1))
  <2> DEFINE t == ServerUpdate(s, 1)
  <2>1. t.clients = s.clients /\ DOMAIN t.pending_clients \subseteq DOMAIN s.pending_clients
    BY <1>1 DEF ServerUpdate, ServerFields, Restrict
  <2> HIDE DEF t
  <2>2. Grows(s, t)
    BY <1>2, <2>1
  <2> QED BY <2>2 DEF t
<1> QED BY <1>6, <1>7, <1>8, <1>9, <1>10, <1>11, <1>12, Zenon

LEMMA RequestGrows ==
  ASSUME NEW s, ServerOK(s), NEW addr \in ClientAddrs, NEW token
  PROVE  Grows(s, HandleConnectionRequest(s, addr, token).server)
<1> DEFINE t == HandleConnectionRequest(s, addr, token).server
<1>1. DOMAIN s = ServerFields
  BY DEF ServerOK
<1>2. CASE Rejected(s, token) \/ Denied(s, addr, token)
  <2>1. t = s
    BY <1>2 DEF HandleConnectionRequest, Replies
  <2> QED BY <2>1, FewerGrows
<1>3. CASE ~ (Rejected(s, token) \/ Denied(s, addr, token))
  <2>1. t.clients = s.clients
    BY <1>1, <1>3 DEF HandleConnectionRequest, Replies, ServerFields
  <2>2. \/ DOMAIN t.pending_clients \subseteq DOMAIN s.pending_clients
        \/ DOMAIN t.pending_clients = DOMAIN s.pending_clients \cup {addr}
    BY <1>1, <1>3 DEF HandleConnectionRequest, Replies, ServerFields, With, Without
  <2>3. addr \in DOMAIN s.pending_clients
          \/ ~ (Cardinality(DOMAIN s.pending_clients) >= MaxPendingClients)
    BY <1>3, Zenon DEF Denied
  <2> HIDE DEF t
  <2>4. Grows(s, t)
    BY <2>1, <2>2, <2>3 DEF Grows
  <2> QED BY <2>4 DEF t
<1> QED BY <1>2, <1>3

-----------------------------------------------------------------------------
TypeInv ==
  /\ \A a \in ClientAddrs : ClientTyped(clients[a], a) /\ renet[a] \in Statuses
  /\ \A s \in ServerAddrs : ServerTyped(servers[s])

LEMMA ClientStepTyped ==
  ASSUME IInv, TypeInv, NEW a \in ClientAddrs, NEW r, CallTyped(r, a), ClientStep(a, r)
  PROVE  TypeInv'
<1>1. /\ clients' = [clients EXCEPT ![a] = r.peer.netcode] /\ DOMAIN clients = ClientAddrs
      /\ renet' = [renet EXCEPT ![a] = r.peer.renet] /\ DOMAIN renet = ClientAddrs
      /\ servers' = servers
  BY Zenon DEF ClientStep, IInv
<1>2. \A b \in ClientAddrs : ClientTyped(clients'[b], b) /\ renet'[b] \in Statuses
  BY <1>1, Zenon DEF TypeInv, CallTyped
<1> QED BY <1>1, <1>2, Zenon DEF TypeInv

LEMMA ClientActionTyped ==
  ASSUME IInv, TypeInv, NEW a \in ClientAddrs
  PROVE  /\ \A duration \in {0, 1} : ClientTick(a, duration) => TypeInv'
         /\ \A p \in network, fails \in SocketFails : ClientReceive(a, p, fails) => TypeInv'
         /\ ClientSend(a) => TypeInv'
         /\ Leave(a) => TypeInv'
<1> DEFINE peer == Peer(a)
<1>1. peer.netcode = clients[a] /\ peer.renet = renet[a]
  BY Zenon DEF Peer
<1> HIDE DEF peer
<1>2. ClientTyped(peer.netcode, a) /\ peer.renet \in Statuses /\ ClientTyped(clients[a], a)
  BY <1>1 DEF TypeInv
<1>3. \A p : ClientTyped(Receive(clients[a], p), a)
  BY <1>2, ReceiveTyped
<1>4. \A received, fails : \A duration \in Nat : ClientTyped(received, a) =>
        CallTyped(TransportUpdate(peer, received, duration, fails), a)
  BY <1>2, TransportTyped, Zenon
<1>5. CallTyped(SendPackets(peer), a) /\ CallTyped(TransportDisconnect(peer), a)
  <2>1. 0 \in Nat
    OBVIOUS
  <2> QED BY <1>2, <2>1, TransportTyped, Zenon
<1>6. ASSUME NEW duration \in {0, 1}, ClientTick(a, duration) PROVE TypeInv'
  <2>1. duration \in Nat
    OBVIOUS
  <2>2. CallTyped(TransportUpdate(peer, clients[a], duration, FALSE), a)
    BY <1>2, <1>4, <2>1, Zenon
  <2> QED BY <1>6, <2>2, ClientStepTyped, Zenon DEF ClientTick, peer
<1>7. ASSUME NEW p \in network, NEW fails \in SocketFails, ClientReceive(a, p, fails)
      PROVE  TypeInv'
  <2>1. 0 \in Nat
    OBVIOUS
  <2>2. CallTyped(TransportUpdate(peer, Receive(clients[a], p), 0, fails), a)
    BY <1>3, <1>4, <2>1, Zenon
  <2> QED BY <1>7, <2>2, ClientStepTyped, Zenon DEF ClientReceive, peer
<1>8. ClientSend(a) => TypeInv'
  BY <1>5, ClientStepTyped, Zenon DEF ClientSend, peer
<1>9. Leave(a) => TypeInv'
  BY <1>5, ClientStepTyped, Zenon DEF Leave, peer
<1> QED BY <1>6, <1>7, <1>8, <1>9

LEMMA RestartTyped ==
  ASSUME IInv, TypeInv, NEW a \in ClientAddrs, Restart(a)
  PROVE  TypeInv'
<1> DEFINE k == runs[a] + 1
           c == NewClient(a, Tokens[a][k], clients[a].current_time)
<1>1. k \in 1 .. Len(Tokens[a]) /\ runs'[a] = k
  BY NextToken, Zenon
<1>2. ClientTyped(c, a)
  <2>1. clients[a].current_time \in Nat
    BY Zenon DEF TypeInv, ClientTyped
  <2> QED BY <1>1, <2>1, NewClientTyped, Zenon
<1>3. clients' = [clients EXCEPT ![a] = c] /\ renet' = [renet EXCEPT ![a] = "Connecting"]
      /\ servers' = servers
  BY <1>1, Zenon DEF Restart
<1>4. "Connecting" \in Statuses
  BY DEF Statuses
<1> HIDE DEF c, k
<1>5. \A b \in ClientAddrs : ClientTyped(clients'[b], b) /\ renet'[b] \in Statuses
  BY <1>2, <1>3, <1>4, Zenon DEF TypeInv, IInv
<1> QED BY <1>3, <1>5, Zenon DEF TypeInv

-----------------------------------------------------------------------------
(***************************************************************************)
(* The connect token entries.  As long as there is room for every token in *)
(* use none is replaced, so the entry that allowed a key at an address     *)
(* stays, and no other address gets an entry for that key.                 *)
(***************************************************************************)
Keys == {t.key : t \in AllTokens}

\* There are at most TokenEntries keys.
TokensFit == Injection(1 .. TokenEntries + 1, Keys) = {}

HasEntry(s, key, addr) ==
  \E i \in DOMAIN s.connect_token_entries :
    s.connect_token_entries[i].mac = key /\ s.connect_token_entries[i].address = addr

\* The entries are of different tokens.
Distinct(entries) ==
  /\ \E S : entries \in Seq(S)
  /\ \A i \in DOMAIN entries : entries[i].mac \in Keys
  /\ \A i, j \in DOMAIN entries : entries[i].mac = entries[j].mac => i = j

EntriesOK(s) ==
  Distinct(s.connect_token_entries) /\ \A x \in People(s) : HasEntry(s, x[1], x[2])

EntriesInv ==
  /\ \A s \in ServerAddrs : EntriesOK(servers[s])
  /\ \A x \in joined : x.server \in ServerAddrs /\ HasEntry(servers[x.server], x.key, x.addr)

LEMMA RoomForToken ==
  ASSUME TokensFit, NEW entries, Distinct(entries), NEW key \in Keys,
         \A i \in DOMAIN entries : entries[i].mac # key
  PROVE  Len(entries) < TokenEntries
<1> SUFFICES ASSUME Len(entries) >= TokenEntries PROVE FALSE
  <2>1. Len(entries) \in Nat /\ TokenEntries \in Nat
    BY ServerAssumption DEF Distinct
  <2> QED BY <2>1
<1> DEFINE n == TokenEntries
           f == [i \in 1 .. n + 1 |-> IF i = n + 1 THEN key ELSE entries[i].mac]
<1>1. n \in Nat /\ \A i \in 1 .. n : i \in DOMAIN entries
  BY ServerAssumption DEF Distinct
<1>2. \A i \in 1 .. n : entries[i].mac \in Keys /\ entries[i].mac # key
  BY <1>1 DEF Distinct
<1>3. \A i, j \in 1 .. n : entries[i].mac = entries[j].mac => i = j
  BY <1>1, Zenon DEF Distinct
<1>4. ASSUME NEW i \in 1 .. n + 1, NEW j \in 1 .. n + 1, f[i] = f[j] PROVE i = j
  <2>1. i \in 1 .. n \/ i = n + 1
    BY <1>1
  <2>2. j \in 1 .. n \/ j = n + 1
    BY <1>1
  <2> QED BY <1>2, <1>3, <1>4, <2>1, <2>2
<1>5. f \in [1 .. n + 1 -> Keys]
  BY <1>1, <1>2
<1>6. DOMAIN f = 1 .. n + 1
  OBVIOUS
<1> HIDE DEF f
<1>7. f \in Injection(1 .. n + 1, Keys)
  BY <1>4, <1>5, <1>6 DEF Injection, IsInjective
<1> QED BY <1>7 DEF TokensFit

\* new has the entries of old and one for the key.
Enters(old, new, key, addr) ==
  /\ Distinct(new)
  /\ \A i \in DOMAIN old : i \in DOMAIN new /\ new[i] = old[i]
  /\ \E i \in DOMAIN new : new[i].mac = key /\ new[i].address = addr

\* find_or_add_connect_token_entry, when it allows the request.
LEMMA EnteredOK ==
  ASSUME TokensFit, NEW s, Distinct(s.connect_token_entries), NEW addr, NEW key \in Keys,
         EntryAllowed(s, addr, key)
  PROVE  Enters(s.connect_token_entries, Entered(s, addr, key), key, addr)
<1> DEFINE old == s.connect_token_entries
           new == Entered(s, addr, key)
           entry == [time |-> s.current_time, address |-> addr, mac |-> key]
<1>1. CASE Known(s, key) # {}
  <2>1. new = old
    BY <1>1, Zenon DEF Entered
  <2>2. PICK i \in DOMAIN old : old[i].mac = key /\ old[i].address = addr
    BY <1>1 DEF EntryAllowed, Known
  <2> HIDE DEF old, new
  <2>3. Distinct(old)
    BY DEF old
  <2>4. Enters(old, new, key, addr)
    BY <2>1, <2>2, <2>3 DEF Enters
  <2> QED BY <2>4 DEF old, new
<1>2. CASE Known(s, key) = {}
  <2>1. \A i \in DOMAIN old : old[i].mac # key
    BY <1>2 DEF Known
  <2>2. Len(old) < TokenEntries
    BY <2>1, RoomForToken
  <2>3. new = Append(old, entry)
    BY <1>2, <2>2, Zenon DEF Entered
  <2>4. entry.mac = key /\ entry.address = addr
    OBVIOUS
  <2>5. PICK S : old \in Seq(S)
    BY DEF Distinct
  <2>6. Distinct(old)
    OBVIOUS
  <2> HIDE DEF old, new, entry
  <2>7. old \in Seq(S \cup {entry}) /\ entry \in S \cup {entry}
    BY <2>5
  <2>8. /\ new \in Seq(S \cup {entry}) /\ Len(new) = Len(old) + 1 /\ Len(old) \in Nat
        /\ DOMAIN old = 1 .. Len(old) /\ DOMAIN new = 1 .. Len(old) + 1
        /\ \A i \in 1 .. Len(old) : new[i] = old[i]
        /\ new[Len(old) + 1] = entry
    BY <2>3, <2>7
  <2>9. \A i \in DOMAIN new :
          (i \in DOMAIN old /\ new[i] = old[i]) \/ (i = Len(old) + 1 /\ new[i] = entry)
    <3>1. \A n \in Nat : \A i \in 1 .. n + 1 : i \in 1 .. n \/ i = n + 1
      OBVIOUS
    <3>2. \A i \in 1 .. Len(old) + 1 : i \in 1 .. Len(old) \/ i = Len(old) + 1
      BY <2>8, <3>1, Zenon
    <3> QED BY <2>8, <3>2, Zenon
  <2>10. Distinct(new)
    BY <2>1, <2>4, <2>6, <2>8, <2>9, Zenon DEF Distinct
  <2>11. Len(old) + 1 \in DOMAIN new /\ \A i \in DOMAIN old : i \in DOMAIN new
    BY <2>8
  <2>12. \A i \in DOMAIN old : i \in DOMAIN new /\ new[i] = old[i]
    BY <2>8, <2>11
  <2>13. Enters(old, new, key, addr)
    BY <2>4, <2>8, <2>10, <2>11, <2>12, Zenon DEF Enters
  <2> QED BY <2>13 DEF old, new
<1> QED BY <1>1, <1>2, Zenon

LEMMA MovesEntries ==
  ASSUME TokensFit, NEW s, EntriesOK(s), NEW t, Moves(s, t)
  PROVE  EntriesOK(t) /\ \A key, addr : HasEntry(s, key, addr) => HasEntry(t, key, addr)
<1>1. CASE KeepsPeople(s, t)
  BY <1>1, Zenon DEF KeepsPeople, EntriesOK, HasEntry
<1>2. ASSUME NEW a, NEW token \in AllTokens, EntersToken(s, t, a, token)
      PROVE  EntriesOK(t) /\ \A key, addr : HasEntry(s, key, addr) => HasEntry(t, key, addr)
  <2>1. token.key \in Keys /\ EntryAllowed(s, a, token.key)
        /\ t.connect_token_entries = Entered(s, a, token.key)
    BY <1>2, Zenon DEF Keys, EntersToken
  <2>2. /\ Distinct(t.connect_token_entries)
        /\ \A i \in DOMAIN s.connect_token_entries :
             /\ i \in DOMAIN t.connect_token_entries
             /\ t.connect_token_entries[i] = s.connect_token_entries[i]
        /\ HasEntry(t, token.key, a)
    <3>1. Distinct(s.connect_token_entries)
      BY DEF EntriesOK
    <3> DEFINE new == Entered(s, a, token.key)
    <3>2. /\ Distinct(new)
          /\ \A i \in DOMAIN s.connect_token_entries :
               i \in DOMAIN new /\ new[i] = s.connect_token_entries[i]
          /\ \E i \in DOMAIN new : new[i].mac = token.key /\ new[i].address = a
      <4>1. Enters(s.connect_token_entries, new, token.key, a)
        BY <2>1, <3>1, EnteredOK
      <4> HIDE DEF new
      <4> QED BY <4>1, Zenon DEF Enters
    <3> HIDE DEF new
    <3>3. t.connect_token_entries = new
      BY <2>1 DEF new
    <3> QED BY <3>2, <3>3, Zenon DEF HasEntry
  <2>3. \A key, addr : HasEntry(s, key, addr) => HasEntry(t, key, addr)
    BY <2>2, Zenon DEF HasEntry
  <2>4. \A x \in People(t) : x \in People(s) \/ (x[1] = token.key /\ x[2] = a)
    BY <1>2 DEF EntersToken
  <2>5. \A x \in People(t) : HasEntry(t, x[1], x[2])
    BY <2>2, <2>3, <2>4, Zenon DEF EntriesOK
  <2> QED BY <2>2, <2>3, <2>5, Zenon DEF EntriesOK
<1> QED BY <1>1, <1>2, Zenon DEF Moves

LEMMA ServerStepEntries ==
  ASSUME TokensFit, IInv, EntriesInv, NEW s \in ServerAddrs, NEW r, ResultOK(servers[s], r),
         ServerStep(s, r)
  PROVE  EntriesInv'
<1>1. /\ servers'[s] = r.server /\ \A t \in ServerAddrs \ {s} : servers'[t] = servers[t]
      /\ joined' = joined \cup Seated(r.server) /\ r.server.addr = s
  BY Zenon DEF ServerStep, IInv, ResultOK, Moves
<1>2. EntriesOK(r.server)
      /\ \A key, addr : HasEntry(servers[s], key, addr) => HasEntry(r.server, key, addr)
  BY MovesEntries, Zenon DEF EntriesInv, ResultOK
<1>3. \A t \in ServerAddrs : EntriesOK(servers'[t])
  BY <1>1, <1>2, Zenon DEF EntriesInv
<1>4. ASSUME NEW x \in joined'
      PROVE  x.server \in ServerAddrs /\ HasEntry(servers'[x.server], x.key, x.addr)
  <2>1. CASE x \in joined
    BY <1>1, <1>2, <1>4, <2>1, Zenon DEF EntriesInv
  <2>2. CASE x \in Seated(r.server)
    <3>1. PICK i \in DOMAIN r.server.clients : x = Slot(r.server.addr, i, r.server.clients[i])
      BY <2>2 DEF Seated
    <3>2. x.server = s /\ x.key = r.server.clients[i].key /\ x.addr = r.server.clients[i].addr
      BY <1>1, <3>1, Zenon DEF Slot
    <3>3. <<x.key, x.addr>> \in People(r.server)
      BY <3>2, Zenon DEF People
    <3>4. HasEntry(r.server, x.key, x.addr)
      BY <1>2, <3>3, Zenon DEF EntriesOK
    <3> QED BY <1>1, <3>2, <3>4, Zenon
  <2> QED BY <1>1, <1>4, <2>1, <2>2, Zenon
<1> QED BY <1>3, <1>4, Zenon DEF EntriesInv

LEMMA InitEntries == Init => EntriesInv
<1> SUFFICES ASSUME Init PROVE EntriesInv
  OBVIOUS
<1>1. ASSUME NEW s \in ServerAddrs PROVE EntriesOK(servers[s])
  <2> DEFINE t == NewServer(s, 0)
  <2>1. t.connect_token_entries = <<>> /\ DOMAIN t.clients = {} /\ DOMAIN t.pending_clients = {}
    BY DEF NewServer
  <2>2. servers[s] = t
    BY DEF Init
  <2> HIDE DEF t
  <2>3. Distinct(<<>>)
    <3>1. <<>> \in Seq({})
      OBVIOUS
    <3> QED BY <3>1 DEF Distinct
  <2>4. People(t) = {}
    BY <2>1 DEF People
  <2> QED BY <2>1, <2>2, <2>3, <2>4 DEF EntriesOK
<1> QED BY <1>1 DEF Init, EntriesInv

LEMMA NextEntries == TokensFit /\ IInv /\ EntriesInv /\ [Next]_vars => EntriesInv'
<1> SUFFICES ASSUME TokensFit, IInv, EntriesInv, [Next]_vars PROVE EntriesInv'
  OBVIOUS
<1>1. ASSUME servers' = servers, joined' = joined PROVE EntriesInv'
  BY <1>1, Zenon DEF EntriesInv
<1>2. ASSUME NEW a \in ClientAddrs,
             \/ Updates(a) \/ ClientSend(a) \/ Leave(a) \/ Restart(a)
             \/ \E reason \in OwnReasons : RenetDisconnects(a, reason)
             \/ \E p \in network, fails \in SocketFails : ClientReceive(a, p, fails)
      PROVE  servers' = servers /\ joined' = joined
  BY <1>2, Zenon DEF Updates, ClientTick, ClientSend, Leave, Restart, RenetDisconnects, ClientReceive,
              ClientStep
<1>3. ASSUME NEW s \in ServerAddrs,
             \/ ServerTick(s)
             \/ \E p \in network : ServerReceive(s, p)
             \/ \E i \in DOMAIN servers[s].clients :
                  ServerUpdateClient(s, i) \/ ServerSend(s, i) \/ ServerDisconnect(s, i)
             \/ \E n \in NewMaxClients : ChangeMaxClients(s, n)
      PROVE  EntriesInv'
  BY <1>3, ServerActionOK, ServerStepEntries
<1>4. CASE UNCHANGED vars
  BY <1>1, <1>4 DEF vars
<1> QED BY <1>1, <1>2, <1>3, <1>4 DEF Next

(***************************************************************************)
(* With room for the entries of all connect tokens in use, a server seats  *)
(* a token from one address only: find_or_add_connect_token_entry refuses  *)
(* it at any other, in the request that would make the connection pending, *)
(* and a Response only seats what is pending.                              *)
(***************************************************************************)
THEOREM TokensStayAtOneAddress ==
  ASSUME TokensFit
  PROVE  Spec => []OneAddressPerToken
<1>1. IInv /\ EntriesInv => OneAddressPerToken
  <2> SUFFICES ASSUME IInv, EntriesInv, NEW x \in joined, NEW y \in joined,
                      x.server = y.server, x.key = y.key
               PROVE  x.addr = y.addr
    BY DEF OneAddressPerToken
  <2> DEFINE s == servers[x.server]
             entries == s.connect_token_entries
  <2>1. Distinct(entries) /\ HasEntry(s, x.key, x.addr) /\ HasEntry(s, x.key, y.addr)
    BY Zenon DEF EntriesInv, EntriesOK
  <2> QED BY <2>1, Zenon DEF HasEntry, Distinct
<1>2. IInv /\ EntriesInv /\ [Next]_vars => EntriesInv'
  BY NextEntries
<1> QED BY <1>1, <1>2, InitEntries, SpecIInv, PTL DEF Spec

-----------------------------------------------------------------------------
\* A slot holds a sequence number that was let through and belongs there.
SlotsAreAccepted ==
  \A i \in 0 .. BufferSize - 1 :
    received_packet[i] # Empty =>
      received_packet[i] \in accepted /\ received_packet[i] % BufferSize = i

\* A sequence number that was let through is behind most_recent_sequence,
\* and its slot holds it or a newer one.
AcceptedAreRemembered ==
  \A s \in accepted :
    /\ s <= most_recent_sequence
    /\ received_packet[s % BufferSize] # Empty
    /\ received_packet[s % BufferSize] >= s

RingInv ==
  /\ RingTypeOK /\ SlotsAreAccepted /\ AcceptedAreRemembered
  /\ most_recent_sequence = 0 \/ most_recent_sequence \in accepted

LEMMA SlotIndex ==
  ASSUME NEW s \in Nat
  PROVE  s % BufferSize \in 0 .. BufferSize - 1
BY WindowAssumption

(***************************************************************************)
(* Two sequence numbers that share a slot are a whole buffer apart.        *)
(***************************************************************************)
LEMMA SameSlot ==
  ASSUME NEW r \in Nat, NEW s \in Nat, r > s, r % BufferSize = s % BufferSize
  PROVE  r >= s + BufferSize
<1> DEFINE N == BufferSize
           a == r \div N
           b == s \div N
           c == s % N
<1>1. N \in Nat \ {0}
  BY WindowAssumption
<1>2. a \in Nat /\ b \in Nat /\ c \in 0 .. N - 1
  BY <1>1
<1>3. r = N * a + c /\ s = N * b + c
  BY <1>1
<1> HIDE DEF N, a, b, c
<1>4. a >= b + 1
  BY <1>1, <1>2, <1>3
<1>5. N * a >= N * (b + 1)
  BY <1>1, <1>2, <1>4
<1>6. N * (b + 1) = N * b + N
  BY <1>1, <1>2
<1>7. N * a \in Nat /\ N * b \in Nat
  BY <1>1, <1>2
<1>8. r >= s + N
  BY <1>1, <1>2, <1>3, <1>5, <1>6, <1>7
<1> QED BY <1>8 DEF N

LEMMA InitRing == RingInit => RingInv
BY WindowAssumption DEF RingInit, RingInv, RingTypeOK, SlotsAreAccepted, AcceptedAreRemembered, Empty

(***************************************************************************)
(* advance_sequence overwrites a slot only with a newer sequence number,   *)
(* because already_received refuses an older one: this is what keeps       *)
(* AcceptedAreRemembered.                                                  *)
(***************************************************************************)
LEMMA AcceptStep ==
  ASSUME RingInv, NEW t \in Sequences, Accept(t)
  PROVE  RingInv'
<1> DEFINE k == t % BufferSize
<1>1. t \in Nat /\ k \in 0 .. BufferSize - 1 /\ BufferSize \in Nat \ {0}
  BY ReplayAssumption, WindowAssumption, SlotIndex
<1>2. /\ most_recent_sequence \in Nat
      /\ received_packet \in [0 .. BufferSize - 1 -> Nat \cup {Empty}]
      /\ accepted \subseteq Nat /\ replayed \subseteq accepted
  BY DEF RingInv, RingTypeOK
<1>3. received_packet[k] = Empty \/ received_packet[k] < t
  <2>1. ~ (received_packet[k] # Empty /\ received_packet[k] >= t)
    BY DEF Accept, AlreadyReceived
  <2>2. received_packet[k] \in Nat \cup {Empty}
    BY <1>1, <1>2
  <2> QED BY <1>1, <2>1, <2>2 DEF Empty
<1>4. /\ received_packet' = [received_packet EXCEPT ![k] = t]
      /\ accepted' = accepted \cup {t}
      /\ replayed' = replayed \cup ({t} \cap accepted)
      /\ most_recent_sequence' =
           IF t > most_recent_sequence THEN t ELSE most_recent_sequence
  BY DEF Accept
<1>5. /\ received_packet'[k] = t
      /\ \A i \in 0 .. BufferSize - 1 : i # k => received_packet'[i] = received_packet[i]
  BY <1>1, <1>2, <1>4
<1>6. RingTypeOK'
  BY <1>1, <1>2, <1>4 DEF RingTypeOK
<1>7. SlotsAreAccepted'
  <2> SUFFICES ASSUME NEW i \in 0 .. BufferSize - 1, received_packet'[i] # Empty
               PROVE  received_packet'[i] \in accepted' /\ received_packet'[i] % BufferSize = i
    BY DEF SlotsAreAccepted
  <2>1. CASE i = k
    BY <1>4, <1>5, <2>1
  <2>2. CASE i # k
    BY <1>4, <1>5, <2>2 DEF RingInv, SlotsAreAccepted
  <2> QED BY <2>1, <2>2
<1> HIDE DEF k
<1>8. AcceptedAreRemembered'
  <2> SUFFICES ASSUME NEW s \in accepted'
               PROVE  /\ s <= most_recent_sequence'
                      /\ received_packet'[s % BufferSize] # Empty
                      /\ received_packet'[s % BufferSize] >= s
    BY DEF AcceptedAreRemembered
  <2>1. CASE s = t
    BY <1>1, <1>2, <1>4, <1>5, <2>1 DEF Empty, k
  <2>2. CASE s \in accepted
    <3>1. /\ s \in Nat /\ s <= most_recent_sequence
          /\ received_packet[s % BufferSize] # Empty
          /\ received_packet[s % BufferSize] >= s
      BY <1>2, <2>2 DEF RingInv, AcceptedAreRemembered
    <3>2. s % BufferSize \in 0 .. BufferSize - 1
      BY <3>1, SlotIndex
    <3>3. s <= most_recent_sequence'
      BY <1>1, <1>2, <1>4, <3>1
    <3>4. CASE s % BufferSize = k
      <4>1. received_packet[k] < t /\ received_packet[k] \in Nat /\ received_packet[k] >= s
        BY <1>2, <1>3, <3>1, <3>2, <3>4
      <4> QED BY <1>1, <1>5, <3>1, <3>3, <3>4, <4>1 DEF Empty
    <3>5. CASE s % BufferSize # k
      BY <1>5, <3>1, <3>2, <3>3, <3>5
    <3> QED BY <3>4, <3>5
  <2> QED BY <1>4, <2>1, <2>2
<1>9. most_recent_sequence' = 0 \/ most_recent_sequence' \in accepted'
  BY <1>4 DEF RingInv
<1> QED BY <1>6, <1>7, <1>8, <1>9 DEF RingInv

LEMMA NextRing == RingInv /\ [RingNext]_ringVars => RingInv'
<1> SUFFICES ASSUME RingInv, [RingNext]_ringVars PROVE RingInv'
  OBVIOUS
<1>1. ASSUME NEW t \in Sequences, Accept(t) PROVE RingInv'
  BY <1>1, AcceptStep
<1>2. ASSUME UNCHANGED ringVars PROVE RingInv'
  BY <1>2 DEF ringVars, RingInv, RingTypeOK, SlotsAreAccepted, AcceptedAreRemembered
<1> QED BY <1>1, <1>2 DEF RingNext, Refuse

LEMMA RingInvariance == RingSpec => []RingInv
BY InitRing, NextRing, PTL DEF RingSpec

LEMMA ExactFromRing == RingInv => WindowIsExact
<1> SUFFICES ASSUME RingInv, NEW s \in Sequences
             PROVE  AlreadyReceived(s) <=> WindowRefuses(accepted, s)
  BY DEF WindowIsExact
<1> DEFINE k == s % BufferSize
           r == received_packet[k]
<1>1. s \in Nat /\ k \in 0 .. BufferSize - 1 /\ BufferSize \in Nat \ {0}
  BY ReplayAssumption, WindowAssumption, SlotIndex
<1>2. most_recent_sequence \in Nat /\ accepted \subseteq Nat /\ r \in Nat \cup {Empty}
  BY <1>1 DEF RingInv, RingTypeOK
<1>3. AlreadyReceived(s) <=> s + BufferSize <= most_recent_sequence \/ (r # Empty /\ r >= s)
  BY DEF AlreadyReceived
<1>4. ASSUME s \in accepted PROVE r # Empty /\ r >= s
  BY <1>4 DEF RingInv, AcceptedAreRemembered
<1>5. ASSUME r # Empty, r >= s, s \notin accepted PROVE s + BufferSize <= most_recent_sequence
  <2>1. r \in accepted /\ r % BufferSize = s % BufferSize
    BY <1>1, <1>5 DEF RingInv, SlotsAreAccepted
  <2>2. r \in Nat /\ r <= most_recent_sequence
    BY <1>2, <2>1, Zenon DEF RingInv, AcceptedAreRemembered
  <2> HIDE DEF r
  <2>3. r > s
    BY <1>1, <1>5, <2>1, <2>2
  <2>4. r >= s + BufferSize
    BY <1>1, <2>1, <2>2, <2>3, SameSlot
  <2> QED BY <1>1, <1>2, <2>2, <2>4
<1>6. s + BufferSize <= most_recent_sequence <=> \E x \in accepted : s + BufferSize <= x
  <2>1. ~ (s + BufferSize <= 0)
    BY <1>1
  <2>2. \A x \in accepted : x \in Nat /\ x <= most_recent_sequence
    BY <1>2 DEF RingInv, AcceptedAreRemembered
  <2>3. most_recent_sequence = 0 \/ most_recent_sequence \in accepted
    BY DEF RingInv
  <2> QED BY <1>1, <1>2, <2>1, <2>2, <2>3
<1> QED BY <1>3, <1>4, <1>5, <1>6 DEF WindowRefuses

(***************************************************************************)
(* Every slot of the ring is EMPTY or holds a sequence number.             *)
(***************************************************************************)
THEOREM RingTypeCorrect == RingSpec => []RingTypeOK
<1>1. RingInv => RingTypeOK
  BY DEF RingInv
<1> QED BY <1>1, RingInvariance, PTL

(***************************************************************************)
(* For every buffer size and all sequence numbers, the ring refuses what   *)
(* the window refuses: the sequence numbers it has let through and those a *)
(* buffer or more behind one of them.                                      *)
(***************************************************************************)
THEOREM ExactWindow == RingSpec => []WindowIsExact
BY ExactFromRing, RingInvariance, PTL

(***************************************************************************)
(* No sequence number is ever let through twice.                           *)
(***************************************************************************)
THEOREM NeverReplayed == RingSpec => []NoReplay
<1>1. RingInit => NoReplay
  BY DEF RingInit, NoReplay
<1>2. RingInv /\ NoReplay /\ [RingNext]_ringVars => NoReplay'
  <2> SUFFICES ASSUME RingInv, NoReplay, [RingNext]_ringVars PROVE NoReplay'
    OBVIOUS
  <2>1. ASSUME NEW t \in Sequences, Accept(t) PROVE NoReplay'
    <3>1. t \notin accepted
      BY <2>1, ExactFromRing DEF WindowIsExact, WindowRefuses, Accept
    <3> QED BY <2>1, <3>1 DEF Accept, NoReplay
  <2>2. ASSUME UNCHANGED ringVars PROVE NoReplay'
    BY <2>2 DEF ringVars, NoReplay
  <2> QED BY <2>1, <2>2 DEF RingNext, Refuse
<1> QED BY <1>1, <1>2, RingInvariance, PTL DEF RingSpec

-----------------------------------------------------------------------------
(***************************************************************************)
(* The types and the bounds of Netcode, concluded: the part of the proof   *)
(* that counts.  The theorems on finite sets are needed from here on only. *)
(***************************************************************************)
INSTANCE FiniteSetTheorems

\* The first free slot that the server looks for exists when a slot is free.
LEMMA LeastSlot ==
  ASSUME NEW S \in SUBSET Nat, S # {}
  PROVE  Min(S) \in S
<1>1. PICK x \in S : \A y \in S : ~ (<<y, x>> \in OpToRel(<, Nat))
  BY NatLessThanWellFounded, WFMin, Zenon
<1>2. \A y \in S : ~ (y < x)
  BY <1>1, Zenon DEF OpToRel
<1>3. \A y \in S : x <= y
  BY <1>2
<1> QED BY <1>3, Zenon DEF Min

\* find_or_add_connect_token_entry replaces an entry when the array is full.
LEMMA GrowsTyped ==
  ASSUME NEW s, ServerTyped(s), NEW t, Moves(s, t), Grows(s, t)
  PROVE  ServerTyped(t)
<1> DEFINE P == DOMAIN s.pending_clients
           Q == DOMAIN t.pending_clients
<1>1. /\ DOMAIN s.clients \subseteq Slots /\ P \subseteq ClientAddrs /\ IsFiniteSet(P)
      /\ Cardinality(P) <= MaxPendingClients
  BY DEF ServerTyped
<1>2. MaxPendingClients \in Nat /\ Cardinality(P) \in Nat
  BY <1>1, ServerAssumption, FS_CardinalityType
<1>3. DOMAIN t.clients \subseteq Slots
  BY <1>1 DEF Grows
<1>4. EntriesFit(t.connect_token_entries)
  BY EnteredFits, Zenon DEF Moves, KeepsPeople, EntersToken, ServerTyped
<1>5. \/ Q \subseteq P
      \/ /\ ~ (Cardinality(P) >= MaxPendingClients)
         /\ \E addr \in ClientAddrs : Q \subseteq P \cup {addr}
  BY Zenon DEF Grows
<1> HIDE DEF P, Q
<1>6. CASE Q \subseteq P
  <2>1. IsFiniteSet(Q) /\ Cardinality(Q) <= Cardinality(P) /\ Cardinality(Q) \in Nat
    BY <1>1, <1>6, FS_Subset, FS_CardinalityType
  <2>2. Cardinality(Q) <= MaxPendingClients
    BY <1>1, <1>2, <2>1
  <2>3. Q \subseteq ClientAddrs
    BY <1>1, <1>6
  <2> QED BY <1>3, <1>4, <2>1, <2>2, <2>3, Zenon DEF ServerTyped, Q
<1>7. ASSUME ~ (Cardinality(P) >= MaxPendingClients),
             NEW addr \in ClientAddrs, Q \subseteq P \cup {addr}
      PROVE  ServerTyped(t)
  <2>1. /\ IsFiniteSet(P \cup {addr}) /\ Cardinality(P \cup {addr}) \in Nat
        /\ \/ Cardinality(P \cup {addr}) = Cardinality(P)
           \/ Cardinality(P \cup {addr}) = Cardinality(P) + 1
    BY <1>1, FS_AddElement, FS_CardinalityType
  <2>2. IsFiniteSet(Q) /\ Cardinality(Q) <= Cardinality(P \cup {addr}) /\ Cardinality(Q) \in Nat
    BY <1>7, <2>1, FS_Subset, FS_CardinalityType
  <2>3. Cardinality(Q) <= MaxPendingClients
    BY <1>2, <1>7, <2>1, <2>2
  <2>4. Q \subseteq ClientAddrs
    BY <1>1, <1>7
  <2> QED BY <1>3, <1>4, <2>2, <2>3, <2>4, Zenon DEF ServerTyped, Q
<1> QED BY <1>5, <1>6, <1>7

\* Most methods let nobody in.
LEMMA ResponseGrows ==
  ASSUME NEW s, ServerOK(s), NEW pending, NEW p
  PROVE  Grows(s, ProcessResponse(s, pending, p).server)
<1> DEFINE t == ProcessResponse(s, pending, p).server
           slot == Min(FreeSlots(s))
<1>1. DOMAIN s = ServerFields
  BY DEF ServerOK
<1>2. FreeSlots(s) # {} => slot \in Slots
  <2>1. FreeSlots(s) \in SUBSET Nat /\ FreeSlots(s) \subseteq Slots
    BY ServerAssumption DEF FreeSlots, Slots
  <2> QED BY <2>1, LeastSlot
<1> HIDE DEF slot
<1>3. DOMAIN t.pending_clients \subseteq DOMAIN s.pending_clients
  BY <1>1 DEF ProcessResponse, Seat, Replies, ServerFields, Without
<1>4. t.clients = s.clients
      \/ (FreeSlots(s) # {} /\ DOMAIN t.clients = DOMAIN s.clients \cup {slot})
  BY <1>1 DEF ProcessResponse, Seat, Replies, ServerFields, With, slot
<1> HIDE DEF t
<1>5. Grows(s, t)
  BY <1>2, <1>3, <1>4, FewerGrows
<1> QED BY <1>5 DEF t

LEMMA ServerProcessPacketGrows ==
  ASSUME NEW s, ServerOK(s), NEW addr, NEW p, p.type = "ConnectionRequest" => addr \in ClientAddrs
  PROVE  Grows(s, ServerProcessPacket(s, addr, p).server)
<1>1. CASE addr \in DOMAIN s.pending_clients
  <2> DEFINE heard == Heard(s, addr, p)
             decoded == Decoded(s, addr, p)
             r == ProcessPending(s, addr, p)
  <2>1. ServerOK(decoded) /\ decoded.clients = s.clients
    BY <1>1, PendingHeard
  <2>2. DOMAIN decoded.pending_clients = DOMAIN s.pending_clients
    BY DEF Decoded, ServerOK, ServerFields
  <2>3. \/ r = Replies(s, {})
        \/ p.type = "ConnectionRequest" /\ r = HandleConnectionRequest(decoded, addr, p.token)
        \/ r = ProcessResponse(decoded, heard, p)
        \/ r = Replies(decoded, {})
    BY DEF ProcessPending, Heard, Decoded
  <2> HIDE DEF heard, decoded, r
  <2>4. \A t : Grows(decoded, t) => Grows(s, t)
    BY <2>1, <2>2, Zenon DEF Grows
  <2>5. /\ p.type = "ConnectionRequest" =>
             Grows(decoded, HandleConnectionRequest(decoded, addr, p.token).server)
        /\ Grows(decoded, ProcessResponse(decoded, heard, p).server)
        /\ Grows(decoded, decoded) /\ Grows(s, s)
    BY <2>1, RequestGrows, ResponseGrows, FewerGrows, Zenon
  <2>6. Replies(s, {}).server = s /\ Replies(decoded, {}).server = decoded
    BY DEF Replies
  <2>7. Grows(s, r.server)
    BY <2>3, <2>4, <2>5, <2>6, Zenon
  <2> QED BY <1>1, <2>7, SlotMethodsGrow, Zenon DEF ServerProcessPacket, r
<1>2. CASE addr \notin DOMAIN s.pending_clients
  BY <1>2, RequestGrows, SlotMethodsGrow, Zenon DEF ServerProcessPacket, Replies
<1> QED BY <1>1, <1>2

LEMMA InitTyped == Init => TypeInv
<1> SUFFICES ASSUME Init PROVE TypeInv
  OBVIOUS
<1>1. ASSUME NEW a \in ClientAddrs
      PROVE  ClientTyped(clients[a], a) /\ renet[a] \in Statuses
  <2>1. clients[a] = NewClient(a, Tokens[a][1], 0) /\ renet[a] = "Connecting"
    BY <1>1 DEF Init
  <2>2. 1 \in 1 .. Len(Tokens[a]) /\ 0 \in Nat
    BY <1>1, NetcodeAssumption
  <2> QED BY <1>1, <2>1, <2>2, NewClientTyped, Zenon DEF Statuses
<1>2. ASSUME NEW s \in ServerAddrs
      PROVE  ServerTyped(servers[s])
  <2> DEFINE t == NewServer(s, 0)
  <2>1. t.clients = <<>> /\ t.pending_clients = <<>> /\ t.connect_token_entries = <<>>
    BY DEF NewServer
  <2> HIDE DEF t
  <2>2. DOMAIN t.clients = {} /\ DOMAIN t.pending_clients = {}
        /\ t.connect_token_entries \in Seq(Nat) /\ Len(t.connect_token_entries) = 0
    BY <2>1
  <2>3. IsFiniteSet({}) /\ Cardinality({}) = 0 /\ 0 <= MaxPendingClients /\ 0 <= TokenEntries
    BY FS_EmptySet, ServerAssumption
  <2>4. ServerTyped(t)
    BY <2>2, <2>3 DEF ServerTyped, EntriesFit
  <2> QED BY <1>2, <2>4, Zenon DEF Init, t
<1> QED BY <1>1, <1>2 DEF TypeInv

LEMMA ServerActionTyped ==
  ASSUME IInv, TypeInv, NEW s \in ServerAddrs,
         \/ ServerTick(s)
         \/ \E p \in network : ServerReceive(s, p)
         \/ \E i \in DOMAIN servers[s].clients :
              ServerUpdateClient(s, i) \/ ServerSend(s, i) \/ ServerDisconnect(s, i)
         \/ \E n \in NewMaxClients : ChangeMaxClients(s, n)
  PROVE  TypeInv'
<1>1. ServerOK(servers[s]) /\ ServerTyped(servers[s])
  BY Zenon DEF IInv, TypeInv
<1>2. ASSUME NEW r, ServerStep(s, r), ServerTyped(r.server) PROVE TypeInv'
  <2>1. servers' = [servers EXCEPT ![s] = r.server] /\ DOMAIN servers = ServerAddrs
        /\ clients' = clients /\ renet' = renet
    BY <1>2, Zenon DEF ServerStep, IInv
  <2>2. \A t \in ServerAddrs : ServerTyped(servers'[t])
    BY <1>2, <2>1, Zenon DEF TypeInv
  <2> QED BY <2>1, <2>2, Zenon DEF TypeInv
<1>3. \A r : ResultOK(servers[s], r) /\ Grows(servers[s], r.server) => ServerTyped(r.server)
  BY <1>1, GrowsTyped, Zenon DEF ResultOK
<1>4. CASE ServerTick(s)
  <2>1. ResultOK(servers[s], Replies(ServerUpdate(servers[s], 1), {}))
    BY <1>1, ServerUpdateOK
  <2>2. Grows(servers[s], Replies(ServerUpdate(servers[s], 1), {}).server)
    BY <1>1, SlotMethodsGrow, Zenon DEF Replies
  <2> QED BY <1>2, <1>3, <1>4, <2>1, <2>2, Zenon DEF ServerTick
<1>5. ASSUME NEW p \in network, ServerReceive(s, p) PROVE TypeInv'
  <2>1. PacketOK(p, joined)
    BY Zenon DEF IInv
  <2>2. p.type = "ConnectionRequest" => p.from \in ClientAddrs
    BY <2>1, Zenon DEF PacketOK
  <2>3. ResultOK(servers[s], ServerProcessPacket(servers[s], p.from, p))
    BY <1>1, <2>1, ServerProcessPacketOK, Zenon
  <2>4. Grows(servers[s], ServerProcessPacket(servers[s], p.from, p).server)
    BY <1>1, <2>2, ServerProcessPacketGrows, Zenon
  <2> QED BY <1>2, <1>3, <1>5, <2>3, <2>4, Zenon DEF ServerReceive
<1>6. ASSUME NEW i \in DOMAIN servers[s].clients, ServerUpdateClient(s, i) PROVE TypeInv'
  <2>1. ResultOK(servers[s], UpdateClient(servers[s], i))
    BY <1>1, UpdateClientOK
  <2>2. Grows(servers[s], UpdateClient(servers[s], i).server)
    BY <1>1, SlotMethodsGrow, Zenon
  <2> QED BY <1>2, <1>3, <1>6, <2>1, <2>2, Zenon DEF ServerUpdateClient
<1>7. ASSUME NEW i \in DOMAIN servers[s].clients, ServerSend(s, i) PROVE TypeInv'
  <2> DEFINE id == servers[s].clients[i].client_id
  <2>1. ResultOK(servers[s], GeneratePayloadFor(servers[s], id))
    BY <1>1, GeneratePayloadOK
  <2>2. Grows(servers[s], GeneratePayloadFor(servers[s], id).server)
    BY <1>1, SlotMethodsGrow, Zenon
  <2> QED BY <1>2, <1>3, <1>7, <2>1, <2>2, Zenon DEF ServerSend
<1>8. ASSUME NEW i \in DOMAIN servers[s].clients, ServerDisconnect(s, i) PROVE TypeInv'
  <2>1. ResultOK(servers[s], DisconnectClient(servers[s], i))
    BY <1>1, UpdateClientOK
  <2>2. Grows(servers[s], DisconnectClient(servers[s], i).server)
    BY <1>1, SlotMethodsGrow, Zenon
  <2> QED BY <1>2, <1>3, <1>8, <2>1, <2>2, Zenon DEF ServerDisconnect
<1>9. ASSUME NEW n \in NewMaxClients, ChangeMaxClients(s, n) PROVE TypeInv'
  <2>1. ResultOK(servers[s], Replies(SetMaxClients(servers[s], n), {}))
    BY <1>1, SetMaxClientsOK
  <2>2. Grows(servers[s], Replies(SetMaxClients(servers[s], n), {}).server)
    BY <1>1, SlotMethodsGrow, Zenon DEF Replies
  <2> QED BY <1>2, <1>3, <1>9, <2>1, <2>2, Zenon DEF ChangeMaxClients
<1> QED BY <1>4, <1>5, <1>6, <1>7, <1>8, <1>9

LEMMA NextTyped == IInv /\ TypeInv /\ [Next]_vars => TypeInv'
<1> SUFFICES ASSUME IInv, TypeInv, [Next]_vars PROVE TypeInv'
  OBVIOUS
<1>1. ASSUME NEW a \in ClientAddrs, Updates(a) \/ ClientSend(a) \/ Leave(a)
      PROVE  TypeInv'
  BY <1>1, ClientActionTyped DEF Updates
<1>2. ASSUME NEW a \in ClientAddrs, Restart(a)
      PROVE  TypeInv'
  BY <1>2, RestartTyped
<1>3. ASSUME NEW a \in ClientAddrs, NEW reason \in OwnReasons, RenetDisconnects(a, reason)
      PROVE  TypeInv'
  <2>1. renet' = [renet EXCEPT ![a] = Ended(renet[a], reason)] /\ DOMAIN renet = ClientAddrs
        /\ clients' = clients /\ servers' = servers
    BY <1>3, Zenon DEF RenetDisconnects, IInv
  <2>2. renet[a] \in Statuses /\ reason \in RenetReasons
    BY <1>3, NetcodeAssumption DEF TypeInv
  <2>3. Ended(renet[a], reason) \in Statuses
    BY <2>2, StatusTyped
  <2>4. \A b \in ClientAddrs : renet'[b] \in Statuses
    BY <2>1, <2>3, Zenon DEF TypeInv
  <2> QED BY <2>1, <2>4, Zenon DEF TypeInv
<1>4. ASSUME NEW a \in ClientAddrs, NEW p \in network, NEW fails \in SocketFails,
             ClientReceive(a, p, fails)
      PROVE  TypeInv'
  BY <1>4, ClientActionTyped
<1>5. ASSUME NEW s \in ServerAddrs,
             \/ ServerTick(s)
             \/ \E p \in network : ServerReceive(s, p)
             \/ \E i \in DOMAIN servers[s].clients :
                  ServerUpdateClient(s, i) \/ ServerSend(s, i) \/ ServerDisconnect(s, i)
             \/ \E n \in NewMaxClients : ChangeMaxClients(s, n)
      PROVE  TypeInv'
  BY <1>5, ServerActionTyped, Zenon
<1>6. CASE UNCHANGED vars
  BY <1>6, Zenon DEF vars, TypeInv
<1> QED BY <1>1, <1>2, <1>3, <1>4, <1>5, <1>6 DEF Next

(***************************************************************************)
(* Clients and servers keep their types and their bounds: a client that is *)
(* not disconnected always has a server to talk to and never a time ahead  *)
(* of its clock, and a server never has more pending connections than      *)
(* NETCODE_MAX_PENDING_CLIENTS, more connect token entries than its array, *)
(* or a client beyond its slots.                                           *)
(***************************************************************************)
THEOREM NetcodeTypeCorrect == Spec => []TypeOK
<1>1. TypeInv => TypeOK
  <2> SUFFICES ASSUME TypeInv PROVE TypeOK
    OBVIOUS
  <2>1. ASSUME NEW a \in ClientAddrs
        PROVE  /\ clients[a].state \in Connecting \cup {"Connected"} \cup Reasons
               /\ renet[a] \in Statuses
               /\ clients[a].token \in Range(Tokens[a])
               /\ Live(a) => clients[a].server_addr_index < Len(clients[a].token.hosts)
               /\ clients[a].last_packet_send_time \in NotSent .. clients[a].current_time
               /\ clients[a].last_packet_received_time \in 0 .. clients[a].current_time
    <3>1. ClientTyped(clients[a], a) /\ renet[a] \in Statuses
      BY <2>1, Zenon DEF TypeInv
    <3>2. Live(a) => clients[a].server_addr_index \in 0 .. Len(clients[a].token.hosts) - 1
      BY <3>1, Zenon DEF Live, ClientTyped
    <3>3. Len(clients[a].token.hosts) \in Nat
      <4>1. clients[a].token \in AllTokens
        BY <3>1 DEF ClientTyped, AllTokens
      <4> QED BY <4>1, TokenFacts
    <3>4. Live(a) => clients[a].server_addr_index < Len(clients[a].token.hosts)
      BY <3>2, <3>3
    <3> QED BY <3>1, <3>4, Zenon DEF ClientTyped, LiveStates
  <2>2. ASSUME NEW s \in ServerAddrs
        PROVE  /\ DOMAIN servers[s].clients \subseteq Slots
               /\ DOMAIN servers[s].pending_clients \subseteq ClientAddrs
               /\ Len(servers[s].connect_token_entries) <= TokenEntries
               /\ Cardinality(DOMAIN servers[s].pending_clients) <= MaxPendingClients
    BY <2>2, Zenon DEF TypeInv, ServerTyped, EntriesFit
  <2> QED BY <2>1, <2>2, Zenon DEF TypeOK
<1> QED BY <1>1, InitTyped, NextTyped, SpecIInv, PTL DEF Spec
=============================================================================
