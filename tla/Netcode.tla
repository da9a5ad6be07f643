------------------------------- MODULE Netcode -------------------------------
(***************************************************************************)
(* Netcode clients and servers over a network that loses, delays, reorders *)
(* and duplicates packets: a packet sent may be delivered at any time, any *)
(* number of times, or never.                                              *)
(* The processes are driven the way the UDP transports of renet_netcode    *)
(* drive them: a client listens to its current server only, and a          *)
(* disconnected one neither sends nor listens.  A user may run a program   *)
(* again at the same address, with the next connect token of its list.     *)
(*                                                                         *)
(* joined is a history variable: who was given which slot, by which        *)
(* connect token.                                                          *)
(***************************************************************************)
EXTENDS NetcodeClientTransport, NetcodeServer

CONSTANTS ClientAddrs, ServerAddrs,
          Tokens,          \* the connect tokens each client address uses in turn
          NewMaxClients,   \* the values set_max_clients is called with
          OwnReasons,      \* why a RenetClient may be disconnected on its own
          SocketFails,     \* whether a client's socket may report an error
          MaxClientTime, MaxServerTime, MaxChallenges,     \* bounds on time and requests
          MaxClientSequence, MaxServerSequence             \* bounds on payloads

AllTokens == UNION {Range(Tokens[a]) : a \in ClientAddrs}

ConnectTokens ==
  [key : STRING, client_id : Nat, protocol_id : Nat, create_timestamp : Nat,
   expire_timestamp : Nat, timeout_seconds : Int, hosts : Seq(STRING), connect_key : STRING]

\* The key of a token is random: no two tokens share one.  No server has a client's address.
ASSUME NetcodeAssumption ==
  /\ Tokens \in [ClientAddrs -> Seq(ConnectTokens)]
  /\ \A a \in ClientAddrs : Tokens[a] # <<>>
  /\ \A t \in AllTokens : Len(t.hosts) \in 1 .. MaxHosts /\ Range(t.hosts) \cap ClientAddrs = {}
  /\ \A t, u \in AllTokens : t.key = u.key => t = u
  /\ OwnReasons \subseteq RenetReasons

VARIABLES clients, renet, runs, servers, network, joined

vars == <<clients, renet, runs, servers, network, joined>>

Init ==
  /\ clients = [a \in ClientAddrs |-> NewClient(a, Tokens[a][1], 0)]
  /\ renet = [a \in ClientAddrs |-> "Connecting"]
  /\ runs = [a \in ClientAddrs |-> 1]
  /\ servers = [s \in ServerAddrs |-> NewServer(s, 0)]
  /\ network = {}
  /\ joined = {}

Live(a) == clients[a].state \notin Reasons

Peer(a) == [netcode |-> clients[a], renet |-> renet[a]]

ClientStep(a, result) ==
  /\ clients' = [clients EXCEPT ![a] = result.peer.netcode]
  /\ renet' = [renet EXCEPT ![a] = result.peer.renet]
  /\ network' = network \cup result.out
  /\ UNCHANGED <<runs, servers, joined>>

Slot(s, i, client) == [server |-> s, slot |-> i, key |-> client.key, addr |-> client.addr]

\* The slots of a server, with who is in them.
Seated(server) == {Slot(server.addr, i, server.clients[i]) : i \in DOMAIN server.clients}

ServerStep(s, result) ==
  /\ servers' = [servers EXCEPT ![s] = result.server]
  /\ network' = network \cup result.out
  /\ joined' = joined \cup Seated(result.server)
  /\ UNCHANGED <<clients, renet, runs>>

-----------------------------------------------------------------------------
\* A call of the transport's update that finds no packet.
ClientTick(a, duration) ==
  /\ clients[a].current_time + duration <= MaxClientTime
  /\ ClientStep(a, TransportUpdate(Peer(a), clients[a], duration, FALSE))

\* The application calls update on every frame; a call that finds nothing to do is no step.
Updates(a) == ClientTick(a, 0) \/ ClientTick(a, 1)

\* A call that finds a packet; fails: the socket reports an error after it.
ClientReceive(a, p, fails) ==
  /\ Live(a) /\ renet[a] \notin RenetReasons /\ p.to = a
  /\ ClientStep(a, TransportUpdate(Peer(a), Receive(clients[a], p), 0, fails))

ClientSend(a) ==
  /\ Live(a) /\ clients[a].sequence < MaxClientSequence
  /\ ClientStep(a, SendPackets(Peer(a)))

\* The application closes the transport.
Leave(a) == ClientStep(a, TransportDisconnect(Peer(a)))

\* The application calls RenetClient::disconnect, or an operation on the RenetClient fails.
RenetDisconnects(a, reason) ==
  /\ renet' = [renet EXCEPT ![a] = Ended(@, reason)]
  /\ UNCHANGED <<clients, runs, servers, network, joined>>

\* The program is started again, after it ended or crashed.
Restart(a) ==
  /\ runs[a] < Len(Tokens[a])
  /\ runs' = [runs EXCEPT ![a] = @ + 1]
  /\ clients' = [clients EXCEPT ![a] = NewClient(a, Tokens[a][runs'[a]], clients[a].current_time)]
  /\ renet' = [renet EXCEPT ![a] = "Connecting"]
  /\ UNCHANGED <<servers, network, joined>>

ServerReceive(s, p) ==
  /\ p.to = s
  /\ p.type = "ConnectionRequest" => servers[s].global_sequence < MaxChallenges
  /\ ServerStep(s, ServerProcessPacket(servers[s], p.from, p))

ServerTick(s) ==
  /\ servers[s].current_time < MaxServerTime
  /\ ServerStep(s, Replies(ServerUpdate(servers[s], 1), {}))

ServerUpdateClient(s, i) == ServerStep(s, UpdateClient(servers[s], i))

ServerSend(s, i) ==
  /\ servers[s].clients[i].sequence < MaxServerSequence
  /\ ServerStep(s, GeneratePayloadFor(servers[s], servers[s].clients[i].client_id))

ServerDisconnect(s, i) == ServerStep(s, DisconnectClient(servers[s], i))

ChangeMaxClients(s, n) == ServerStep(s, Replies(SetMaxClients(servers[s], n), {}))

Next ==
  \/ \E a \in ClientAddrs :
       \/ Updates(a) \/ ClientSend(a) \/ Leave(a) \/ Restart(a)
       \/ \E reason \in OwnReasons : RenetDisconnects(a, reason)
       \/ \E p \in network, fails \in SocketFails : ClientReceive(a, p, fails)
  \/ \E s \in ServerAddrs :
       \/ ServerTick(s)
       \/ \E p \in network : ServerReceive(s, p)
       \/ \E i \in DOMAIN servers[s].clients :
            ServerUpdateClient(s, i) \/ ServerSend(s, i) \/ ServerDisconnect(s, i)
       \/ \E n \in NewMaxClients : ChangeMaxClients(s, n)

Spec == Init /\ [][Next]_vars

FairSpec == Spec /\ \A a \in ClientAddrs : WF_vars(Updates(a))

-----------------------------------------------------------------------------
TypeOK ==
  /\ \A a \in ClientAddrs :
       /\ clients[a].state \in Connecting \cup {"Connected"} \cup Reasons
       /\ renet[a] \in Statuses
       /\ clients[a].token \in Range(Tokens[a])
       /\ Live(a) => clients[a].server_addr_index < Len(clients[a].token.hosts)
       /\ clients[a].last_packet_send_time \in NotSent .. clients[a].current_time
       /\ clients[a].last_packet_received_time \in 0 .. clients[a].current_time
  /\ \A s \in ServerAddrs :
       /\ DOMAIN servers[s].clients \subseteq Slots
       /\ DOMAIN servers[s].pending_clients \subseteq ClientAddrs
       /\ Len(servers[s].connect_token_entries) <= TokenEntries
       /\ Cardinality(DOMAIN servers[s].pending_clients) <= MaxPendingClients

(***************************************************************************)
(* A server never seats the same client id or the same address twice, an   *)
(* address is never both connected and pending, and every seated client is *)
(* the one its connect token names: process_packet_internal looks up the   *)
(* id and takes the user data of the challenge token, and seats the id and *)
(* the keys of the pending connection, which another request may have made.*)
(***************************************************************************)
SeatsAreConsistent ==
  \A s \in ServerAddrs : LET seats == servers[s].clients IN
    /\ \A i, j \in DOMAIN seats :
         i # j => seats[i].client_id # seats[j].client_id /\ seats[i].addr # seats[j].addr
    /\ \A i \in DOMAIN seats :
         /\ seats[i].addr \notin DOMAIN servers[s].pending_clients
         /\ \E t \in AllTokens : /\ seats[i].key = t.key /\ seats[i].user_data = t.key
                                 /\ seats[i].client_id = t.client_id

(***************************************************************************)
(* A client that believes to be connected, in either layer, was seated by  *)
(* its current server, for the token it holds, at the slot it was told: no *)
(* delayed packet of an earlier run, or of a server tried before,          *)
(* completes a handshake.                                                  *)
(***************************************************************************)
ConnectedWasSeated ==
  \A a \in ClientAddrs : clients[a].state = "Connected" \/ renet[a] = "Connected" =>
    [server |-> ServerAddr(clients[a]), slot |-> clients[a].client_index,
     key |-> clients[a].token.key, addr |-> a] \in joined

(***************************************************************************)
(* A server seats a connect token from one address only, as the connect    *)
(* token entries are there to ensure (TokenEntries suffices for the tokens *)
(* in use).                                                                *)
(***************************************************************************)
OneAddressPerToken ==
  \A x, y \in joined : x.server = y.server /\ x.key = y.key => x.addr = y.addr

(***************************************************************************)
(* No client is seated once its token has expired.  The Response handler   *)
(* does not look at the expiry: it relies on update having removed the     *)
(* pending connection.                                                     *)
(***************************************************************************)
NoLateSeat ==
  [][\A s \in ServerAddrs : \A i \in DOMAIN servers'[s].clients :
       i \notin DOMAIN servers[s].clients =>
         AsSecs(servers[s].current_time) <= servers'[s].clients[i].expire_timestamp]_vars

(***************************************************************************)
(* A client that tries to connect stops trying: it connects, or it is      *)
(* disconnected with a reason after it went through the token's servers.   *)
(***************************************************************************)
ConnectingEnds ==
  \A a \in ClientAddrs : clients[a].state \in Connecting ~> clients[a].state \notin Connecting

(***************************************************************************)
(* The RenetClient and the NetcodeClient end together: when the handshake  *)
(* or the connection fails the application is told, and when the           *)
(* application or an error disconnects the RenetClient the netcode         *)
(* connection is closed, whether it was still being made or not.           *)
(***************************************************************************)
EndsTogether ==
  \A a \in ClientAddrs :
    (renet[a] \in RenetReasons \/ clients[a].state \in Reasons)
      ~> (renet[a] \in RenetReasons /\ clients[a].state \in Reasons)
=============================================================================
