---------------------------- MODULE NetcodeServer ----------------------------
(***************************************************************************)
(* renetcode's server: its state is a record, each method an operator that *)
(* gives the record after the call and the packet it asks to be sent.      *)
(*                                                                         *)
(* clients is a function of the occupied slots and pending_clients of the  *)
(* addresses that wait for a Response.  A connection in a slot has state   *)
(* Connected, one in pending_clients PendingResponse: Disconnected marks   *)
(* only connections that the same call removes, so the state is left out.  *)
(* An error of the code changes nothing and sends nothing.                 *)
(***************************************************************************)
EXTENDS NetcodePackets

CONSTANTS ServerSlots,        \* max_clients at NetcodeServer::new: the length of clients
          MaxClientsLimit,    \* NETCODE_MAX_CLIENTS
          MaxPendingClients,  \* NETCODE_MAX_PENDING_CLIENTS
          TokenEntries,       \* NETCODE_MAX_CLIENTS * 2
          ConnectKey, ProtocolId, Secure

ASSUME ServerAssumption ==
  /\ {ServerSlots, MaxPendingClients, TokenEntries, MaxClientsLimit} \subseteq Nat \ {0}
  /\ ServerSlots <= MaxClientsLimit /\ Secure \in BOOLEAN

Slots == 0 .. ServerSlots - 1

NewServer(addr, now) ==
  [addr |-> addr, clients |-> <<>>, pending_clients |-> <<>>, connect_token_entries |-> <<>>,
   max_clients |-> ServerSlots, challenge_sequence |-> 0, global_sequence |-> 0,
   current_time |-> now]

Replies(s, packets) == [server |-> s, out |-> packets]

SlotsOfId(s, client_id) == {i \in DOMAIN s.clients : s.clients[i].client_id = client_id}
SlotsOfAddr(s, addr) == {i \in DOMAIN s.clients : s.clients[i].addr = addr}

With(f, x, value) == [y \in DOMAIN f \cup {x} |-> IF y = x THEN value ELSE f[y]]
Without(f, x) == [y \in DOMAIN f \ {x} |-> f[y]]

NewConnection(s, addr, token) ==
  [confirmed |-> FALSE, sequence |-> 0, client_id |-> token.client_id, addr |-> addr,
   key |-> token.key, timeout_seconds |-> token.timeout_seconds,
   expire_timestamp |-> token.expire_timestamp, user_data |-> token.key,
   last_packet_received_time |-> s.current_time, last_packet_send_time |-> s.current_time,
   replay_protection |-> {}]

-----------------------------------------------------------------------------
(***************************************************************************)
(* The connect token entries: the array fills from its first empty element *)
(* and none is ever emptied, so it is a sequence.  When it is full the     *)
(* first of the oldest entries is replaced.                                *)
(***************************************************************************)
Known(s, mac) == {i \in DOMAIN s.connect_token_entries : s.connect_token_entries[i].mac = mac}

\* Mutant of EntryAllowed: the address of the entry is not compared.
EntryAllowedAnywhere(s, addr, mac) == TRUE

\* The result of find_or_add_connect_token_entry
EntryAllowed(s, addr, mac) == \A i \in Known(s, mac) : s.connect_token_entries[i].address = addr

Oldest(entries) ==
  Min({i \in DOMAIN entries : \A j \in DOMAIN entries : entries[i].time <= entries[j].time})

\* Mutant of Entered: no entry is replaced.
EnteredAlways(s, addr, mac) ==
  Append(s.connect_token_entries, [time |-> s.current_time, address |-> addr, mac |-> mac])

Entered(s, addr, mac) ==
  LET entries == s.connect_token_entries
      entry == [time |-> s.current_time, address |-> addr, mac |-> mac]
  IN  IF Known(s, mac) # {} THEN entries
      ELSE IF Len(entries) < TokenEntries THEN Append(entries, entry)
      ELSE [entries EXCEPT ![Oldest(entries)] = entry]

\* The early returns with an error.
Rejected(s, token) ==
  \/ token.protocol_id # ProtocolId
  \/ AsSecs(s.current_time) >= token.expire_timestamp
  \/ token.connect_key # ConnectKey
  \/ Secure /\ s.addr \notin Range(token.hosts)

\* The early returns without an answer.
Denied(s, addr, token) ==
  \/ SlotsOfId(s, token.client_id) # {} \/ SlotsOfAddr(s, addr) # {}
  \/ addr \notin DOMAIN s.pending_clients /\ Cardinality(DOMAIN s.pending_clients) >= MaxPendingClients
  \/ ~ EntryAllowed(s, addr, token.key)

\* A pending connection keeps the keys of the request that created it.
HandleConnectionRequest(s, addr, token) ==
  LET entered == [s EXCEPT !.connect_token_entries = Entered(s, addr, token.key),
                           !.global_sequence = @ + 1]
      pending == IF addr \in DOMAIN s.pending_clients THEN s.pending_clients[addr]
                 ELSE NewConnection(s, addr, token)
      token_sequence == s.challenge_sequence + 1
  IN  IF Rejected(s, token) \/ Denied(s, addr, token) THEN Replies(s, {})
      ELSE IF Cardinality(DOMAIN s.clients) >= s.max_clients THEN
        Replies([entered EXCEPT !.pending_clients = Without(@, addr)],
                {Sealed("ConnectionDenied", s.addr, addr, token.key, s.global_sequence)})
      ELSE
        Replies([entered EXCEPT
                   !.challenge_sequence = token_sequence,
                   !.pending_clients = With(@, addr,
                     [pending EXCEPT !.last_packet_received_time = s.current_time,
                                     !.last_packet_send_time = s.current_time])],
                {Challenge(s.addr, addr, token.key, s.global_sequence, token_sequence,
                           ChallengeToken(s.addr, token_sequence, token))})
-----------------------------------------------------------------------------
\* A packet from the address of a connected client.
ProcessConnected(s, slot, p) ==
  LET client == s.clients[slot]
      heard == [client EXCEPT !.last_packet_received_time = s.current_time,
                              !.replay_protection = Advanced(@, p)]
  IN  IF ~ Decodes(p, client.key, client.replay_protection) THEN Replies(s, {})
      ELSE IF p.type = "Disconnect" THEN Replies([s EXCEPT !.clients = Without(@, slot)], {})
      ELSE Replies([s EXCEPT !.clients[slot] =
                      [heard EXCEPT !.confirmed = @ \/ p.type \in {"Payload", "KeepAlive"}]], {})

FreeSlots(s) == Slots \ DOMAIN s.clients

(***************************************************************************)
(* pending was decoded from p, so its time and its window are up to date.  *)
(* The pending connection goes, whether or not a slot is found for it.     *)
(***************************************************************************)
Seat(s, pending, p) ==
  LET removed == [s EXCEPT !.pending_clients = Without(@, pending.addr)]
      slot == Min(FreeSlots(s))
  IN  IF FreeSlots(s) = {} THEN
        Replies([removed EXCEPT !.global_sequence = @ + 1],
                {Sealed("ConnectionDenied", s.addr, pending.addr, pending.key, s.global_sequence)})
      ELSE
        Replies([removed EXCEPT
                   !.clients = With(@, slot,
                     [pending EXCEPT !.user_data = p.token_data.user_data, !.sequence = @ + 1,
                                     !.last_packet_send_time = s.current_time])],
                {KeepAlive(s.addr, pending.addr, pending.key, pending.sequence, slot)})

\* Mutant of ProcessResponse: the client id is not looked up again.
ProcessResponseUnchecked(s, pending, p) ==
  IF p.token_data.server # s.addr \/ p.token_data.sequence # p.token_sequence
  THEN Replies(s, {}) ELSE Seat(s, pending, p)

ProcessResponse(s, pending, p) ==
  IF p.token_data.server # s.addr \/ p.token_data.sequence # p.token_sequence THEN Replies(s, {})
  ELSE IF SlotsOfId(s, p.token_data.client_id) # {} THEN
    Replies([s EXCEPT !.pending_clients = Without(@, pending.addr)], {})
  ELSE Seat(s, pending, p)

\* A packet from an address that waits for a Response.
ProcessPending(s, addr, p) ==
  LET pending == s.pending_clients[addr]
      heard == [pending EXCEPT !.last_packet_received_time = s.current_time,
                               !.replay_protection = Advanced(@, p)]
      decoded == [s EXCEPT !.pending_clients[addr] = heard]
  IN  IF ~ Decodes(p, pending.key, pending.replay_protection) THEN Replies(s, {})
      ELSE IF p.type = "ConnectionRequest" THEN HandleConnectionRequest(decoded, addr, p.token)
      ELSE IF p.type = "Response" THEN ProcessResponse(decoded, heard, p)
      ELSE Replies(decoded, {})

\* Without a key only a ConnectionRequest decodes.
ServerProcessPacket(s, addr, p) ==
  IF SlotsOfAddr(s, addr) # {} THEN ProcessConnected(s, Min(SlotsOfAddr(s, addr)), p)
  ELSE IF addr \in DOMAIN s.pending_clients THEN ProcessPending(s, addr, p)
  ELSE IF p.type = "ConnectionRequest" THEN HandleConnectionRequest(s, addr, p.token)
  ELSE Replies(s, {})

-----------------------------------------------------------------------------
\* generate_payload_packet; the caller has the id of a connected client.
GeneratePayloadFor(s, client_id) ==
  LET slot == Min(SlotsOfId(s, client_id))
      client == s.clients[slot]
  IN  Replies([s EXCEPT !.clients[slot].sequence = @ + 1,
                        !.clients[slot].last_packet_send_time = s.current_time],
              {Sealed("Payload", s.addr, client.addr, client.key, client.sequence)})

SetMaxClients(s, max_clients) == [s EXCEPT !.max_clients = Min({max_clients, MaxClientsLimit})]

\* Mutant of ServerUpdate: pending connections outlive their token.
ServerUpdateKeepsPending(s, duration) == [s EXCEPT !.current_time = @ + duration]

ServerUpdate(s, duration) ==
  LET now == s.current_time + duration
      live == {a \in DOMAIN s.pending_clients : AsSecs(now) <= s.pending_clients[a].expire_timestamp}
  IN  [s EXCEPT !.current_time = now, !.pending_clients = Restrict(@, live)]

DisconnectClient(s, slot) ==
  LET client == s.clients[slot]
  IN  Replies([s EXCEPT !.clients = Without(@, slot)],
              {Sealed("Disconnect", s.addr, client.addr, client.key, client.sequence)})

\* update_client, for the client in a slot.
UpdateClient(s, slot) ==
  LET client == s.clients[slot]
  IN  IF TimedOut(client, client.last_packet_received_time, s.current_time) THEN DisconnectClient(s, slot)
      ELSE IF client.last_packet_send_time + SendRate <= s.current_time THEN
        Replies([s EXCEPT !.clients[slot].sequence = @ + 1,
                          !.clients[slot].last_packet_send_time = s.current_time],
                {KeepAlive(s.addr, client.addr, client.key, client.sequence, slot)})
      ELSE Replies(s, {})
=============================================================================
