---------------------------- MODULE NetcodeClient ----------------------------
(***************************************************************************)
(* renetcode's client: its state is a record, each method an operator that *)
(* gives the record after the call and the packet it asks to be sent.      *)
(* A disconnected client's state is the reason it disconnected for.        *)
(***************************************************************************)
EXTENDS NetcodePackets

Connecting == {"SendingConnectionRequest", "SendingConnectionResponse"}
Reasons ==
  {"ConnectTokenExpired", "ConnectionTimedOut", "ConnectionResponseTimedOut",
   "ConnectionRequestTimedOut", "ConnectionDenied", "DisconnectedByClient", "DisconnectedByServer"}

\* last_packet_send_time is None
NotSent == -1

NoChallenge == [server |-> "none", sequence |-> 0, client_id |-> 0, user_data |-> "none"]

NewClient(addr, token, now) ==
  [addr |-> addr, token |-> token, state |-> "SendingConnectionRequest",
   connect_start_time |-> now, last_packet_send_time |-> NotSent,
   last_packet_received_time |-> now, current_time |-> now, sequence |-> 0,
   server_addr_index |-> 0, challenge_token_sequence |-> 0, challenge_token_data |-> NoChallenge,
   client_index |-> 0, replay_protection |-> {}]

\* token.hosts is a sequence, server_addresses an array counted from 0.
ServerAddr(c) == c.token.hosts[c.server_addr_index + 1]

Sends(c, packets) == [client |-> c, out |-> packets]

Disconnect(c) ==
  Sends([c EXCEPT !.state = "DisconnectedByClient"],
        {Sealed("Disconnect", c.addr, ServerAddr(c), c.token.key, c.sequence)})

\* The match on the decoded packet and the state.
Handle(c, p) ==
  LET heard == [c EXCEPT !.last_packet_received_time = c.current_time]
  IN  IF p.type = "ConnectionDenied" /\ c.state \in Connecting THEN
        [heard EXCEPT !.state = "ConnectionDenied"]
      ELSE IF p.type = "Challenge" /\ c.state = "SendingConnectionRequest" THEN
        [heard EXCEPT !.state = "SendingConnectionResponse",
                      !.challenge_token_sequence = p.token_sequence,
                      !.challenge_token_data = p.token_data,
                      !.last_packet_send_time = NotSent]
      ELSE IF p.type = "KeepAlive" /\ c.state = "SendingConnectionResponse" THEN
        [heard EXCEPT !.state = "Connected", !.client_index = p.client_index]
      ELSE IF p.type = "Disconnect" /\ c.state = "Connected" THEN
        [heard EXCEPT !.state = "DisconnectedByServer"]
      ELSE IF p.type \in {"KeepAlive", "Payload"} /\ c.state = "Connected" THEN heard
      ELSE c

\* Mutant of ClientProcessPacket: the packet is read without being authenticated.
ClientProcessUndecoded(c, p) == Handle(c, p)

ClientProcessPacket(c, p) ==
  IF Decodes(p, c.token.key, c.replay_protection)
  THEN Handle([c EXCEPT !.replay_protection = Advanced(@, p)], p)
  ELSE c

GeneratePayload(c) ==
  Sends([c EXCEPT !.sequence = @ + 1, !.last_packet_send_time = c.current_time],
        {Sealed("Payload", c.addr, ServerAddr(c), c.token.key, c.sequence)})

\* Mutant of NextServer: the failed address is tried again.
NextServerSame(c, reason) ==
  [c EXCEPT !.state = "SendingConnectionRequest",
            !.connect_start_time = c.current_time, !.last_packet_send_time = NotSent,
            !.last_packet_received_time = c.current_time, !.challenge_token_sequence = 0]

(***************************************************************************)
(* An attempt timed out: go on with the next address of the token, if any. *)
(* The replay window and the sequence number are kept.                     *)
(***************************************************************************)
NextServer(c, reason) ==
  IF c.server_addr_index + 1 < MaxHosts /\ c.server_addr_index + 1 < Len(c.token.hosts)
  THEN [c EXCEPT !.server_addr_index = @ + 1, !.state = "SendingConnectionRequest",
                 !.connect_start_time = c.current_time, !.last_packet_send_time = NotSent,
                 !.last_packet_received_time = c.current_time, !.challenge_token_sequence = 0]
  ELSE [c EXCEPT !.server_addr_index = @ + 1, !.state = reason]

UpdateInternalState(c, duration) ==
  LET now == c.current_time + duration
      later == [c EXCEPT !.current_time = now]
      timed_out == TimedOut(c.token, c.last_packet_received_time, now)
      expired == AsSecs(now - c.connect_start_time)
                   >= c.token.expire_timestamp - c.token.create_timestamp
  IN  IF c.state \in Connecting /\ expired THEN [later EXCEPT !.state = "ConnectTokenExpired"]
      ELSE IF c.state \in Connecting /\ timed_out THEN
        NextServer(later, IF c.state = "SendingConnectionResponse"
                          THEN "ConnectionResponseTimedOut" ELSE "ConnectionRequestTimedOut")
      ELSE IF c.state = "Connected" /\ timed_out THEN [later EXCEPT !.state = "ConnectionTimedOut"]
      ELSE later

\* The packet of each state; a disconnected client sends nothing.
GeneratePacket(c) ==
  LET to == ServerAddr(c)
      key == c.token.key
      packet == IF c.state = "SendingConnectionRequest" THEN ConnectionRequest(c.addr, to, c.sequence, c.token)
                ELSE IF c.state = "SendingConnectionResponse" THEN
                  Response(c.addr, to, key, c.sequence, c.challenge_token_sequence, c.challenge_token_data)
                ELSE KeepAlive(c.addr, to, key, c.sequence, 0)
  IN  IF \/ c.state \in Reasons
         \/ /\ c.last_packet_send_time # NotSent
            /\ c.current_time - c.last_packet_send_time < SendRate
      THEN Sends(c, {})
      ELSE Sends([c EXCEPT !.sequence = @ + 1, !.last_packet_send_time = c.current_time], {packet})

ClientUpdate(c, duration) == GeneratePacket(UpdateInternalState(c, duration))
=============================================================================
