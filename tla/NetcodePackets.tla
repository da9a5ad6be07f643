--------------------------- MODULE NetcodePackets ---------------------------
(***************************************************************************)
(* What the netcode client and server share: connect tokens, the packets   *)
(* of the protocol, and which packets a receiver can decode.               *)
(*                                                                         *)
(* Encryption is abstract.  The two keys of a connect token are drawn at   *)
(* random for that token, so the token's key stands for both; a packet     *)
(* decrypts exactly under the key it was encrypted with.  The replay       *)
(* window is the set of sequence numbers let through, which is what the    *)
(* ring buffer of module ReplayProtection is proved to compute.  Times are *)
(* counted in ticks, Second of them to a second.                           *)
(***************************************************************************)
EXTENDS ReplayWindow, Sequences, FiniteSets, FiniteSetsExt, Functions

CONSTANTS Second,          \* ticks in a second
          SendRate         \* NETCODE_SEND_RATE in ticks

ASSUME TimeAssumption == Second \in Nat \ {0} /\ SendRate \in Nat

MaxHosts == 32

\* Duration::as_secs
AsSecs(t) == t \div Second

(***************************************************************************)
(* ConnectToken::generate: key is the random part of the token, connect_key*)
(* the private key shared with the servers, hosts the server addresses.    *)
(***************************************************************************)
Generate(key, now, protocol_id, expire_seconds, client_id, timeout_seconds, hosts, connect_key) ==
  [key |-> key, client_id |-> client_id, protocol_id |-> protocol_id,
   create_timestamp |-> AsSecs(now), expire_timestamp |-> AsSecs(now) + expire_seconds,
   timeout_seconds |-> timeout_seconds, hosts |-> hosts, connect_key |-> connect_key]

TimedOut(token, last, now) ==
  token.timeout_seconds > 0 /\ last + token.timeout_seconds * Second < now

(***************************************************************************)
(* The packets.  A challenge token is sealed with the challenge key of the *)
(* server that issued it, under the challenge sequence.                    *)
(***************************************************************************)
ConnectionRequest(from, to, sequence, token) ==
  [type |-> "ConnectionRequest", from |-> from, to |-> to, sequence |-> sequence, token |-> token]
Sealed(type, from, to, key, sequence) ==
  [type |-> type, from |-> from, to |-> to, key |-> key, sequence |-> sequence]
ChallengeToken(server, sequence, token) ==
  [server |-> server, sequence |-> sequence, client_id |-> token.client_id, user_data |-> token.key]
Challenge(from, to, key, sequence, token_sequence, token_data) ==
  [type |-> "Challenge", from |-> from, to |-> to, key |-> key, sequence |-> sequence,
   token_sequence |-> token_sequence, token_data |-> token_data]
Response(from, to, key, sequence, token_sequence, token_data) ==
  [type |-> "Response", from |-> from, to |-> to, key |-> key, sequence |-> sequence,
   token_sequence |-> token_sequence, token_data |-> token_data]
\* max_clients, which a KeepAlive also carries, is for display and left out.
KeepAlive(from, to, key, sequence, client_index) ==
  [type |-> "KeepAlive", from |-> from, to |-> to, key |-> key, sequence |-> sequence,
   client_index |-> client_index]

ApplyReplayProtection(p) == p.type \in {"KeepAlive", "Payload", "Disconnect"}

\* Packet::decode returns Ok, given a key and a replay window.
Decodes(p, key, window) ==
  \/ p.type = "ConnectionRequest"
  \/ /\ p.key = key
     /\ ApplyReplayProtection(p) => ~ WindowRefuses(window, p.sequence)

\* The replay window after a packet was decoded.
Advanced(window, p) == IF ApplyReplayProtection(p) THEN window \cup {p.sequence} ELSE window
=============================================================================
