------------------------ MODULE NetcodeClientTransport ------------------------
(***************************************************************************)
(* The client's UDP transport: a NetcodeClient and the RenetClient that is *)
(* driven through it, of which only the connection status is seen here.    *)
(*                                                                         *)
(* peer is the record of both, [netcode, renet].  An update gives the      *)
(* record after the call and the packets it sends.  A payload the          *)
(* RenetClient rejects disconnects it, which may as well happen right      *)
(* after the call: nothing after it in the call looks at the status.       *)
(***************************************************************************)
EXTENDS NetcodeClient, RenetClientStatus

Calls(netcode, status, packets) ==
  [peer |-> [netcode |-> netcode, renet |-> status], out |-> packets]

\* Mutant of Receive: packets of any server are taken.
ReceiveFromAny(netcode, p) == ClientProcessPacket(netcode, p)

\* One packet of the socket; the address filter of the receive loop.
Receive(netcode, p) ==
  IF p.from = ServerAddr(netcode) THEN ClientProcessPacket(netcode, p) ELSE netcode

\* Mutant of TransportUpdate: what the application did to the RenetClient is not looked at.
TransportUpdateOneWay(peer, received, duration, fails) ==
  LET c == peer.netcode
      updated == ClientUpdate(received, duration)
      status == SetStatus(peer.renet, c.state = "Connected")
  IN  IF c.state \in Reasons THEN Calls(c, Ended(peer.renet, "Transport"), {})
      ELSE IF fails THEN Calls(received, status, {})
      ELSE Calls(updated.client, status, updated.out)

(***************************************************************************)
(* The ends of the two layers are passed on first, each to the other, and  *)
(* the status of the RenetClient follows that of the NetcodeClient before  *)
(* any packet is read.  received is the NetcodeClient after the receive    *)
(* loop.  If the socket fails there, the NetcodeClient is not updated: its *)
(* time stands still.                                                      *)
(***************************************************************************)
TransportUpdate(peer, received, duration, fails) ==
  LET c == peer.netcode
      leaving == Disconnect(c)
      updated == ClientUpdate(received, duration)
      status == SetStatus(peer.renet, c.state = "Connected")
  IN  IF c.state \in Reasons THEN Calls(c, Ended(peer.renet, "Transport"), {})
      ELSE IF peer.renet \in RenetReasons THEN Calls(leaving.client, peer.renet, leaving.out)
      ELSE IF fails THEN Calls(received, status, {})
      ELSE Calls(updated.client, status, updated.out)

\* send_packets with a packet of the RenetClient to send: it is lost if the handshake is not over.
SendPackets(peer) ==
  LET sent == GeneratePayload(peer.netcode)
  IN  IF peer.netcode.state = "Connected" /\ peer.renet \notin RenetReasons
      THEN Calls(sent.client, peer.renet, sent.out)
      ELSE Calls(peer.netcode, peer.renet, {})

\* NetcodeClientTransport::disconnect; the RenetClient is told by the next update.
TransportDisconnect(peer) ==
  LET left == Disconnect(peer.netcode)
  IN  IF peer.netcode.state \in Reasons THEN Calls(peer.netcode, peer.renet, {})
      ELSE Calls(left.client, peer.renet, left.out)
=============================================================================
