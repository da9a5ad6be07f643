------------------------ MODULE RenetConnectionSteps ------------------------
(***************************************************************************)
(* The invariant of the connection of RenetConnection, and its steps but   *)
(* get_packets_to_send: each preserves it, for every number and size of    *)
(* messages, every memory limit, every clock and every number of packets.  *)
(*                                                                         *)
(* The argument: a packet number stands for one packet (Numbered), a       *)
(* packet carries pieces of messages that were sent (PacketOK), and a      *)
(* number is acknowledged only when the pieces in its packet are held by   *)
(* the endpoint that acknowledges it (AcksOK).  Hence what the sender      *)
(* gives up (sent_packets, SentOK) is never missing at its peer.           *)
(***************************************************************************)
EXTENDS RenetConnection, ConnectionLemmas

Deliveries == [id : Nat, message : Messages]

Types ==
  /\ disconnected \in [Endpoints -> BOOLEAN]
  /\ current_time \in [Endpoints -> Nat]
  /\ packet_sequence \in [Endpoints -> Nat]
  /\ pending_acks \in [Endpoints -> Seq(Ranges)]
  /\ sent \in [Endpoints -> Seq(Messages)]
  /\ delivered \in [Endpoints -> Seq(Deliveries)]
  /\ DOMAIN sent_packets = Endpoints /\ DOMAIN send = Endpoints /\ DOMAIN receive = Endpoints

ChannelsOK ==
  \A e \in Endpoints : /\ SendOK(send[e], sent[e])
                       /\ ReceiveOK(receive[e], sent[Peer(e)], DeliveredIds(e))

\* Part x of a packet of endpoint e is a piece of a message e was handed.
PartOK(e, x) ==
  /\ x = <<x[1], x[2], x[3]>>
  /\ x[1] \in 0 .. Len(sent[e]) - 1 /\ x[2] = sent[e][x[1] + 1] /\ x[3] \in Indices(x[2])

PacketOK(p) ==
  /\ p.from \in Endpoints /\ p.seq \in Nat /\ p.seq < packet_sequence[p.from]
  /\ \A x \in p.parts : PartOK(p.from, x)
  /\ p.sliced => \A x, y \in p.parts : x = y
  /\ p.acks \in Seq(Ranges) /\ Separated(p.acks)
  /\ p.acks # <<>> => p.parts = {}

Numbered ==
  /\ \A p \in packets : PacketOK(p)
  /\ \A p, q \in packets : p.from = q.from /\ p.seq = q.seq => p = q

\* sent_packets tells what is in the packets of endpoint e.
SentOK ==
  \A e \in Endpoints : \A n \in DOMAIN sent_packets[e] :
    /\ \E p \in packets : /\ p.from = e /\ p.seq = n
                          /\ sent_packets[e][n].parts = {<<x[1], x[3]>> : x \in p.parts}
    /\ \/ sent_packets[e][n].largest = NoAck
       \/ /\ sent_packets[e][n].largest \in Nat
          /\ sent_packets[e][n].largest < packet_sequence[Peer(e)]

\* Endpoint e has what is in the packets of its peer that acks acknowledges.
AckedIsHeld(e, acks) ==
  \A q \in packets : q.from = Peer(e) /\ q.seq \in Covered(acks) =>
    \A x \in q.parts : Holds(e, x[1], x[3])

AcksOK ==
  /\ \A e \in Endpoints :
       /\ Separated(pending_acks[e])
       /\ \A n \in Covered(pending_acks[e]) : n < packet_sequence[Peer(e)]
       /\ ~ disconnected[e] => AckedIsHeld(e, pending_acks[e])
  /\ \A p \in packets :
       /\ \A n \in Covered(p.acks) : n < packet_sequence[Peer(p.from)]
       /\ AckedIsHeld(p.from, p.acks)

IInv == Types /\ ChannelsOK /\ Numbered /\ SentOK /\ AcksOK /\ NothingAckedIsMissing

-----------------------------------------------------------------------------
(***************************************************************************)
(* What every step does: it forgets no packet and no sent message, numbers *)
(* new packets after the old ones, and takes nothing from an endpoint that *)
(* it holds.                                                               *)
(***************************************************************************)
Grows ==
  /\ packets \subseteq packets'
  /\ \A q \in packets' \ packets : q.seq >= packet_sequence[q.from]
  /\ \A e \in Endpoints :
       /\ packet_sequence[e] <= packet_sequence'[e]
       /\ Len(sent[e]) <= Len(sent'[e])
       /\ \A k \in 1 .. Len(sent[e]) : sent'[e][k] = sent[e][k]
       /\ \A id \in 0 .. Len(sent[Peer(e)]) - 1 : \A i : Holds(e, id, i) => Holds(e, id, i)'

LEMMA PeerFacts ==
  ASSUME NEW e \in Endpoints
  PROVE  Peer(e) \in Endpoints /\ Peer(Peer(e)) = e /\ Peer(e) # e
BY DEF Peer, Endpoints

LEMMA CountFacts ==
  ASSUME IInv
  PROVE  \A f \in Endpoints :
           packet_sequence[f] \in Nat /\ sent[f] \in Seq(Messages) /\ Len(sent[f]) \in Nat
<1> TAKE f \in Endpoints
<1>1. packet_sequence[f] \in Nat /\ sent[f] \in Seq(Messages)
  BY DEF IInv, Types
<1> QED BY <1>1

LEMMA NothingSent ==
  ASSUME IInv, UNCHANGED <<packet_sequence, packets, sent>>,
         \A f \in Endpoints : \A j, k : Holds(f, j, k) => Holds(f, j, k)'
  PROVE  Grows
<1>1. \A f \in Endpoints : /\ packet_sequence[f] <= packet_sequence'[f]
                           /\ Len(sent[f]) <= Len(sent'[f])
  BY CountFacts
<1> QED BY <1>1, Zenon DEF Grows

LEMMA PartStays ==
  ASSUME Types, Types', Grows, NEW e \in Endpoints, NEW x, PartOK(e, x)
  PROVE  PartOK(e, x)'
<1>1. /\ Len(sent[e]) \in Nat /\ Len(sent'[e]) \in Nat /\ Len(sent[e]) <= Len(sent'[e])
      /\ \A k \in 1 .. Len(sent[e]) : sent'[e][k] = sent[e][k]
  BY DEF Types, Grows
<1>2. /\ x = <<x[1], x[2], x[3]>> /\ x[1] \in 0 .. Len(sent[e]) - 1
      /\ x[2] = sent[e][x[1] + 1] /\ x[3] \in Indices(x[2])
  BY DEF PartOK
<1>3. x[1] + 1 \in 1 .. Len(sent[e]) /\ x[1] \in 0 .. Len(sent'[e]) - 1
  <2>1. \A a, b \in Nat : a <= b => \A i \in 0 .. a - 1 : i + 1 \in 1 .. a /\ i \in 0 .. b - 1
    OBVIOUS
  <2> QED BY <1>1, <1>2, <2>1, Zenon
<1>4. x[2] = sent'[e][x[1] + 1]
  BY <1>1, <1>2, <1>3
<1> QED BY <1>2, <1>3, <1>4 DEF PartOK

LEMMA PacketStays ==
  ASSUME IInv, Types', Grows, NEW p \in packets
  PROVE  PacketOK(p)'
<1>1. PacketOK(p) /\ Types
  BY DEF IInv, Numbered
<1>2. p.from \in Endpoints
  BY <1>1 DEF PacketOK
<1>3. p.seq < packet_sequence'[p.from]
  <2>1. packet_sequence[p.from] \in Nat /\ packet_sequence'[p.from] \in Nat
    BY <1>1, <1>2 DEF Types
  <2> QED BY <1>1, <1>2, <2>1 DEF PacketOK, Grows
<1>4. \A x \in p.parts : PartOK(p.from, x)'
  <2> SUFFICES ASSUME NEW x \in p.parts PROVE PartOK(p.from, x)'
    OBVIOUS
  <2>1. PartOK(p.from, x)
    BY <1>1 DEF PacketOK
  <2> QED BY <1>1, <1>2, <2>1, PartStays
<1> QED BY <1>1, <1>3, <1>4 DEF PacketOK

LEMMA NumberedStays ==
  ASSUME IInv, Types', Grows, packets' = packets
  PROVE  Numbered'
<1>1. \A p \in packets' : PacketOK(p)'
  BY PacketStays
<1> QED BY <1>1 DEF Numbered, IInv

LEMMA HeldStays ==
  ASSUME IInv, Grows, NEW e \in Endpoints, NEW acks \in Seq(Ranges),
         \A n \in Covered(acks) : n < packet_sequence[Peer(e)],
         AckedIsHeld(e, acks)
  PROVE  AckedIsHeld(e, acks)'
<1> SUFFICES ASSUME NEW q \in packets', q.from = Peer(e), q.seq \in Covered(acks), NEW x \in q.parts
             PROVE  Holds(e, x[1], x[3])'
  BY DEF AckedIsHeld
<1>1. Peer(e) \in Endpoints /\ packet_sequence[Peer(e)] \in Nat /\ q.seq \in Nat
  BY PeerFacts, CoveredMember DEF IInv, Types
<1>2. q \in packets
  BY <1>1 DEF Grows
<1>3. Holds(e, x[1], x[3])
  BY <1>2 DEF AckedIsHeld
<1>4. x[1] \in 0 .. Len(sent[Peer(e)]) - 1
  BY <1>2 DEF IInv, Numbered, PacketOK, PartOK
<1> QED BY <1>3, <1>4 DEF Grows

\* What the Ack packets on their way acknowledge.
LEMMA AckPacketStays ==
  ASSUME IInv, Types', Grows, NEW p \in packets
  PROVE  /\ \A n \in Covered(p.acks) : n < packet_sequence'[Peer(p.from)]
         /\ AckedIsHeld(p.from, p.acks)'
<1>1. p.from \in Endpoints /\ p.acks \in Seq(Ranges)
  BY DEF IInv, Numbered, PacketOK
<1>2. /\ \A n \in Covered(p.acks) : n < packet_sequence[Peer(p.from)]
      /\ AckedIsHeld(p.from, p.acks)
  BY DEF IInv, AcksOK
<1>3. AckedIsHeld(p.from, p.acks)'
  BY <1>1, <1>2, HeldStays
<1>4. \A n \in Covered(p.acks) : n < packet_sequence'[Peer(p.from)]
  <2>1. \A n \in Covered(p.acks) : n \in Nat
    BY <1>1, CoveredMember
  <2>2. /\ packet_sequence[Peer(p.from)] \in Nat /\ packet_sequence'[Peer(p.from)] \in Nat
        /\ packet_sequence[Peer(p.from)] <= packet_sequence'[Peer(p.from)]
    BY <1>1, PeerFacts DEF IInv, Types, Grows
  <2> QED BY <1>2, <2>1, <2>2
<1> QED BY <1>3, <1>4

PendingOK(e) ==
  /\ Separated(pending_acks[e])
  /\ \A n \in Covered(pending_acks[e]) : n < packet_sequence[Peer(e)]
  /\ ~ disconnected[e] => AckedIsHeld(e, pending_acks[e])

LEMMA PendingStays ==
  ASSUME IInv, Types', Grows, NEW e \in Endpoints, pending_acks'[e] = pending_acks[e],
         ~ disconnected'[e] => ~ disconnected[e]
  PROVE  PendingOK(e)'
<1>1. PendingOK(e) /\ pending_acks[e] \in Seq(Ranges)
  BY DEF IInv, Types, AcksOK, PendingOK
<1>2. PICK acks \in Seq(Ranges) : acks = pending_acks[e]
  BY <1>1
<1>3. /\ Separated(acks) /\ \A n \in Covered(acks) : n < packet_sequence[Peer(e)]
      /\ ~ disconnected[e] => AckedIsHeld(e, acks)
  BY <1>1, <1>2 DEF PendingOK, AckedIsHeld
<1>4. ~ disconnected'[e] => AckedIsHeld(e, acks)'
  BY <1>3, HeldStays
<1>5. ~ disconnected'[e] => AckedIsHeld(e, pending_acks[e])'
  BY <1>2, <1>4 DEF AckedIsHeld
<1>6. \A n \in Covered(acks) : n < packet_sequence'[Peer(e)]
  <2>1. \A n \in Covered(acks) : n \in Nat
    BY CoveredMember
  <2>2. /\ packet_sequence[Peer(e)] \in Nat /\ packet_sequence'[Peer(e)] \in Nat
        /\ packet_sequence[Peer(e)] <= packet_sequence'[Peer(e)]
    BY PeerFacts DEF IInv, Types, Grows
  <2> QED BY <1>3, <2>1, <2>2
<1> QED BY <1>2, <1>3, <1>5, <1>6 DEF PendingOK

LEMMA SentStays ==
  ASSUME IInv, Types', Grows, NEW e \in Endpoints, NEW n \in DOMAIN sent_packets[e]
  PROVE  /\ \E p \in packets' : /\ p.from = e /\ p.seq = n
                                /\ sent_packets[e][n].parts = {<<x[1], x[3]>> : x \in p.parts}
         /\ \/ sent_packets[e][n].largest = NoAck
            \/ /\ sent_packets[e][n].largest \in Nat
               /\ sent_packets[e][n].largest < packet_sequence'[Peer(e)]
<1>1. /\ packet_sequence[Peer(e)] \in Nat /\ packet_sequence'[Peer(e)] \in Nat
      /\ packet_sequence[Peer(e)] <= packet_sequence'[Peer(e)]
  BY PeerFacts DEF IInv, Types, Grows
<1>2. PICK p \in packets : /\ p.from = e /\ p.seq = n
                           /\ sent_packets[e][n].parts = {<<x[1], x[3]>> : x \in p.parts}
  BY DEF IInv, SentOK
<1>3. p \in packets'
  BY DEF Grows
<1>4. \/ sent_packets[e][n].largest = NoAck
      \/ /\ sent_packets[e][n].largest \in Nat
         /\ sent_packets[e][n].largest < packet_sequence[Peer(e)]
  BY DEF IInv, SentOK
<1> QED BY <1>1, <1>2, <1>3, <1>4, SMTT(20)

LEMMA SentShrinks ==
  ASSUME IInv, Types', Grows,
         \A e \in Endpoints : /\ DOMAIN sent_packets'[e] \subseteq DOMAIN sent_packets[e]
                              /\ \A n \in DOMAIN sent_packets'[e] :
                                   sent_packets'[e][n] = sent_packets[e][n]
  PROVE  SentOK'
<1> SUFFICES ASSUME NEW e \in Endpoints, NEW n \in DOMAIN sent_packets'[e]
             PROVE  /\ \E p \in packets' :
                         /\ p.from = e /\ p.seq = n
                         /\ sent_packets'[e][n].parts = {<<x[1], x[3]>> : x \in p.parts}
                    /\ \/ sent_packets'[e][n].largest = NoAck
                       \/ /\ sent_packets'[e][n].largest \in Nat
                          /\ sent_packets'[e][n].largest < packet_sequence'[Peer(e)]
  BY DEF SentOK
<1>1. n \in DOMAIN sent_packets[e] /\ sent_packets'[e][n] = sent_packets[e][n]
  OBVIOUS
<1> QED BY <1>1, SentStays

LEMMA NothingGetsLost ==
  ASSUME IInv, Types', Grows,
         \A e \in Endpoints : \A id \in 0 .. Len(sent'[e]) - 1 : \A i \in Indices(sent'[e][id + 1]) :
           Gone(send'[e], id, i) =>
             id \in 0 .. Len(sent[e]) - 1 /\ (Gone(send[e], id, i) \/ Holds(Peer(e), id, i))
  PROVE  NothingAckedIsMissing'
<1> SUFFICES ASSUME NEW e \in Endpoints, NEW id \in 0 .. Len(sent'[e]) - 1,
                    NEW i \in Indices(sent'[e][id + 1]), Gone(send'[e], id, i)
             PROVE  Holds(Peer(e), id, i)'
  BY DEF NothingAckedIsMissing, Gone
<1>1. id \in 0 .. Len(sent[e]) - 1 /\ (Gone(send[e], id, i) \/ Holds(Peer(e), id, i))
  OBVIOUS
<1>2. sent'[e][id + 1] = sent[e][id + 1]
  <2>1. Len(sent[e]) \in Nat
    BY DEF IInv, Types
  <2>2. id + 1 \in 1 .. Len(sent[e])
    BY <1>1, <2>1
  <2> QED BY <2>2, SMTT(20) DEF Grows
<1>3. Holds(Peer(e), id, i)
  BY <1>1, <1>2 DEF IInv, NothingAckedIsMissing, Gone
<1> QED BY <1>1, <1>3, PeerFacts, SMTT(20) DEF Grows

-----------------------------------------------------------------------------
\* The parts of the invariant together, as the steps below establish them.
LEMMA StepOK ==
  ASSUME IInv, Types', Grows, ChannelsOK', Numbered', SentOK', NothingAckedIsMissing',
         \A e \in Endpoints : PendingOK(e)',
         \A p \in packets' \ packets : /\ \A n \in Covered(p.acks) : n < packet_sequence'[Peer(p.from)]
                                       /\ AckedIsHeld(p.from, p.acks)'
  PROVE  IInv'
<1>1. \A p \in packets' : /\ \A n \in Covered(p.acks) : n < packet_sequence'[Peer(p.from)]
                          /\ AckedIsHeld(p.from, p.acks)'
  BY AckPacketStays
<1>2. AcksOK'
  BY <1>1 DEF AcksOK, PendingOK
<1> QED BY <1>2 DEF IInv

\* Steps that touch only the clock, the connection's status and the old entries of sent_packets.
LEMMA QuietStep ==
  ASSUME IInv, Types',
         UNCHANGED <<packet_sequence, pending_acks, send, receive, packets, sent, delivered>>,
         \A e \in Endpoints : /\ disconnected[e] => disconnected'[e]
                              /\ DOMAIN sent_packets'[e] \subseteq DOMAIN sent_packets[e]
                              /\ \A n \in DOMAIN sent_packets'[e] :
                                   sent_packets'[e][n] = sent_packets[e][n]
  PROVE  IInv'
<1>1. \A e, id, i : Holds(e, id, i)' <=> Holds(e, id, i)
  BY DEF Holds, DeliveredIds
<1>2. Grows
  BY <1>1, NothingSent, Zenon
<1>3. ChannelsOK'
  BY Zenon DEF IInv, ChannelsOK, DeliveredIds
<1>4. Numbered'
  BY <1>2, NumberedStays
<1>5. SentOK'
  BY <1>2, SentShrinks
<1>6. NothingAckedIsMissing'
  BY <1>1 DEF IInv, NothingAckedIsMissing
<1>7. \A e \in Endpoints : PendingOK(e)'
  <2> SUFFICES ASSUME NEW e \in Endpoints PROVE PendingOK(e)'
    OBVIOUS
  <2> QED BY <1>2, PendingStays
<1>8. packets' \ packets = {}
  OBVIOUS
<1> QED BY <1>2, <1>3, <1>4, <1>5, <1>6, <1>7, <1>8, StepOK

LEMMA DisconnectOK ==
  ASSUME IInv, NEW e \in Endpoints, disconnected' = [disconnected EXCEPT ![e] = TRUE],
         UNCHANGED <<current_time, packet_sequence, sent_packets, pending_acks, send, receive,
                     packets, sent, delivered>>
  PROVE  IInv'
<1>1. Types'
  BY DEF IInv, Types
<1>2. \A f \in Endpoints : disconnected[f] => disconnected'[f]
  BY DEF IInv, Types
<1> QED BY <1>1, <1>2, QuietStep

LEMMA UpdateOK ==
  ASSUME IInv, NEW e \in Endpoints, Update(e)
  PROVE  IInv'
<1> DEFINE now == current_time[e] + 1
<1>1. /\ current_time' = [current_time EXCEPT ![e] = now]
      /\ sent_packets' = [sent_packets EXCEPT
           ![e] = [n \in DOMAIN @ \ Lost(e, now) |-> @[n]]]
      /\ UNCHANGED <<disconnected, packet_sequence, pending_acks, send, receive, packets,
                     sent, delivered>>
  BY DEF Update
<1>2. Types'
  BY <1>1 DEF IInv, Types
<1>3. DOMAIN sent_packets = Endpoints
  BY DEF IInv, Types
<1>4. \A f \in Endpoints : /\ DOMAIN sent_packets'[f] \subseteq DOMAIN sent_packets[f]
                           /\ \A n \in DOMAIN sent_packets'[f] :
                                sent_packets'[f][n] = sent_packets[f][n]
  BY <1>1, <1>3
<1> QED BY <1>1, <1>2, <1>4, QuietStep, SMTT(20)

\* A message is entered: the peer holds what it held, and nothing of the message is given up.
LEMMA SendStep ==
  ASSUME IInv, NEW e \in Endpoints, NEW m \in Messages,
         send' = [send EXCEPT ![e] = SendMessage(@, m)],
         sent' = [sent EXCEPT ![e] = Append(@, m)],
         UNCHANGED <<disconnected, current_time, packet_sequence, sent_packets, pending_acks,
                     receive, packets, delivered>>
  PROVE  IInv'
<1>1. /\ sent'[e] = Append(sent[e], m) /\ send'[e] = SendMessage(send[e], m)
      /\ \A f \in Endpoints \ {e} : sent'[f] = sent[f] /\ send'[f] = send[f]
      /\ \A f \in Endpoints : sent[f] \in Seq(Messages) /\ Len(sent[f]) \in Nat
                              /\ packet_sequence[f] \in Nat
      /\ receive' = receive /\ \A f : DeliveredIds(f)' = DeliveredIds(f)
  BY DEF IInv, Types, DeliveredIds
<1>2. /\ Append(sent[e], m) \in Seq(Messages) /\ Len(Append(sent[e], m)) = Len(sent[e]) + 1
      /\ \A k \in 1 .. Len(sent[e]) : Append(sent[e], m)[k] = sent[e][k]
  BY <1>1
<1>3. Types'
  BY <1>1, <1>2 DEF IInv, Types
<1>4. \A f \in Endpoints : SendOK(send[f], sent[f])
                           /\ ReceiveOK(receive[f], sent[Peer(f)], DeliveredIds(f))
  BY DEF IInv, ChannelsOK
<1>5. /\ SendOK(send'[e], sent'[e])
      /\ \A id \in 0 .. Len(sent[e]) - 1 : \A i : Gone(send'[e], id, i) => Gone(send[e], id, i)
      /\ \A i : ~ Gone(send'[e], Len(sent[e]), i)
  BY <1>1, <1>4, SendMessageOK, SMTT(20)
<1>6. ASSUME NEW f \in Endpoints
      PROVE  /\ ReceiveOK(receive[f], sent'[Peer(f)], DeliveredIds(f))
             /\ \A id \in 0 .. Len(sent[Peer(f)]) - 1 : \A i : Holds(f, id, i) => Holds(f, id, i)'
  <2>0. Peer(f) \in Endpoints
    BY PeerFacts
  <2>1. CASE Peer(f) = e
    <3>1. /\ ReceiveOK(receive[f], sent'[Peer(f)], DeliveredIds(f))
          /\ \A id \in 0 .. Len(sent[Peer(f)]) - 1 : \A i :
               HasPiece(receive[f], sent[Peer(f)], DeliveredIds(f), id, i) =>
               HasPiece(receive[f], sent'[Peer(f)], DeliveredIds(f), id, i)
      <4>1. sent[Peer(f)] \in Seq(Messages) /\ sent'[Peer(f)] = Append(sent[Peer(f)], m)
        BY <1>1, <2>1, Zenon
      <4>2. ReceiveOK(receive[f], sent[Peer(f)], DeliveredIds(f))
        BY <1>4, Zenon
      <4> QED BY <4>1, <4>2, GrowOK, Zenon
    <3> QED BY <1>1, <3>1, Zenon DEF Holds, HasPiece
  <2>2. CASE Peer(f) # e
    BY <1>1, <1>4, <2>0, <2>2, Zenon DEF Holds
  <2> QED BY <2>1, <2>2
<1>7. Grows
  <2>1. \A f \in Endpoints : /\ Len(sent[f]) <= Len(sent'[f])
                             /\ \A k \in 1 .. Len(sent[f]) : sent'[f][k] = sent[f][k]
    BY <1>1, <1>2
  <2> QED BY <1>1, <1>6, <2>1, SMTT(20) DEF Grows
<1>8. ChannelsOK'
  <2>1. \A f \in Endpoints : SendOK(send'[f], sent'[f])
    BY <1>1, <1>4, <1>5, Zenon
  <2> QED BY <1>1, <1>6, <2>1, Zenon DEF ChannelsOK
<1>9. Numbered' /\ SentOK'
  BY <1>3, <1>7, NumberedStays, SentShrinks
<1>10. NothingAckedIsMissing'
  <2>1. ASSUME NEW f \in Endpoints, NEW id \in 0 .. Len(sent'[f]) - 1, NEW i, Gone(send'[f], id, i)
        PROVE  id \in 0 .. Len(sent[f]) - 1 /\ Gone(send[f], id, i)
    <3>1. CASE f = e
      <4>1. id # Len(sent[e])
        BY <1>5, <2>1, <3>1
      <4>2. id \in 0 .. Len(sent[e]) - 1
        BY <1>1, <1>2, <3>1, <4>1
      <4> QED BY <1>5, <2>1, <3>1, <4>2
    <3>2. CASE f # e
      BY <1>1, <2>1, <3>2
    <3> QED BY <3>1, <3>2
  <2> QED BY <1>3, <1>7, <2>1, NothingGetsLost, SMTT(20)
<1>11. \A f \in Endpoints : PendingOK(f)'
  <2> SUFFICES ASSUME NEW f \in Endpoints PROVE PendingOK(f)'
    OBVIOUS
  <2> QED BY <1>3, <1>7, PendingStays
<1>12. packets' \ packets = {}
  OBVIOUS
<1> QED BY <1>3, <1>7, <1>8, <1>9, <1>10, <1>11, <1>12, StepOK

LEMMA AppSendOK ==
  ASSUME IInv, NEW e \in Endpoints, NEW m \in Messages, AppSend(e, m)
  PROVE  IInv'
<1>1. CASE CanSendMessage(send[e], m)
  BY <1>1, SendStep DEF AppSend
<1>2. CASE ~ CanSendMessage(send[e], m)
  BY <1>2, DisconnectOK DEF AppSend
<1> QED BY <1>1, <1>2

\* What receive_message gives, and what it leaves of both histories.
LEMMA ReceiveFacts ==
  ASSUME IInv, NEW e \in Endpoints, NEW id \in Ready(receive[e]),
         receive' = [receive EXCEPT ![e] = ReceiveMessage(@, id)],
         delivered' = [delivered EXCEPT
            ![e] = Append(@, [id |-> id, message |-> receive[e].messages[id]])]
  PROVE  /\ receive'[e] = ReceiveMessage(receive[e], id)
         /\ \A f \in Endpoints \ {e} : receive'[f] = receive[f] /\ delivered'[f] = delivered[f]
         /\ DOMAIN receive' = Endpoints
         /\ id \in 0 .. Len(sent[Peer(e)]) - 1 /\ id \notin DeliveredIds(e)
         /\ receive[e].messages[id] = sent[Peer(e)][id + 1]
         /\ receive[e].ordered => \A j \in Nat : j < id => j \in DeliveredIds(e)
         /\ receive'[e].ordered = receive[e].ordered
         /\ ReceiveOK(receive'[e], sent[Peer(e)], DeliveredIds(e) \cup {id})
         /\ \A j, k : HasPiece(receive[e], sent[Peer(e)], DeliveredIds(e), j, k) =>
                      HasPiece(receive'[e], sent[Peer(e)], DeliveredIds(e) \cup {id}, j, k)
         /\ delivered'[e] \in Seq(Deliveries)
         /\ DeliveredIds(e)' = DeliveredIds(e) \cup {id}
<1>1. /\ DOMAIN receive = Endpoints /\ sent[Peer(e)] \in Seq(Messages)
      /\ delivered \in [Endpoints -> Seq(Deliveries)] /\ delivered[e] \in Seq(Deliveries)
  BY PeerFacts, Zenon DEF IInv, Types
<1>2. ReceiveOK(receive[e], sent[Peer(e)], DeliveredIds(e))
  BY Zenon DEF IInv, ChannelsOK
<1>3. /\ receive'[e] = ReceiveMessage(receive[e], id) /\ DOMAIN receive' = Endpoints
      /\ \A f \in Endpoints \ {e} : receive'[f] = receive[f] /\ delivered'[f] = delivered[f]
  BY <1>1
<1>4. /\ id \in 0 .. Len(sent[Peer(e)]) - 1 /\ id \notin DeliveredIds(e)
      /\ receive[e].messages[id] = sent[Peer(e)][id + 1]
      /\ receive[e].ordered => \A j \in Nat : j < id => j \in DeliveredIds(e)
      /\ receive'[e].ordered = receive[e].ordered
      /\ ReceiveOK(receive'[e], sent[Peer(e)], DeliveredIds(e) \cup {id})
      /\ \A j, k : HasPiece(receive[e], sent[Peer(e)], DeliveredIds(e), j, k) =>
                   HasPiece(receive'[e], sent[Peer(e)], DeliveredIds(e) \cup {id}, j, k)
  <2> DEFINE ch == receive[e]
             new == ReceiveMessage(ch, id)
             M == sent[Peer(e)]
             D == DeliveredIds(e)
  <2>1. /\ id \in 0 .. Len(M) - 1 /\ id \notin D /\ ch.messages[id] = M[id + 1]
        /\ ch.ordered => \A j \in Nat : j < id => j \in D
        /\ new.ordered = ch.ordered /\ ReceiveOK(new, M, D \cup {id})
        /\ \A j, k : HasPiece(ch, M, D, j, k) => HasPiece(new, M, D \cup {id}, j, k)
    <3>1. M \in Seq(Messages) /\ ReceiveOK(ch, M, D) /\ id \in Ready(ch)
      BY <1>1, <1>2, SMTT(20)
    <3> HIDE DEF ch, M, D
    <3>2. /\ id \in 0 .. Len(M) - 1 /\ id \notin D /\ ch.messages[id] = M[id + 1]
          /\ ch.ordered => \A j \in Nat : j < id => j \in D
      BY <3>1, ReadyFacts
    <3>3. new.ordered = ch.ordered
      BY <3>1, ReceiveMessageOK, Zenon
    <3>4. ReceiveOK(new, M, D \cup {id})
      BY <3>1, ReceiveMessageOK, Zenon
    <3>5. \A j, k : HasPiece(ch, M, D, j, k) => HasPiece(new, M, D \cup {id}, j, k)
      BY <3>1, ReceiveMessageOK, Zenon
    <3> QED BY <3>2, <3>3, <3>4, <3>5, Zenon
  <2>2. receive'[e] = new
    BY <1>3, SMTT(20)
  <2> HIDE DEF ch, new, M, D
  <2> QED BY <2>1, <2>2, Zenon DEF ch, M, D
<1> DEFINE d == [id |-> id, message |-> receive[e].messages[id]]
<1>5. d \in Deliveries
  <2>1. Len(sent[Peer(e)]) \in Nat
    BY <1>1, SMTT(20)
  <2>2. id + 1 \in 1 .. Len(sent[Peer(e)])
    BY <1>4, <2>1, SMTT(20)
  <2>3. sent[Peer(e)][id + 1] \in Messages
    BY <1>1, <2>2
  <2> QED BY <1>4, <2>1, <2>3 DEF Deliveries
<1>6. delivered'[e] = Append(delivered[e], d) /\ d.id = id
  BY <1>1
<1> HIDE DEF d
<1>7. /\ delivered'[e] \in Seq(Deliveries) /\ Len(delivered[e]) \in Nat
      /\ DOMAIN delivered[e] = 1 .. Len(delivered[e])
      /\ DOMAIN delivered'[e] = 1 .. Len(delivered[e]) + 1
      /\ \A k \in 1 .. Len(delivered[e]) : delivered'[e][k] = delivered[e][k]
      /\ delivered'[e][Len(delivered[e]) + 1] = d
  BY <1>1, <1>5, <1>6, SMTT(20)
<1>8. DeliveredIds(e)' = DeliveredIds(e) \cup {id}
  <2>1. DeliveredIds(e)' = {delivered'[e][k].id : k \in DOMAIN delivered'[e]}
    BY Zenon DEF DeliveredIds
  <2>2. DOMAIN delivered'[e] = DOMAIN delivered[e] \cup {Len(delivered[e]) + 1}
    BY <1>7
  <2>3. /\ \A k \in DOMAIN delivered[e] : delivered'[e][k].id = delivered[e][k].id
        /\ delivered'[e][Len(delivered[e]) + 1].id = id
    BY <1>6, <1>7, Zenon
  <2> QED BY <2>1, <2>2, <2>3, SMTT(20) DEF DeliveredIds
<1> QED BY <1>3, <1>4, <1>7, <1>8, Zenon

LEMMA AppReceiveOK ==
  ASSUME IInv, NEW e \in Endpoints, AppReceive(e)
  PROVE  IInv'
<1>1. PICK id \in Ready(receive[e]) :
        /\ receive' = [receive EXCEPT ![e] = ReceiveMessage(@, id)]
        /\ delivered' = [delivered EXCEPT
             ![e] = Append(@, [id |-> id, message |-> receive[e].messages[id]])]
  BY Zenon DEF AppReceive
<1>2. UNCHANGED <<disconnected, current_time, packet_sequence, sent_packets, pending_acks,
                  send, packets, sent>>
  BY DEF AppReceive
<1>3. /\ \A f \in Endpoints \ {e} : receive'[f] = receive[f] /\ delivered'[f] = delivered[f]
      /\ DOMAIN receive' = Endpoints /\ delivered'[e] \in Seq(Deliveries)
      /\ ReceiveOK(receive'[e], sent[Peer(e)], DeliveredIds(e) \cup {id})
      /\ \A j, k : HasPiece(receive[e], sent[Peer(e)], DeliveredIds(e), j, k) =>
                   HasPiece(receive'[e], sent[Peer(e)], DeliveredIds(e) \cup {id}, j, k)
      /\ DeliveredIds(e)' = DeliveredIds(e) \cup {id}
  BY <1>1, ReceiveFacts, Zenon
<1>4. Types'
  <2>1. delivered \in [Endpoints -> Seq(Deliveries)]
    BY Zenon DEF IInv, Types
  <2>2. delivered' \in [Endpoints -> Seq(Deliveries)]
    BY <1>1, <1>3, <2>1
  <2> QED BY <1>2, <1>3, <2>2, Zenon DEF IInv, Types
<1>5. \A f \in Endpoints \ {e} : DeliveredIds(f)' = DeliveredIds(f)
  <2> TAKE f \in Endpoints \ {e}
  <2>1. delivered'[f] = delivered[f]
    BY <1>3, Zenon
  <2> QED BY <2>1, Zenon DEF DeliveredIds
<1>6. \A f \in Endpoints : \A j, k : Holds(f, j, k) => Holds(f, j, k)'
  <2> SUFFICES ASSUME NEW f \in Endpoints, NEW j, NEW k, Holds(f, j, k)
               PROVE  Holds(f, j, k)'
    OBVIOUS
  <2>1. CASE f = e
    BY <1>2, <1>3, <2>1, Zenon DEF Holds, HasPiece
  <2>2. CASE f # e
    BY <1>2, <1>3, <1>5, <2>2, Zenon DEF Holds
  <2> QED BY <2>1, <2>2
<1>7. Grows
  BY <1>2, <1>6, NothingSent, Zenon
<1>8. ChannelsOK'
  <2> SUFFICES ASSUME NEW f \in Endpoints
               PROVE  /\ SendOK(send'[f], sent'[f])
                      /\ ReceiveOK(receive'[f], sent'[Peer(f)], DeliveredIds(f)')
    BY Zenon DEF ChannelsOK
  <2>1. SendOK(send[f], sent[f]) /\ ReceiveOK(receive[f], sent[Peer(f)], DeliveredIds(f))
    BY DEF IInv, ChannelsOK
  <2> QED BY <1>2, <1>3, <1>5, <2>1, Zenon
<1>9. Numbered' /\ SentOK'
  BY <1>2, <1>4, <1>7, NumberedStays, SentShrinks
<1>10. NothingAckedIsMissing'
  BY <1>2, <1>4, <1>7, NothingGetsLost
<1>11. \A f \in Endpoints : PendingOK(f)'
  <2> SUFFICES ASSUME NEW f \in Endpoints PROVE PendingOK(f)'
    OBVIOUS
  <2> QED BY <1>2, <1>4, <1>7, PendingStays
<1>12. packets' \ packets = {}
  BY <1>2
<1> QED BY <1>4, <1>7, <1>8, <1>9, <1>10, <1>11, <1>12, StepOK

-----------------------------------------------------------------------------
\* add_pending_ack enters the packet and nothing else.
LEMMA EnteredFacts ==
  ASSUME NEW acks \in Seq(Ranges), Separated(acks), NEW s \in Nat
  PROVE  /\ AddPendingAck(acks, s) \in Seq(Ranges) /\ Separated(AddPendingAck(acks, s))
         /\ Covered(AddPendingAck(acks, s)) \subseteq Covered(acks) \cup {s}
<1> DEFINE new == AddPendingAck(acks, s)
           all == Covered(acks) \cup {s}
<1>1. /\ new \in Seq(Ranges) /\ Separated(new)
      /\ \/ Covered(new) = all
         \/ Len(acks) >= MaxAckRanges /\ Covered(new) = all \ Covered(<<acks[1]>>)
  BY AddPendingAckProperties
<1> HIDE DEF new
<1> QED BY <1>1 DEF new

\* What an endpoint may acknowledge after it has processed packet p.
LEMMA EnteredIsHeld ==
  ASSUME IInv, Types', Grows, packets' = packets, NEW e \in Endpoints, ~ disconnected[e],
         NEW p \in Incoming(e), \A x \in p.parts : Holds(e, x[1], x[3])',
         NEW acks, Covered(acks) \subseteq Covered(pending_acks[e]) \cup {p.seq}
  PROVE  AckedIsHeld(e, acks)'
<1> SUFFICES ASSUME NEW q \in packets, q.from = Peer(e), q.seq \in Covered(acks), NEW x \in q.parts
             PROVE  Holds(e, x[1], x[3])'
  BY Zenon DEF AckedIsHeld
<1>1. CASE q.seq = p.seq
  <2>1. q = p
    BY <1>1 DEF Incoming, IInv, Numbered
  <2> QED BY <2>1
<1>2. CASE q.seq \in Covered(pending_acks[e])
  <2>1. Holds(e, x[1], x[3])
    BY <1>2, Zenon DEF IInv, AcksOK, AckedIsHeld
  <2>2. x[1] \in 0 .. Len(sent[Peer(e)]) - 1
    BY DEF IInv, Numbered, PacketOK, PartOK
  <2> QED BY <2>1, <2>2, Zenon DEF Grows
<1> QED BY <1>1, <1>2

LEMMA ProcessReliableOK ==
  ASSUME IInv, NEW e \in Endpoints, ~ disconnected[e], NEW p \in Incoming(e),
         NEW result, ProcessReliable(e, p, result),
         ReceiveOK(result.channel, sent[Peer(e)], DeliveredIds(e)),
         result.channel.ordered = receive[e].ordered,
         \A j, k : HasPiece(receive[e], sent[Peer(e)], DeliveredIds(e), j, k) =>
                   HasPiece(result.channel, sent[Peer(e)], DeliveredIds(e), j, k),
         result.ok => \A x \in p.parts :
                        HasPiece(result.channel, sent[Peer(e)], DeliveredIds(e), x[1], x[3])
  PROVE  IInv' /\ \A f \in Endpoints : receive'[f].ordered = receive[f].ordered
<1>1. /\ pending_acks' = [pending_acks EXCEPT ![e] = AddPendingAck(@, p.seq)]
      /\ receive' = [receive EXCEPT ![e] = result.channel]
      /\ disconnected' = [disconnected EXCEPT ![e] = ~ result.ok]
      /\ UNCHANGED <<current_time, packet_sequence, sent_packets, send, packets, sent, delivered>>
  BY Zenon DEF ProcessReliable
<1>2. /\ DOMAIN receive = Endpoints /\ pending_acks \in [Endpoints -> Seq(Ranges)]
      /\ disconnected \in [Endpoints -> BOOLEAN]
  BY Zenon DEF IInv, Types
<1>3. /\ receive'[e] = result.channel /\ disconnected'[e] = ~ result.ok
      /\ pending_acks'[e] = AddPendingAck(pending_acks[e], p.seq)
      /\ \A f \in Endpoints \ {e} : /\ receive'[f] = receive[f] /\ disconnected'[f] = disconnected[f]
                                    /\ pending_acks'[f] = pending_acks[f]
      /\ \A f : DeliveredIds(f)' = DeliveredIds(f)
  BY <1>1, <1>2, Zenon DEF DeliveredIds
<1>4. /\ Separated(pending_acks[e]) /\ p.seq \in Nat /\ p.seq < packet_sequence[Peer(e)]
      /\ \A n \in Covered(pending_acks[e]) : n < packet_sequence[Peer(e)]
  BY Zenon DEF IInv, AcksOK, Numbered, PacketOK, Incoming
<1>5. /\ pending_acks'[e] \in Seq(Ranges) /\ Separated(pending_acks'[e])
      /\ Covered(pending_acks'[e]) \subseteq Covered(pending_acks[e]) \cup {p.seq}
  <2> DEFINE old == pending_acks[e]
             new == AddPendingAck(old, p.seq)
  <2>1. old \in Seq(Ranges) /\ Separated(old) /\ p.seq \in Nat
    BY <1>2, <1>4, Zenon
  <2>2. pending_acks'[e] = new
    BY <1>3, Zenon
  <2>3. /\ new \in Seq(Ranges) /\ Separated(new)
        /\ Covered(new) \subseteq Covered(old) \cup {p.seq}
    <3> HIDE DEF old
    <3> QED BY <2>1, EnteredFacts, Zenon
  <2> HIDE DEF new
  <2> QED BY <2>2, <2>3, Zenon
<1>6. Types'
  <2>1. pending_acks' \in [Endpoints -> Seq(Ranges)]
    BY <1>1, <1>2, <1>3, <1>5, Zenon
  <2>2. disconnected' \in [Endpoints -> BOOLEAN]
    BY <1>1, <1>2, Zenon
  <2>3. DOMAIN receive' = Endpoints
    BY <1>1, <1>2, Zenon
  <2> QED BY <1>1, <2>1, <2>2, <2>3, Zenon DEF IInv, Types
<1>7. \A f \in Endpoints : \A j, k : Holds(f, j, k) => Holds(f, j, k)'
  <2> SUFFICES ASSUME NEW f \in Endpoints, NEW j, NEW k, Holds(f, j, k)
               PROVE  Holds(f, j, k)'
    BY Zenon
  <2>1. CASE f = e
    BY <1>1, <1>3, <2>1, Zenon DEF Holds, HasPiece
  <2>2. CASE f # e
    BY <1>1, <1>3, <2>2, Zenon DEF Holds
  <2> QED BY <2>1, <2>2, Zenon
<1>8. Grows
  BY <1>1, <1>7, NothingSent, Zenon
<1>9. ChannelsOK'
  <2> SUFFICES ASSUME NEW f \in Endpoints
               PROVE  /\ SendOK(send'[f], sent'[f])
                      /\ ReceiveOK(receive'[f], sent'[Peer(f)], DeliveredIds(f)')
    BY Zenon DEF ChannelsOK
  <2>1. SendOK(send[f], sent[f]) /\ ReceiveOK(receive[f], sent[Peer(f)], DeliveredIds(f))
    BY Zenon DEF IInv, ChannelsOK
  <2> QED BY <1>1, <1>3, <2>1, Zenon
<1>10. Numbered' /\ SentOK'
  BY <1>1, <1>6, <1>8, NumberedStays, SentShrinks, Zenon
<1>11. NothingAckedIsMissing'
  BY <1>1, <1>6, <1>8, NothingGetsLost, Zenon
<1>12. PendingOK(e)'
  <2>1. PICK acks : acks = pending_acks'[e]
    BY Zenon
  <2>2. ~ disconnected'[e] => AckedIsHeld(e, acks)'
    <3> SUFFICES ASSUME ~ disconnected'[e] PROVE AckedIsHeld(e, acks)'
      BY Zenon
    <3>1. \A x \in p.parts : Holds(e, x[1], x[3])'
      BY <1>1, <1>3, Zenon DEF Holds, HasPiece
    <3>2. Covered(acks) \subseteq Covered(pending_acks[e]) \cup {p.seq}
      BY <1>5, <2>1, Zenon
    <3> QED BY <1>1, <1>6, <1>8, <3>1, <3>2, EnteredIsHeld, Zenon
  <2>3. ~ disconnected'[e] => AckedIsHeld(e, pending_acks[e])'
    BY <2>1, <2>2, Zenon DEF AckedIsHeld
  <2>4. \A n \in Covered(pending_acks'[e]) : n < packet_sequence'[Peer(e)]
    BY <1>1, <1>4, <1>5, Zenon
  <2> QED BY <1>5, <2>3, <2>4, Zenon DEF PendingOK
<1>13. \A f \in Endpoints : PendingOK(f)'
  <2> SUFFICES ASSUME NEW f \in Endpoints, f # e PROVE PendingOK(f)'
    BY <1>12, Zenon
  <2> QED BY <1>3, <1>6, <1>8, PendingStays, Zenon
<1>14. packets' \ packets = {}
  BY <1>1, Zenon
<1>15. IInv'
  BY <1>6, <1>8, <1>9, <1>10, <1>11, <1>13, <1>14, StepOK, Zenon
<1> QED BY <1>3, <1>15, Zenon

LEMMA IncomingParts ==
  ASSUME IInv, NEW e \in Endpoints, NEW p \in Incoming(e), NEW x \in p.parts
  PROVE  /\ x = <<x[1], x[2], x[3]>> /\ x[1] \in 0 .. Len(sent[Peer(e)]) - 1
         /\ x[2] = sent[Peer(e)][x[1] + 1] /\ x[3] \in Indices(sent[Peer(e)][x[1] + 1])
BY DEF Incoming, IInv, Numbered, PacketOK, PartOK

LEMMA ProcessSmallReliableOK ==
  ASSUME IInv, NEW e \in Endpoints, NEW p \in Incoming(e), ProcessSmallReliable(e, p)
  PROVE  IInv' /\ \A f \in Endpoints : receive'[f].ordered = receive[f].ordered
<1> DEFINE ch == receive[e]
           M == sent[Peer(e)]
           D == DeliveredIds(e)
           batch == {<<x[1], x[2]>> : x \in p.parts}
<1>1. PICK result : result = ProcessMessages(ch, batch)
  BY Zenon
<1>2. ~ disconnected[e] /\ ProcessReliable(e, p, result)
  BY <1>1 DEF ProcessSmallReliable
<1>3. M \in Seq(Messages) /\ ReceiveOK(ch, M, D)
  BY PeerFacts, Zenon DEF IInv, Types, ChannelsOK
<1>4. \A b \in batch : b[1] \in 0 .. Len(M) - 1 /\ b[2] = M[b[1] + 1]
  BY IncomingParts
<1>5. \A x \in p.parts : \E b \in batch : b[1] = x[1]
  <2> SUFFICES ASSUME NEW x \in p.parts PROVE \E b \in batch : b[1] = x[1]
    OBVIOUS
  <2>1. <<x[1], x[2]>> \in batch /\ <<x[1], x[2]>>[1] = x[1]
    BY SMTT(20)
  <2> HIDE DEF batch
  <2> QED BY <2>1
<1> HIDE DEF ch, M, D, batch
<1>6. /\ ReceiveOK(result.channel, M, D)
      /\ result.channel.ordered = ch.ordered /\ result.channel.slices = ch.slices
      /\ DOMAIN ch.messages \subseteq DOMAIN result.channel.messages
      /\ result.ok => \A b \in batch : b[1] \in D \cup DOMAIN result.channel.messages
  BY <1>1, <1>3, <1>4, ProcessMessagesOK
<1>7. \A j, k : HasPiece(ch, M, D, j, k) => HasPiece(result.channel, M, D, j, k)
  BY <1>6, Zenon DEF HasPiece
<1>8. result.ok => \A x \in p.parts : HasPiece(result.channel, M, D, x[1], x[3])
  BY <1>5, <1>6 DEF HasPiece
<1> QED BY <1>2, <1>6, <1>7, <1>8, ProcessReliableOK, Zenon DEF ch, M, D

LEMMA ProcessReliableSliceOK ==
  ASSUME IInv, NEW e \in Endpoints, NEW p \in Incoming(e), ProcessReliableSlice(e, p)
  PROVE  IInv' /\ \A f \in Endpoints : receive'[f].ordered = receive[f].ordered
<1> DEFINE ch == receive[e]
           M == sent[Peer(e)]
           D == DeliveredIds(e)
<1>1. PICK x \in p.parts : ProcessReliable(e, p, ProcessSlice(ch, x[1], x[2], x[3]))
  BY Zenon DEF ProcessReliableSlice
<1>2. PICK id, i : id = x[1] /\ i = x[3]
  OBVIOUS
<1>3. id \in 0 .. Len(M) - 1 /\ i \in Indices(M[id + 1]) /\ x[2] = M[id + 1]
  BY <1>2, IncomingParts
<1>4. PICK result : result = ProcessSlice(ch, id, M[id + 1], i)
  BY Zenon
<1>5. ~ disconnected[e] /\ ProcessReliable(e, p, result)
  BY <1>1, <1>2, <1>3, <1>4, Zenon DEF ProcessReliableSlice
<1>6. M \in Seq(Messages) /\ ReceiveOK(ch, M, D)
  BY PeerFacts, Zenon DEF IInv, Types, ChannelsOK
<1>7. \A y \in p.parts : y = x
  BY Zenon DEF ProcessReliableSlice, Incoming, IInv, Numbered, PacketOK
<1> HIDE DEF ch, M, D
<1>8. /\ ReceiveOK(result.channel, M, D) /\ result.channel.ordered = ch.ordered
      /\ \A j, k : HasPiece(ch, M, D, j, k) => HasPiece(result.channel, M, D, j, k)
      /\ result.ok => HasPiece(result.channel, M, D, id, i)
  <2> DEFINE r == ProcessSlice(ch, id, M[id + 1], i)
  <2>1. ReceiveOK(r.channel, M, D) /\ r.channel.ordered = ch.ordered
    BY <1>3, <1>6, ProcessSliceOK, Zenon
  <2>2. \A j, k : HasPiece(ch, M, D, j, k) => HasPiece(r.channel, M, D, j, k)
    BY <1>3, <1>6, ProcessSliceOK, Zenon
  <2>3. r.ok => HasPiece(r.channel, M, D, id, i)
    BY <1>3, <1>6, ProcessSliceOK, Zenon
  <2>4. result = r
    BY <1>4
  <2> HIDE DEF r
  <2> QED BY <2>1, <2>2, <2>3, <2>4, Zenon
<1>9. result.ok => \A y \in p.parts : HasPiece(result.channel, M, D, y[1], y[3])
  BY <1>2, <1>7, <1>8, Zenon
<1> QED BY <1>5, <1>8, <1>9, ProcessReliableOK, Zenon DEF ch, M, D

LEMMA MaxNat ==
  ASSUME NEW S \in SUBSET Nat, S # {}, NEW bound \in Nat, \A x \in S : x < bound
  PROVE  Max(S) \in S
<1> DEFINE T == {bound - x : x \in S}
<1>1. T \in SUBSET Nat /\ T # {}
  <2>1. \A x \in S : bound - x \in Nat
    OBVIOUS
  <2> QED BY <2>1, Zenon
<1>2. Min(T) \in T /\ \A y \in T : Min(T) <= y
  <2> HIDE DEF T
  <2> QED BY <1>1, MinNat
<1>3. PICK x \in S : Min(T) = bound - x
  BY <1>2
<1>4. \A y \in S : bound - x <= bound - y
  BY <1>2, <1>3, Zenon
<1>5. \A y \in S : x >= y
  BY <1>4
<1> QED BY <1>5, Zenon DEF Max

\* What an Ack packet acknowledges the endpoint that sent it holds.
LEMMA AckedParts ==
  ASSUME IInv, NEW e \in Endpoints, NEW p \in Incoming(e),
         NEW n \in DOMAIN sent_packets[e], n \in Covered(p.acks),
         NEW y \in sent_packets[e][n].parts
  PROVE  y = <<y[1], y[2]>> /\ Holds(Peer(e), y[1], y[2])
<1>1. PICK q \in packets : /\ q.from = e /\ q.seq = n
                           /\ sent_packets[e][n].parts = {<<x[1], x[3]>> : x \in q.parts}
  BY DEF IInv, SentOK
<1>2. PICK x \in q.parts : y = <<x[1], x[3]>>
  BY <1>1
<1>3. p \in packets /\ p.from = Peer(e) /\ Peer(Peer(e)) = e
  BY PeerFacts, Zenon DEF Incoming
<1>4. AckedIsHeld(Peer(e), p.acks)
  BY <1>3, Zenon DEF IInv, AcksOK
<1>5. Holds(Peer(e), x[1], x[3])
  BY <1>1, <1>3, <1>4, Zenon DEF AckedIsHeld
<1> QED BY <1>2, <1>5, SMTT(20)

\* The new pending_acks of an endpoint that processes an Ack packet.
LEMMA AckEntered ==
  ASSUME IInv, NEW e \in Endpoints, NEW p \in Incoming(e),
         NEW new \in SUBSET DOMAIN sent_packets[e]
  PROVE  LET largest == {sent_packets[e][n].largest : n \in new} \ {NoAck}
             entered == AddPendingAck(pending_acks[e], p.seq)
             acks == IF largest = {} THEN entered ELSE AckedLargest(entered, Max(largest))
         IN  /\ acks \in Seq(Ranges) /\ Separated(acks)
             /\ Covered(acks) \subseteq Covered(pending_acks[e]) \cup {p.seq}
<1> DEFINE old == pending_acks[e]
           largest == {sent_packets[e][n].largest : n \in new} \ {NoAck}
           entered == AddPendingAck(old, p.seq)
           acks == IF largest = {} THEN entered ELSE AckedLargest(entered, Max(largest))
<1>1. old \in Seq(Ranges) /\ Separated(old) /\ p.seq \in Nat
  BY Zenon DEF IInv, Types, AcksOK, Incoming, Numbered, PacketOK
<1>2. packet_sequence[Peer(e)] \in Nat
  BY PeerFacts, Zenon DEF IInv, Types
<1>3. \A l \in largest : l \in Nat /\ l < packet_sequence[Peer(e)]
  BY DEF IInv, SentOK
<1>4. largest \in SUBSET Nat
  BY <1>3
<1> HIDE DEF old, largest
<1>5. /\ entered \in Seq(Ranges) /\ Separated(entered)
      /\ Covered(entered) \subseteq Covered(old) \cup {p.seq}
  BY <1>1, EnteredFacts, Zenon
<1> HIDE DEF entered
<1>6. CASE largest = {}
  BY <1>5, <1>6, Zenon DEF old, largest, entered
<1>7. CASE largest # {}
  <2>1. PICK l : l = Max(largest)
    OBVIOUS
  <2>2. l \in Nat
    BY <1>2, <1>3, <1>4, <1>7, <2>1, MaxNat, Zenon
  <2>3. /\ AckedLargest(entered, l) \in Seq(Ranges) /\ Separated(AckedLargest(entered, l))
        /\ Covered(AckedLargest(entered, l)) = {n \in Covered(entered) : n > l}
    BY <1>5, <2>2, AckedLargestProperties, Zenon
  <2>4. acks = AckedLargest(entered, l)
    BY <1>7, <2>1
  <2>5. /\ acks \in Seq(Ranges) /\ Separated(acks)
        /\ Covered(acks) \subseteq Covered(old) \cup {p.seq}
    <3> HIDE DEF acks
    <3> QED BY <1>5, <2>3, <2>4
  <2> QED BY <2>5, Zenon DEF old, largest, entered
<1> QED BY <1>6, <1>7, Zenon

LEMMA ProcessAckOK ==
  ASSUME IInv, NEW e \in Endpoints, NEW p \in Incoming(e), ProcessAck(e, p)
  PROVE  IInv'
<1> DEFINE new == DOMAIN sent_packets[e] \cap Covered(p.acks)
           parts == UNION {sent_packets[e][n].parts : n \in new}
           largest == {sent_packets[e][n].largest : n \in new} \ {NoAck}
           entered == AddPendingAck(pending_acks[e], p.seq)
           acks == IF largest = {} THEN entered ELSE AckedLargest(entered, Max(largest))
<1>1. /\ ~ disconnected[e] /\ p.acks # <<>>
      /\ sent_packets' = [sent_packets EXCEPT ![e] = [n \in DOMAIN @ \ new |-> @[n]]]
      /\ send' = [send EXCEPT ![e] = ProcessAcks(@, parts)]
      /\ pending_acks' = [pending_acks EXCEPT ![e] = acks]
      /\ UNCHANGED <<disconnected, current_time, packet_sequence, receive, packets, sent, delivered>>
  BY Zenon DEF ProcessAck
<1>2. acks \in Seq(Ranges) /\ Separated(acks)
      /\ Covered(acks) \subseteq Covered(pending_acks[e]) \cup {p.seq}
  <2>1. new \in SUBSET DOMAIN sent_packets[e]
    OBVIOUS
  <2> HIDE DEF new
  <2> QED BY <2>1, AckEntered, Zenon
<1>3. ASSUME NEW y \in parts
      PROVE  y = <<y[1], y[2]>> /\ Holds(Peer(e), y[1], y[2])
  <2>1. PICK n \in new : y \in sent_packets[e][n].parts
    OBVIOUS
  <2> QED BY <2>1, AckedParts
<1> HIDE DEF acks, parts, new
<1>4. /\ DOMAIN sent_packets = Endpoints /\ DOMAIN send = Endpoints
      /\ pending_acks \in [Endpoints -> Seq(Ranges)]
      /\ \A f \in Endpoints : /\ packet_sequence[f] \in Nat /\ Len(sent[f]) \in Nat
                              /\ sent[f] \in Seq(Messages) /\ SendOK(send[f], sent[f])
  <2>1. DOMAIN sent_packets = Endpoints /\ DOMAIN send = Endpoints
        /\ pending_acks \in [Endpoints -> Seq(Ranges)] /\ \A f \in Endpoints : SendOK(send[f], sent[f])
    BY Zenon DEF IInv, Types, ChannelsOK
  <2> QED BY <2>1, CountFacts, Zenon
<1>5. /\ send'[e] = ProcessAcks(send[e], parts) /\ pending_acks'[e] = acks
      /\ \A f \in Endpoints \ {e} : send'[f] = send[f] /\ pending_acks'[f] = pending_acks[f]
      /\ \A f \in Endpoints : /\ DOMAIN sent_packets'[f] \subseteq DOMAIN sent_packets[f]
                              /\ \A n \in DOMAIN sent_packets'[f] :
                                   sent_packets'[f][n] = sent_packets[f][n]
      /\ DOMAIN sent_packets' = Endpoints /\ DOMAIN send' = Endpoints
      /\ pending_acks' \in [Endpoints -> Seq(Ranges)]
  BY <1>1, <1>2, <1>4, Zenon
<1>6. Types'
  BY <1>1, <1>5 DEF IInv, Types
<1>7. \A f, j, k : Holds(f, j, k)' <=> Holds(f, j, k)
  BY <1>1 DEF Holds, DeliveredIds
<1>8. Grows
  BY <1>1, <1>7, NothingSent, Zenon
<1>9. /\ SendOK(ProcessAcks(send[e], parts), sent[e])
      /\ \A id \in 0 .. Len(sent[e]) - 1 : \A i \in Indices(sent[e][id + 1]) :
           Gone(ProcessAcks(send[e], parts), id, i) => Gone(send[e], id, i) \/ <<id, i>> \in parts
  <2>1. \A y \in parts : y = <<y[1], y[2]>>
    BY <1>3
  <2> QED BY <1>4, <2>1, ProcessAcksOK
<1>10. ChannelsOK'
  <2> SUFFICES ASSUME NEW f \in Endpoints
               PROVE  /\ SendOK(send'[f], sent'[f])
                      /\ ReceiveOK(receive'[f], sent'[Peer(f)], DeliveredIds(f)')
    BY Zenon DEF ChannelsOK
  <2>1. ReceiveOK(receive[f], sent[Peer(f)], DeliveredIds(f)) /\ DeliveredIds(f)' = DeliveredIds(f)
    BY <1>1, Zenon DEF IInv, ChannelsOK, DeliveredIds
  <2>2. SendOK(send'[f], sent[f])
    BY <1>4, <1>5, <1>9, Zenon
  <2> QED BY <1>1, <2>1, <2>2
<1>11. Numbered' /\ SentOK'
  BY <1>1, <1>5, <1>6, <1>8, NumberedStays, SentShrinks, Zenon
<1>12. NothingAckedIsMissing'
  <2>1. ASSUME NEW f \in Endpoints, NEW id \in 0 .. Len(sent'[f]) - 1,
               NEW i \in Indices(sent'[f][id + 1]), Gone(send'[f], id, i)
        PROVE  id \in 0 .. Len(sent[f]) - 1 /\ (Gone(send[f], id, i) \/ Holds(Peer(f), id, i))
    <3>1. id \in 0 .. Len(sent[f]) - 1 /\ i \in Indices(sent[f][id + 1])
      BY <1>1
    <3>2. CASE f # e
      BY <1>5, <2>1, <3>1, <3>2, Zenon
    <3>3. CASE f = e
      <4>1. Gone(send[e], id, i) \/ <<id, i>> \in parts
        BY <1>5, <1>9, <2>1, <3>1, <3>3, Zenon
      <4>2. <<id, i>> \in parts => Holds(Peer(e), id, i)
        BY <1>3
      <4> QED BY <3>1, <3>3, <4>1, <4>2, Zenon
    <3> QED BY <3>2, <3>3, Zenon
  <2> QED BY <1>6, <1>8, <2>1, NothingGetsLost, Zenon
<1>13. PendingOK(e)'
  <2>1. p.parts = {} /\ p.seq < packet_sequence[Peer(e)]
        /\ \A n \in Covered(pending_acks[e]) : n < packet_sequence[Peer(e)]
    BY <1>1, Zenon DEF IInv, Numbered, PacketOK, Incoming, AcksOK
  <2>2. PICK a : a = acks
    OBVIOUS
  <2>3. AckedIsHeld(e, a)'
    BY <1>1, <1>2, <1>6, <1>8, <2>1, <2>2, EnteredIsHeld, Zenon
  <2>4. AckedIsHeld(e, pending_acks[e])'
    BY <1>5, <2>2, <2>3, Zenon DEF AckedIsHeld
  <2>5. \A n \in Covered(pending_acks'[e]) : n < packet_sequence'[Peer(e)]
    BY <1>1, <1>2, <1>5, <2>1, Zenon
  <2> QED BY <1>2, <1>5, <2>4, <2>5, Zenon DEF PendingOK
<1>14. \A f \in Endpoints : PendingOK(f)'
  <2> SUFFICES ASSUME NEW f \in Endpoints, f # e PROVE PendingOK(f)'
    BY <1>13
  <2> QED BY <1>1, <1>5, <1>6, <1>8, PendingStays
<1>15. packets' \ packets = {}
  BY <1>1
<1> QED BY <1>6, <1>8, <1>10, <1>11, <1>12, <1>14, <1>15, StepOK

-----------------------------------------------------------------------------
(***************************************************************************)
(* What get_packets_to_send makes of a channel and of the pending acks.    *)
(***************************************************************************)
\* A packet of endpoint e that get_packets_to_send may push.
Sendable(e, p) ==
  /\ p.from = e /\ p.seq \in Nat /\ packet_sequence[e] <= p.seq
  /\ \A x \in p.parts : PartOK(e, x)
  /\ p.sliced => \A x, y \in p.parts : x = y

DataOK(e, data) ==
  /\ IsFiniteSet(data) /\ Cardinality(data) \in Nat
  /\ \A p \in data : /\ Sendable(e, p) /\ p.acks = <<>>
                     /\ p.seq < packet_sequence[e] + Cardinality(data)
  /\ \A p, q \in data : p.seq = q.seq => p = q

OutOK(e, out) ==
  /\ Cardinality(out) \in Nat
  /\ \A p \in out : /\ Sendable(e, p) /\ p.seq < packet_sequence[e] + Cardinality(out)
                    /\ p.acks = <<>> \/ p.acks = pending_acks[e]
                    /\ p.acks # <<>> => p.parts = {}
  /\ \A p, q \in out : p.seq = q.seq => p = q

\* The packets of the channel have consecutive numbers and carry pieces of sent messages.
LEMMA DataFacts ==
  ASSUME IInv, NEW e \in Endpoints, NEW S \in SUBSET Due(send[e], current_time[e]),
         NEW C \in SUBSET Small(send[e], S)
  PROVE  DataOK(e, DataPackets(e, S, C))
<1> DEFINE ch == send[e]
           M == sent[e]
           seq == packet_sequence[e]
           items == PacketItems(ch, S, C)
           sliced(x) == x[1] \in DOMAIN ch.unacked /\ Sliced(Message(ch, x))
           parts(x) == {Part(e, y) : y \in Carried(ch, S, C, x)}
           pkt(x) == Packet(e, seq + Rank(ch, items, x), sliced(x), parts(x), <<>>)
           data == DataPackets(e, S, C)
<1>1. M \in Seq(Messages) /\ SendOK(ch, M) /\ seq \in Nat
  BY Zenon DEF IInv, Types, ChannelsOK
<1>2. data = {pkt(x) : x \in items}
  BY Zenon DEF DataPackets
<1>3. /\ IsFiniteSet(items) /\ \A x \in items : IsItem(x)
      /\ \A x \in items : \A y \in Carried(ch, S, C, x) :
           /\ y[1] \in DOMAIN ch.unacked
           /\ y[2] \in Indices(ch.unacked[y[1]].message)
           /\ sliced(x) => y = x
  <2>1. PICK now : now = current_time[e]
    OBVIOUS
  <2>2. /\ M \in Seq(Messages) /\ SendOK(ch, M) /\ S \in SUBSET Due(ch, now)
        /\ C \in SUBSET Small(ch, S)
    BY <1>1, <2>1, Zenon
  <2> HIDE DEF ch, M
  <2>3. IsFiniteSet(items) /\ \A x \in items : IsItem(x)
    BY <2>2, PacketItemsFacts, Zenon
  <2>4. \A x \in items : \A y \in Carried(ch, S, C, x) :
          /\ y[1] \in DOMAIN ch.unacked
          /\ y[2] \in Indices(ch.unacked[y[1]].message)
          /\ sliced(x) => y = x
    <3> SUFFICES ASSUME NEW x \in items, NEW y \in Carried(ch, S, C, x)
                 PROVE  /\ y[1] \in DOMAIN ch.unacked
                        /\ y[2] \in Indices(ch.unacked[y[1]].message)
                        /\ sliced(x) => y = x
      BY Zenon
    <3>1. y[1] \in DOMAIN ch.unacked
      BY <2>2, PacketItemsFacts, Zenon
    <3>2. y[2] \in Indices(ch.unacked[y[1]].message)
      BY <2>2, PacketItemsFacts, Zenon
    <3>3. sliced(x) => y = x
      BY Zenon DEF Carried
    <3> QED BY <3>1, <3>2, <3>3, Zenon
  <2> QED BY <2>3, <2>4, Zenon
<1>4. \A x \in items : /\ pkt(x).from = e /\ pkt(x).seq = seq + Rank(ch, items, x)
                       /\ pkt(x).sliced = sliced(x) /\ pkt(x).parts = parts(x)
                       /\ pkt(x).acks = <<>>
  BY Zenon DEF Packet
<1>5. \A x \in items : \A y \in parts(x) : PartOK(e, y)
  <2> SUFFICES ASSUME NEW x \in items, NEW y \in Carried(ch, S, C, x)
               PROVE  PartOK(e, Part(e, y))
    OBVIOUS
  <2>1. /\ y[1] \in DOMAIN ch.unacked /\ y[2] \in Indices(ch.unacked[y[1]].message)
    BY <1>3, Zenon
  <2>2. y[1] \in 0 .. Len(M) - 1 /\ ch.unacked[y[1]].message = M[y[1] + 1]
    BY <1>1, <2>1, Zenon DEF SendOK
  <2>3. Part(e, y) = <<y[1], M[y[1] + 1], y[2]>>
    BY <2>2 DEF Part, Message
  <2> QED BY <2>1, <2>2, <2>3 DEF PartOK
<1> HIDE DEF items, sliced, ch, seq, M, pkt
<1>6. \A x \in items : sliced(x) => \A y, z \in parts(x) : y = z
  <2> SUFFICES ASSUME NEW x \in items, sliced(x), NEW y \in parts(x), NEW z \in parts(x)
               PROVE  y = z
    BY Zenon
  <2>1. PICK v \in Carried(ch, S, C, x) : y = Part(e, v)
    BY Zenon
  <2>2. PICK w \in Carried(ch, S, C, x) : z = Part(e, w)
    BY Zenon
  <2>3. v = x /\ w = x
    BY <1>3, Zenon
  <2> QED BY <2>1, <2>2, <2>3, Zenon
<1> HIDE DEF parts
<1>7. /\ Cardinality(items) \in Nat
      /\ \A x \in items : Rank(ch, items, x) \in 0 .. Cardinality(items) - 1
      /\ \A x, y \in items : x # y => Rank(ch, items, x) # Rank(ch, items, y)
  BY <1>3, RanksDiffer, FS_CardinalityType, Zenon
<1>8. \A x \in items : /\ pkt(x).seq \in Nat /\ seq <= pkt(x).seq
                       /\ pkt(x).seq < seq + Cardinality(items)
  <2> TAKE x \in items
  <2> DEFINE r == Rank(ch, items, x)
             n == Cardinality(items)
  <2>1. r \in 0 .. n - 1 /\ n \in Nat /\ seq \in Nat /\ pkt(x).seq = seq + r
    BY <1>1, <1>4, <1>7, Zenon DEF seq
  <2> HIDE DEF r, n
  <2>2. seq + r \in Nat /\ seq <= seq + r /\ seq + r < seq + n
    BY <2>1
  <2> QED BY <2>1, <2>2, Zenon DEF n
<1>9. \A x, y \in items : pkt(x).seq = pkt(y).seq => x = y
  <2> SUFFICES ASSUME NEW x \in items, NEW y \in items, pkt(x).seq = pkt(y).seq
               PROVE  x = y
    BY Zenon
  <2> DEFINE r == Rank(ch, items, x)
             s == Rank(ch, items, y)
             n == Cardinality(items)
  <2>1. r \in 0 .. n - 1 /\ s \in 0 .. n - 1 /\ n \in Nat /\ seq \in Nat
    BY <1>1, <1>7, Zenon DEF seq
  <2>2. seq + r = seq + s
    BY <1>4, Zenon
  <2> HIDE DEF r, s, n
  <2>3. r = s
    BY <2>1, <2>2
  <2> QED BY <1>7, <2>3, Zenon DEF r, s
<1>10. \A x \in items : Sendable(e, pkt(x))
  <2> SUFFICES ASSUME NEW x \in items PROVE Sendable(e, pkt(x))
    OBVIOUS
  <2>1. pkt(x).from = e /\ pkt(x).seq \in Nat /\ packet_sequence[e] <= pkt(x).seq
    BY <1>4, <1>8, Zenon DEF seq
  <2>2. \A y \in pkt(x).parts : PartOK(e, y)
    BY <1>4, <1>5, Zenon
  <2>3. pkt(x).sliced => \A y, z \in pkt(x).parts : y = z
    BY <1>4, <1>6, Zenon
  <2> QED BY <2>1, <2>2, <2>3, Zenon DEF Sendable
<1> HIDE DEF data
<1>11. IsFiniteSet(data) /\ Cardinality(data) = Cardinality(items)
  <2> DEFINE f == [x \in items |-> pkt(x)]
  <2>1. f \in Bijection(items, data)
    BY <1>2, <1>9 DEF Bijection, Injection, IsInjective, Surjection
  <2>2. ExistsBijection(items, data)
    BY <2>1, Zenon DEF ExistsBijection
  <2> QED BY <1>3, <2>2, FS_Bijection, Zenon
<1>12. \A p \in data : Sendable(e, p) /\ p.acks = <<>> /\ p.seq < seq + Cardinality(data)
  <2> SUFFICES ASSUME NEW p \in data
               PROVE  Sendable(e, p) /\ p.acks = <<>> /\ p.seq < seq + Cardinality(data)
    BY Zenon
  <2>1. PICK x \in items : p = pkt(x)
    BY <1>2, Zenon
  <2> QED BY <1>4, <1>8, <1>10, <1>11, <2>1, Zenon
<1>13. \A p, q \in data : p.seq = q.seq => p = q
  BY <1>2, <1>9
<1>14. DataOK(e, data)
  BY <1>7, <1>11, <1>12, <1>13, Zenon DEF DataOK, seq
<1> QED BY <1>14, Zenon DEF data

\* With the Ack packet, which has the last number.
LEMMA OutFacts ==
  ASSUME IInv, NEW e \in Endpoints, NEW data, DataOK(e, data)
  PROVE  OutOK(e, data \cup AckPackets(e, packet_sequence[e] + Cardinality(data)))
<1> DEFINE seq == packet_sequence[e]
           end == seq + Cardinality(data)
           out == data \cup AckPackets(e, end)
<1>1. /\ seq \in Nat /\ end \in Nat /\ IsFiniteSet(data) /\ Cardinality(data) \in Nat
      /\ \A p \in data : /\ Sendable(e, p) /\ p.acks = <<>> /\ p.seq \in Nat /\ p.seq < end
      /\ \A p, q \in data : p.seq = q.seq => p = q
  <2>1. seq \in Nat
    BY Zenon DEF IInv, Types
  <2>2. /\ IsFiniteSet(data) /\ Cardinality(data) \in Nat
        /\ \A p \in data : /\ Sendable(e, p) /\ p.acks = <<>> /\ p.seq \in Nat /\ p.seq < end
        /\ \A p, q \in data : p.seq = q.seq => p = q
    BY Zenon DEF DataOK, Sendable
  <2>3. end \in Nat
    BY <2>1, <2>2
  <2> QED BY <2>1, <2>2, <2>3, Zenon
<1>2. CASE pending_acks[e] = <<>>
  <2>1. out = data
    BY <1>2, Zenon DEF AckPackets
  <2>2. OutOK(e, data)
    BY <1>1, Zenon DEF OutOK
  <2> QED BY <2>1, <2>2
<1>3. CASE pending_acks[e] # <<>>
  <2> DEFINE a == Packet(e, end, FALSE, {}, pending_acks[e])
  <2>1. out = data \cup {a}
    BY <1>3 DEF AckPackets
  <2>2. /\ a.from = e /\ a.seq = end /\ ~ a.sliced /\ a.parts = {} /\ a.acks = pending_acks[e]
    BY Zenon DEF Packet
  <2>0. end = seq + Cardinality(data)
    OBVIOUS
  <2> HIDE DEF a, out, end
  <2>3. \A p \in data : p.seq # a.seq
    <3> SUFFICES ASSUME NEW p \in data PROVE p.seq # end
      BY <2>2, Zenon
    <3>1. p.seq \in Nat /\ p.seq < end /\ end \in Nat
      BY <1>1, Zenon
    <3> QED BY <3>1
  <2>4. Cardinality(out) = Cardinality(data) + 1
    BY <1>1, <2>1, <2>3, FS_AddElement, Zenon
  <2>5. Sendable(e, a)
    <3>0. seq \in Nat /\ Cardinality(data) \in Nat /\ a.seq = seq + Cardinality(data)
      BY <1>1, <2>0, <2>2, Zenon
    <3>1. a.seq \in Nat /\ seq <= a.seq
      BY <3>0
    <3> QED BY <2>2, <3>1, Zenon DEF Sendable
  <2>6. \A p \in out : /\ Sendable(e, p) /\ p.seq < seq + Cardinality(out)
                       /\ p.acks = <<>> \/ p.acks = pending_acks[e]
                       /\ p.acks # <<>> => p.parts = {}
    <3> SUFFICES ASSUME NEW p \in out
                 PROVE  /\ Sendable(e, p) /\ p.seq < seq + Cardinality(out)
                        /\ p.acks = <<>> \/ p.acks = pending_acks[e]
                        /\ p.acks # <<>> => p.parts = {}
      OBVIOUS
    <3>0. \A n \in Nat : n <= end => n < seq + Cardinality(out)
      BY <1>1, <2>4, <2>0
    <3>1. CASE p \in data
      <4>1. p.seq \in Nat /\ p.seq < end /\ end \in Nat /\ Sendable(e, p) /\ p.acks = <<>>
        BY <1>1, <3>1, Zenon
      <4>2. p.seq < seq + Cardinality(out)
        BY <3>0, <4>1
      <4> QED BY <4>1, <4>2, Zenon
    <3>2. CASE p = a
      <4>1. a.seq < seq + Cardinality(out)
        BY <1>1, <2>2, <3>0
      <4> QED BY <2>2, <2>5, <3>2, <4>1, Zenon
    <3> QED BY <2>1, <3>1, <3>2
  <2>7. \A p, q \in out : p.seq = q.seq => p = q
    BY <1>1, <2>1, <2>3
  <2>8. Cardinality(out) \in Nat
    BY <1>1, <2>4
  <2>9. OutOK(e, out)
    BY <2>6, <2>7, <2>8 DEF OutOK
  <2> QED BY <2>9, Zenon DEF out, end
<1> QED BY <1>2, <1>3

LEMMA LargestCovered ==
  ASSUME NEW acks \in Seq(Ranges), acks # <<>>
  PROVE  LargestAcked(acks) \in Nat /\ LargestAcked(acks) \in Covered(acks)
<1>1. Len(acks) \in 1 .. Len(acks)
  OBVIOUS
<1>2. acks[Len(acks)] \in Ranges
  BY <1>1
<1>3. acks[Len(acks)].start \in Nat /\ acks[Len(acks)].end \in Nat
      /\ acks[Len(acks)].start < acks[Len(acks)].end
  BY <1>2 DEF Ranges
<1>4. LargestAcked(acks) \in Nat /\ InRange(LargestAcked(acks), acks[Len(acks)])
  BY <1>1, <1>3 DEF LargestAcked, InRange
<1> QED BY <1>1, <1>4, CoveredMember

LEMMA NoneCovered == Covered(<<>>) = {} /\ Separated(<<>>) /\ <<>> \in Seq(Ranges)
BY DEF Covered, Separated

\* What the Ack packet of endpoint e acknowledges is pending at e.
LEMMA OutAcks ==
  ASSUME IInv, NEW e \in Endpoints, NEW acks, acks = <<>> \/ acks = pending_acks[e]
  PROVE  /\ acks \in Seq(Ranges) /\ Separated(acks)
         /\ \A n \in Covered(acks) : n \in Nat /\ n < packet_sequence[Peer(e)]
         /\ ~ disconnected[e] => AckedIsHeld(e, acks)
<1>1. /\ pending_acks[e] \in Seq(Ranges) /\ Separated(pending_acks[e])
      /\ \A n \in Covered(pending_acks[e]) : n < packet_sequence[Peer(e)]
      /\ ~ disconnected[e] => AckedIsHeld(e, pending_acks[e])
  BY Zenon DEF IInv, Types, AcksOK
<1>2. \A n \in Covered(pending_acks[e]) : n \in Nat
  BY <1>1, CoveredMember
<1>3. CASE acks = <<>>
  BY <1>3, NoneCovered DEF AckedIsHeld
<1>4. CASE acks = pending_acks[e]
  BY <1>1, <1>2, <1>4, Zenon DEF AckedIsHeld
<1> QED BY <1>3, <1>4

LEMMA InfoFacts ==
  ASSUME NEW c, NEW now
  PROVE  /\ Info(c, now).parts = {<<x[1], x[3]>> : x \in c.parts}
         /\ Info(c, now).largest = IF c.acks = <<>> THEN NoAck ELSE LargestAcked(c.acks)
BY DEF Info, PacketSent
=============================================================================
