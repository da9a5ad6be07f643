----------------------- MODULE RenetConnectionProofs -----------------------
(***************************************************************************)
(* What the connection of RenetConnection promises, proved for every       *)
(* number and size of messages, every memory limit, every clock and every  *)
(* number of packets, with the invariant of RenetConnectionSteps:          *)
(* get_packets_to_send preserves it too, every step is a step of           *)
(* ReliableDelivery or invisible to the applications, and the memory that  *)
(* each channel counts is the memory it uses.                              *)
(***************************************************************************)
EXTENDS RenetConnectionSteps, MemoryLemmas

\* The packets out, with the numbers seqs, go and the pieces S are marked.
Push(e, S, out, seqs) ==
  /\ packet_sequence' = [packet_sequence EXCEPT ![e] = @ + Cardinality(out)]
  /\ packets' = packets \cup out
  /\ sent_packets' = [sent_packets EXCEPT
       ![e] = [n \in DOMAIN @ \cup seqs |->
         IF n \in seqs THEN Info(CHOOSE p \in out : p.seq = n, current_time[e]) ELSE @[n]]]
  /\ send' = [send EXCEPT ![e] = MarkSent(@, S, current_time[e])]

LEMMA PushOK ==
  ASSUME IInv, NEW e \in Endpoints, ~ disconnected[e], NEW S, NEW out, NEW seqs,
         OutOK(e, out), seqs = {p.seq : p \in out}, Push(e, S, out, seqs),
         UNCHANGED <<disconnected, current_time, pending_acks, receive, sent, delivered>>
  PROVE  IInv'
<1>0. /\ Cardinality(out) \in Nat /\ packets' = packets \cup out
      /\ \A p \in out : /\ Sendable(e, p) /\ p.seq < packet_sequence[e] + Cardinality(out)
                        /\ p.acks = <<>> \/ p.acks = pending_acks[e]
                        /\ p.acks # <<>> => p.parts = {}
      /\ \A p, q \in out : p.seq = q.seq => p = q
  BY DEF OutOK, Push
<1>1. /\ DOMAIN sent_packets = Endpoints /\ DOMAIN send = Endpoints
      /\ packet_sequence \in [Endpoints -> Nat]
      /\ \A f \in Endpoints : /\ packet_sequence[f] \in Nat /\ Len(sent[f]) \in Nat
                              /\ sent[f] \in Seq(Messages) /\ SendOK(send[f], sent[f])
      /\ Peer(e) \in Endpoints /\ Peer(e) # e
  <2>1. DOMAIN sent_packets = Endpoints /\ DOMAIN send = Endpoints
        /\ packet_sequence \in [Endpoints -> Nat] /\ \A f \in Endpoints : SendOK(send[f], sent[f])
    BY Zenon DEF IInv, Types, ChannelsOK
  <2> QED BY <2>1, CountFacts, PeerFacts, Zenon
<1>2. /\ packet_sequence'[e] = packet_sequence[e] + Cardinality(out)
      /\ packet_sequence' \in [Endpoints -> Nat]
      /\ \A f \in Endpoints \ {e} : /\ packet_sequence'[f] = packet_sequence[f]
                                    /\ send'[f] = send[f] /\ sent_packets'[f] = sent_packets[f]
      /\ send'[e] = MarkSent(send[e], S, current_time[e])
      /\ DOMAIN send' = Endpoints /\ DOMAIN sent_packets' = Endpoints
      /\ sent_packets'[e] = [n \in DOMAIN sent_packets[e] \cup seqs |->
           IF n \in seqs THEN Info(CHOOSE p \in out : p.seq = n, current_time[e])
           ELSE sent_packets[e][n]]
  BY <1>0, <1>1 DEF Push
<1>3. Types'
  BY <1>2, Zenon DEF IInv, Types
<1>4. \A f, j, k : Holds(f, j, k)' <=> Holds(f, j, k)
  BY Zenon DEF Holds, DeliveredIds
<1>5. Grows
  <2>1. \A q \in packets' \ packets : q.seq >= packet_sequence[q.from]
    BY <1>0, <1>1 DEF Sendable
  <2>2. \A f \in Endpoints : packet_sequence[f] <= packet_sequence'[f]
    <3> TAKE f \in Endpoints
    <3>1. packet_sequence[f] \in Nat
      BY <1>1
    <3> DEFINE n == Cardinality(out)
    <3>2. \/ packet_sequence'[f] = packet_sequence[f]
          \/ packet_sequence'[f] = packet_sequence[f] + n
      BY <1>2, Zenon
    <3>3. n \in Nat
      BY <1>0, Zenon
    <3> HIDE DEF n
    <3> QED BY <3>1, <3>2, <3>3
  <2>3. \A f \in Endpoints : Len(sent[f]) <= Len(sent'[f])
    BY <1>1
  <2> QED BY <1>0, <1>4, <2>1, <2>2, <2>3, Zenon DEF Grows
<1>6. /\ SendOK(MarkSent(send[e], S, current_time[e]), sent[e])
      /\ \A id, i : Gone(MarkSent(send[e], S, current_time[e]), id, i) <=> Gone(send[e], id, i)
  BY <1>1, MarkSentOK
<1>7. ChannelsOK'
  <2> SUFFICES ASSUME NEW f \in Endpoints
               PROVE  /\ SendOK(send'[f], sent'[f])
                      /\ ReceiveOK(receive'[f], sent'[Peer(f)], DeliveredIds(f)')
    BY DEF ChannelsOK
  <2>1. ReceiveOK(receive[f], sent[Peer(f)], DeliveredIds(f)) /\ DeliveredIds(f)' = DeliveredIds(f)
    BY Zenon DEF IInv, ChannelsOK, DeliveredIds
  <2>2. SendOK(send'[f], sent[f])
    BY <1>1, <1>2, <1>6, Zenon
  <2> QED BY <2>1, <2>2, SMTT(20)
<1>8. ASSUME NEW p \in out
      PROVE  PacketOK(p)'
  <2>1. p.from = e /\ p.seq \in Nat /\ p.seq < packet_sequence'[e]
    BY <1>0, <1>2, Zenon DEF Sendable
  <2>2. \A x \in p.parts : PartOK(e, x)'
    BY <1>0 DEF Sendable, PartOK
  <2>3. p.acks \in Seq(Ranges) /\ Separated(p.acks)
    BY <1>0, OutAcks, Zenon
  <2>4. /\ p.sliced => \A x, y \in p.parts : x = y
        /\ p.acks # <<>> => p.parts = {}
    BY <1>0 DEF Sendable
  <2> QED BY <2>1, <2>2, <2>3, <2>4, SMTT(20) DEF PacketOK
<1>9. Numbered'
  <2>1. \A p \in packets' : PacketOK(p)'
    BY <1>0, <1>3, <1>5, <1>8, PacketStays, SMTT(20)
  <2>2. \A p \in packets : \A q \in out : ~ (p.from = q.from /\ p.seq = q.seq)
    <3> SUFFICES ASSUME NEW p \in packets, NEW q \in out, p.from = q.from, p.seq = q.seq
                 PROVE  FALSE
      OBVIOUS
    <3>1. p.seq \in Nat /\ p.seq < packet_sequence[p.from]
      BY DEF IInv, Numbered, PacketOK
    <3>2. q.from = e /\ packet_sequence[e] <= q.seq
      BY <1>0 DEF Sendable
    <3>3. packet_sequence[e] \in Nat
      BY <1>1
    <3> QED BY <3>1, <3>2, <3>3, SMTT(20)
  <2>3. \A p, q \in packets' : p.from = q.from /\ p.seq = q.seq => p = q
    <3> SUFFICES ASSUME NEW p \in packets', NEW q \in packets', p.from = q.from, p.seq = q.seq
                 PROVE  p = q
      BY Zenon
    <3>1. CASE p \in packets /\ q \in packets
      BY <3>1, Zenon DEF IInv, Numbered
    <3>2. CASE p \in out /\ q \in out
      BY <1>0, <3>2, Zenon
    <3>3. CASE p \in packets /\ q \in out
      BY <2>2, <3>3, Zenon
    <3>4. CASE p \in out /\ q \in packets
      BY <2>2, <3>4
    <3> QED BY <1>0, <3>1, <3>2, <3>3, <3>4, Zenon
  <2> QED BY <2>1, <2>3, SMTT(20) DEF Numbered
<1>10. SentOK'
  <2> SUFFICES ASSUME NEW f \in Endpoints, NEW n \in DOMAIN sent_packets'[f]
               PROVE  /\ \E p \in packets' :
                           /\ p.from = f /\ p.seq = n
                           /\ sent_packets'[f][n].parts = {<<x[1], x[3]>> : x \in p.parts}
                      /\ \/ sent_packets'[f][n].largest = NoAck
                         \/ /\ sent_packets'[f][n].largest \in Nat
                            /\ sent_packets'[f][n].largest < packet_sequence'[Peer(f)]
    BY Zenon DEF SentOK
  <2>1. CASE f # e
    <3>1. sent_packets'[f] = sent_packets[f]
      BY <1>2, <2>1, Zenon
    <3>2. /\ \E p \in packets' : /\ p.from = f /\ p.seq = n
                                 /\ sent_packets[f][n].parts = {<<x[1], x[3]>> : x \in p.parts}
          /\ \/ sent_packets[f][n].largest = NoAck
             \/ /\ sent_packets[f][n].largest \in Nat
                /\ sent_packets[f][n].largest < packet_sequence'[Peer(f)]
      BY <1>3, <1>5, <3>1, SentStays, Zenon
    <3> QED BY <3>1, <3>2, Zenon
  <2>2. CASE f = e /\ n \notin seqs
    <3>1. n \in DOMAIN sent_packets[e] /\ sent_packets'[e][n] = sent_packets[e][n]
      BY <1>2, <2>2, Zenon
    <3>2. /\ \E p \in packets' : /\ p.from = e /\ p.seq = n
                                 /\ sent_packets[e][n].parts = {<<x[1], x[3]>> : x \in p.parts}
          /\ \/ sent_packets[e][n].largest = NoAck
             \/ /\ sent_packets[e][n].largest \in Nat
                /\ sent_packets[e][n].largest < packet_sequence'[Peer(e)]
      BY <1>3, <1>5, <3>1, SentStays, Zenon
    <3> QED BY <2>2, <3>1, <3>2, Zenon
  <2>3. CASE f = e /\ n \in seqs
    <3> DEFINE c == CHOOSE p \in out : p.seq = n
    <3>1. c \in out /\ c.seq = n
      <4>1. \E p \in out : p.seq = n
        BY <2>3
      <4> QED BY <4>1
    <3> HIDE DEF c
    <3>2. sent_packets'[e][n] = Info(c, current_time[e])
      BY <1>2, <2>3, Zenon DEF c
    <3>3. /\ sent_packets'[e][n].parts = {<<x[1], x[3]>> : x \in c.parts}
          /\ sent_packets'[e][n].largest = IF c.acks = <<>> THEN NoAck ELSE LargestAcked(c.acks)
      BY <3>2, InfoFacts, Zenon
    <3>4. c \in packets' /\ c.from = e
      BY <1>0, <3>1, Zenon DEF Sendable
    <3>5. c.acks # <<>> => LargestAcked(c.acks) \in Nat
                           /\ LargestAcked(c.acks) < packet_sequence'[Peer(e)]
      <4>1. c.acks \in Seq(Ranges) /\ \A k \in Covered(c.acks) : k < packet_sequence[Peer(e)]
        BY <1>0, <3>1, OutAcks, Zenon
      <4> QED BY <1>1, <1>2, <4>1, LargestCovered, Zenon
    <3> QED BY <2>3, <3>1, <3>3, <3>4, <3>5
  <2> QED BY <2>1, <2>2, <2>3, Zenon
<1>11. NothingAckedIsMissing'
  <2>1. ASSUME NEW f \in Endpoints
        PROVE  \A id, i : Gone(send'[f], id, i) => Gone(send[f], id, i)
    <3>1. CASE f = e
      BY <1>2, <1>6, <3>1, Zenon
    <3>2. CASE f # e
      <4>1. send'[f] = send[f]
        BY <1>2, <3>2, Zenon
      <4> QED BY <4>1
    <3> QED BY <3>1, <3>2, Zenon
  <2> QED BY <1>3, <1>5, <2>1, NothingGetsLost, Zenon
<1>12. \A f \in Endpoints : PendingOK(f)'
  <2> SUFFICES ASSUME NEW f \in Endpoints PROVE PendingOK(f)'
    BY Zenon
  <2> QED BY <1>3, <1>5, PendingStays, SMTT(20)
<1>13. \A p \in packets' \ packets : /\ \A n \in Covered(p.acks) : n < packet_sequence'[Peer(p.from)]
                                     /\ AckedIsHeld(p.from, p.acks)'
  <2> SUFFICES ASSUME NEW p \in out
               PROVE  /\ \A n \in Covered(p.acks) : n < packet_sequence'[Peer(p.from)]
                      /\ AckedIsHeld(p.from, p.acks)'
    BY <1>0, Zenon
  <2>1. p.from = e
    BY <1>0, Zenon DEF Sendable
  <2>2. /\ p.acks \in Seq(Ranges) /\ AckedIsHeld(e, p.acks)
        /\ \A n \in Covered(p.acks) : n < packet_sequence[Peer(e)]
    BY <1>0, OutAcks, Zenon
  <2>3. AckedIsHeld(e, p.acks)'
    BY <1>5, <2>2, HeldStays, Zenon
  <2> QED BY <1>1, <1>2, <2>1, <2>2, <2>3, Zenon
<1> QED BY <1>3, <1>5, <1>7, <1>9, <1>10, <1>11, <1>12, <1>13, StepOK

LEMMA GetPacketsToSendOK ==
  ASSUME IInv, NEW e \in Endpoints, NEW avail \in AvailableBytes, GetPacketsToSend(e, avail)
  PROVE  IInv'
<1> DEFINE all(S, C) == DataPackets(e, S, C)
                          \cup AckPackets(e, packet_sequence[e] + Cardinality(DataPackets(e, S, C)))
<1>1. PICK S \in SUBSET Due(send[e], current_time[e]) : \E C \in SUBSET Small(send[e], S) :
        Push(e, S, all(S, C), {p.seq : p \in all(S, C)})
  BY Zenon DEF GetPacketsToSend, Push
<1>2. PICK C \in SUBSET Small(send[e], S) : Push(e, S, all(S, C), {p.seq : p \in all(S, C)})
  BY <1>1, Zenon
<1>3. PICK out : out = all(S, C)
  BY Zenon
<1>4. PICK seqs : seqs = {p.seq : p \in out}
  BY Zenon
<1>5. OutOK(e, out)
  <2>1. PICK data : data = DataPackets(e, S, C)
    OBVIOUS
  <2>2. DataOK(e, data)
    BY <2>1, DataFacts
  <2>3. out = data \cup AckPackets(e, packet_sequence[e] + Cardinality(data))
    BY <1>3, <2>1, Zenon
  <2> QED BY <2>2, <2>3, OutFacts
<1>6. Push(e, S, out, seqs)
  <2> HIDE DEF all
  <2> QED BY <1>2, <1>3, <1>4, SMTT(20)
<1>7. /\ ~ disconnected[e]
      /\ UNCHANGED <<disconnected, current_time, pending_acks, receive, sent, delivered>>
  BY DEF GetPacketsToSend
<1> QED BY <1>4, <1>5, <1>6, <1>7, PushOK, Zenon

-----------------------------------------------------------------------------
LEMMA NewReceiveOK ==
  ASSUME NEW ordered
  PROVE  ReceiveOK(NewReceive(ordered), <<>>, {})
<1> DEFINE ch == NewReceive(ordered)
<1>1. /\ DOMAIN ch = ReceiveFields /\ ch.oldest = 0 /\ ch.received = {}
      /\ DOMAIN ch.messages = {} /\ DOMAIN ch.slices = {}
  BY Zenon DEF NewReceive, ReceiveFields
<1> HIDE DEF ch
<1>2. 0 .. ch.oldest - 1 = {} /\ ch.oldest \in Nat
  BY <1>1
<1>3. ReceiveOK(ch, <<>>, {})
  BY <1>1, <1>2, Zenon DEF ReceiveOK
<1> QED BY <1>3 DEF ch

LEMMA InitIInv == Init => IInv
<1> SUFFICES ASSUME Init PROVE IInv
  OBVIOUS
<1>1. PICK ordered \in Orders : receive = [e \in Endpoints |-> NewReceive(ordered)]
  BY DEF Init
<1>2. Types
  BY <1>1 DEF Init, Types
<1>3. \A e \in Endpoints : sent[e] = <<>> /\ delivered[e] = <<>> /\ DeliveredIds(e) = {}
  BY DEF Init, DeliveredIds
<1>4. ChannelsOK
  <2> SUFFICES ASSUME NEW e \in Endpoints
               PROVE  SendOK(send[e], sent[e]) /\ ReceiveOK(receive[e], sent[Peer(e)], DeliveredIds(e))
    BY DEF ChannelsOK
  <2>1. send[e] = NewSend /\ receive[e] = NewReceive(ordered) /\ sent[Peer(e)] = <<>>
    BY <1>1, <1>3, PeerFacts DEF Init
  <2>2. SendOK(NewSend, <<>>)
    BY DEF SendOK, NewSend, SendChannel
  <2> QED BY <1>3, <2>1, <2>2, NewReceiveOK, Zenon
<1>5. Numbered
  BY DEF Init, Numbered
<1>6. SentOK
  <2>1. \A e \in Endpoints : DOMAIN sent_packets[e] = {}
    BY DEF Init
  <2> QED BY <2>1 DEF SentOK
<1>7. AcksOK
  <2>1. \A e \in Endpoints : pending_acks[e] = <<>>
    BY DEF Init
  <2>2. packets = {}
    BY DEF Init
  <2> QED BY <2>1, <2>2, NoneCovered, Zenon DEF AcksOK, AckedIsHeld
<1>8. NothingAckedIsMissing
  <2>1. \A e \in Endpoints : Len(sent[e]) = 0
    BY <1>3
  <2>2. \A e \in Endpoints : 0 .. Len(sent[e]) - 1 = {}
    BY <2>1
  <2> QED BY <2>2, Zenon DEF NothingAckedIsMissing
<1> QED BY <1>2, <1>4, <1>5, <1>6, <1>7, <1>8 DEF IInv

LEMMA NextIInv == IInv /\ [Next]_vars => IInv'
<1> SUFFICES ASSUME IInv, [Next]_vars PROVE IInv'
  OBVIOUS
<1>1. CASE UNCHANGED vars
  <2>1. Types'
    BY <1>1, Zenon DEF vars, IInv, Types
  <2> QED BY <1>1, <2>1, QuietStep, Zenon DEF vars
<1>2. ASSUME NEW e \in Endpoints, NEW m \in Messages, AppSend(e, m) PROVE IInv'
  BY <1>2, AppSendOK
<1>3. ASSUME NEW e \in Endpoints, AppReceive(e) PROVE IInv'
  BY <1>3, AppReceiveOK
<1>4. ASSUME NEW e \in Endpoints, Disconnect(e) PROVE IInv'
  BY <1>4, DisconnectOK, Zenon DEF Disconnect
<1>5. ASSUME NEW e \in Endpoints, Update(e) PROVE IInv'
  BY <1>5, UpdateOK
<1>6. ASSUME NEW e \in Endpoints, NEW avail \in AvailableBytes, GetPacketsToSend(e, avail)
      PROVE  IInv'
  BY <1>6, GetPacketsToSendOK, SMTT(20)
<1>7. ASSUME NEW e \in Endpoints, NEW p \in Incoming(e), ProcessSmallReliable(e, p) PROVE IInv'
  BY <1>7, ProcessSmallReliableOK, SMTT(20)
<1>8. ASSUME NEW e \in Endpoints, NEW p \in Incoming(e), ProcessReliableSlice(e, p) PROVE IInv'
  BY <1>8, ProcessReliableSliceOK, SMTT(20)
<1>9. ASSUME NEW e \in Endpoints, NEW p \in Incoming(e), ProcessAck(e, p) PROVE IInv'
  BY <1>9, ProcessAckOK, SMTT(20)
<1> QED BY <1>1, <1>2, <1>3, <1>4, <1>5, <1>6, <1>7, <1>8, <1>9 DEF Next

LEMMA SpecIInv == Spec => []IInv
BY InitIInv, NextIInv, PTL DEF Spec

-----------------------------------------------------------------------------
\* What the applications see of a step.
Seen == <<{e \in Endpoints : receive[e].ordered}, sent, delivered>>

LEMMA SendIsPromised ==
  ASSUME IInv, NEW e \in Endpoints, NEW m \in Messages, AppSend(e, m)
  PROVE  [Promise!Next]_Seen
<1>1. CASE CanSendMessage(send[e], m)
  <2>1. Promise!Send(e, m)
    BY <1>1, Zenon DEF AppSend, Promise!Send
  <2> QED BY <2>1 DEF Promise!Next
<1>2. CASE ~ CanSendMessage(send[e], m)
  BY <1>2, Zenon DEF AppSend, Seen
<1> QED BY <1>1, <1>2, SMTT(20)

LEMMA ReceiveIsPromised ==
  ASSUME IInv, NEW e \in Endpoints, AppReceive(e)
  PROVE  [Promise!Next]_Seen
<1>1. PICK id \in Ready(receive[e]) :
        /\ receive' = [receive EXCEPT ![e] = ReceiveMessage(@, id)]
        /\ delivered' = [delivered EXCEPT
             ![e] = Append(@, [id |-> id, message |-> receive[e].messages[id]])]
  BY Zenon DEF AppReceive
<1>2. /\ \A f \in Endpoints \ {e} : receive'[f] = receive[f]
      /\ id \in 0 .. Len(sent[Peer(e)]) - 1 /\ id \notin DeliveredIds(e)
      /\ receive[e].messages[id] = sent[Peer(e)][id + 1]
      /\ receive[e].ordered => \A j \in Nat : j < id => j \in DeliveredIds(e)
      /\ receive'[e].ordered = receive[e].ordered
  BY <1>1, ReceiveFacts, Zenon
<1>3. \A j : j \in Promise!Undelivered(e) <=>
               j \in 0 .. Len(sent[Peer(e)]) - 1 /\ j \notin DeliveredIds(e)
  BY DEF Promise!Undelivered, DeliveredIds
<1>4. id \in Promise!Undelivered(e)
  BY <1>2, <1>3, Zenon
<1>5. receive[e].ordered => \A j \in Promise!Undelivered(e) : id <= j
  <2>1. Len(sent[Peer(e)]) \in Nat
    BY PeerFacts DEF IInv, Types
  <2> QED BY <1>2, <1>3, <2>1
<1>6. \A f \in Endpoints : receive'[f].ordered = receive[f].ordered
  BY <1>2
<1>7. sent' = sent
  BY DEF AppReceive
<1>8. delivered' = [delivered EXCEPT ![e] = Append(@, [id |-> id, message |-> sent[Peer(e)][id + 1]])]
  BY <1>1, <1>2, Zenon
<1>9. {f \in Endpoints : receive'[f].ordered} = {f \in Endpoints : receive[f].ordered}
  BY <1>6
<1>10. Promise!Deliver(e, id)
  BY <1>4, <1>5, <1>7, <1>8, <1>9, Zenon DEF Promise!Deliver
<1> QED BY <1>4, <1>10 DEF Promise!Next

LEMMA StepIsPromised == IInv /\ [Next]_vars => [Promise!Next]_Seen
<1> SUFFICES ASSUME IInv, [Next]_vars PROVE [Promise!Next]_Seen
  OBVIOUS
<1>1. CASE UNCHANGED vars
  BY <1>1 DEF vars, Seen
<1>2. ASSUME NEW e \in Endpoints, NEW m \in Messages, AppSend(e, m) PROVE [Promise!Next]_Seen
  BY <1>2, SendIsPromised
<1>3. ASSUME NEW e \in Endpoints, AppReceive(e) PROVE [Promise!Next]_Seen
  BY <1>3, ReceiveIsPromised, SMTT(20)
<1>4. ASSUME NEW e \in Endpoints, Disconnect(e) PROVE Seen' = Seen
  BY <1>4 DEF Disconnect, Seen
<1>5. ASSUME NEW e \in Endpoints, Update(e) PROVE Seen' = Seen
  BY <1>5 DEF Update, Seen
<1>6. ASSUME NEW e \in Endpoints, NEW avail \in AvailableBytes, GetPacketsToSend(e, avail)
      PROVE  Seen' = Seen
  BY <1>6, Zenon DEF GetPacketsToSend, Seen
<1>7. ASSUME NEW e \in Endpoints, NEW p \in Incoming(e), ProcessSmallReliable(e, p)
      PROVE  Seen' = Seen
  <2>1. sent' = sent /\ delivered' = delivered
    BY <1>7, Zenon DEF ProcessSmallReliable, ProcessReliable
  <2>2. \A f \in Endpoints : receive'[f].ordered = receive[f].ordered
    BY <1>7, ProcessSmallReliableOK
  <2> QED BY <2>1, <2>2 DEF Seen
<1>8. ASSUME NEW e \in Endpoints, NEW p \in Incoming(e), ProcessReliableSlice(e, p)
      PROVE  Seen' = Seen
  <2>1. sent' = sent /\ delivered' = delivered
    BY <1>8, Zenon DEF ProcessReliableSlice, ProcessReliable
  <2>2. \A f \in Endpoints : receive'[f].ordered = receive[f].ordered
    BY <1>8, ProcessReliableSliceOK, SMTT(20)
  <2> QED BY <2>1, <2>2 DEF Seen
<1>9. ASSUME NEW e \in Endpoints, NEW p \in Incoming(e), ProcessAck(e, p) PROVE Seen' = Seen
  BY <1>9, Zenon DEF ProcessAck, Seen
<1> QED BY <1>1, <1>2, <1>3, <1>4, <1>5, <1>6, <1>7, <1>8, <1>9, SMTT(20) DEF Next

LEMMA InitIsPromised == Init => Promise!Init
BY DEF Init, Promise!Init

-----------------------------------------------------------------------------
(***************************************************************************)
(* The variables of both RenetClients keep their types: the packets        *)
(* waiting for an acknowledgement were sent (sent_packets), the messages   *)
(* waiting for one were handed to send_message (unacked_messages), and no  *)
(* packet has a number its sender has not reached (packet_sequence).       *)
(***************************************************************************)
THEOREM TypesStayCorrect == Spec => []TypeOK
<1>1. IInv => TypeOK
  <2> SUFFICES ASSUME IInv PROVE TypeOK
    OBVIOUS
  <2>1. ASSUME NEW e \in Endpoints
        PROVE  /\ DOMAIN sent_packets[e] \subseteq 0 .. packet_sequence[e] - 1
               /\ send[e].next_id = Len(sent[e])
               /\ DOMAIN send[e].unacked \subseteq 0 .. send[e].next_id - 1
               /\ receive[e].oldest \in Nat
               /\ \A p \in Incoming(e) : p.seq < packet_sequence[Peer(e)]
    <3>1. /\ send[e].next_id = Len(sent[e]) /\ receive[e].oldest \in Nat
          /\ DOMAIN send[e].unacked \subseteq 0 .. send[e].next_id - 1
      BY Zenon DEF IInv, ChannelsOK, SendOK, ReceiveOK
    <3>2. \A p \in packets : p.seq \in Nat /\ p.seq < packet_sequence[p.from]
      BY Zenon DEF IInv, Numbered, PacketOK
    <3>3. \A n \in DOMAIN sent_packets[e] : \E p \in packets : p.from = e /\ p.seq = n
      BY DEF IInv, SentOK
    <3>4. packet_sequence[e] \in Nat
      BY DEF IInv, Types
    <3>5. DOMAIN sent_packets[e] \subseteq 0 .. packet_sequence[e] - 1
      BY <3>2, <3>3, <3>4
    <3>6. \A p \in Incoming(e) : p.seq < packet_sequence[Peer(e)]
      BY <3>2 DEF Incoming
    <3> QED BY <3>1, <3>5, <3>6, Zenon
  <2> QED BY <2>1, Zenon DEF TypeOK, IInv, Types
<1> QED BY <1>1, SpecIInv, PTL

(***************************************************************************)
(* A message leaves unacked_messages, and a slice of it is marked acked,   *)
(* only when the peer has it (process_message_ack,                         *)
(* process_slice_message_ack, add_pending_ack), with any number of         *)
(* packets that are lost, repeated and reordered, and any resending.       *)
(***************************************************************************)
THEOREM NothingAckedGetsLost == Spec => []NothingAckedIsMissing
<1>1. IInv => NothingAckedIsMissing
  BY DEF IInv
<1> QED BY <1>1, SpecIInv, PTL

(***************************************************************************)
(* The connection implements ReliableDelivery: receive_message gives each  *)
(* message at most once, as send_message was given it, and in an ordered   *)
(* channel in the order of the send_message calls.                         *)
(***************************************************************************)
THEOREM ConnectionDeliversReliably == Spec => DeliversReliably
<1>1. Init => Promise!Init
  BY InitIsPromised
<1>2. IInv /\ [Next]_vars => [Promise!Next]_<<{e \in Endpoints : receive[e].ordered}, sent, delivered>>
  BY StepIsPromised DEF Seen
<1> QED BY <1>1, <1>2, SpecIInv, PTL DEF Spec, DeliversReliably, Promise!Spec

(***************************************************************************)
(* The memory counters.  MemoryIsAccounted speaks of the messages as the   *)
(* channels have them, which IInv says to be those that were sent; Used is *)
(* the same of the sent ones.                                              *)
(***************************************************************************)
Used(e) == SendMemoryOK(send[e], sent[e]) /\ ReceiveMemoryOK(receive[e], sent[Peer(e)])

MemoryUsed == \A e \in Endpoints : Used(e)

LEMMA MemoryFacts ==
  ASSUME IInv, MemoryUsed, NEW e \in Endpoints
  PROVE  /\ sent[e] \in Seq(Messages) /\ sent[Peer(e)] \in Seq(Messages) /\ Peer(e) \in Endpoints
         /\ SendOK(send[e], sent[e]) /\ SendMemoryOK(send[e], sent[e])
         /\ ReceiveOK(receive[e], sent[Peer(e)], DeliveredIds(e))
         /\ ReceiveMemoryOK(receive[e], sent[Peer(e)])
         /\ DOMAIN send = Endpoints /\ DOMAIN receive = Endpoints /\ DOMAIN sent = Endpoints
<1>1. Peer(e) \in Endpoints
  BY PeerFacts
<1>2. \A f \in Endpoints : sent[f] \in Seq(Messages)
  BY CountFacts
<1>3. DOMAIN send = Endpoints /\ DOMAIN receive = Endpoints /\ DOMAIN sent = Endpoints
  BY DEF IInv, Types
<1> QED BY <1>1, <1>2, <1>3, Zenon DEF IInv, ChannelsOK, MemoryUsed, Used

\* A step that changes one receiving channel.
LEMMA ReceivingStep ==
  ASSUME IInv, MemoryUsed, NEW e \in Endpoints, NEW ch, ReceiveMemoryOK(ch, sent[Peer(e)]),
         receive' = [receive EXCEPT ![e] = ch], UNCHANGED <<send, sent>>
  PROVE  MemoryUsed'
<1> SUFFICES ASSUME NEW f \in Endpoints PROVE Used(f)'
  BY DEF MemoryUsed
<1>1. receive'[e] = ch /\ (f # e => receive'[f] = receive[f])
  BY MemoryFacts
<1>2. ReceiveMemoryOK(receive'[f], sent[Peer(f)]) /\ SendMemoryOK(send[f], sent[f])
  BY <1>1, MemoryFacts, SMTT(20)
<1> QED BY <1>2 DEF Used

\* A step that changes one sending channel.
LEMMA SendingStep ==
  ASSUME IInv, MemoryUsed, NEW e \in Endpoints, NEW ch, SendMemoryOK(ch, sent[e]),
         send' = [send EXCEPT ![e] = ch], UNCHANGED <<receive, sent>>
  PROVE  MemoryUsed'
<1> SUFFICES ASSUME NEW f \in Endpoints PROVE Used(f)'
  BY DEF MemoryUsed
<1>1. send'[e] = ch /\ (f # e => send'[f] = send[f])
  BY MemoryFacts
<1>2. ReceiveMemoryOK(receive[f], sent[Peer(f)]) /\ SendMemoryOK(send'[f], sent[f])
  BY <1>1, MemoryFacts, Zenon
<1> QED BY <1>2 DEF Used

LEMMA AppSendMemory ==
  ASSUME IInv, MemoryUsed, NEW e \in Endpoints, NEW m \in Messages, AppSend(e, m)
  PROVE  MemoryUsed'
<1>1. CASE ~ CanSendMessage(send[e], m)
  BY <1>1, SMTT(20) DEF AppSend, MemoryUsed, Used
<1>2. CASE CanSendMessage(send[e], m)
  <2> SUFFICES ASSUME NEW f \in Endpoints PROVE Used(f)'
    BY DEF MemoryUsed
  <2>1. /\ send' = [send EXCEPT ![e] = SendMessage(@, m)]
        /\ sent' = [sent EXCEPT ![e] = Append(@, m)] /\ receive' = receive
    BY <1>2, Zenon DEF AppSend
  <2>2. /\ send'[e] = SendMessage(send[e], m) /\ sent'[e] = Append(sent[e], m)
        /\ f # e => send'[f] = send[f] /\ sent'[f] = sent[f]
        /\ Peer(f) # e => sent'[Peer(f)] = sent[Peer(f)]
    BY <2>1, MemoryFacts, Zenon
  <2>3. SendMemoryOK(send'[f], sent'[f])
    <3>1. SendMemoryOK(SendMessage(send[e], m), Append(sent[e], m))
      BY <1>2, MemoryFacts, SendMessageMemory, Zenon
    <3> QED BY <2>2, <3>1, MemoryFacts, Zenon
  <2>4. ReceiveMemoryOK(receive[f], sent'[Peer(f)])
    <3>1. ReceiveMemoryOK(receive[f], Append(sent[Peer(f)], m))
      BY MemoryFacts, GrowMemory, Zenon
    <3> QED BY <2>2, <3>1, MemoryFacts, Zenon
  <2> QED BY <2>1, <2>3, <2>4, SMTT(20) DEF Used
<1> QED BY <1>1, <1>2, SMTT(20)

LEMMA NextMemory == IInv /\ MemoryUsed /\ [Next]_vars => MemoryUsed'
<1> SUFFICES ASSUME IInv, MemoryUsed, [Next]_vars PROVE MemoryUsed'
  OBVIOUS
<1>1. ASSUME UNCHANGED <<send, receive, sent>> PROVE MemoryUsed'
  BY <1>1 DEF MemoryUsed, Used
<1>2. ASSUME NEW e \in Endpoints, NEW m \in Messages, AppSend(e, m) PROVE MemoryUsed'
  BY <1>2, AppSendMemory
<1>3. ASSUME NEW e \in Endpoints, AppReceive(e) PROVE MemoryUsed'
  <2>1. PICK id \in Ready(receive[e]) : receive' = [receive EXCEPT ![e] = ReceiveMessage(@, id)]
    BY <1>3, Zenon DEF AppReceive
  <2>2. UNCHANGED <<send, sent>>
    BY <1>3 DEF AppReceive
  <2>3. ReceiveMemoryOK(ReceiveMessage(receive[e], id), sent[Peer(e)])
    BY MemoryFacts, ReceiveMessageMemory, Zenon
  <2> QED BY <2>1, <2>2, <2>3, ReceivingStep, Zenon
<1>4. ASSUME NEW e \in Endpoints, Disconnect(e) \/ Update(e) PROVE UNCHANGED <<send, receive, sent>>
  BY <1>4, Zenon DEF Disconnect, Update
<1>5. ASSUME NEW e \in Endpoints, NEW avail \in AvailableBytes, GetPacketsToSend(e, avail)
      PROVE  MemoryUsed'
  <2>1. PICK S \in SUBSET Due(send[e], current_time[e]) :
          send' = [send EXCEPT ![e] = MarkSent(@, S, current_time[e])]
    BY <1>5, Zenon DEF GetPacketsToSend
  <2>2. UNCHANGED <<receive, sent>>
    BY <1>5, Zenon DEF GetPacketsToSend
  <2>3. SendMemoryOK(MarkSent(send[e], S, current_time[e]), sent[e])
    BY MemoryFacts, MarkSentMemory, Zenon
  <2> QED BY <2>1, <2>2, <2>3, SendingStep, Zenon
<1>6. ASSUME NEW e \in Endpoints, NEW p \in Incoming(e), ProcessSmallReliable(e, p)
      PROVE  MemoryUsed'
  <2> DEFINE batch == {<<x[1], x[2]>> : x \in p.parts}
  <2>1. /\ receive' = [receive EXCEPT ![e] = ProcessMessages(receive[e], batch).channel]
        /\ UNCHANGED <<send, sent>>
    BY <1>6, Zenon DEF ProcessSmallReliable, ProcessReliable
  <2>2. BatchOK(batch, sent[Peer(e)])
    BY IncomingParts DEF BatchOK
  <2> HIDE DEF batch
  <2>3. ReceiveMemoryOK(ProcessMessages(receive[e], batch).channel, sent[Peer(e)])
    BY <2>2, MemoryFacts, SmallMessagesMemory, Zenon
  <2> QED BY <2>1, <2>3, ReceivingStep, Zenon
<1>7. ASSUME NEW e \in Endpoints, NEW p \in Incoming(e), ProcessReliableSlice(e, p)
      PROVE  MemoryUsed'
  <2>1. PICK x \in p.parts : ProcessReliable(e, p, ProcessSlice(receive[e], x[1], x[2], x[3]))
    BY <1>7, Zenon DEF ProcessReliableSlice
  <2> DEFINE M == sent[Peer(e)]
             ch == ProcessSlice(receive[e], x[1], x[2], x[3]).channel
  <2>2. x[1] \in 0 .. Len(M) - 1 /\ x[3] \in Indices(M[x[1] + 1]) /\ x[2] = M[x[1] + 1]
    BY IncomingParts
  <2>3. receive' = [receive EXCEPT ![e] = ch] /\ UNCHANGED <<send, sent>>
    BY <2>1, Zenon DEF ProcessReliable
  <2>4. ReceiveMemoryOK(ch, M)
    BY <2>2, MemoryFacts, ProcessSliceMemory, Zenon
  <2> HIDE DEF ch
  <2> QED BY <2>3, <2>4, ReceivingStep, Zenon
<1>8. ASSUME NEW e \in Endpoints, NEW p \in Incoming(e), ProcessAck(e, p) PROVE MemoryUsed'
  <2>1. PICK parts : send' = [send EXCEPT ![e] = ProcessAcks(@, parts)]
    BY <1>8, Zenon DEF ProcessAck
  <2>2. UNCHANGED <<receive, sent>>
    BY <1>8, Zenon DEF ProcessAck
  <2>3. SendMemoryOK(ProcessAcks(send[e], parts), sent[e])
    BY MemoryFacts, ProcessAcksMemory, Zenon
  <2> QED BY <2>1, <2>2, <2>3, SendingStep, Zenon
<1>9. UNCHANGED vars => UNCHANGED <<send, receive, sent>>
  BY DEF vars
<1> QED BY <1>1, <1>2, <1>3, <1>4, <1>5, <1>6, <1>7, <1>8, <1>9, SMTT(20) DEF Next

LEMMA InitMemory == Init => MemoryUsed
<1> SUFFICES ASSUME Init, NEW e \in Endpoints PROVE Used(e)
  BY DEF MemoryUsed
<1>1. PICK ordered \in Orders : receive = [f \in Endpoints |-> NewReceive(ordered)]
  BY DEF Init
<1>2. send[e] = NewSend /\ receive[e] = NewReceive(ordered)
  BY <1>1 DEF Init
<1>3. /\ DOMAIN NewSend.unacked = {} /\ NewSend.memory = 0
      /\ DOMAIN NewReceive(ordered).messages = {} /\ DOMAIN NewReceive(ordered).slices = {}
      /\ NewReceive(ordered).memory = 0
  BY DEF NewSend, SendChannel, NewReceive
<1>4. 0 <= MaxSendMemory /\ 0 <= MaxReceiveMemory /\ 0 = 0 + 0
  BY SendChannelAssumption, ReceiveChannelAssumption
<1> QED BY <1>2, <1>3, <1>4, SumEmpty, Zenon DEF Used, SendMemoryOK, ReceiveMemoryOK

(***************************************************************************)
(* memory_usage_bytes of both channels is the memory in use, whatever      *)
(* comes late, twice or in pieces, and stays in the limit: no error path   *)
(* of process_message and process_slice leaves a reservation behind or     *)
(* gives one back twice, and no subtraction goes below zero.               *)
(***************************************************************************)
THEOREM MemoryStaysAccounted == Spec => []MemoryIsAccounted
<1>1. IInv /\ MemoryUsed => MemoryIsAccounted
  <2> SUFFICES ASSUME IInv, MemoryUsed, NEW e \in Endpoints
               PROVE  LET s == send[e]
                          r == receive[e]
                      IN  /\ s.memory = SumFunction(MessageSizes(s))
                          /\ r.memory = SumFunction([id \in DOMAIN r.messages |-> Size[r.messages[id]]])
                                + SumFunction([id \in DOMAIN r.slices |-> ReservedBytes(sent[Peer(e)][id + 1])])
                          /\ s.memory <= MaxSendMemory /\ r.memory <= MaxReceiveMemory
    BY Zenon DEF MemoryIsAccounted
  <2>1. SumFunction(MessageSizes(send[e])) = SumFunctionOnSet(Lengths(sent[e]), DOMAIN send[e].unacked)
    BY MemoryFacts, MemoryInUse, Zenon
  <2>2. /\ SumFunction([id \in DOMAIN receive[e].messages |-> Size[receive[e].messages[id]]])
             = SumFunctionOnSet(Lengths(sent[Peer(e)]), DOMAIN receive[e].messages)
        /\ SumFunction([id \in DOMAIN receive[e].slices |-> ReservedBytes(sent[Peer(e)][id + 1])])
             = SumFunctionOnSet(Reserves(sent[Peer(e)]), DOMAIN receive[e].slices)
    BY MemoryFacts, MemoryInUse, Zenon
  <2>3. SendMemoryOK(send[e], sent[e]) /\ ReceiveMemoryOK(receive[e], sent[Peer(e)])
    BY MemoryFacts, Zenon
  <2> QED BY <2>1, <2>2, <2>3, Zenon DEF SendMemoryOK, ReceiveMemoryOK
<1> QED BY <1>1, InitMemory, NextMemory, SpecIInv, PTL DEF Spec
=============================================================================
