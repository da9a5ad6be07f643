-------------------------- MODULE RenetConnection --------------------------
(***************************************************************************)
(* Two RenetClients, one at each end of a connection, with one reliable    *)
(* channel in each direction and a network that loses, repeats and         *)
(* reorders packets between them.                                          *)
(*                                                                         *)
(* packets is every packet that was ever handed to the network: a packet   *)
(* may be processed at any later time, any number of times, or never.      *)
(* A packet carries `parts` (pieces of reliable messages, <<id, m, i>>) or *)
(* `acks` (the ranges of an Ack packet).  sent_packets keeps, as           *)
(* PacketSentInfo, the <<id, i>> of the parts or largest_acked_packet.     *)
(*                                                                         *)
(* sent and delivered are history variables: what the application of an    *)
(* endpoint handed to send_message, and what receive_message gave it.      *)
(*                                                                         *)
(* get_packets_to_send divides available_bytes_per_tick among the channels *)
(* in the order of the configuration; the other channels are not here, so  *)
(* this one is offered any amount of bytes they may have left.             *)
(***************************************************************************)
EXTENDS SendChannelReliable, ReceiveChannelReliable, AckRanges

CONSTANTS AvailableBytes,   \* what the channels before this one may leave
          DiscardAfter,     \* DISCARD_AFTER
          Orders,           \* the kinds of channels: TRUE for ordered, FALSE for unordered
          Outgoing,         \* bound: messages the application of each endpoint sends
          MaxPackets,       \* bound: packets each endpoint sends
          MaxTime,          \* bound: ticks of the clock of each endpoint
          Quitters          \* bound: endpoints whose application may disconnect

Endpoints == {"client", "server"}

Peer(e) == IF e = "client" THEN "server" ELSE "client"

ASSUME ConnectionAssumption ==
  /\ AvailableBytes \subseteq Nat /\ Orders \subseteq BOOLEAN
  /\ DiscardAfter \in Nat \ {0}
  /\ Outgoing \in [Endpoints -> Nat]
  /\ MaxPackets \in [Endpoints -> Nat]
  /\ MaxTime \in [Endpoints -> Nat]

VARIABLES disconnected, current_time, packet_sequence, sent_packets, pending_acks,
          send, receive, packets, sent, delivered

vars == <<disconnected, current_time, packet_sequence, sent_packets, pending_acks,
          send, receive, packets, sent, delivered>>

Packet(from, seq, sliced, parts, acks) ==
  [from |-> from, seq |-> seq, sliced |-> sliced, parts |-> parts, acks |-> acks]

PacketSent(sent_at, parts, largest) ==
  [sent_at |-> sent_at, parts |-> parts, largest |-> largest]

NoAck == -1      \* PacketSentInfo of a packet that is not an Ack

Init ==
  /\ disconnected = [e \in Endpoints |-> FALSE]
  /\ current_time = [e \in Endpoints |-> 0]
  /\ packet_sequence = [e \in Endpoints |-> 0]
  /\ sent_packets = [e \in Endpoints |-> [n \in {} |-> 0]]
  /\ pending_acks = [e \in Endpoints |-> <<>>]
  /\ send = [e \in Endpoints |-> NewSend]
  /\ \E ordered \in Orders : receive = [e \in Endpoints |-> NewReceive(ordered)]
  /\ packets = {}
  /\ sent = [e \in Endpoints |-> <<>>]
  /\ delivered = [e \in Endpoints |-> <<>>]

-----------------------------------------------------------------------------
\* send_message: a message above the memory limit ends the connection.
AppSend(e, m) ==
  /\ ~ disconnected[e]
  /\ Len(sent[e]) < Outgoing[e]
  /\ IF CanSendMessage(send[e], m)
     THEN /\ send' = [send EXCEPT ![e] = SendMessage(@, m)]
          /\ sent' = [sent EXCEPT ![e] = Append(@, m)]
          /\ UNCHANGED disconnected
     ELSE /\ disconnected' = [disconnected EXCEPT ![e] = TRUE]
          /\ UNCHANGED <<send, sent>>
  /\ UNCHANGED <<current_time, packet_sequence, sent_packets, pending_acks,
                 receive, packets, delivered>>

\* receive_message, when there is a message to return.
AppReceive(e) ==
  /\ ~ disconnected[e]
  /\ \E id \in Ready(receive[e]) :
       /\ receive' = [receive EXCEPT ![e] = ReceiveMessage(@, id)]
       /\ delivered' = [delivered EXCEPT
            ![e] = Append(@, [id |-> id, message |-> receive[e].messages[id]])]
  /\ UNCHANGED <<disconnected, current_time, packet_sequence, sent_packets, pending_acks,
                 send, packets, sent>>

\* disconnect: the application gives the connection up.
Disconnect(e) ==
  /\ ~ disconnected[e]
  /\ disconnected' = [disconnected EXCEPT ![e] = TRUE]
  /\ UNCHANGED <<current_time, packet_sequence, sent_packets, pending_acks,
                 send, receive, packets, sent, delivered>>

(***************************************************************************)
(* update: time passes, and the packets that are too old are taken for     *)
(* lost, from the oldest on up to the first that is not.                   *)
(***************************************************************************)
Lost(e, now) ==
  {n \in DOMAIN sent_packets[e] :
     \A k \in DOMAIN sent_packets[e] : k <= n => now - sent_packets[e][k].sent_at >= DiscardAfter}

Update(e) ==
  /\ current_time[e] < MaxTime[e]
  /\ LET now == current_time[e] + 1
     IN  /\ current_time' = [current_time EXCEPT ![e] = now]
         /\ sent_packets' = [sent_packets EXCEPT
              ![e] = [n \in DOMAIN @ \ Lost(e, now) |-> @[n]]]
  /\ UNCHANGED <<disconnected, packet_sequence, pending_acks, send, receive, packets,
                 sent, delivered>>

(***************************************************************************)
(* get_packets_to_send: the packets of the channel, then one Ack packet    *)
(* with all pending ranges, all of them entered in sent_packets.           *)
(***************************************************************************)
Part(e, x) == <<x[1], Message(send[e], x), x[2]>>

\* Mutant of DataPackets: the sequence numbers start one too high.
DataPacketsOffByOne(e, S, C) ==
  LET ch == send[e]
      items == PacketItems(ch, S, C)
  IN  {Packet(e, packet_sequence[e] + 1 + Rank(ch, items, x),
              x[1] \in DOMAIN ch.unacked /\ Sliced(Message(ch, x)),
              {Part(e, y) : y \in Carried(ch, S, C, x)}, <<>>) : x \in items}

DataPackets(e, S, C) ==
  LET ch == send[e]
      items == PacketItems(ch, S, C)
  IN  {Packet(e, packet_sequence[e] + Rank(ch, items, x),
              x[1] \in DOMAIN ch.unacked /\ Sliced(Message(ch, x)),
              {Part(e, y) : y \in Carried(ch, S, C, x)}, <<>>) : x \in items}

AckPackets(e, seq) ==
  IF pending_acks[e] = <<>> THEN {} ELSE {Packet(e, seq, FALSE, {}, pending_acks[e])}

Info(p, now) ==
  PacketSent(now, {<<x[1], x[3]>> : x \in p.parts},
             IF p.acks = <<>> THEN NoAck ELSE LargestAcked(p.acks))

GetPacketsToSend(e, avail) ==
  /\ ~ disconnected[e]
  /\ \E S \in SUBSET Due(send[e], current_time[e]) :
     \E C \in SUBSET Small(send[e], S) :
       /\ Chosen(send[e], S, current_time[e], avail)
       /\ Pushed(send[e], S, C)
       /\ LET data == DataPackets(e, S, C)
              end == packet_sequence[e] + Cardinality(data)
              out == data \cup AckPackets(e, end)
              seqs == {p.seq : p \in out}
          IN  /\ packet_sequence[e] + Cardinality(out) <= MaxPackets[e]
              /\ packet_sequence' = [packet_sequence EXCEPT ![e] = @ + Cardinality(out)]
              /\ packets' = packets \cup out
              /\ sent_packets' = [sent_packets EXCEPT
                   ![e] = [n \in DOMAIN @ \cup seqs |->
                     IF n \in seqs THEN Info(CHOOSE p \in out : p.seq = n, current_time[e])
                     ELSE @[n]]]
              /\ send' = [send EXCEPT ![e] = MarkSent(@, S, current_time[e])]
  /\ UNCHANGED <<disconnected, current_time, pending_acks, receive, sent, delivered>>

-----------------------------------------------------------------------------
(***************************************************************************)
(* process_packet, for the kinds of packets.  A packet is entered in       *)
(* pending_acks before its content is looked at; an error of the channel   *)
(* ends the connection.                                                    *)
(***************************************************************************)
Incoming(e) == {p \in packets : p.from = Peer(e)}

ProcessReliable(e, p, result) ==
  /\ pending_acks' = [pending_acks EXCEPT ![e] = AddPendingAck(@, p.seq)]
  /\ receive' = [receive EXCEPT ![e] = result.channel]
  /\ disconnected' = [disconnected EXCEPT ![e] = ~ result.ok]
  /\ UNCHANGED <<current_time, packet_sequence, sent_packets, send, packets, sent, delivered>>

ProcessSmallReliable(e, p) ==
  /\ ~ disconnected[e]
  /\ ~ p.sliced /\ p.acks = <<>>
  /\ ProcessReliable(e, p, ProcessMessages(receive[e], {<<x[1], x[2]>> : x \in p.parts}))

ProcessReliableSlice(e, p) ==
  /\ ~ disconnected[e]
  /\ p.sliced
  /\ \E x \in p.parts : ProcessReliable(e, p, ProcessSlice(receive[e], x[1], x[2], x[3]))

ProcessAck(e, p) ==
  /\ ~ disconnected[e]
  /\ p.acks # <<>>
  /\ LET new == DOMAIN sent_packets[e] \cap Covered(p.acks)
         parts == UNION {sent_packets[e][n].parts : n \in new}
         largest == {sent_packets[e][n].largest : n \in new} \ {NoAck}
         entered == AddPendingAck(pending_acks[e], p.seq)
     IN  /\ sent_packets' = [sent_packets EXCEPT ![e] = [n \in DOMAIN @ \ new |-> @[n]]]
         /\ send' = [send EXCEPT ![e] = ProcessAcks(@, parts)]
         /\ pending_acks' = [pending_acks EXCEPT
              ![e] = IF largest = {} THEN entered ELSE AckedLargest(entered, Max(largest))]
  /\ UNCHANGED <<disconnected, current_time, packet_sequence, receive, packets, sent, delivered>>

-----------------------------------------------------------------------------
Next ==
  \E e \in Endpoints :
    \/ \E m \in Messages : AppSend(e, m)
    \/ AppReceive(e)
    \/ e \in Quitters /\ Disconnect(e)
    \/ Update(e)
    \/ \E avail \in AvailableBytes : GetPacketsToSend(e, avail)
    \/ \E p \in Incoming(e) :
         ProcessSmallReliable(e, p) \/ ProcessReliableSlice(e, p) \/ ProcessAck(e, p)

Spec == Init /\ [][Next]_vars

-----------------------------------------------------------------------------
TypeOK ==
  /\ disconnected \in [Endpoints -> BOOLEAN]
  /\ current_time \in [Endpoints -> Nat]
  /\ packet_sequence \in [Endpoints -> Nat]
  /\ pending_acks \in [Endpoints -> Seq(Ranges)]
  /\ sent \in [Endpoints -> Seq(Messages)]
  /\ \A e \in Endpoints :
       /\ DOMAIN sent_packets[e] \subseteq 0 .. packet_sequence[e] - 1
       /\ send[e].next_id = Len(sent[e])
       /\ DOMAIN send[e].unacked \subseteq 0 .. send[e].next_id - 1
       /\ receive[e].oldest \in Nat
       /\ \A p \in Incoming(e) : p.seq < packet_sequence[Peer(e)]

DeliveredIds(e) == {delivered[e][k].id : k \in DOMAIN delivered[e]}

\* Endpoint e has piece i of its peer's message id, or has passed it on.
Holds(e, id, i) ==
  \/ id \in DeliveredIds(e)
  \/ id \in DOMAIN receive[e].messages
  \/ /\ id \in DOMAIN receive[e].slices
     /\ <<sent[Peer(e)][id + 1], i>> \in receive[e].slices[id]

(***************************************************************************)
(* A message leaves unacked_messages, and a slice of it is marked acked,   *)
(* only when the peer has it: what the sender will never send again is     *)
(* delivered or on its way to the application, whatever the network does   *)
(* (process_message_ack, process_slice_message_ack, add_pending_ack).      *)
(***************************************************************************)
NothingAckedIsMissing ==
  \A e \in Endpoints : \A id \in 0 .. Len(sent[e]) - 1 : \A i \in Indices(sent[e][id + 1]) :
    (id \in DOMAIN send[e].unacked => i \in send[e].unacked[id].acked) => Holds(Peer(e), id, i)

(***************************************************************************)
(* memory_usage_bytes of both channels is the memory in use: the messages  *)
(* not acknowledged; the messages not taken, and SLICE_SIZE for each slice *)
(* of the messages being put together.  It stays in the limit, so that no  *)
(* subtraction of the code goes below zero.                                *)
(***************************************************************************)
MemoryIsAccounted ==
  \A e \in Endpoints :
    LET s == send[e]
        r == receive[e]
    IN  /\ s.memory = SumFunction(MessageSizes(s))
        /\ r.memory = SumFunction([id \in DOMAIN r.messages |-> Size[r.messages[id]]])
                    + SumFunction([id \in DOMAIN r.slices |-> ReservedBytes(sent[Peer(e)][id + 1])])
        /\ s.memory <= MaxSendMemory /\ r.memory <= MaxReceiveMemory

Promise == INSTANCE ReliableDelivery WITH
  Endpoint <- Endpoints, Payload <- Messages, Other <- Peer,
  in_order <- {e \in Endpoints : receive[e].ordered}

(***************************************************************************)
(* The connection implements ReliableDelivery: each message is delivered   *)
(* at most once, as it was sent, and in an ordered channel in the order of *)
(* the send_message calls, with a network that loses, repeats and reorders *)
(* packets.                                                                *)
(***************************************************************************)
DeliversReliably == Promise!Spec

(***************************************************************************)
(* "Message already assembled" (comment in process_slice): no memory is    *)
(* set aside again for the slices of a message the application was given.  *)
(***************************************************************************)
AssembledOnce ==
  \A e \in Endpoints : DOMAIN receive[e].slices \cap DeliveredIds(e) = {}
=============================================================================
