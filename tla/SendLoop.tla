------------------------------ MODULE SendLoop ------------------------------
(***************************************************************************)
(* SendChannelReliable::get_packets_to_send step by step, on its own: one  *)
(* channel whose application sends messages, whose packets are asked for   *)
(* with various budgets, and whose pieces are acknowledged in any order.   *)
(* The loops are folds over the items in the order they are visited; the   *)
(* properties compare them with the declarative operators of               *)
(* SendChannelReliable, which the connection uses.                         *)
(***************************************************************************)
EXTENDS SendChannelReliable, PacketCodec

CONSTANTS Budgets,      \* the values of available_bytes
          MaxMessages,  \* bound: messages sent
          MaxNow        \* bound: time

VARIABLES ch, now

vars == <<ch, now>>

-----------------------------------------------------------------------------
\* The slices of a message, from next_slice_to_send on.
VisitSlices(id) ==
  LET u == ch.unacked[id]
      n == NumSlices(u.message)
  IN  [k \in 1 .. n |-> <<id, (u.next_slice_to_send + k - 1) % n>>]

Visits ==
  FlattenSeq([k \in 1 .. Cardinality(DOMAIN ch.unacked) |->
                VisitSlices(SetToSortSeq(DOMAIN ch.unacked, <)[k])])

TooRecent(x) ==
  LET last == ch.unacked[x[1]].last_sent[x[2]]
  IN  last # Never /\ now - last < ResendTime

\* acc: available_bytes, packets, small_messages, small_messages_bytes, and
\* the last_sent and next_slice_to_send the loop writes.
VisitSmall(acc, x) ==
  LET size == Size[Message(ch, x)]
      fits == acc.bytes + SerializedSize(ch, x[1]) <= SLICE_SIZE
  IN  IF acc.avail < size \/ TooRecent(x) THEN acc
      ELSE [avail   |-> acc.avail - size,
            packets |-> IF fits THEN acc.packets ELSE Append(acc.packets, acc.small),
            small   |-> IF fits THEN acc.small \cup {x} ELSE {x},
            bytes   |-> (IF fits THEN acc.bytes ELSE 0) + SerializedSize(ch, x[1]),
            sent    |-> acc.sent \cup {x},
            next    |-> acc.next]

VisitSlice(acc, x) ==
  IF \/ acc.avail < SLICE_SIZE
     \/ x[2] \in ch.unacked[x[1]].acked
     \/ TooRecent(x)
  THEN acc
  ELSE [avail   |-> acc.avail - PieceBytes(Message(ch, x), x[2]),
        packets |-> Append(acc.packets, {x}),
        small   |-> acc.small,
        bytes   |-> acc.bytes,
        sent    |-> acc.sent \cup {x},
        next    |-> [acc.next EXCEPT ![x[1]] = x[2] + (1 % NumSlices(Message(ch, x)))]]

Loop(avail) ==
  FoldLeft(LAMBDA acc, x : IF Sliced(Message(ch, x)) THEN VisitSlice(acc, x) ELSE VisitSmall(acc, x),
           [avail |-> avail, packets |-> <<>>, small |-> {}, bytes |-> 0, sent |-> {},
            next |-> [id \in DOMAIN ch.unacked |-> ch.unacked[id].next_slice_to_send]],
           Visits)

LoopPackets(avail) ==
  LET last == Loop(avail)
  IN  IF last.small = {} THEN last.packets ELSE Append(last.packets, last.small)

(***************************************************************************)
(* A packet of the loop for the wire.  Its sequence number, and the number *)
(* of its channel, are as long as they get.                                *)
(***************************************************************************)
LongSequence == 2^30

WirePacket(carried) ==
  LET ids == SetToSortSeq({x[1] : x \in carried}, <)
      piece(x) == <<Message(ch, x), x[2]>>
      x == CHOOSE y \in carried : TRUE
  IN  IF \E y \in carried : Sliced(Message(ch, y)) THEN ReliableSlice(LongSequence, 255, x[1], piece(x))
      ELSE SmallReliable(LongSequence, 255, [k \in DOMAIN ids |-> <<ids[k], piece(<<ids[k], 0>>)>>])

-----------------------------------------------------------------------------
Init == ch = NewSend /\ now = 0

Send(m) ==
  /\ ch.next_id < MaxMessages
  /\ CanSendMessage(ch, m)
  /\ ch' = SendMessage(ch, m)
  /\ UNCHANGED now

GetPackets(avail) ==
  /\ \E S \in SUBSET Due(ch, now) : Chosen(ch, S, now, avail) /\ ch' = MarkSent(ch, S, now)
  /\ UNCHANGED now

\* A packet is acknowledged that carried x.
Ack(x) ==
  /\ ch.unacked[x[1]].last_sent[x[2]] # Never
  /\ ch' = ProcessAcks(ch, {x})
  /\ UNCHANGED now

Tick ==
  /\ now < MaxNow
  /\ now' = now + 1
  /\ UNCHANGED ch

Next ==
  \/ \E m \in Messages : Send(m)
  \/ \E avail \in Budgets : GetPackets(avail)
  \/ \E id \in DOMAIN ch.unacked : \E i \in Indices(ch.unacked[id].message) : Ack(<<id, i>>)
  \/ Tick

Spec == Init /\ [][Next]_vars

-----------------------------------------------------------------------------
(***************************************************************************)
(* The operators of SendChannelReliable describe the loops exactly: one    *)
(* set of pieces satisfies Chosen and one set of push points Pushed, and   *)
(* the packets, their order and their content, last_sent and               *)
(* next_slice_to_send are those of the loops.                              *)
(***************************************************************************)
LoopIsDescribed ==
  \A avail \in Budgets :
    LET sets == {S \in SUBSET Due(ch, now) : Chosen(ch, S, now, avail)}
        S == CHOOSE T \in sets : TRUE
        pushes == {C \in SUBSET Small(ch, S) : Pushed(ch, S, C)}
        C == CHOOSE D \in pushes : TRUE
        items == PacketItems(ch, S, C)
        after == MarkSent(ch, S, now)
    IN  /\ Cardinality(sets) = 1 /\ Cardinality(pushes) = 1
        /\ S = Loop(avail).sent
        /\ Cardinality(items) = Len(LoopPackets(avail))
        /\ \A x \in items : Carried(ch, S, C, x) = LoopPackets(avail)[Rank(ch, items, x) + 1]
        /\ \A id \in DOMAIN ch.unacked :
             after.unacked[id].next_slice_to_send = Loop(avail).next[id]

(***************************************************************************)
(* Every packet the loop builds is serialized into the buffer of           *)
(* get_packets_to_send, is not above the limit of netcode for a payload,   *)
(* and is read back by the other side as it was.                           *)
(***************************************************************************)
PacketsSurviveTheWire ==
  \A avail \in Budgets : \A k \in DOMAIN LoopPackets(avail) :
    LET packet == WirePacket(LoopPackets(avail)[k])
        bytes == ToBytes(packet)
    IN  /\ ByteLength(bytes) <= PACKET_BUFFER /\ ByteLength(bytes) <= NETCODE_MAX_PAYLOAD_BYTES
        /\ FromBytes(bytes) = packet

(***************************************************************************)
(* The slices of a message take turns (next_slice_to_send): none is sent   *)
(* again while another one that is not acknowledged was never sent.        *)
(***************************************************************************)
SlicesTakeTurns ==
  \A id \in DOMAIN ch.unacked :
    LET u == ch.unacked[id]
    IN  \A i, j \in Indices(u.message) \ u.acked :
          u.last_sent[i] = Never /\ u.last_sent[j] # Never =>
            \A avail \in Budgets : <<id, j>> \in Loop(avail).sent => <<id, i>> \in Loop(avail).sent
=============================================================================
