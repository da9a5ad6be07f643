------------------------ MODULE SendChannelReliable ------------------------
(***************************************************************************)
(* The sending side of a reliable channel as operators on its state: a     *)
(* record of unacked_messages, next_reliable_message_id and                *)
(* memory_usage_bytes.  UnackedMessage::Small and ::Sliced are one record  *)
(* here, a small message being its own single piece: `acked` is the set of *)
(* acknowledged pieces (num_acked_slices its cardinality), last_sent[i]    *)
(* the time piece i was sent or Never.                                     *)
(*                                                                         *)
(* The loops of get_packets_to_send are given by what they compute.  An    *)
(* item <<id, i>> is piece i of message id; the loop visits the items in   *)
(* the order of Before, so what it does at an item depends on the items    *)
(* before it.  SendLoop states the same loops step by step, and its run    *)
(* compares the two.                                                       *)
(***************************************************************************)
EXTENDS Slices

CONSTANTS ResendTime,       \* resend_time
          MaxSendMemory     \* max_memory_usage_bytes

ASSUME SendChannelAssumption == ResendTime \in Nat /\ MaxSendMemory \in Nat

Never == -1

SendChannel(unacked, next_id, memory) ==
  [unacked |-> unacked, next_id |-> next_id, memory |-> memory]

Unacked(message, acked, last_sent, next_slice_to_send) ==
  [message |-> message, acked |-> acked, last_sent |-> last_sent,
   next_slice_to_send |-> next_slice_to_send]

NewSend == SendChannel([id \in {} |-> 0], 0, 0)

\* The length of every message not acknowledged yet.
MessageSizes(ch) == [id \in DOMAIN ch.unacked |-> Size[ch.unacked[id].message]]

-----------------------------------------------------------------------------
\* send_message; the caller disconnects when the message is refused.
CanSendMessage(ch, m) == ch.memory + Size[m] <= MaxSendMemory

SendMessage(ch, m) ==
  SendChannel(
    [id \in DOMAIN ch.unacked \cup {ch.next_id} |->
       IF id = ch.next_id THEN Unacked(m, {}, [i \in Indices(m) |-> Never], 0)
       ELSE ch.unacked[id]],
    ch.next_id + 1,
    ch.memory + Size[m])

-----------------------------------------------------------------------------
(***************************************************************************)
(* get_packets_to_send, which pieces go.                                   *)
(***************************************************************************)
Message(ch, x) == ch.unacked[x[1]].message

Due(ch, now) ==
  UNION {{<<id, i>> : i \in {j \in Indices(ch.unacked[id].message) :
            /\ j \notin ch.unacked[id].acked
            /\ \/ ch.unacked[id].last_sent[j] = Never
               \/ now - ch.unacked[id].last_sent[j] >= ResendTime}}
           : id \in DOMAIN ch.unacked}

\* Slices are visited from next_slice_to_send on, then from 0 up to it.
Before(ch, x, y) ==
  \/ x[1] < y[1]
  \/ /\ x[1] = y[1]
     /\ x # y
     /\ LET start == ch.unacked[x[1]].next_slice_to_send
        IN  \/ x[2] >= start /\ ~ (y[2] >= start)
            \/ (x[2] >= start <=> y[2] >= start) /\ x[2] < y[2]

\* A small message needs its length, a slice a whole SLICE_SIZE, even when
\* its payload is shorter.
\* Mutant of Needed: a slice needs what its payload takes.
NeededPayload(ch, x) == PieceBytes(Message(ch, x), x[2])

Needed(ch, x) ==
  IF Sliced(Message(ch, x)) THEN SLICE_SIZE ELSE Size[Message(ch, x)]

Bytes(ch, S) == MapThenSumSet(LAMBDA x : PieceBytes(Message(ch, x), x[2]), S)

\* S is what the loop sends when available_bytes is avail.
Chosen(ch, S, now, avail) ==
  \A x \in Due(ch, now) :
    x \in S <=> Needed(ch, x) + Bytes(ch, {y \in S : Before(ch, y, x)}) <= avail

-----------------------------------------------------------------------------
(***************************************************************************)
(* get_packets_to_send, which packet a piece goes in.  A slice has its own *)
(* packet.  Small messages share packets: C holds the small messages that  *)
(* did not fit behind the ones before them, so that the packet collected   *)
(* so far was pushed when the loop came to them.  That packet is empty     *)
(* when the first small message alone is above SLICE_SIZE.                 *)
(***************************************************************************)
Small(ch, S) == {x[1] : x \in {y \in S : ~ Sliced(Message(ch, y))}}

SerializedSize(ch, id) ==
  LET size == Size[ch.unacked[id].message]
  IN  size + VarintLen(size) + VarintLen(id)

\* The small messages collected since the last push before id.
Collected(ch, S, C, id) ==
  {j \in Small(ch, S) : j < id /\ ~ \E c \in C : j < c /\ c < id}

Pushed(ch, S, C) ==
  \A id \in Small(ch, S) :
    id \in C <=> SerializedSize(ch, id)
                 + MapThenSumSet(LAMBDA j : SerializedSize(ch, j), Collected(ch, S, C, id))
                 > SLICE_SIZE

\* The packets, named by the item at which they are pushed; the last packet
\* of small messages is pushed after all items.
PacketItems(ch, S, C) ==
  {x \in S : Sliced(Message(ch, x))}
    \cup {<<id, 0>> : id \in C}
    \cup {<<ch.next_id, 0>> : j \in Collected(ch, S, C, ch.next_id)}

Rank(ch, items, x) == Cardinality({y \in items : Before(ch, y, x)})

\* The pieces the packet pushed at item x carries.
Carried(ch, S, C, x) ==
  IF x[1] \in DOMAIN ch.unacked /\ Sliced(Message(ch, x)) THEN {x}
  ELSE {<<j, 0>> : j \in Collected(ch, S, C, x[1])}

\* last_sent and next_slice_to_send of what was sent.  `i + 1 % num_slices`
\* parses as i + (1 % num_slices): the index after the last slice is kept.
\* Mutant of MarkSent: next_slice_to_send is not moved.
MarkSentInPlace(ch, S, now) ==
  SendChannel(
    [id \in DOMAIN ch.unacked |->
       LET u == ch.unacked[id]
       IN  Unacked(u.message, u.acked,
             [i \in Indices(u.message) |-> IF <<id, i>> \in S THEN now ELSE u.last_sent[i]],
             u.next_slice_to_send)],
    ch.next_id, ch.memory)

MarkSent(ch, S, now) ==
  SendChannel(
    [id \in DOMAIN ch.unacked |->
       LET u == ch.unacked[id]
           mine == {x \in S : x[1] = id}
       IN  Unacked(u.message, u.acked,
             [i \in Indices(u.message) |-> IF <<id, i>> \in S THEN now ELSE u.last_sent[i]],
             IF mine = {} \/ ~ Sliced(u.message) THEN u.next_slice_to_send
             ELSE (CHOOSE x \in mine : \A y \in mine : y = x \/ Before(ch, y, x))[2] + 1)],
    ch.next_id, ch.memory)

-----------------------------------------------------------------------------
(***************************************************************************)
(* process_message_ack and process_slice_message_ack for all the pieces    *)
(* of the packets one Ack packet acknowledges.                             *)
(***************************************************************************)
AckedOf(ch, parts, id) == ch.unacked[id].acked \cup {x[2] : x \in {y \in parts : y[1] = id}}

\* Mutant of Completed: one acknowledged slice completes the message.
CompletedByAny(ch, parts) ==
  {id \in DOMAIN ch.unacked : AckedOf(ch, parts, id) # {}}

Completed(ch, parts) ==
  {id \in DOMAIN ch.unacked : AckedOf(ch, parts, id) = Indices(ch.unacked[id].message)}

ProcessAcks(ch, parts) ==
  SendChannel(
    [id \in DOMAIN ch.unacked \ Completed(ch, parts) |->
       LET u == ch.unacked[id]
       IN  Unacked(u.message, AckedOf(ch, parts, id), u.last_sent, u.next_slice_to_send)],
    ch.next_id,
    ch.memory - SumFunctionOnSet(MessageSizes(ch), Completed(ch, parts)))
=============================================================================
