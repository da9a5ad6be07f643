------------------------- MODULE UnreliableChannel -------------------------
(***************************************************************************)
(* An unreliable channel from its SendChannelUnreliable over the network   *)
(* to its ReceiveChannelUnreliable.  The network loses and reorders        *)
(* packets; it does not repeat them, because netcode's replay window (see  *)
(* ReplayProtection) stands before the channel.                            *)
(*                                                                         *)
(* slices_last_received holds how long ago the last slice of a message     *)
(* came, up to DiscardAfter, instead of the time at which it came: update  *)
(* is the only place that looks, and looks only at the difference.         *)
(*                                                                         *)
(* packets holds bytes.  sent and delivered are history variables.         *)
(***************************************************************************)
EXTENDS PacketCodec

CONSTANTS Budgets,           \* the values of available_bytes
          MaxSendMemory, MaxReceiveMemory,
          DiscardAfter       \* DISCARD_AFTER of discard_incomplete_old_slices

ASSUME UnreliableAssumption ==
  /\ Budgets \subseteq Nat /\ MaxSendMemory \in Nat /\ MaxReceiveMemory \in Nat
  /\ DiscardAfter \in Nat \ {0}

VARIABLES unreliable_messages, sliced_message_id, send_memory,         \* sender
          messages, slices, slices_last_received, receive_memory,      \* receiver
          packets, sent, delivered

sender == <<unreliable_messages, sliced_message_id, send_memory>>
receiver == <<messages, slices, slices_last_received, receive_memory>>
vars == <<sender, receiver, packets, sent, delivered>>

Init ==
  /\ unreliable_messages = <<>> /\ sliced_message_id = 0 /\ send_memory = 0
  /\ messages = <<>> /\ receive_memory = 0
  /\ slices = [id \in {} |-> {}] /\ slices_last_received = [id \in {} |-> 0]
  /\ packets = {} /\ sent = {} /\ delivered = <<>>

-----------------------------------------------------------------------------
\* send_message: above the memory limit the message is dropped.
SendMessage(m) ==
  /\ m \notin sent
  /\ sent' = sent \cup {m}
  /\ IF send_memory + Size[m] > MaxSendMemory THEN UNCHANGED sender
     ELSE /\ send_memory' = send_memory + Size[m]
          /\ unreliable_messages' = Append(unreliable_messages, m)
          /\ UNCHANGED sliced_message_id
  /\ UNCHANGED <<receiver, packets, delivered>>

(***************************************************************************)
(* get_packets_to_send empties the queue; what the budget does not allow   *)
(* is dropped.  acc: available_bytes, packets, small_messages,             *)
(* small_messages_bytes, sliced_message_id.                                *)
(***************************************************************************)
SmallPacket(batch) == ToBytes(SmallUnreliable(0, 0, [k \in DOMAIN batch |-> <<batch[k], 0>>]))

SlicePacket(id, m, i) == ToBytes(UnreliableSlice(0, 0, id, <<m, i>>))

TakeSlices(acc, m) ==
  [avail |-> acc.avail - Size[m],
   out   |-> acc.out \cup {SlicePacket(acc.id, m, i) : i \in Indices(m)},
   small |-> acc.small, bytes |-> acc.bytes, id |-> acc.id + 1]

TakeSmall(acc, m) ==
  LET serialized == Size[m] + VarintLen(Size[m])
      fits == acc.bytes + serialized <= SLICE_SIZE
  IN  [avail |-> acc.avail - Size[m],
       out   |-> IF fits THEN acc.out ELSE acc.out \cup {SmallPacket(acc.small)},
       small |-> IF fits THEN Append(acc.small, m) ELSE <<m>>,
       bytes |-> IF fits THEN acc.bytes + serialized ELSE serialized,
       id    |-> acc.id]

Take(acc, m) ==
  IF acc.avail < Size[m] THEN acc
  ELSE IF Sliced(m) THEN TakeSlices(acc, m) ELSE TakeSmall(acc, m)

\* Mutant of GetPacketsToSend: the queue is read and not emptied.
GetPacketsAgain(avail) ==
  LET start == [avail |-> avail, out |-> {}, small |-> <<>>, bytes |-> 0, id |-> sliced_message_id]
      end == FoldLeft(Take, start, unreliable_messages)
  IN  /\ unreliable_messages # <<>>
      /\ packets' = packets \cup end.out \cup
           (IF end.small = <<>> THEN {} ELSE {SmallPacket(end.small)})
      /\ sliced_message_id' = end.id
      /\ UNCHANGED <<unreliable_messages, send_memory, receiver, sent, delivered>>

GetPacketsToSend(avail) ==
  LET start == [avail |-> avail, out |-> {}, small |-> <<>>, bytes |-> 0, id |-> sliced_message_id]
      end == FoldLeft(Take, start, unreliable_messages)
  IN  /\ unreliable_messages # <<>>
      /\ packets' = packets \cup end.out \cup
           (IF end.small = <<>> THEN {} ELSE {SmallPacket(end.small)})
      /\ sliced_message_id' = end.id
      /\ unreliable_messages' = <<>>
      /\ send_memory' = FoldLeft(LAMBDA n, m : n - Size[m], send_memory, unreliable_messages)
      /\ UNCHANGED <<receiver, sent, delivered>>

-----------------------------------------------------------------------------
\* process_message for each message of the packet.
KeepSmall(acc, m) ==
  IF acc.memory + Size[m] > MaxReceiveMemory THEN acc
  ELSE [messages |-> Append(acc.messages, m), memory |-> acc.memory + Size[m]]

ProcessMessages(bytes, p) ==
  /\ p.type = 1
  /\ LET batch == [k \in DOMAIN p.messages |-> p.messages[k][1]]
         end == FoldLeft(KeepSmall, [messages |-> messages, memory |-> receive_memory], batch)
     IN  messages' = end.messages /\ receive_memory' = end.memory
  /\ packets' = packets \ {bytes}
  /\ UNCHANGED <<sender, slices, slices_last_received, sent, delivered>>

\* The message whose pieces are all there.
Assembled(pieces) == CHOOSE m \in Messages : Pieces(m) = pieces

\* Mutant of CompleteSlices: the reservation is kept.
CompleteKeepsReservation(id, m, pieces, memory) ==
  /\ slices' = [j \in DOMAIN slices \ {id} |-> slices[j]]
  /\ slices_last_received' = [j \in DOMAIN slices_last_received \ {id} |-> slices_last_received[j]]
  /\ receive_memory' = memory + Size[Assembled(pieces)]
  /\ messages' = Append(messages, Assembled(pieces))

\* The last slice missing: the message is queued, its reservation returned.
CompleteSlices(id, m, pieces, memory) ==
  /\ slices' = [j \in DOMAIN slices \ {id} |-> slices[j]]
  /\ slices_last_received' = [j \in DOMAIN slices_last_received \ {id} |-> slices_last_received[j]]
  /\ receive_memory' = memory - ReservedBytes(m) + Size[Assembled(pieces)]
  /\ messages' = Append(messages, Assembled(pieces))

KeepSlice(id, pieces, memory) ==
  /\ slices' = [j \in DOMAIN slices \cup {id} |-> IF j = id THEN pieces ELSE slices[j]]
  /\ slices_last_received' = [j \in DOMAIN slices_last_received \cup {id} |->
                                IF j = id THEN 0 ELSE slices_last_received[j]]
  /\ receive_memory' = memory
  /\ UNCHANGED messages

\* process_slice; without memory for a new message the slice is dropped.
ProcessSlice(bytes, p) ==
  /\ p.type = 3
  /\ LET id == p.message_id
         known == id \in DOMAIN slices
         memory == receive_memory + IF known THEN 0 ELSE p.num_slices * SLICE_SIZE
         old == IF known THEN slices[id] ELSE {}
         pieces == IF \E x \in old : x[2] = p.slice_index THEN old ELSE old \cup {p.payload}
     IN  IF memory > MaxReceiveMemory /\ ~ known THEN UNCHANGED receiver
         ELSE IF Cardinality(pieces) = p.num_slices
              THEN CompleteSlices(id, p.payload[1], pieces, memory)
              ELSE KeepSlice(id, pieces, memory)
  /\ packets' = packets \ {bytes}
  /\ UNCHANGED <<sender, sent, delivered>>

(***************************************************************************)
(* discard_incomplete_old_slices, called by update: the messages in the    *)
(* order of their ids, up to the first whose last slice is not old.        *)
(***************************************************************************)
Older(id) == IF slices_last_received[id] < DiscardAfter THEN slices_last_received[id] + 1
             ELSE DiscardAfter

LostMessages ==
  {id \in DOMAIN slices_last_received :
     \A j \in DOMAIN slices_last_received : j <= id => Older(j) >= DiscardAfter}

\* Mutant of Update: the slices go, slices_last_received stays.
UpdateForgetsTimes ==
  /\ slices_last_received' = [id \in DOMAIN slices_last_received |-> Older(id)]
  /\ slices' = [id \in DOMAIN slices \ LostMessages |-> slices[id]]
  /\ UNCHANGED <<sender, messages, receive_memory, packets, sent, delivered>>

\* Mutant of Update: discard_incomplete_old_slices is not called.
UpdateWithoutDiscard ==
  /\ slices_last_received' = [id \in DOMAIN slices_last_received |-> Older(id)]
  /\ UNCHANGED <<sender, slices, messages, receive_memory, packets, sent, delivered>>

Update ==
  /\ slices_last_received' = [id \in DOMAIN slices_last_received \ LostMessages |-> Older(id)]
  /\ slices' = [id \in DOMAIN slices \ LostMessages |-> slices[id]]
  /\ receive_memory' = receive_memory - MapThenSumSet(
       LAMBDA id : ReservedBytes((CHOOSE x \in slices[id] : TRUE)[1]), LostMessages)
  /\ UNCHANGED <<sender, messages, packets, sent, delivered>>

ReceiveMessage ==
  /\ messages # <<>>
  /\ delivered' = Append(delivered, Head(messages))
  /\ messages' = Tail(messages)
  /\ receive_memory' = receive_memory - Size[Head(messages)]
  /\ UNCHANGED <<sender, slices, slices_last_received, packets, sent>>

Next ==
  \/ \E m \in Messages : SendMessage(m)
  \/ \E avail \in Budgets : GetPacketsToSend(avail)
  \/ \E bytes \in packets : \/ ProcessMessages(bytes, FromBytes(bytes))
                           \/ ProcessSlice(bytes, FromBytes(bytes))
  \/ Update
  \/ ReceiveMessage

\* update is called every tick (RenetClient::update, RenetServer::update).
Spec == Init /\ [][Next]_vars /\ WF_vars(Update)

-----------------------------------------------------------------------------
(***************************************************************************)
(* slices and slices_last_received name the same messages, so that the     *)
(* `expect` of discard_incomplete_old_slices holds, and every constructor  *)
(* is still waiting for a slice.                                           *)
(***************************************************************************)
SlicesHaveTimes ==
  /\ DOMAIN slices = DOMAIN slices_last_received
  /\ \A id \in DOMAIN slices : \E m \in sent : slices[id] # {} /\ slices[id] \subseteq Pieces(m)
                                               /\ slices[id] # Pieces(m)

(***************************************************************************)
(* memory_usage_bytes is the memory in use on both sides and within its    *)
(* limit.                                                                  *)
(***************************************************************************)
QueueBytes(q) == FoldLeft(LAMBDA n, m : n + Size[m], 0, q)

MemoryIsAccounted ==
  /\ send_memory = QueueBytes(unreliable_messages)
  /\ send_memory <= MaxSendMemory
  /\ receive_memory = QueueBytes(messages)
       + MapThenSumSet(LAMBDA id : ReservedBytes((CHOOSE x \in slices[id] : TRUE)[1]), DOMAIN slices)
  /\ receive_memory <= MaxReceiveMemory

(***************************************************************************)
(* No message reaches the application twice, and none that was not sent,   *)
(* sliced or not, whatever is lost, reordered or discarded on the way.     *)
(***************************************************************************)
DeliveredAtMostOnce ==
  LET all == delivered \o messages
  IN  /\ \A k \in DOMAIN all : all[k] \in sent
      /\ \A j, k \in DOMAIN all : all[j] = all[k] => j = k

(***************************************************************************)
(* A message with a lost slice does not hold its memory for ever: update   *)
(* gives it up (discard_incomplete_old_slices), although the loop stops at *)
(* the first message that still gets slices.                               *)
(***************************************************************************)
IncompleteIsGivenUp ==
  \A id \in 0 .. Cardinality(Messages) : id \in DOMAIN slices ~> id \notin DOMAIN slices
=============================================================================
