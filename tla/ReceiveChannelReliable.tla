----------------------- MODULE ReceiveChannelReliable -----------------------
(***************************************************************************)
(* The receiving side of a reliable channel as operators on its state: a   *)
(* record of slices (message id to the pieces its SliceConstructor holds), *)
(* messages, oldest_pending_message_id, reliable_order (`ordered`, and     *)
(* received_messages, always empty in an ordered channel) and              *)
(* memory_usage_bytes.  most_recent_message_id is written and never read,  *)
(* and is left out.                                                        *)
(*                                                                         *)
(* An operation returns the new state and whether it returned Ok.          *)
(***************************************************************************)
EXTENDS Slices

CONSTANT MaxReceiveMemory   \* max_memory_usage_bytes

ASSUME ReceiveChannelAssumption == MaxReceiveMemory \in Nat

Result(ok, channel) == [ok |-> ok, channel |-> channel]

\* SendType::ReliableOrdered or ::ReliableUnordered
NewReceive(ordered) ==
  [ordered |-> ordered, slices |-> [id \in {} |-> {}], messages |-> [id \in {} |-> 0],
   oldest |-> 0, received |-> {}, memory |-> 0]

-----------------------------------------------------------------------------
(***************************************************************************)
(* process_message for the messages of one SmallReliable packet, pairs     *)
(* <<id, message>> in the order of their ids, up to the first one there is *)
(* no memory for.                                                          *)
(***************************************************************************)
\* Mutant of NewMessages: only the messages still held count as received.
NewUnlessHeld(ch, batch) ==
  {b \in batch : b[1] >= ch.oldest /\ b[1] \notin DOMAIN ch.messages}

NewMessages(ch, batch) ==
  {b \in batch : /\ b[1] >= ch.oldest
                 /\ b[1] \notin IF ch.ordered THEN DOMAIN ch.messages ELSE ch.received}

BatchSize(batch) == SumFunction([b \in batch |-> Size[b[2]]])

Fitting(ch, batch) ==
  LET new == NewMessages(ch, batch)
  IN  {b \in new : ch.memory + BatchSize({c \in new : c[1] <= b[1]}) <= MaxReceiveMemory}

ProcessMessages(ch, batch) ==
  LET added == Fitting(ch, batch)
      ids == {b[1] : b \in added}
  IN  Result(added = NewMessages(ch, batch),
        [ch EXCEPT
           !.messages = [id \in DOMAIN @ \cup ids |->
             IF id \in ids THEN (CHOOSE b \in added : b[1] = id)[2] ELSE @[id]],
           !.received = IF ch.ordered THEN @ ELSE @ \cup ids,
           !.memory = @ + BatchSize(added)])

-----------------------------------------------------------------------------
(***************************************************************************)
(* process_slice: one piece i of message m, sent under id.                 *)
(***************************************************************************)
InvalidSlice(m, i) ==
  IF i = NumSlices(m) - 1 THEN PieceBytes(m, i) > SLICE_SIZE
  ELSE PieceBytes(m, i) # SLICE_SIZE

\* The constructor of id, opened if there is none.
Open(ch, id, m) ==
  IF id \in DOMAIN ch.slices THEN ch
  ELSE [ch EXCEPT !.slices = [j \in DOMAIN @ \cup {id} |-> IF j = id THEN {} ELSE @[j]],
                  !.memory = @ + ReservedBytes(m)]

\* SliceConstructor::process_slice: a piece already there is not replaced.
Collect(ch, id, m, i) ==
  IF \E p \in ch.slices[id] : p[2] = i THEN ch
  ELSE [ch EXCEPT !.slices[id] = @ \cup {<<m, i>>}]

\* The bytes of the slices in the order of their indices.
Assembled(pieces) == CHOOSE m \in Messages : Pieces(m) = pieces

\* The reservation is given back and the whole message processed.
Finish(ch, id, m) ==
  LET result == ProcessMessages([ch EXCEPT !.memory = @ - ReservedBytes(m)],
                                {<<id, Assembled(ch.slices[id])>>})
  IN  IF ~ result.ok THEN result
      ELSE [result EXCEPT !.channel.slices = [j \in DOMAIN @ \ {id} |-> @[j]]]

ProcessSlice(ch, id, m, i) ==
  IF id \in DOMAIN ch.messages \/ id < ch.oldest THEN Result(TRUE, ch)
  ELSE IF id \notin DOMAIN ch.slices /\ ch.memory + ReservedBytes(m) > MaxReceiveMemory
       THEN Result(FALSE, ch)
  ELSE IF InvalidSlice(m, i) THEN Result(FALSE, Open(ch, id, m))
  ELSE LET collected == Collect(Open(ch, id, m), id, m, i)
       IN  IF Cardinality(collected.slices[id]) = NumSlices(m)
           THEN Finish(collected, id, m)
           ELSE Result(TRUE, collected)

-----------------------------------------------------------------------------
(***************************************************************************)
(* receive_message: the id it returns, if any, and the state it leaves.    *)
(***************************************************************************)
Ready(ch) ==
  IF ch.ordered THEN DOMAIN ch.messages \cap {ch.oldest}
  ELSE {id \in DOMAIN ch.messages : \A j \in DOMAIN ch.messages : id <= j}

\* The first id at or after oldest that is not in received_messages.
FirstGap(received) == Min({r + 1 : r \in received} \ received)

\* Mutant of ReceiveMessage: the memory is not given back.
ReceiveWithoutRelease(ch, id) ==
  LET oldest == IF ch.ordered THEN ch.oldest + 1
                ELSE IF id = ch.oldest THEN FirstGap(ch.received) ELSE ch.oldest
  IN  [ch EXCEPT !.messages = [j \in DOMAIN @ \ {id} |-> @[j]],
                 !.oldest = oldest,
                 !.received = {r \in @ : r >= oldest}]

ReceiveMessage(ch, id) ==
  LET oldest == IF ch.ordered THEN ch.oldest + 1
                ELSE IF id = ch.oldest THEN FirstGap(ch.received) ELSE ch.oldest
  IN  [ch EXCEPT !.messages = [j \in DOMAIN @ \ {id} |-> @[j]],
                 !.oldest = oldest,
                 !.received = {r \in @ : r >= oldest},
                 !.memory = @ - Size[ch.messages[id]]]
=============================================================================
