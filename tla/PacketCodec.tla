---------------------------- MODULE PacketCodec ----------------------------
(***************************************************************************)
(* Packets of messages and slices as bytes.  The bytes are a sequence of   *)
(* fields, in the order they are put, each with its value and the number   *)
(* of bytes it takes; a payload is one field.  The reader takes the fields *)
(* in turn, and a payload is read whole only if the length before it is    *)
(* its length.  (The body of an Ack packet is in module AckCodec.)         *)
(***************************************************************************)
EXTENDS Slices, SequencesExt

PACKET_BUFFER == 1400
NETCODE_MAX_PAYLOAD_BYTES == 1300
MAX_NUM_SLICES == 1000000

Field(value, width) == [value |-> value, width |-> width]
U8(n) == Field(n % 256, 1)
U16(n) == Field(n % 65536, 2)
Varint(n) == Field(n, VarintLen(n))

\* The length of a payload and the payload: the piece of a message.
Payload(piece) ==
  LET length == PieceBytes(piece[1], piece[2])
  IN  <<Varint(length), Field(piece, length)>>

ByteLength(fields) == FoldLeft(LAMBDA n, f : n + f.width, 0, fields)

-----------------------------------------------------------------------------
SmallReliable(sequence, channel_id, messages) ==
  [type |-> 0, sequence |-> sequence, channel_id |-> channel_id, messages |-> messages]

SmallUnreliable(sequence, channel_id, messages) ==
  [type |-> 1, sequence |-> sequence, channel_id |-> channel_id, messages |-> messages]

Slice(type, sequence, channel_id, message_id, piece) ==
  [type |-> type, sequence |-> sequence, channel_id |-> channel_id,
   message_id |-> message_id, slice_index |-> piece[2], num_slices |-> NumSlices(piece[1]),
   payload |-> piece]

ReliableSlice(sequence, channel_id, message_id, piece) ==
  Slice(2, sequence, channel_id, message_id, piece)

UnreliableSlice(sequence, channel_id, message_id, piece) ==
  Slice(3, sequence, channel_id, message_id, piece)

\* A message of a SmallReliable packet is <<message_id, piece>>, of a SmallUnreliable one a piece.
MessageFields(type, message) ==
  IF type = 0 THEN <<Varint(message[1])>> \o Payload(message[2]) ELSE Payload(message)

\* Packet::to_bytes
ToBytes(p) ==
  <<U8(p.type), Varint(p.sequence), U8(p.channel_id)>> \o
    IF p.type \in {0, 1}
    THEN <<U16(Len(p.messages))>> \o
           FlattenSeq([k \in DOMAIN p.messages |-> MessageFields(p.type, p.messages[k])])
    ELSE <<Varint(p.message_id), Varint(p.slice_index), Varint(p.num_slices)>> \o Payload(p.payload)

-----------------------------------------------------------------------------
Error(reason) == [error |-> reason]

\* get_bytes_with_varint_length, its length being the k-th field
ReadsPayload(b, k) == k < Len(b) /\ b[k].value = b[k + 1].width

\* The number of fields a message takes.
Stride(type) == IF type = 0 THEN 3 ELSE 2

ReadSmall(b) ==
  LET type == b[1].value
      payload(k) == 4 + k * Stride(type)     \* the field of the k-th payload
      count == b[4].value
  IN  IF \E k \in 1 .. count : ~ ReadsPayload(b, payload(k) - 1) THEN Error("BufferTooShort")
      ELSE [type |-> type, sequence |-> b[2].value, channel_id |-> b[3].value,
            messages |-> [k \in 1 .. count |->
              IF type = 0 THEN <<b[payload(k) - 2].value, b[payload(k)].value>> ELSE b[payload(k)].value]]

\* Mutant of ReadSlice: the index is read where the number of slices is, and the other way round.
ReadSliceSwapped(b) ==
  LET type == b[1].value
  IN  IF b[5].value \notin 1 .. MAX_NUM_SLICES THEN Error("InvalidNumSlices")
      ELSE IF ~ ReadsPayload(b, 7) THEN Error("BufferTooShort")
      ELSE [type |-> type, sequence |-> b[2].value, channel_id |-> b[3].value,
            message_id |-> b[4].value, slice_index |-> b[6].value, num_slices |-> b[5].value,
            payload |-> b[8].value]

\* The checks on the payload are made for a reliable slice only.
ReadSlice(b) ==
  LET type == b[1].value
  IN  IF b[6].value \notin 1 .. MAX_NUM_SLICES THEN Error("InvalidNumSlices")
      ELSE IF ~ ReadsPayload(b, 7) THEN Error("BufferTooShort")
      ELSE IF type = 2 /\ b[8].width = 0 THEN Error("EmptySlice")
      ELSE IF type = 2 /\ b[8].width > SLICE_SIZE THEN Error("SliceSizeAboveLimit")
      ELSE [type |-> type, sequence |-> b[2].value, channel_id |-> b[3].value,
            message_id |-> b[4].value, slice_index |-> b[5].value, num_slices |-> b[6].value,
            payload |-> b[8].value]

\* Packet::from_bytes
FromBytes(b) == IF b[1].value \in {0, 1} THEN ReadSmall(b) ELSE ReadSlice(b)
=============================================================================
