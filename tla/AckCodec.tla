------------------------------ MODULE AckCodec ------------------------------
(***************************************************************************)
(* The body of an Ack packet: the ranges written from the newest to the    *)
(* oldest, each as the gap to the range before it and its size, and read   *)
(* back.  A value the encoder cannot write as an unsigned varint, or that  *)
(* the decoder refuses, is the point of the model: the integers here are   *)
(* the exact differences, and Encodable says when each of them is a u64.   *)
(***************************************************************************)
EXTENDS AckRanges

RangeSize(r) == (r.end - 1) - r.start

\* The k-th range from the end, k = 1 for the newest.
FromEnd(acks, k) == acks[Len(acks) - k + 1]

\* Packet::to_bytes, Packet::Ack: newest range, then <<gap, size>> pairs.
ToBytes(acks) ==
  [range_end  |-> FromEnd(acks, 1).end - 1,
   range_size |-> RangeSize(FromEnd(acks, 1)),
   remaining  |-> [k \in 1 .. Len(acks) - 1 |->
     [gap  |-> FromEnd(acks, k).start - FromEnd(acks, k + 1).end - 1,
      size |-> RangeSize(FromEnd(acks, k + 1))]]]

\* No subtraction of to_bytes goes below zero.
Encodable(acks) ==
  \A k \in DOMAIN ToBytes(acks).remaining : ToBytes(acks).remaining[k].gap >= 0

\* Packet::from_bytes, type 4.  PrevStart(b)[k] is previous_range_start
\* after k of the remaining ranges.
PrevStart(b) ==
  LET start[k \in 0 .. Len(b.remaining)] ==
        IF k = 0 THEN b.range_end - b.range_size
        ELSE start[k - 1] - b.remaining[k].gap - 2 - b.remaining[k].size
  IN  start

InvalidAckRange(b) ==
  \/ b.range_end < b.range_size
  \/ \E k \in DOMAIN b.remaining :
       \/ PrevStart(b)[k - 1] < 2 + b.remaining[k].gap
       \/ PrevStart(b)[k - 1] - b.remaining[k].gap - 2 < b.remaining[k].size

\* The size of the i-th range that is read, the newest first.
ReadSize(b, i) == IF i = 1 THEN b.range_size ELSE b.remaining[i - 1].size

\* Mutant of ReadRange: the size is taken for the exclusive length.
ReadRangeTooShort(b, i) ==
  Between(PrevStart(b)[i - 1], PrevStart(b)[i - 1] + ReadSize(b, i))

ReadRange(b, i) ==
  Between(PrevStart(b)[i - 1], PrevStart(b)[i - 1] + ReadSize(b, i) + 1)

\* The ranges that are read, and reverse().
FromBytes(b) ==
  LET read == [i \in 1 .. Len(b.remaining) + 1 |-> ReadRange(b, i)]
  IN  [i \in DOMAIN read |-> FromEnd(read, i)]

=============================================================================
