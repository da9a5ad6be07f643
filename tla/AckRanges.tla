----------------------------- MODULE AckRanges -----------------------------
(***************************************************************************)
(* The acknowledgement ranges of a RenetClient: how the sequence number of *)
(* a received packet enters `pending_acks`, how acknowledged ranges leave  *)
(* it, and how the ranges travel in an Ack packet.                         *)
(*                                                                         *)
(* A range is Rust's half-open `start..end`.  `pending_acks` is a sequence *)
(* of ranges.  Nothing here has state: PendingAcks drives these operators  *)
(* alone, RenetConnection uses them inside a whole connection.             *)
(***************************************************************************)
EXTENDS Integers, Sequences, FiniteSetsExt

CONSTANT MaxAckRanges      \* the literal 64 of add_pending_ack

ASSUME MaxAckRangesAssumption == MaxAckRanges \in Nat \ {0}

Ranges == {r \in [start : Nat, end : Nat] : r.start < r.end}

Between(start, end) == [start |-> start, end |-> end]

Single(sequence) == Between(sequence, sequence + 1)

InRange(n, r) == r.start <= n /\ n < r.end

\* The sequence numbers a list of ranges stands for.
Covered(acks) ==
  UNION {acks[i].start .. (acks[i].end - 1) : i \in DOMAIN acks}

\* Increasing, and at least one sequence number between two neighbours.
Separated(acks) ==
  \A i, j \in DOMAIN acks : i < j => acks[i].end < acks[j].start

\* Vec::insert and Vec::remove
VecInsert(list, i, x) == SubSeq(list, 1, i - 1) \o <<x>> \o SubSeq(list, i, Len(list))

VecRemove(list, i) == SubSeq(list, 1, i - 1) \o SubSeq(list, i + 1, Len(list))

-----------------------------------------------------------------------------
(***************************************************************************)
(* add_pending_ack.  The loop over the ranges returns at the first one     *)
(* that contains the sequence, touches it or lies wholly after it, which   *)
(* is the first one whose end is not below the sequence.                   *)
(***************************************************************************)
\* Mutant of PushBack: the limit is one too low.
PushBackAtLimit(acks, sequence) ==
  LET pushed == Append(acks, Single(sequence))
  IN  IF Len(pushed) >= MaxAckRanges THEN Tail(pushed) ELSE pushed

PushBack(acks, sequence) ==
  LET pushed == Append(acks, Single(sequence))
  IN  IF Len(pushed) > MaxAckRanges THEN Tail(pushed) ELSE pushed

\* Mutant of ExtendAfter: the range is not merged with the next one.
ExtendWithoutMerge(acks, i, sequence) ==
  [acks EXCEPT ![i] = Between(acks[i].start, sequence + 1)]

\* Mutant of ExtendAfter: the range is made one too long.
ExtendTooFar(acks, i, sequence) ==
  [acks EXCEPT ![i] = Between(acks[i].start, sequence + 2)]

ExtendAfter(acks, i, sequence) ==
  IF i < Len(acks) /\ acks[i + 1].start = sequence + 1
  THEN VecRemove([acks EXCEPT ![i] = Between(acks[i].start, acks[i + 1].end)], i + 1)
  ELSE [acks EXCEPT ![i] = Between(acks[i].start, sequence + 1)]

FitAt(acks, i, sequence) ==
  IF InRange(sequence, acks[i]) THEN acks
  ELSE IF acks[i].start = sequence + 1
       THEN [acks EXCEPT ![i] = Between(sequence, acks[i].end)]
  ELSE IF acks[i].end = sequence
       THEN ExtendAfter(acks, i, sequence)
  ELSE VecInsert(acks, i, Single(sequence))      \* acks[i].start > sequence + 1

AddPendingAck(acks, sequence) ==
  LET stops == {i \in DOMAIN acks : sequence <= acks[i].end}
  IN  IF stops = {} THEN PushBack(acks, sequence)
      ELSE FitAt(acks, Min(stops), sequence)

(***************************************************************************)
(* acked_largest: the leading ranges that end at or below largest_ack go,  *)
(* and the range that contains it, if any, is cut to what lies above it.   *)
(***************************************************************************)
\* Mutant of CutFirst: a range that becomes empty stays in the list.
CutKeepsEmpty(acks, largest_ack) ==
  IF largest_ack < Head(acks).start THEN acks
  ELSE [acks EXCEPT ![1] = Between(largest_ack + 1, Head(acks).end)]

\* Mutant of CutFirst: the whole range goes.
CutDropsRange(acks, largest_ack) ==
  IF largest_ack < Head(acks).start THEN acks ELSE Tail(acks)

CutFirst(acks, largest_ack) ==
  IF largest_ack < Head(acks).start THEN acks
  ELSE IF Head(acks).end = largest_ack + 1 THEN Tail(acks)
  ELSE [acks EXCEPT ![1] = Between(largest_ack + 1, Head(acks).end)]

AckedLargest(acks, largest_ack) ==
  LET above == {i \in DOMAIN acks : acks[i].end > largest_ack}
  IN  IF above = {} THEN <<>>
      ELSE CutFirst(SubSeq(acks, Min(above), Len(acks)), largest_ack)

\* The largest sequence an Ack packet built from acks acknowledges.
LargestAcked(acks) == acks[Len(acks)].end - 1

=============================================================================
