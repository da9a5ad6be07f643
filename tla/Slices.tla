------------------------------- MODULE Slices -------------------------------
(***************************************************************************)
(* Messages and the slices they travel in.  A message is a model value     *)
(* with a length in bytes; a piece <<m, i>> is the i-th slice of it, and   *)
(* the only piece of a message small enough to travel whole.               *)
(***************************************************************************)
EXTENDS Integers, FiniteSets, FiniteSetsExt

CONSTANTS Messages,    \* the messages the applications may send
          Size         \* their length in bytes

ASSUME MessagesAssumption == Size \in [Messages -> Nat]

SLICE_SIZE == 1200

Sliced(m) == Size[m] > SLICE_SIZE

NumSlices(m) == IF Sliced(m) THEN (Size[m] + SLICE_SIZE - 1) \div SLICE_SIZE ELSE 1

Indices(m) == 0 .. NumSlices(m) - 1

Pieces(m) == {<<m, i>> : i \in Indices(m)}

\* The length of the payload message.slice(start..end).
PieceBytes(m, i) ==
  IF i = NumSlices(m) - 1 THEN Size[m] - i * SLICE_SIZE ELSE SLICE_SIZE

\* The bytes a channel reserves while a message is being put together.
ReservedBytes(m) == NumSlices(m) * SLICE_SIZE

\* octets::varint_len.
VarintLen(n) ==
  IF n < 64 THEN 1 ELSE IF n < 16384 THEN 2 ELSE IF n < 1073741824 THEN 4 ELSE 8
=============================================================================
