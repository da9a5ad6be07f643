--------------------------- MODULE MCPendingAcks ---------------------------
(***************************************************************************)
(* PendingAcks on sequence numbers 0 .. MaxSequence.                       *)
(***************************************************************************)
EXTENDS PendingAcks

CONSTANT MaxSequence

MCSequences == 0 .. MaxSequence
=============================================================================
