------------------------- MODULE MCReplayProtection -------------------------
(***************************************************************************)
(* ReplayProtection for TLC: sequence numbers that go around a small       *)
(* buffer three times.                                                     *)
(***************************************************************************)
EXTENDS ReplayProtection

CONSTANT MaxSequence

MCSequences == 0 .. MaxSequence
=============================================================================
