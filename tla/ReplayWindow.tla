---------------------------- MODULE ReplayWindow ----------------------------
(***************************************************************************)
(* What the replay protection of a netcode connection promises, on the set *)
(* of sequence numbers it has let through.  Module ReplayProtection is the *)
(* ring buffer that keeps the promise; the packets of module Netcode are   *)
(* decoded against the promise itself.                                     *)
(***************************************************************************)
EXTENDS Integers

CONSTANT BufferSize     \* NETCODE_REPLAY_BUFFER_SIZE

ASSUME WindowAssumption == BufferSize \in Nat \ {0}

\* already_received, for the sequence numbers let through so far.
WindowRefuses(window, sequence) ==
  \/ sequence \in window
  \/ \E s \in window : sequence + BufferSize <= s
=============================================================================
