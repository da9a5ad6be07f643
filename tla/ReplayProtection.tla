-------------------------- MODULE ReplayProtection --------------------------
(***************************************************************************)
(* The replay window of a netcode connection, as Packet::decode uses it: a *)
(* sequence number is looked up before the packet is decrypted and entered *)
(* only when decryption succeeds.  accepted and replayed are history       *)
(* variables: the sequence numbers of the packets that were let through,   *)
(* and those that were let through again.                                  *)
(*                                                                         *)
(* Sequence numbers count packets of one connection, so they stay far      *)
(* below EMPTY (u64::MAX) and sequence + NETCODE_REPLAY_BUFFER_SIZE does   *)
(* not overflow: Empty is a value of its own here.                         *)
(***************************************************************************)
EXTENDS ReplayWindow

CONSTANT Sequences     \* the sequence numbers the peer may use

ASSUME ReplayAssumption == Sequences \subseteq Nat

VARIABLES most_recent_sequence, received_packet, accepted, replayed

ringVars == <<most_recent_sequence, received_packet, accepted, replayed>>

Empty == -1

\* Mutant of RingInit: most_recent_sequence starts as an empty slot does.
RingInitEmpty ==
  /\ most_recent_sequence = Empty
  /\ received_packet = [i \in 0 .. BufferSize - 1 |-> Empty]
  /\ accepted = {}
  /\ replayed = {}

RingInit ==
  /\ most_recent_sequence = 0
  /\ received_packet = [i \in 0 .. BufferSize - 1 |-> Empty]
  /\ accepted = {}
  /\ replayed = {}

\* Mutant of AlreadyReceived: a slot is compared for equality.
AlreadyInSlot(sequence) ==
  \/ sequence + BufferSize < most_recent_sequence
  \/ received_packet[sequence % BufferSize] = sequence

\* Mutant of AlreadyReceived: the slot of the sequence is not looked at.
AlreadyPast(sequence) == sequence + BufferSize <= most_recent_sequence

AlreadyReceived(sequence) ==
  \/ sequence + BufferSize <= most_recent_sequence
  \/ /\ received_packet[sequence % BufferSize] # Empty
     /\ received_packet[sequence % BufferSize] >= sequence

\* advance_sequence, after the packet was decrypted.
Accept(sequence) ==
  /\ ~ AlreadyReceived(sequence)
  /\ most_recent_sequence' =
       IF sequence > most_recent_sequence THEN sequence ELSE most_recent_sequence
  /\ received_packet' = [received_packet EXCEPT ![sequence % BufferSize] = sequence]
  /\ accepted' = accepted \cup {sequence}
  /\ replayed' = replayed \cup ({sequence} \cap accepted)

\* DuplicatedSequence, or a packet that does not decrypt.
Refuse(sequence) == UNCHANGED ringVars

RingNext == \E sequence \in Sequences : Accept(sequence) \/ Refuse(sequence)

RingSpec == RingInit /\ [][RingNext]_ringVars

-----------------------------------------------------------------------------
RingTypeOK ==
  /\ most_recent_sequence \in Nat
  /\ received_packet \in [0 .. BufferSize - 1 -> Nat \cup {Empty}]
  /\ accepted \subseteq Nat /\ replayed \subseteq accepted

(***************************************************************************)
(* already_received refuses exactly the sequence numbers that were let     *)
(* through before and those a whole buffer behind one that was: nothing is *)
(* accepted twice, however late it comes, and no packet inside the window  *)
(* is lost to a newer one that shares its slot.                            *)
(***************************************************************************)
WindowIsExact == \A s \in Sequences : AlreadyReceived(s) <=> WindowRefuses(accepted, s)

(***************************************************************************)
(* A packet of a sequence number is let through at most once, however many *)
(* copies of it arrive and when.                                           *)
(***************************************************************************)
NoReplay == replayed = {}
=============================================================================
