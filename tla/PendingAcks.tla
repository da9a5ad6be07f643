---------------------------- MODULE PendingAcks ----------------------------
(***************************************************************************)
(* One endpoint's `pending_acks` over the life of a connection: packets    *)
(* arrive in any order, some never, some twice; Ack packets that carry the *)
(* ranges are sent; the peer acknowledges an Ack packet or it is given up. *)
(*                                                                         *)
(* endpoint is the RenetClient, with the fields that matter here.  Its       *)
(* sent_packets maps the sequence number of an Ack packet of ours to its   *)
(* largest_acked_packet (PacketSentInfo::Ack); packets of other kinds do   *)
(* not touch pending_acks and are left out.  received is a history         *)
(* variable: the sequence numbers process_packet has seen.                 *)
(***************************************************************************)
EXTENDS AckCodec

CONSTANTS PacketSequences,  \* the sequence numbers the peer may use
          MaxAckPackets     \* bound: Ack packets sent in a behaviour

ASSUME PacketSequencesAssumption ==
  PacketSequences \subseteq Nat /\ MaxAckPackets \in Nat

VARIABLES endpoint, received

acksVars == <<endpoint, received>>

AcksInit ==
  /\ endpoint = [pending_acks |-> <<>>, packet_sequence |-> 0, sent_packets |-> [n \in {} |-> 0]]
  /\ received = {}

\* process_packet: every packet is entered before it is looked at.
ProcessPacket(sequence) ==
  /\ endpoint' = [endpoint EXCEPT !.pending_acks = AddPendingAck(@, sequence)]
  /\ received' = received \cup {sequence}

\* get_packets_to_send: the Ack packet carries a copy of all ranges.
SendAck ==
  /\ endpoint.pending_acks # <<>>
  /\ endpoint.packet_sequence < MaxAckPackets
  /\ endpoint' = [endpoint EXCEPT
       !.packet_sequence = @ + 1,
       !.sent_packets = [n \in DOMAIN @ \cup {endpoint.packet_sequence} |->
         IF n = endpoint.packet_sequence THEN LargestAcked(endpoint.pending_acks) ELSE @[n]]]
  /\ UNCHANGED received

\* The peer acknowledges one of our Ack packets.
AckPacketAcked(n) ==
  /\ endpoint' = [endpoint EXCEPT
       !.pending_acks = AckedLargest(@, endpoint.sent_packets[n]),
       !.sent_packets = Restrict(@, DOMAIN @ \ {n})]
  /\ UNCHANGED received

\* update: the Ack packet is older than DISCARD_AFTER.
AckPacketDiscarded(n) ==
  /\ endpoint' = [endpoint EXCEPT !.sent_packets = Restrict(@, DOMAIN @ \ {n})]
  /\ UNCHANGED received

AcksNext ==
  \/ \E sequence \in PacketSequences : ProcessPacket(sequence)
  \/ SendAck
  \/ \E n \in DOMAIN endpoint.sent_packets : AckPacketAcked(n) \/ AckPacketDiscarded(n)

AcksSpec == AcksInit /\ [][AcksNext]_acksVars

-----------------------------------------------------------------------------
AcksTypeOK ==
  /\ DOMAIN endpoint = {"pending_acks", "packet_sequence", "sent_packets"}
  /\ endpoint.pending_acks \in Seq(Ranges)
  /\ endpoint.packet_sequence \in Nat
  /\ DOMAIN endpoint.sent_packets \subseteq 0 .. endpoint.packet_sequence - 1
  /\ \A n \in DOMAIN endpoint.sent_packets : endpoint.sent_packets[n] \in Nat
  /\ received \subseteq Nat

(***************************************************************************)
(* The ranges are in increasing order and at least one sequence number     *)
(* lies between two neighbours: add_pending_ack merges what touches.  The  *)
(* encoder of Ack packets subtracts neighbours without a check and relies  *)
(* on it.                                                                  *)
(***************************************************************************)
RangesSeparated == Separated(endpoint.pending_acks)

(***************************************************************************)
(* Only packets that process_packet has seen are acknowledged: a sequence  *)
(* number in pending_acks makes the peer drop the message for good.        *)
(***************************************************************************)
OnlyReceivedIsAcked == Covered(endpoint.pending_acks) \subseteq received

(***************************************************************************)
(* What from_bytes reads is what to_bytes was given, for every list of     *)
(* ranges a connection can reach, and no subtraction underflows.           *)
(***************************************************************************)
AckPacketRoundTrip ==
  endpoint.pending_acks # <<>> =>
    /\ Encodable(endpoint.pending_acks)
    /\ ~ InvalidAckRange(ToBytes(endpoint.pending_acks))
    /\ FromBytes(ToBytes(endpoint.pending_acks)) = endpoint.pending_acks

(***************************************************************************)
(* Receiving a packet adds its sequence number and forgets no other; only  *)
(* when a range is pushed behind MaxAckRanges others is the oldest range   *)
(* given up (add_pending_ack, remove(0)).                                  *)
(***************************************************************************)
ReceiveForgetsNothing ==
  [][\A s \in PacketSequences : ProcessPacket(s) =>
       LET all == Covered(endpoint.pending_acks) \cup {s}
       IN  \/ Covered(endpoint'.pending_acks) = all
           \/ /\ Len(endpoint.pending_acks) >= MaxAckRanges
              /\ Covered(endpoint'.pending_acks) =
                   all \ Covered(<<endpoint.pending_acks[1]>>)]_acksVars

(***************************************************************************)
(* An acknowledged Ack packet removes exactly the sequence numbers up to   *)
(* the largest one it carried (comment on PacketSentInfo::Ack).            *)
(***************************************************************************)
AckedLargestIsExact ==
  [][\A n \in DOMAIN endpoint.sent_packets : AckPacketAcked(n) =>
       Covered(endpoint'.pending_acks) =
         {s \in Covered(endpoint.pending_acks) : s > endpoint.sent_packets[n]}]_acksVars
=============================================================================
