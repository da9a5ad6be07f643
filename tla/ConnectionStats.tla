--------------------------- MODULE ConnectionStats ---------------------------
(***************************************************************************)
(* The packet counters of a connection: a ring of SIZE buckets, each for   *)
(* RESOLUTION ticks, with the packets sent in that time and how many of    *)
(* them were acked since.  outstanding has, for each time, the packets     *)
(* sent then that RenetClient::sent_packets still holds.  The byte         *)
(* counters share the ring and are never subtracted from one another; they *)
(* are left out.                                                           *)
(***************************************************************************)
EXTENDS Integers, Functions

CONSTANTS SIZE, RESOLUTION,      \* the buckets, and the time of one; WINDOW is the time of all
          DiscardAfter,          \* the age at which RenetClient::update forgets a sent packet
          Durations,             \* the durations update is called with
          MaxTime, MaxSent       \* bounds: the clock, packets sent per bucket

ASSUME StatsAssumption ==
  /\ SIZE \in Nat /\ SIZE >= 3 /\ RESOLUTION \in Nat \ {0}
  /\ Durations \subseteq Nat /\ MaxTime \in Nat /\ MaxSent \in Nat
  /\ DiscardAfter \in Nat /\ DiscardAfter <= (SIZE - 1) * RESOLUTION

WINDOW == SIZE * RESOLUTION

VARIABLES current_time, current_index, packets_sent, packets_acked, outstanding

statsVars == <<current_time, current_index, packets_sent, packets_acked, outstanding>>

Buckets == 0 .. SIZE - 1
Times == 0 .. MaxTime

\* Mutant of Index: times are not scaled to buckets.
IndexOfTick(time) == time % SIZE

Index(time) == (time \div RESOLUTION) % SIZE

StatsInit ==
  /\ current_time = 0
  /\ current_index = 0
  /\ packets_sent = [i \in Buckets |-> 0]
  /\ packets_acked = [i \in Buckets |-> 0]
  /\ outstanding = [t \in Times |-> 0]

\* RenetClient::update: advance the clock and the ring, forget old packets.
StatsUpdate(duration) ==
  LET now == current_time + duration
      Reset(counts) == IF Index(now) = current_index THEN counts ELSE [counts EXCEPT ![Index(now)] = 0]
  IN  /\ now <= MaxTime
      /\ current_time' = now
      /\ current_index' = Index(now)
      /\ packets_sent' = Reset(packets_sent)
      /\ packets_acked' = Reset(packets_acked)
      /\ outstanding' = [t \in Times |-> IF now - t < DiscardAfter THEN outstanding[t] ELSE 0]

SentPackets(n) ==
  /\ packets_sent[current_index] + n <= MaxSent
  /\ packets_sent' = [packets_sent EXCEPT ![current_index] = @ + n]
  /\ outstanding' = [outstanding EXCEPT ![current_time] = @ + n]
  /\ UNCHANGED <<current_time, current_index, packets_acked>>

\* Mutant of AckedPacket: an ack is counted in the bucket of the present.
AckedPacketNow(sent_at) ==
  /\ outstanding[sent_at] > 0
  /\ outstanding' = [outstanding EXCEPT ![sent_at] = @ - 1]
  /\ packets_acked' = IF current_time - sent_at > WINDOW THEN packets_acked
                      ELSE [packets_acked EXCEPT ![current_index] = @ + 1]
  /\ UNCHANGED <<current_time, current_index, packets_sent>>

\* An ack removes the packet from sent_packets and is counted where it was sent.
AckedPacket(sent_at) ==
  /\ outstanding[sent_at] > 0
  /\ outstanding' = [outstanding EXCEPT ![sent_at] = @ - 1]
  /\ packets_acked' = IF current_time - sent_at > WINDOW THEN packets_acked
                      ELSE [packets_acked EXCEPT ![Index(sent_at)] = @ + 1]
  /\ UNCHANGED <<current_time, current_index, packets_sent>>

StatsNext ==
  \/ \E duration \in Durations : StatsUpdate(duration)
  \/ \E n \in 1 .. MaxSent : SentPackets(n)
  \/ \E sent_at \in 0 .. current_time : AckedPacket(sent_at)

StatsSpec == StatsInit /\ [][StatsNext]_statsVars

-----------------------------------------------------------------------------
\* The buckets packet_loss adds up: not the current and the two before it.
Counted ==
  Buckets \ {current_index, (current_index + SIZE - 1) % SIZE, (current_index + SIZE - 2) % SIZE}

TotalSent == SumFunctionOnSet(packets_sent, Counted)
TotalAcked == SumFunctionOnSet(packets_acked, Counted)

(***************************************************************************)
(* packet_loss divides TotalSent - TotalAcked by TotalSent: the result is  *)
(* between 0 and 1, whatever the pace of update and the age of the acks.   *)
(***************************************************************************)
LossIsAFraction == TotalAcked <= TotalSent

\* The times counted in a bucket.
TimesOf(i) == {t \in Times : Index(t) = i}

(***************************************************************************)
(* A bucket counts every packet sent in its time that was acked or may     *)
(* still be: its time is not reused before RenetClient::update forgets     *)
(* those packets, since DISCARD_AFTER is shorter than WINDOW.              *)
(***************************************************************************)
OutstandingIsCounted ==
  \A i \in Buckets :
    packets_acked[i] + SumFunctionOnSet(outstanding, TimesOf(i)) <= packets_sent[i]
=============================================================================
