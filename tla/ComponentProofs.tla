--------------------------- MODULE ComponentProofs ---------------------------
(***************************************************************************)
(* Two parts of an endpoint that are proved by themselves.  First the      *)
(* pending acknowledgements of an endpoint, for every limit on the number  *)
(* of ranges, every set of sequence numbers the peer uses and every number *)
(* of Ack packets, and what an Ack packet carries.  Then the statistics of *)
(* a connection, for every window, every resolution and every pace.        *)
(***************************************************************************)
EXTENDS PendingAcks, ConnectionStats, MemoryLemmas

\* Inductive: what add_pending_ack and acked_largest do is known only for
\* separated ranges.
AcksIInv == AcksTypeOK /\ RangesSeparated /\ OnlyReceivedIsAcked

LEMMA LastRange ==
  ASSUME NEW acks \in Seq(Ranges), acks # <<>>
  PROVE  LargestAcked(acks) \in Nat
<1>1. Len(acks) \in 1 .. Len(acks) /\ acks[Len(acks)] \in Ranges
  OBVIOUS
<1> QED BY <1>1 DEF LargestAcked, Ranges

LEMMA AcksInitially == AcksInit => AcksIInv
<1> SUFFICES ASSUME AcksInit PROVE AcksIInv
  OBVIOUS
<1>1. /\ endpoint.pending_acks = <<>> /\ received = {} /\ DOMAIN endpoint.sent_packets = {}
      /\ endpoint.packet_sequence = 0
      /\ DOMAIN endpoint = {"pending_acks", "packet_sequence", "sent_packets"}
  BY DEF AcksInit
<1>2. AcksTypeOK
  BY <1>1 DEF AcksTypeOK
<1>3. RangesSeparated /\ OnlyReceivedIsAcked
  BY <1>1 DEF RangesSeparated, Separated, OnlyReceivedIsAcked, Covered
<1> QED BY <1>2, <1>3 DEF AcksIInv

(***************************************************************************)
(* process_packet keeps the invariant, and forgets a sequence number only  *)
(* with the oldest range of a full list.                                   *)
(***************************************************************************)
LEMMA ProcessPacketStep ==
  ASSUME AcksIInv, NEW s \in PacketSequences, ProcessPacket(s)
  PROVE  /\ AcksIInv'
         /\ LET all == Covered(endpoint.pending_acks) \cup {s}
            IN  \/ Covered(endpoint'.pending_acks) = all
                \/ /\ Len(endpoint.pending_acks) >= MaxAckRanges
                   /\ Covered(endpoint'.pending_acks) = all \ Covered(<<endpoint.pending_acks[1]>>)
<1>1. s \in Nat
  BY PacketSequencesAssumption
<1>2. endpoint.pending_acks \in Seq(Ranges) /\ Separated(endpoint.pending_acks)
  BY DEF AcksIInv, AcksTypeOK, RangesSeparated
<1>3. /\ endpoint'.pending_acks = AddPendingAck(endpoint.pending_acks, s)
      /\ DOMAIN endpoint' = DOMAIN endpoint /\ received' = received \cup {s}
      /\ endpoint'.packet_sequence = endpoint.packet_sequence
      /\ endpoint'.sent_packets = endpoint.sent_packets
  BY DEF ProcessPacket, AcksIInv, AcksTypeOK
<1>4. /\ endpoint'.pending_acks \in Seq(Ranges)
      /\ Separated(endpoint'.pending_acks)
      /\ \/ Covered(endpoint'.pending_acks) = Covered(endpoint.pending_acks) \cup {s}
         \/ /\ Len(endpoint.pending_acks) >= MaxAckRanges
            /\ Covered(endpoint'.pending_acks)
                 = (Covered(endpoint.pending_acks) \cup {s}) \ Covered(<<endpoint.pending_acks[1]>>)
  BY <1>1, <1>2, <1>3, AddPendingAckProperties, Zenon
<1>5. AcksTypeOK'
  BY <1>1, <1>3, <1>4, Zenon DEF AcksIInv, AcksTypeOK
<1>6. OnlyReceivedIsAcked'
  BY <1>3, <1>4 DEF AcksIInv, OnlyReceivedIsAcked
<1> QED BY <1>4, <1>5, <1>6 DEF AcksIInv, RangesSeparated

(***************************************************************************)
(* An acknowledged Ack packet keeps the invariant and removes exactly the  *)
(* numbers up to the largest it carried.                                   *)
(***************************************************************************)
LEMMA AckPacketAckedStep ==
  ASSUME AcksIInv, NEW n \in DOMAIN endpoint.sent_packets, AckPacketAcked(n)
  PROVE  /\ AcksIInv'
         /\ Covered(endpoint'.pending_acks) =
              {s \in Covered(endpoint.pending_acks) : s > endpoint.sent_packets[n]}
<1>1. endpoint.sent_packets[n] \in Nat
  BY DEF AcksIInv, AcksTypeOK
<1>2. endpoint.pending_acks \in Seq(Ranges) /\ Separated(endpoint.pending_acks)
  BY DEF AcksIInv, AcksTypeOK, RangesSeparated
<1>3. /\ endpoint'.pending_acks = AckedLargest(endpoint.pending_acks, endpoint.sent_packets[n])
      /\ DOMAIN endpoint' = DOMAIN endpoint /\ received' = received
      /\ endpoint'.packet_sequence = endpoint.packet_sequence
      /\ endpoint'.sent_packets =
           Restrict(endpoint.sent_packets, DOMAIN endpoint.sent_packets \ {n})
  BY DEF AckPacketAcked, AcksIInv, AcksTypeOK
<1>4. /\ endpoint'.pending_acks \in Seq(Ranges)
      /\ Separated(endpoint'.pending_acks)
      /\ Covered(endpoint'.pending_acks) =
           {s \in Covered(endpoint.pending_acks) : s > endpoint.sent_packets[n]}
  BY <1>1, <1>2, <1>3, AckedLargestProperties, Zenon
<1>5. AcksTypeOK'
  <2>1. /\ DOMAIN endpoint'.sent_packets = DOMAIN endpoint.sent_packets \ {n}
        /\ \A k \in DOMAIN endpoint'.sent_packets :
             endpoint'.sent_packets[k] = endpoint.sent_packets[k]
    BY <1>3 DEF Restrict
  <2> QED BY <1>3, <1>4, <2>1, Zenon DEF AcksIInv, AcksTypeOK
<1>6. OnlyReceivedIsAcked'
  BY <1>3, <1>4 DEF AcksIInv, OnlyReceivedIsAcked
<1> QED BY <1>4, <1>5, <1>6 DEF AcksIInv, RangesSeparated

LEMMA AcksStep == AcksIInv /\ [AcksNext]_acksVars => AcksIInv'
<1> SUFFICES ASSUME AcksIInv, [AcksNext]_acksVars PROVE AcksIInv'
  OBVIOUS
<1>1. ASSUME NEW s \in PacketSequences, ProcessPacket(s) PROVE AcksIInv'
  BY <1>1, ProcessPacketStep
<1>2. CASE SendAck
  <2>1. LargestAcked(endpoint.pending_acks) \in Nat
    BY <1>2, LastRange DEF AcksIInv, AcksTypeOK, SendAck
  <2>2. /\ DOMAIN endpoint' = DOMAIN endpoint /\ received' = received
        /\ endpoint'.pending_acks = endpoint.pending_acks
        /\ endpoint'.packet_sequence = endpoint.packet_sequence + 1
        /\ endpoint'.sent_packets =
             [n \in DOMAIN endpoint.sent_packets \cup {endpoint.packet_sequence} |->
             IF n = endpoint.packet_sequence THEN LargestAcked(endpoint.pending_acks)
             ELSE endpoint.sent_packets[n]]
    BY <1>2 DEF SendAck, AcksIInv, AcksTypeOK
  <2>3. /\ endpoint.packet_sequence \in Nat
        /\ DOMAIN endpoint.sent_packets \subseteq 0 .. endpoint.packet_sequence - 1
        /\ \A n \in DOMAIN endpoint.sent_packets : endpoint.sent_packets[n] \in Nat
    BY DEF AcksIInv, AcksTypeOK
  <2>4. DOMAIN endpoint'.sent_packets \subseteq 0 .. endpoint'.packet_sequence - 1
    BY <2>2, <2>3
  <2>5. \A n \in DOMAIN endpoint'.sent_packets : endpoint'.sent_packets[n] \in Nat
    BY <2>1, <2>2, <2>3
  <2>6. endpoint'.packet_sequence \in Nat
    BY <2>2, <2>3
  <2>7. AcksTypeOK'
    BY <2>2, <2>4, <2>5, <2>6, Zenon DEF AcksIInv, AcksTypeOK
  <2> QED BY <2>2, <2>7 DEF AcksIInv, RangesSeparated, OnlyReceivedIsAcked
<1>3. ASSUME NEW n \in DOMAIN endpoint.sent_packets, AckPacketAcked(n) PROVE AcksIInv'
  BY <1>3, AckPacketAckedStep
<1>4. ASSUME NEW n \in DOMAIN endpoint.sent_packets, AckPacketDiscarded(n) PROVE AcksIInv'
  <2>1. /\ DOMAIN endpoint' = DOMAIN endpoint /\ received' = received
        /\ endpoint'.pending_acks = endpoint.pending_acks
        /\ endpoint'.packet_sequence = endpoint.packet_sequence
        /\ endpoint'.sent_packets =
             Restrict(endpoint.sent_packets, DOMAIN endpoint.sent_packets \ {n})
    BY <1>4 DEF AckPacketDiscarded, AcksIInv, AcksTypeOK
  <2>2. /\ DOMAIN endpoint'.sent_packets = DOMAIN endpoint.sent_packets \ {n}
        /\ \A k \in DOMAIN endpoint'.sent_packets :
             endpoint'.sent_packets[k] = endpoint.sent_packets[k]
    BY <2>1 DEF Restrict
  <2> QED BY <2>1, <2>2, Zenon DEF AcksIInv, AcksTypeOK, RangesSeparated, OnlyReceivedIsAcked
<1>5. CASE UNCHANGED acksVars
  BY <1>5 DEF AcksIInv, AcksTypeOK, RangesSeparated, OnlyReceivedIsAcked, acksVars
<1> QED BY <1>1, <1>2, <1>3, <1>4, <1>5 DEF AcksNext

LEMMA AcksInvariance == AcksSpec => []AcksIInv
BY AcksInitially, AcksStep, PTL DEF AcksSpec

(***************************************************************************)
(* pending_acks is always a list of non-empty ranges, and sent_packets     *)
(* holds only packets already numbered.                                    *)
(***************************************************************************)
THEOREM TypeCorrect == AcksSpec => []AcksTypeOK
<1>1. AcksIInv => AcksTypeOK
  BY DEF AcksIInv
<1> QED BY <1>1, AcksInvariance, PTL

(***************************************************************************)
(* For every order in which packets arrive, add_pending_ack and            *)
(* acked_largest leave increasing ranges with a gap between neighbours.    *)
(***************************************************************************)
THEOREM AlwaysSeparated == AcksSpec => []RangesSeparated
<1>1. AcksIInv => RangesSeparated
  BY DEF AcksIInv
<1> QED BY <1>1, AcksInvariance, PTL

(***************************************************************************)
(* No endpoint ever acknowledges a packet that process_packet has not      *)
(* seen.                                                                   *)
(***************************************************************************)
THEOREM AcksAreHonest == AcksSpec => []OnlyReceivedIsAcked
<1>1. AcksIInv => OnlyReceivedIsAcked
  BY DEF AcksIInv
<1> QED BY <1>1, AcksInvariance, PTL

(***************************************************************************)
(* add_pending_ack never forgets a sequence number except with the oldest  *)
(* range of a list that is full.                                           *)
(***************************************************************************)
THEOREM ReceiveIsExact == AcksSpec => ReceiveForgetsNothing
<1> DEFINE Kept == \A s \in PacketSequences : ProcessPacket(s) =>
             LET all == Covered(endpoint.pending_acks) \cup {s}
             IN  \/ Covered(endpoint'.pending_acks) = all
                 \/ /\ Len(endpoint.pending_acks) >= MaxAckRanges
                    /\ Covered(endpoint'.pending_acks) = all \ Covered(<<endpoint.pending_acks[1]>>)
<1>1. AcksIInv => Kept
  BY ProcessPacketStep, Zenon
<1> QED BY <1>1, AcksInvariance, PTL DEF ReceiveForgetsNothing

(***************************************************************************)
(* acked_largest removes exactly what the acknowledged Ack packet covered. *)
(***************************************************************************)
THEOREM AckIsExact == AcksSpec => AckedLargestIsExact
<1> DEFINE Cut == \A n \in DOMAIN endpoint.sent_packets : AckPacketAcked(n) =>
             Covered(endpoint'.pending_acks) =
               {s \in Covered(endpoint.pending_acks) : s > endpoint.sent_packets[n]}
<1>1. AcksIInv => Cut
  BY AckPacketAckedStep, Zenon
<1> QED BY <1>1, AcksInvariance, PTL DEF AckedLargestIsExact

(***************************************************************************)
(* to_bytes subtracts the end of a range from the start of the next one    *)
(* without a check; on separated ranges no difference is negative.         *)
(***************************************************************************)
LEMMA SeparatedEncodable ==
  ASSUME NEW acks \in Seq(Ranges), Separated(acks)
  PROVE  Encodable(acks)
<1> DEFINE remaining == ToBytes(acks).remaining
<1>1. /\ Len(acks) \in Nat /\ DOMAIN acks = 1 .. Len(acks)
      /\ \A k \in 1 .. Len(acks) : acks[k] \in Ranges
  OBVIOUS
<1>2. remaining = [k \in 1 .. Len(acks) - 1 |->
        [gap  |-> FromEnd(acks, k).start - FromEnd(acks, k + 1).end - 1,
         size |-> RangeSize(FromEnd(acks, k + 1))]]
  BY DEF ToBytes
<1> HIDE DEF remaining
<1> SUFFICES ASSUME NEW k \in 1 .. Len(acks) - 1 PROVE remaining[k].gap >= 0
  BY <1>2 DEF Encodable, remaining
<1>3. remaining[k].gap = FromEnd(acks, k).start - FromEnd(acks, k + 1).end - 1
  BY <1>2
<1>4. /\ Len(acks) - k \in DOMAIN acks /\ Len(acks) - k + 1 \in DOMAIN acks
      /\ Len(acks) - (k + 1) + 1 = Len(acks) - k
  BY <1>1
<1>5. /\ FromEnd(acks, k) = acks[Len(acks) - k + 1]
      /\ FromEnd(acks, k + 1) = acks[Len(acks) - k]
  BY <1>4 DEF FromEnd
<1>6. acks[Len(acks) - k].end < acks[Len(acks) - k + 1].start
  BY <1>1, <1>4 DEF Separated
<1>7. acks[Len(acks) - k].end \in Nat /\ acks[Len(acks) - k + 1].start \in Nat
  BY <1>1, <1>4, Zenon DEF Ranges
<1> QED BY <1>3, <1>5, <1>6, <1>7, SMTT(20)

(***************************************************************************)
(* from_bytes reads the ranges from the newest to the oldest, and          *)
(* previous_range_start is the start of each in turn.                      *)
(***************************************************************************)
LEMMA FromEndFacts ==
  ASSUME NEW acks \in Seq(Ranges), Separated(acks), acks # <<>>
  PROVE  /\ Len(acks) \in Nat \ {0}
         /\ \A k \in 1 .. Len(acks) :
              /\ FromEnd(acks, k) \in Ranges
              /\ FromEnd(acks, Len(acks) - k + 1) = acks[k]
         /\ \A k \in 1 .. Len(acks) - 1 : FromEnd(acks, k + 1).end < FromEnd(acks, k).start
<1>1. /\ Len(acks) \in Nat \ {0} /\ DOMAIN acks = 1 .. Len(acks)
      /\ \A k \in 1 .. Len(acks) : acks[k] \in Ranges
  OBVIOUS
<1>2. ASSUME NEW k \in 1 .. Len(acks)
      PROVE  FromEnd(acks, k) \in Ranges /\ FromEnd(acks, Len(acks) - k + 1) = acks[k]
  <2>1. Len(acks) - k + 1 \in 1 .. Len(acks) /\ Len(acks) - (Len(acks) - k + 1) + 1 = k
    BY <1>1
  <2> QED BY <1>1, <2>1 DEF FromEnd
<1>3. ASSUME NEW k \in 1 .. Len(acks) - 1
      PROVE  FromEnd(acks, k + 1).end < FromEnd(acks, k).start
  <2>1. /\ Len(acks) - k \in DOMAIN acks /\ Len(acks) - k + 1 \in DOMAIN acks
        /\ Len(acks) - (k + 1) + 1 = Len(acks) - k /\ Len(acks) - k < Len(acks) - k + 1
    BY <1>1
  <2> QED BY <2>1 DEF FromEnd, Separated
<1> QED BY <1>1, <1>2, <1>3

\* What to_bytes writes.
LEMMA WrittenFacts ==
  ASSUME NEW acks \in Seq(Ranges), acks # <<>>
  PROVE  LET b == ToBytes(acks)
         IN  /\ Len(b.remaining) = Len(acks) - 1 /\ DOMAIN b.remaining = 1 .. Len(acks) - 1
             /\ b.range_end = FromEnd(acks, 1).end - 1 /\ b.range_size = RangeSize(FromEnd(acks, 1))
             /\ \A k \in 1 .. Len(acks) - 1 :
                  /\ b.remaining[k].gap = FromEnd(acks, k).start - FromEnd(acks, k + 1).end - 1
                  /\ b.remaining[k].size = RangeSize(FromEnd(acks, k + 1))
<1> DEFINE b == ToBytes(acks)
<1>1. Len(acks) - 1 \in Nat
  OBVIOUS
<1>2. b.remaining = [k \in 1 .. Len(acks) - 1 |->
        [gap  |-> FromEnd(acks, k).start - FromEnd(acks, k + 1).end - 1,
         size |-> RangeSize(FromEnd(acks, k + 1))]]
  BY DEF ToBytes
<1>3. b.range_end = FromEnd(acks, 1).end - 1 /\ b.range_size = RangeSize(FromEnd(acks, 1))
  BY DEF ToBytes
<1> HIDE DEF b
<1>4. Len(b.remaining) = Len(acks) - 1 /\ DOMAIN b.remaining = 1 .. Len(acks) - 1
  BY <1>1, <1>2
<1>5. \A k \in 1 .. Len(acks) - 1 :
        /\ b.remaining[k].gap = FromEnd(acks, k).start - FromEnd(acks, k + 1).end - 1
        /\ b.remaining[k].size = RangeSize(FromEnd(acks, k + 1))
  BY <1>2
<1> QED BY <1>3, <1>4, <1>5, Zenon DEF b

Starts(b, start) ==
  start = [k \in 0 .. Len(b.remaining) |->
    IF k = 0 THEN b.range_end - b.range_size
    ELSE start[k - 1] - b.remaining[k].gap - 2 - b.remaining[k].size]

LEMMA ReadStarts ==
  ASSUME NEW acks \in Seq(Ranges), Separated(acks), acks # <<>>
  PROVE  \A k \in 0 .. Len(acks) - 1 : PrevStart(ToBytes(acks))[k] = FromEnd(acks, k + 1).start
<1> DEFINE b == ToBytes(acks)
           n == Len(acks) - 1
           want == [k \in 0 .. n |-> FromEnd(acks, k + 1).start]
           Start(f, k) == IF k = 0 THEN b.range_end - b.range_size
                          ELSE f[k - 1] - b.remaining[k].gap - 2 - b.remaining[k].size
<1>1. /\ n \in Nat /\ Len(b.remaining) = n
      /\ b.range_end = FromEnd(acks, 1).end - 1 /\ b.range_size = RangeSize(FromEnd(acks, 1))
      /\ \A k \in 1 .. n :
           /\ b.remaining[k].gap = FromEnd(acks, k).start - FromEnd(acks, k + 1).end - 1
           /\ b.remaining[k].size = RangeSize(FromEnd(acks, k + 1))
  BY WrittenFacts
<1>2. \A k \in 1 .. n + 1 : FromEnd(acks, k) \in Ranges
  BY FromEndFacts
<1> HIDE DEF b, n
<1>3. \A k \in 1 .. n + 1 : FromEnd(acks, k).start \in Nat /\ FromEnd(acks, k).end \in Nat
  BY <1>2 DEF Ranges
<1>4. b.range_end - b.range_size = want[0]
  BY <1>1, <1>3 DEF RangeSize
<1>5. ASSUME NEW k \in 1 .. n
      PROVE  want[k - 1] - b.remaining[k].gap - 2 - b.remaining[k].size = want[k]
  <2>1. want[k - 1] = FromEnd(acks, k).start /\ want[k] = FromEnd(acks, k + 1).start
    BY <1>1
  <2>2. k \in 1 .. n + 1 /\ k + 1 \in 1 .. n + 1
    BY <1>1
  <2>3. /\ b.remaining[k].gap = FromEnd(acks, k).start - FromEnd(acks, k + 1).end - 1
        /\ b.remaining[k].size = (FromEnd(acks, k + 1).end - 1) - FromEnd(acks, k + 1).start
    BY <1>1 DEF RangeSize
  <2>4. \A s, e, t \in Nat : s - (s - e - 1) - 2 - ((e - 1) - t) = t
    OBVIOUS
  <2>5. /\ FromEnd(acks, k).start \in Nat
        /\ FromEnd(acks, k + 1).start \in Nat /\ FromEnd(acks, k + 1).end \in Nat
    BY <1>3, <2>2
  <2> HIDE DEF want
  <2> QED BY <2>1, <2>3, <2>4, <2>5, SMTT(20)
<1>6. Starts(b, want)
  <2> HIDE DEF want
  <2>1. \A k \in 0 .. n : Start(want, k) = want[k]
    BY <1>1, <1>4, <1>5
  <2> USE DEF want
  <2>2. want = [k \in 0 .. n |-> Start(want, k)]
    BY <2>1
  <2> QED BY <1>1, <2>2, Zenon DEF Starts
<1> DEFINE got == PrevStart(b)
<1>7. Starts(b, got)
  BY <1>6, Zenon DEF PrevStart, Starts
<1> HIDE DEF got, want
<1>8. \A k \in 0 .. n : got[k] = Start(got, k)
  BY <1>1, <1>7 DEF Starts
<1>9. \A k \in 0 .. n : want[k] = Start(want, k)
  BY <1>1, <1>6 DEF Starts
<1> DEFINE wrong == {k \in 0 .. n : got[k] # want[k]}
<1>10. wrong = {}
  <2> SUFFICES ASSUME wrong # {} PROVE FALSE
    OBVIOUS
  <2> DEFINE k == Min(wrong)
  <2>0. wrong \in SUBSET Nat
    BY <1>1
  <2>1. k \in wrong /\ \A j \in wrong : k <= j
    <3> HIDE DEF wrong
    <3> QED BY <2>0, MinNat
  <2> HIDE DEF k
  <2>2. k # 0
    BY <1>8, <1>9, <2>1
  <2>3. k - 1 \in 0 .. n /\ k - 1 \notin wrong
    BY <1>1, <2>1, <2>2
  <2> QED BY <1>8, <1>9, <2>1, <2>2, <2>3
<1>11. \A k \in 0 .. n : got[k] = FromEnd(acks, k + 1).start
  BY <1>10, Zenon DEF want
<1> QED BY <1>11 DEF got, b, n

(***************************************************************************)
(* from_bytes accepts what to_bytes has written and reads the same ranges. *)
(***************************************************************************)
LEMMA RoundTrip ==
  ASSUME NEW acks \in Seq(Ranges), Separated(acks), acks # <<>>
  PROVE  ~ InvalidAckRange(ToBytes(acks)) /\ FromBytes(ToBytes(acks)) = acks
<1> DEFINE b == ToBytes(acks)
           n == Len(acks) - 1
           start == PrevStart(b)
<1>1. /\ n \in Nat /\ Len(b.remaining) = n /\ DOMAIN b.remaining = 1 .. n
      /\ b.range_end = FromEnd(acks, 1).end - 1 /\ b.range_size = RangeSize(FromEnd(acks, 1))
      /\ \A k \in 1 .. n :
           /\ b.remaining[k].gap = FromEnd(acks, k).start - FromEnd(acks, k + 1).end - 1
           /\ b.remaining[k].size = RangeSize(FromEnd(acks, k + 1))
  BY WrittenFacts
<1>2. \A k \in 0 .. n : start[k] = FromEnd(acks, k + 1).start
  BY ReadStarts
<1>3. /\ Len(acks) = n + 1
      /\ \A k \in 1 .. n + 1 :
           FromEnd(acks, k) \in Ranges /\ FromEnd(acks, (n + 1) - k + 1) = acks[k]
      /\ \A k \in 1 .. n : FromEnd(acks, k + 1).end < FromEnd(acks, k).start
  BY FromEndFacts
<1> HIDE DEF b, n, start
<1>4. \A k \in 1 .. n + 1 : /\ FromEnd(acks, k).start \in Nat /\ FromEnd(acks, k).end \in Nat
                            /\ FromEnd(acks, k).start < FromEnd(acks, k).end
                            /\ FromEnd(acks, k) =
                                 Between(FromEnd(acks, k).start, FromEnd(acks, k).end)
  BY <1>3 DEF Ranges, Between
<1>5. ~ InvalidAckRange(b)
  <2>1. ~ (b.range_end < b.range_size)
    BY <1>1, <1>4 DEF RangeSize
  <2>2. ASSUME NEW k \in 1 .. n
        PROVE  /\ ~ (start[k - 1] < 2 + b.remaining[k].gap)
               /\ ~ (start[k - 1] - b.remaining[k].gap - 2 < b.remaining[k].size)
    <3>1. k \in 1 .. n + 1 /\ k + 1 \in 1 .. n + 1 /\ k - 1 \in 0 .. n /\ (k - 1) + 1 = k
      BY <1>1
    <3>2. start[k - 1] = FromEnd(acks, k).start
      BY <1>2, <3>1
    <3>3. /\ b.remaining[k].gap = FromEnd(acks, k).start - FromEnd(acks, k + 1).end - 1
          /\ b.remaining[k].size = (FromEnd(acks, k + 1).end - 1) - FromEnd(acks, k + 1).start
      BY <1>1 DEF RangeSize
    <3>4. \A s, e, t \in Nat : e < s /\ t < e =>
            ~ (s < 2 + (s - e - 1)) /\ ~ (s - (s - e - 1) - 2 < (e - 1) - t)
      OBVIOUS
    <3> QED BY <1>3, <1>4, <3>1, <3>2, <3>3, <3>4, Zenon
  <2> QED BY <1>1, <2>1, <2>2, Zenon DEF InvalidAckRange, start
<1>6. ASSUME NEW i \in 1 .. n + 1 PROVE ReadRange(b, i) = FromEnd(acks, i)
  <2>1. i - 1 \in 0 .. n /\ (i - 1) + 1 = i
    BY <1>1
  <2>2. start[i - 1] = FromEnd(acks, i).start
    BY <1>2, <2>1
  <2>3. ReadSize(b, i) = RangeSize(FromEnd(acks, i))
    BY <1>1, <2>1 DEF ReadSize
  <2>4. start[i - 1] + ReadSize(b, i) + 1 = FromEnd(acks, i).end
    BY <1>4, <2>2, <2>3 DEF RangeSize
  <2> QED BY <1>4, <2>2, <2>4 DEF ReadRange, start
<1> DEFINE read == [i \in 1 .. n + 1 |-> ReadRange(b, i)]
<1>7. FromBytes(b) = [i \in 1 .. n + 1 |-> FromEnd(read, i)]
  BY <1>1 DEF FromBytes
<1>8. ASSUME NEW i \in 1 .. n + 1 PROVE FromEnd(read, i) = acks[i]
  <2>1. Len(read) = n + 1 /\ (n + 1) - i + 1 \in 1 .. n + 1
    BY <1>1
  <2>2. FromEnd(read, i) = ReadRange(b, (n + 1) - i + 1)
    <3>1. \A j \in 1 .. n + 1 : read[j] = ReadRange(b, j)
      OBVIOUS
    <3> HIDE DEF read
    <3>2. FromEnd(read, i) = read[(n + 1) - i + 1]
      BY <1>1, <2>1 DEF FromEnd
    <3> QED BY <2>1, <3>1, <3>2, Zenon
  <2> QED BY <1>3, <1>6, <2>1, <2>2
<1> HIDE DEF read
<1>9. acks = [i \in 1 .. n + 1 |-> acks[i]]
  BY <1>3
<1>10. FromBytes(b) = acks
  BY <1>7, <1>8, <1>9
<1> QED BY <1>5, <1>10 DEF b

(***************************************************************************)
(* Every Ack packet a connection can build is read back as it was: the     *)
(* unsigned subtractions of Packet::to_bytes never underflow, from_bytes   *)
(* refuses none, and the peer gets the ranges that were sent.              *)
(***************************************************************************)
THEOREM AckPacketsSurvive == AcksSpec => []AckPacketRoundTrip
<1>1. AcksIInv => AckPacketRoundTrip
  BY SeparatedEncodable, RoundTrip DEF AcksIInv, AcksTypeOK, RangesSeparated, AckPacketRoundTrip
<1> QED BY <1>1, AcksInvariance, PTL

-----------------------------------------------------------------------------
(***************************************************************************)
(* The statistics.  A bucket that is reset must have no packet left whose  *)
(* ack would be counted in it.  First sums and remainders in general.      *)
(***************************************************************************)
\* A sum is no larger than that of larger terms.
LEMMA SumLess ==
  ASSUME NEW f, NEW g, NEW S, Weights(f, S), Weights(g, S), \A x \in S : f[x] <= g[x]
  PROVE  SumFunctionOnSet(f, S) <= SumFunctionOnSet(g, S)
<1> DEFINE F(s) == SumFunctionOnSet(f, s)
           G(s) == SumFunctionOnSet(g, s)
           N == {n \in Nat : \A s \in SUBSET S : Cardinality(s) = n => F(s) <= G(s)}
<1>0. \A s \in SUBSET S : /\ Weights(f, s) /\ Weights(g, s) /\ Cardinality(s) \in Nat
                          /\ Cardinality(s) = 0 <=> s = {}
                          /\ F(s) \in Nat /\ G(s) \in Nat
  BY WeightsFacts, SumIsNat
<1>1. 0 \in N
  <2>1. F({}) = 0 /\ G({}) = 0
    BY SumEmpty, Zenon
  <2> QED BY <1>0, <2>1
<1>2. ASSUME NEW n \in Nat, n \in N
      PROVE  n + 1 \in N
  <2>1. ASSUME NEW s \in SUBSET S, Cardinality(s) = n + 1
        PROVE  F(s) <= G(s)
    <3>1. PICK y \in s : TRUE
      BY <1>0, <2>1
    <3> DEFINE t == s \ {y}
    <3>2. Weights(f, s) /\ Weights(g, s)
      BY <1>0, Zenon
    <3>3. F(t) <= G(t)
      BY <1>2, <2>1, <3>2, OneLess
    <3>4. F(s) = f[y] + F(t) /\ G(s) = g[y] + G(t)
      BY <3>2, SumRemove
    <3>5. F(t) \in Nat /\ G(t) \in Nat /\ f[y] \in Nat /\ g[y] \in Nat /\ f[y] <= g[y]
      BY <1>0, <3>2, Zenon DEF Weights
    <3> HIDE DEF F, G, t
    <3> QED BY <3>3, <3>4, <3>5
  <2> QED BY <2>1
<1> HIDE DEF N
<1>3. \A n \in Nat : n \in N
  BY <1>1, <1>2, SetInduction, Zenon
<1> QED BY <1>0, <1>3 DEF N

LEMMA SumZero ==
  ASSUME NEW f, NEW S, IsFiniteSet(S), \A x \in S : f[x] = 0
  PROVE  SumFunctionOnSet(f, S) = 0
<1> DEFINE F(s) == SumFunctionOnSet(f, s)
           N == {n \in Nat : \A s \in SUBSET S : Cardinality(s) = n => F(s) = 0}
<1>a. Weights(f, S)
  BY DEF Weights
<1>0. \A s \in SUBSET S : /\ Weights(f, s) /\ Cardinality(s) \in Nat
                          /\ Cardinality(s) = 0 <=> s = {}
  BY <1>a, WeightsFacts
<1>1. 0 \in N
  <2>1. F({}) = 0
    BY SumEmpty, Zenon
  <2> QED BY <1>0, <2>1
<1>2. ASSUME NEW n \in Nat, n \in N
      PROVE  n + 1 \in N
  <2>1. ASSUME NEW s \in SUBSET S, Cardinality(s) = n + 1
        PROVE  F(s) = 0
    <3>1. PICK y \in s : TRUE
      BY <1>0, <2>1
    <3> DEFINE t == s \ {y}
    <3>2. Weights(f, s)
      BY <1>0, Zenon
    <3>3. F(t) = 0
      BY <1>2, <2>1, <3>2, OneLess, SMTT(20)
    <3>4. F(s) = f[y] + F(t)
      BY <3>2, SumRemove
    <3>5. f[y] = 0
      OBVIOUS
    <3> HIDE DEF F, t
    <3> QED BY <3>3, <3>4, <3>5
  <2> QED BY <2>1
<1> HIDE DEF N
<1>3. \A n \in Nat : n \in N
  BY <1>1, <1>2, SetInduction, Zenon
<1> QED BY <1>0, <1>3 DEF N

-----------------------------------------------------------------------------
LEMMA Divided ==
  ASSUME NEW x \in Nat, NEW n \in Nat \ {0}
  PROVE  x \div n \in Nat /\ n * (x \div n) <= x /\ x < n * (x \div n) + n
<1> DEFINE a == x \div n
           c == x % n
<1>1. a \in Nat /\ c \in 0 .. n - 1 /\ x = n * a + c
  OBVIOUS
<1>2. n * a \in Nat
  BY <1>1
<1> HIDE DEF a, c
<1>3. a \in Nat /\ n * a <= x /\ x < n * a + n
  BY <1>1, <1>2
<1> QED BY <1>3 DEF a

LEMMA Multiplied ==
  ASSUME NEW n \in Nat, NEW a \in Nat, NEW b \in Nat, a <= b
  PROVE  n * a \in Nat /\ n * b \in Nat /\ n * a <= n * b
OBVIOUS

\* Buckets follow one another in time.
LEMMA DividedInOrder ==
  ASSUME NEW x \in Nat, NEW y \in Nat, x <= y, NEW n \in Nat \ {0}
  PROVE  x \div n <= y \div n
<1> DEFINE a == x \div n
           b == y \div n
<1>1. /\ a \in Nat /\ n * a <= x /\ x < n * a + n
      /\ b \in Nat /\ n * b <= y /\ y < n * b + n
  BY Divided
<1> HIDE DEF a, b
<1>2. SUFFICES ASSUME b + 1 <= a PROVE FALSE
  BY <1>1 DEF a, b
<1>3. n * (b + 1) <= n * a /\ n * (b + 1) \in Nat /\ n * a \in Nat
  BY <1>1, <1>2, Multiplied
<1>4. n * (b + 1) = n * b + n /\ n * b \in Nat
  BY <1>1
<1> QED BY <1>1, <1>3, <1>4, SMTT(20)

\* Numbers with the same remainder are the same or n apart.
LEMMA SameRemainder ==
  ASSUME NEW n \in Nat \ {0}, NEW r \in Nat, NEW s \in Nat, s <= r, r < s + n, r % n = s % n
  PROVE  r = s
<1> DEFINE a == r \div n
           b == s \div n
           c == s % n
<1>1. a \in Nat /\ b \in Nat /\ c \in 0 .. n - 1
  OBVIOUS
<1>2. r = n * a + c /\ s = n * b + c
  OBVIOUS
<1> HIDE DEF a, b, c
<1>3. n * a \in Nat /\ n * b \in Nat
  BY <1>1
<1>4. CASE a = b
  BY <1>2, <1>4
<1>5. CASE a >= b + 1
  <2>1. n * (b + 1) <= n * a
    BY <1>1, <1>5, Multiplied
  <2>2. n * (b + 1) = n * b + n
    BY <1>1
  <2> QED BY <1>1, <1>2, <1>3, <2>1, <2>2
<1>6. CASE b >= a + 1
  <2>1. n * (a + 1) <= n * b
    BY <1>1, <1>6, Multiplied
  <2>2. n * (a + 1) = n * a + n
    BY <1>1
  <2> QED BY <1>1, <1>2, <1>3, <2>1, <2>2
<1> QED BY <1>1, <1>4, <1>5, <1>6, SMTT(20)

(***************************************************************************)
(* Two times of one bucket that are less than DiscardAfter apart have no   *)
(* other bucket between them: the ring has not been around.                *)
(***************************************************************************)
LEMMA SameBucket ==
  ASSUME NEW t \in Nat, NEW c \in Nat, NEW u \in Nat, t <= c, c <= u, u - t < DiscardAfter,
         Index(t) = Index(u)
  PROVE  Index(c) = Index(u)
<1> DEFINE R == RESOLUTION
           a == t \div R
           b == c \div R
           d == u \div R
<1>1. R \in Nat \ {0} /\ SIZE \in Nat \ {0} /\ DiscardAfter \in Nat
  BY StatsAssumption
<1>2. a \in Nat /\ b \in Nat /\ d \in Nat /\ t < R * a + R /\ R * d <= u
  BY <1>1, Divided
<1>3. a <= b /\ b <= d
  BY <1>1, DividedInOrder
<1>4. a % SIZE = d % SIZE
  BY Zenon DEF Index
<1>5. DiscardAfter <= (SIZE - 1) * R
  BY StatsAssumption
<1> HIDE DEF R, a, b, d
<1>6. d < a + SIZE
  <2> SUFFICES ASSUME a + SIZE <= d PROVE FALSE
    BY <1>1, <1>2
  <2>1. R * (a + SIZE) <= R * d /\ R * d \in Nat
    BY <1>1, <1>2, Multiplied
  <2>2. R * (a + SIZE) = R * a + (SIZE - 1) * R + R
    BY <1>1, <1>2
  <2>3. R * a \in Nat /\ (SIZE - 1) * R \in Nat
    BY <1>1, <1>2
  <2> DEFINE x == R * a
             y == (SIZE - 1) * R
             z == R * d
  <2>4. /\ x \in Nat /\ y \in Nat /\ z \in Nat /\ x + y + R <= z /\ z <= u /\ t < x + R
        /\ DiscardAfter <= y
    BY <1>2, <1>5, <2>1, <2>2, <2>3, SMTT(20)
  <2> HIDE DEF x, y, z
  <2> QED BY <1>1, <2>4
<1>7. a = d
  <2>1. a <= d /\ d % SIZE = a % SIZE
    BY <1>2, <1>3, <1>4
  <2> QED BY <1>1, <1>2, <1>6, <2>1, SameRemainder, Zenon
<1>8. b = d
  BY <1>2, <1>3, <1>7
<1> QED BY <1>8 DEF Index, b, d, R

LEMMA IndexType ==
  ASSUME NEW t \in Nat
  PROVE  Index(t) \in Buckets
<1>1. t \div RESOLUTION \in Nat /\ SIZE \in Nat \ {0}
  BY StatsAssumption, Divided
<1>2. \A x \in Nat : x % SIZE \in 0 .. SIZE - 1
  BY <1>1
<1> QED BY <1>1, <1>2, Zenon DEF Index, Buckets

-----------------------------------------------------------------------------
\* The packets sent in the time of bucket i that may still be acked.
Waiting(o, i) == SumFunctionOnSet(o, TimesOf(i))

LEMMA WaitingType ==
  ASSUME NEW o \in [Times -> Nat], NEW i
  PROVE  Weights(o, TimesOf(i)) /\ Waiting(o, i) \in Nat
<1>1. IsFiniteSet(Times)
  BY FS_Interval, StatsAssumption DEF Times
<1>2. IsFiniteSet(TimesOf(i)) /\ TimesOf(i) \subseteq Times
  BY <1>1, FS_Subset DEF TimesOf
<1>3. Weights(o, TimesOf(i))
  BY <1>2 DEF Weights
<1> QED BY <1>3, SumIsNat, Zenon DEF Waiting

LEMMA WaitingLess ==
  ASSUME NEW o \in [Times -> Nat], NEW p \in [Times -> Nat], NEW i, \A t \in Times : p[t] <= o[t]
  PROVE  Waiting(p, i) <= Waiting(o, i)
<1>1. Weights(o, TimesOf(i)) /\ Weights(p, TimesOf(i))
  BY WaitingType
<1>2. \A t \in TimesOf(i) : p[t] <= o[t]
  BY DEF TimesOf
<1> QED BY <1>1, <1>2, SumLess DEF Waiting

\* From o to p the packets sent at t change to v.
Changed(o, p, t, v, i) ==
  /\ i = Index(t) => Waiting(p, i) + o[t] = Waiting(o, i) + v
  /\ i # Index(t) => Waiting(p, i) = Waiting(o, i)

LEMMA WaitingChange ==
  ASSUME NEW o \in [Times -> Nat], NEW t \in Times, NEW v \in Nat, NEW i
  PROVE  Changed(o, [o EXCEPT ![t] = v], t, v, i)
<1> DEFINE p == [o EXCEPT ![t] = v]
           T == TimesOf(i)
<1>1. p \in [Times -> Nat] /\ p[t] = v /\ \A u \in Times \ {t} : p[u] = o[u]
  OBVIOUS
<1> HIDE DEF p
<1>2. Weights(o, T) /\ Weights(p, T) /\ IsFiniteSet(T) /\ T \subseteq Times
  BY <1>1, WaitingType DEF Weights, TimesOf
<1>3. CASE Index(t) = i
  <2>1. t \in T
    BY <1>3 DEF TimesOf
  <2>2. SumFunctionOnSet(o, T) = o[t] + SumFunctionOnSet(o, T \ {t})
    BY <1>2, <2>1, SumRemove, SMTT(20)
  <2>3. SumFunctionOnSet(p, T) = v + SumFunctionOnSet(p, T \ {t})
    BY <1>1, <1>2, <2>1, SumRemove
  <2>4. IsFiniteSet(T \ {t}) /\ Weights(o, T \ {t})
    BY <1>2, <2>1, WeightsFacts, SMTT(20) DEF Weights
  <2>5. SumFunctionOnSet(p, T \ {t}) = SumFunctionOnSet(o, T \ {t})
    BY <1>1, <1>2, <2>4, SumSame
  <2>6. SumFunctionOnSet(o, T \ {t}) \in Nat /\ o[t] \in Nat
    BY <2>4, SumIsNat
  <2> DEFINE x == SumFunctionOnSet(o, T \ {t})
  <2>7. Waiting(p, i) = v + x /\ Waiting(o, i) = o[t] + x
    BY <2>2, <2>3, <2>5, Zenon DEF Waiting
  <2> HIDE DEF x
  <2>8. x \in Nat /\ o[t] \in Nat
    BY <2>6 DEF x
  <2>9. Waiting(p, i) + o[t] = Waiting(o, i) + v
    BY <2>7, <2>8
  <2> QED BY <1>3, <2>9, Zenon DEF Changed, p
<1>4. CASE Index(t) # i
  <2>1. \A u \in T : p[u] = o[u]
    BY <1>1, <1>4 DEF TimesOf
  <2>2. Waiting(p, i) = Waiting(o, i)
    BY <1>2, <2>1, SumSame DEF Waiting
  <2> QED BY <1>4, <2>2, Zenon DEF Changed, p
<1> QED BY <1>3, <1>4

(***************************************************************************)
(* Inductive: what a bucket says of the packets that may still be acked is *)
(* lost with the bucket, so the clock must say that there are none.        *)
(***************************************************************************)
StatsInv ==
  /\ current_time \in Times /\ current_index = Index(current_time)
  /\ packets_sent \in [Buckets -> Nat] /\ packets_acked \in [Buckets -> Nat]
  /\ outstanding \in [Times -> Nat]
  /\ \A t \in Times : outstanding[t] # 0 => t <= current_time
  /\ OutstandingIsCounted

LEMMA StatsInitially == StatsInit => StatsInv
<1> SUFFICES ASSUME StatsInit PROVE StatsInv
  OBVIOUS
<1>1. /\ current_time = 0 /\ current_index = 0 /\ packets_sent = [i \in Buckets |-> 0]
      /\ packets_acked = [i \in Buckets |-> 0] /\ outstanding = [t \in Times |-> 0]
  BY Zenon DEF StatsInit
<1>2. 0 \in Times /\ Times \subseteq Nat
  BY StatsAssumption DEF Times
<1>3. Index(0) = 0
  <2>1. RESOLUTION \in Nat \ {0} /\ SIZE \in Nat \ {0}
    BY StatsAssumption
  <2>2. 0 \div RESOLUTION = 0 /\ 0 % SIZE = 0
    <3>1. 0 \div RESOLUTION \in Nat /\ RESOLUTION * (0 \div RESOLUTION) <= 0
      BY <2>1, Divided
    <3>2. \A a \in Nat : RESOLUTION * a <= 0 => a = 0
      BY <2>1
    <3> QED BY <2>1, <3>1, <3>2, SMTT(20)
  <2> QED BY <2>2 DEF Index
<1>4. outstanding \in [Times -> Nat] /\ packets_sent \in [Buckets -> Nat]
      /\ packets_acked \in [Buckets -> Nat]
  BY <1>1
<1>5. OutstandingIsCounted
  <2> SUFFICES ASSUME NEW i \in Buckets
               PROVE  packets_acked[i] + SumFunctionOnSet(outstanding, TimesOf(i)) <= packets_sent[i]
    BY Zenon DEF OutstandingIsCounted
  <2>1. IsFiniteSet(TimesOf(i))
    BY <1>4, WaitingType DEF Weights
  <2>2. \A t \in TimesOf(i) : outstanding[t] = 0
    BY <1>1 DEF TimesOf
  <2>3. SumFunctionOnSet(outstanding, TimesOf(i)) = 0
    BY <2>1, <2>2, SumZero, Zenon
  <2> QED BY <1>1, <2>3
<1> QED BY <1>1, <1>2, <1>3, <1>4, <1>5 DEF StatsInv

\* What OutstandingIsCounted says of one bucket.
LEMMA Counts ==
  ASSUME StatsInv, NEW i \in Buckets
  PROVE  /\ packets_sent[i] \in Nat /\ packets_acked[i] \in Nat /\ Waiting(outstanding, i) \in Nat
         /\ packets_acked[i] + Waiting(outstanding, i) <= packets_sent[i]
<1>1. Waiting(outstanding, i) \in Nat
  BY WaitingType DEF StatsInv
<1>2. packets_acked[i] + Waiting(outstanding, i) <= packets_sent[i]
  BY Zenon DEF StatsInv, OutstandingIsCounted, Waiting
<1> QED BY <1>1, <1>2 DEF StatsInv

\* A bucket the clock comes to has no packet left that may be acked.
LEMMA UpdateStats ==
  ASSUME StatsInv, NEW duration \in Durations, StatsUpdate(duration)
  PROVE  StatsInv'
<1> DEFINE now == current_time + duration
           o == outstanding
           p == [t \in Times |-> IF now - t < DiscardAfter THEN outstanding[t] ELSE 0]
           Reset(counts) == IF Index(now) = current_index THEN counts
                            ELSE [counts EXCEPT ![Index(now)] = 0]
<1>1. /\ now <= MaxTime /\ current_time' = now /\ current_index' = Index(now)
      /\ packets_sent' = Reset(packets_sent) /\ packets_acked' = Reset(packets_acked)
      /\ outstanding' = p
  BY Zenon DEF StatsUpdate
<1>2. /\ current_time \in Nat /\ duration \in Nat /\ now \in Times /\ now \in Nat
      /\ current_time <= now /\ Times \subseteq Nat
  BY <1>1, StatsAssumption DEF StatsInv, Times
<1>3. Index(now) \in Buckets
  BY <1>2, IndexType, Zenon
<1>4. o \in [Times -> Nat] /\ packets_sent \in [Buckets -> Nat] /\ packets_acked \in [Buckets -> Nat]
      /\ current_index = Index(current_time)
  BY DEF StatsInv
<1>5. p \in [Times -> Nat] /\ \A t \in Times : p[t] <= o[t]
  BY <1>4
<1>6. \A t \in Times : p[t] # 0 => now - t < DiscardAfter /\ t <= current_time
  BY DEF StatsInv
<1>7. packets_sent' \in [Buckets -> Nat] /\ packets_acked' \in [Buckets -> Nat]
  BY <1>1, <1>3, <1>4
<1> HIDE DEF p
<1>8. \A t \in Times : outstanding'[t] # 0 => t <= current_time'
  <2> SUFFICES ASSUME NEW t \in Times, p[t] # 0 PROVE t <= now
    BY <1>1, Zenon
  <2> QED BY <1>2, <1>6
<1>9. ASSUME NEW i \in Buckets
      PROVE  packets_acked'[i] + Waiting(p, i) <= packets_sent'[i]
  <2>1. /\ packets_sent[i] \in Nat /\ packets_acked[i] \in Nat /\ Waiting(o, i) \in Nat
        /\ packets_acked[i] + Waiting(o, i) <= packets_sent[i]
    BY Counts
  <2>2. Waiting(p, i) \in Nat /\ Waiting(p, i) <= Waiting(o, i)
    BY <1>4, <1>5, WaitingType, WaitingLess
  <2>3. CASE Index(now) = current_index \/ i # Index(now)
    <3>1. packets_sent'[i] = packets_sent[i] /\ packets_acked'[i] = packets_acked[i]
      BY <1>1, <1>3, <1>4, <2>3
    <3> HIDE DEF o
    <3> QED BY <2>1, <2>2, <3>1, SMTT(20)
  <2>4. CASE Index(now) # current_index /\ i = Index(now)
    <3>1. packets_sent'[i] = 0 /\ packets_acked'[i] = 0
      BY <1>1, <1>3, <1>4, <2>4, SMTT(20)
    <3>2. ASSUME NEW t \in TimesOf(i), p[t] # 0
          PROVE  FALSE
      <4>1. t \in Times /\ t \in Nat /\ Index(t) = Index(now)
        BY <1>2, <2>4 DEF TimesOf
      <4>2. now - t < DiscardAfter /\ t <= current_time
        BY <1>6, <3>2, <4>1, SMTT(20)
      <4>3. Index(current_time) = Index(now)
        BY <1>2, <4>1, <4>2, SameBucket, Zenon
      <4> QED BY <1>4, <2>4, <4>3, SMTT(20)
    <3>3. IsFiniteSet(TimesOf(i))
      BY <1>5, WaitingType DEF Weights
    <3>4. Waiting(p, i) = 0
      BY <3>2, <3>3, SumZero, Zenon DEF Waiting
    <3> QED BY <3>1, <3>4
  <2> QED BY <2>3, <2>4
<1>10. OutstandingIsCounted'
  BY <1>1, <1>9, Zenon DEF OutstandingIsCounted, Waiting, TimesOf, Times, Index, Buckets
<1> QED BY <1>1, <1>2, <1>5, <1>7, <1>8, <1>10, Zenon DEF StatsInv, Times, Buckets, Index

LEMMA SentStats ==
  ASSUME StatsInv, NEW n \in 1 .. MaxSent, SentPackets(n)
  PROVE  StatsInv'
<1> DEFINE t == current_time
           b == current_index
           o == outstanding
           p == [o EXCEPT ![t] = o[t] + n]
<1>1. /\ packets_sent' = [packets_sent EXCEPT ![b] = packets_sent[b] + n] /\ outstanding' = p
      /\ t' = t /\ b' = b /\ packets_acked' = packets_acked
  BY Zenon DEF SentPackets
<1>2. n \in Nat /\ t \in Times /\ t \in Nat /\ Times \subseteq Nat
  BY StatsAssumption DEF StatsInv, Times
<1>3. b = Index(t) /\ b \in Buckets
  BY <1>2, IndexType, Zenon DEF StatsInv
<1>4. o \in [Times -> Nat] /\ packets_sent \in [Buckets -> Nat] /\ packets_acked \in [Buckets -> Nat]
  BY DEF StatsInv
<1>5. o[t] \in Nat /\ o[t] + n \in Nat /\ packets_sent[b] + n \in Nat
  BY <1>2, <1>3, <1>4
<1>6. p \in [Times -> Nat] /\ packets_sent' \in [Buckets -> Nat]
  BY <1>1, <1>3, <1>4, <1>5, Zenon
<1>7. \A u \in Times : p[u] # 0 => u <= t
  <2>1. \A u \in Times : u # t => p[u] = o[u]
    BY <1>4
  <2> QED BY <1>2, <2>1 DEF StatsInv
<1> HIDE DEF p
<1>8. ASSUME NEW i \in Buckets
      PROVE  packets_acked[i] + Waiting(p, i) <= packets_sent'[i]
  <2>1. /\ packets_sent[i] \in Nat /\ packets_acked[i] \in Nat /\ Waiting(o, i) \in Nat
        /\ packets_acked[i] + Waiting(o, i) <= packets_sent[i]
    BY Counts
  <2>2. Waiting(p, i) \in Nat
    BY <1>6, WaitingType
  <2>3. /\ i = b => Waiting(p, i) + o[t] = Waiting(o, i) + (o[t] + n)
        /\ i # b => Waiting(p, i) = Waiting(o, i)
    <3>1. Changed(o, p, t, o[t] + n, i)
      BY <1>2, <1>4, <1>5, WaitingChange, Zenon DEF p
    <3> QED BY <1>3, <3>1, Zenon DEF Changed
  <2>4. /\ i = b => packets_sent'[i] = packets_sent[i] + n
        /\ i # b => packets_sent'[i] = packets_sent[i]
    BY <1>1, <1>3, <1>4
  <2> DEFINE x == o[t]
             y == Waiting(o, i)
             z == Waiting(p, i)
  <2>5. x \in Nat /\ y \in Nat /\ z \in Nat /\ (i = b => z + x = y + (x + n)) /\ (i # b => z = y)
        /\ packets_acked[i] + y <= packets_sent[i]
    BY <1>5, <2>1, <2>2, <2>3, Zenon
  <2> HIDE DEF x, y, z
  <2>6. packets_acked[i] + z <= packets_sent'[i]
    BY <1>2, <2>1, <2>4, <2>5
  <2> QED BY <2>6 DEF z
<1>9. OutstandingIsCounted'
  BY <1>1, <1>8, Zenon DEF OutstandingIsCounted, Waiting, TimesOf, Times, Index, Buckets
<1> QED BY <1>1, <1>2, <1>3, <1>4, <1>6, <1>7, <1>9, Zenon DEF StatsInv, Times, Buckets, Index

LEMMA AckedStats ==
  ASSUME StatsInv, NEW sent_at \in 0 .. current_time, AckedPacket(sent_at)
  PROVE  StatsInv'
<1> DEFINE t == sent_at
           b == Index(sent_at)
           o == outstanding
           p == [o EXCEPT ![t] = o[t] - 1]
<1>1. /\ o[t] > 0 /\ outstanding' = p
      /\ \/ packets_acked' = packets_acked
         \/ packets_acked' = [packets_acked EXCEPT ![b] = packets_acked[b] + 1]
      /\ current_time' = current_time /\ current_index' = current_index /\ packets_sent' = packets_sent
  BY Zenon DEF AckedPacket
<1>2. t \in Times /\ t \in Nat /\ Times \subseteq Nat /\ t <= current_time
  BY StatsAssumption DEF StatsInv, Times
<1>3. b \in Buckets
  BY <1>2, IndexType, Zenon
<1>4. o \in [Times -> Nat] /\ packets_sent \in [Buckets -> Nat] /\ packets_acked \in [Buckets -> Nat]
  BY DEF StatsInv
<1>5. o[t] \in Nat /\ o[t] - 1 \in Nat /\ packets_acked[b] + 1 \in Nat
  BY <1>1, <1>2, <1>3, <1>4
<1>6. p \in [Times -> Nat] /\ packets_acked' \in [Buckets -> Nat]
  BY <1>1, <1>3, <1>4, <1>5
<1>7. \A u \in Times : p[u] # 0 => u <= current_time
  <2>1. \A u \in Times : u # t => p[u] = o[u]
    BY <1>4
  <2> QED BY <1>2, <2>1 DEF StatsInv
<1> HIDE DEF p
<1>8. ASSUME NEW i \in Buckets
      PROVE  packets_acked'[i] + Waiting(p, i) <= packets_sent[i]
  <2>1. /\ packets_sent[i] \in Nat /\ packets_acked[i] \in Nat /\ Waiting(o, i) \in Nat
        /\ packets_acked[i] + Waiting(o, i) <= packets_sent[i]
    BY Counts
  <2>2. Waiting(p, i) \in Nat
    BY <1>6, WaitingType
  <2>3. /\ i = b => Waiting(p, i) + o[t] = Waiting(o, i) + (o[t] - 1)
        /\ i # b => Waiting(p, i) = Waiting(o, i)
    <3>1. Changed(o, p, t, o[t] - 1, i)
      BY <1>2, <1>4, <1>5, WaitingChange, Zenon DEF p
    <3> QED BY <3>1, Zenon DEF Changed
  <2>4. /\ i = b => packets_acked'[i] \in {packets_acked[i], packets_acked[i] + 1}
        /\ i # b => packets_acked'[i] = packets_acked[i]
    BY <1>1, <1>3, <1>4, SMTT(20)
  <2> DEFINE x == o[t]
             y == Waiting(o, i)
             z == Waiting(p, i)
  <2>5. x \in Nat /\ y \in Nat /\ z \in Nat /\ (i = b => z + x = y + (x - 1)) /\ (i # b => z = y)
        /\ packets_acked[i] + y <= packets_sent[i]
    BY <1>5, <2>1, <2>2, <2>3, SMTT(20)
  <2> HIDE DEF x, y, z, b
  <2>6. packets_acked'[i] + z <= packets_sent[i]
    BY <2>1, <2>4, <2>5
  <2> QED BY <2>6 DEF z
<1>9. OutstandingIsCounted'
  BY <1>1, <1>8, Zenon DEF OutstandingIsCounted, Waiting, TimesOf, Times, Index, Buckets
<1>10. current_time \in Times /\ current_index = Index(current_time)
  BY DEF StatsInv
<1> QED BY <1>1, <1>4, <1>6, <1>7, <1>9, <1>10, Zenon DEF StatsInv, Times, Buckets, Index

LEMMA NextStats == StatsInv /\ [StatsNext]_statsVars => StatsInv'
<1> SUFFICES ASSUME StatsInv, [StatsNext]_statsVars PROVE StatsInv'
  OBVIOUS
<1>1. CASE StatsNext
  BY <1>1, UpdateStats, SentStats, AckedStats, Zenon DEF StatsNext
<1>2. CASE UNCHANGED statsVars
  <2>1. /\ current_time' = current_time /\ current_index' = current_index
        /\ packets_sent' = packets_sent /\ packets_acked' = packets_acked
        /\ outstanding' = outstanding
    BY <1>2, Zenon DEF statsVars
  <2> QED BY <2>1, Zenon DEF StatsInv, OutstandingIsCounted, TimesOf, Times, Index, Buckets
<1> QED BY <1>1, <1>2

LEMMA StatsInvariance == StatsSpec => []StatsInv
BY StatsInitially, NextStats, PTL DEF StatsSpec

(***************************************************************************)
(* A bucket of the statistics never forgets a packet that may still be     *)
(* acked, for every ring, pace of update and DISCARD_AFTER that is a       *)
(* bucket shorter than the ring.                                           *)
(***************************************************************************)
THEOREM OutstandingStaysCounted == StatsSpec => []OutstandingIsCounted
<1>1. StatsInv => OutstandingIsCounted
  BY DEF StatsInv
<1> QED BY <1>1, StatsInvariance, PTL

(***************************************************************************)
(* packet_loss never counts more acked than sent packets: its difference   *)
(* does not go below zero, and the quotient is between 0 and 1.            *)
(***************************************************************************)
THEOREM LossStaysAFraction == StatsSpec => []LossIsAFraction
<1>1. StatsInv => LossIsAFraction
  <2> SUFFICES ASSUME StatsInv PROVE LossIsAFraction
    OBVIOUS
  <2>1. Counted \subseteq Buckets
    BY DEF Counted
  <2>2. IsFiniteSet(Counted)
    <3>1. IsFiniteSet(Buckets)
      BY FS_Interval, StatsAssumption DEF Buckets
    <3> QED BY <2>1, <3>1, FS_Subset
  <2>3. \A i \in Counted : /\ packets_sent[i] \in Nat /\ packets_acked[i] \in Nat
                           /\ packets_acked[i] <= packets_sent[i]
    <3> SUFFICES ASSUME NEW i \in Counted
                 PROVE  /\ packets_sent[i] \in Nat /\ packets_acked[i] \in Nat
                        /\ packets_acked[i] <= packets_sent[i]
      OBVIOUS
    <3>1. /\ packets_sent[i] \in Nat /\ packets_acked[i] \in Nat /\ Waiting(outstanding, i) \in Nat
          /\ packets_acked[i] + Waiting(outstanding, i) <= packets_sent[i]
      BY <2>1, Counts
    <3> QED BY <3>1
  <2>4. Weights(packets_sent, Counted) /\ Weights(packets_acked, Counted)
    BY <2>2, <2>3, Zenon DEF Weights
  <2> QED BY <2>3, <2>4, SumLess, SMTT(20) DEF LossIsAFraction, TotalSent, TotalAcked
<1> QED BY <1>1, StatsInvariance, PTL
=============================================================================
