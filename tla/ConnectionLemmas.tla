-------------------------- MODULE ConnectionLemmas --------------------------
(***************************************************************************)
(* Lemmas on the parts of a connection: what add_pending_ack and           *)
(* acked_largest do to every list of ranges, and the two sides of a        *)
(* reliable channel, for every size and number of messages.                *)
(***************************************************************************)
EXTENDS SendChannelReliable, ReceiveChannelReliable, AckRanges, FiniteSetTheorems, TLAPS

(***************************************************************************)
(* A non-empty set of naturals has a least element: the index at which the *)
(* loops of add_pending_ack and acked_largest stop.                        *)
(***************************************************************************)
LEMMA MinNat ==
  ASSUME NEW S \in SUBSET Nat, S # {}
  PROVE  /\ Min(S) \in S
         /\ \A y \in S : Min(S) <= y
<1>1. PICK x \in S : \A y \in S : ~ (<<y, x>> \in OpToRel(<, Nat))
  BY NatLessThanWellFounded, WFMin, Zenon
<1>2. \A y \in S : ~ (y < x)
  BY <1>1, Zenon DEF OpToRel
<1>3. \A y \in S : x <= y
  BY <1>2
<1> QED BY <1>3, Zenon DEF Min

\* The elements of two lists, one after the other.
LEMMA Joined ==
  ASSUME NEW S, NEW left \in Seq(S), NEW right \in Seq(S)
  PROVE  /\ left \o right \in Seq(S)
         /\ Len(left \o right) = Len(left) + Len(right)
         /\ \A j \in 1 .. Len(left) + Len(right) : (left \o right)[j] =
              IF j <= Len(left) THEN left[j] ELSE right[j - Len(left)]
<1>1. /\ left \o right \in Seq(S) /\ Len(left \o right) = Len(left) + Len(right)
      /\ Len(left) \in Nat /\ Len(right) \in Nat
  OBVIOUS
<1>2. ASSUME NEW j \in 1 .. Len(left) + Len(right)
      PROVE  (left \o right)[j] = IF j <= Len(left) THEN left[j] ELSE right[j - Len(left)]
  BY <1>1
<1> QED BY <1>1, <1>2

(***************************************************************************)
(* The elements of a list after Vec::insert.                               *)
(***************************************************************************)
LEMMA VecInsertProperties ==
  ASSUME NEW S, NEW s \in Seq(S), NEW i \in 1 .. Len(s), NEW e \in S
  PROVE  /\ VecInsert(s, i, e) \in Seq(S)
         /\ Len(VecInsert(s, i, e)) = Len(s) + 1
         /\ \A j \in 1 .. Len(s) + 1 : VecInsert(s, i, e)[j] =
              IF j < i THEN s[j] ELSE IF j = i THEN e ELSE s[j - 1]
<1> DEFINE left  == SubSeq(s, 1, i - 1)
           right == SubSeq(s, i, Len(s))
<1>1. /\ left \in Seq(S) /\ Len(left) = i - 1
      /\ \A j \in 1 .. i - 1 : left[j] = s[j]
  <2>1. \A j \in 1 .. i - 1 : s[j] \in S
    OBVIOUS
  <2> QED BY <2>1
<1>2. /\ right \in Seq(S) /\ Len(right) = Len(s) - i + 1
      /\ \A j \in 1 .. Len(s) - i + 1 : right[j] = s[i + j - 1]
  <2>1. \A j \in i .. Len(s) : s[j] \in S
    OBVIOUS
  <2> QED BY <2>1
<1> HIDE DEF left, right
<1>3. /\ left \o <<e>> \in Seq(S) /\ Len(left \o <<e>>) = i
      /\ \A j \in 1 .. i : (left \o <<e>>)[j] = IF j < i THEN s[j] ELSE e
  BY <1>1, <<e>> \in Seq(S), Len(<<e>>) = 1
<1>4. VecInsert(s, i, e) = (left \o <<e>>) \o right
  BY DEF VecInsert, left, right
<1> DEFINE front == left \o <<e>>
<1> HIDE DEF front
<1>5. /\ front \o right \in Seq(S)
      /\ Len(front \o right) = Len(front) + Len(right)
      /\ \A j \in 1 .. Len(front) + Len(right) : (front \o right)[j] =
           IF j <= Len(front) THEN front[j] ELSE right[j - Len(front)]
  <2>1. front \in Seq(S)
    BY <1>3 DEF front
  <2> QED BY <1>2, <2>1, Joined, Zenon
<1>6. Len(front) = i /\ \A j \in 1 .. i : front[j] = IF j < i THEN s[j] ELSE e
  BY <1>3 DEF front
<1>7. VecInsert(s, i, e) = front \o right
  BY <1>4 DEF front
<1> QED BY <1>2, <1>5, <1>6, <1>7

(***************************************************************************)
(* The elements of a list after Vec::remove.                               *)
(***************************************************************************)
LEMMA VecRemoveProperties ==
  ASSUME NEW S, NEW s \in Seq(S), NEW i \in 1 .. Len(s)
  PROVE  /\ VecRemove(s, i) \in Seq(S)
         /\ Len(VecRemove(s, i)) = Len(s) - 1
         /\ \A j \in 1 .. Len(s) - 1 : VecRemove(s, i)[j] =
              IF j < i THEN s[j] ELSE s[j + 1]
<1> DEFINE left  == SubSeq(s, 1, i - 1)
           right == SubSeq(s, i + 1, Len(s))
<1>1. /\ left \in Seq(S) /\ Len(left) = i - 1
      /\ \A j \in 1 .. i - 1 : left[j] = s[j]
  <2>1. \A j \in 1 .. i - 1 : s[j] \in S
    OBVIOUS
  <2> QED BY <2>1
<1>2. /\ right \in Seq(S) /\ Len(right) = Len(s) - i
      /\ \A j \in 1 .. Len(s) - i : right[j] = s[i + j]
  <2>1. \A j \in i + 1 .. Len(s) : s[j] \in S
    OBVIOUS
  <2>2. /\ right \in Seq(S)
        /\ Len(right) = IF i + 1 <= Len(s) THEN Len(s) - (i + 1) + 1 ELSE 0
        /\ \A j \in 1 .. Len(s) - (i + 1) + 1 : right[j] = s[(i + 1) + j - 1]
    BY <2>1
  <2> QED BY <2>2
<1> HIDE DEF left, right
<1>3. VecRemove(s, i) = left \o right
  BY DEF VecRemove, left, right
<1>4. /\ left \o right \in Seq(S)
      /\ Len(left \o right) = Len(left) + Len(right)
      /\ \A j \in 1 .. Len(left) + Len(right) : (left \o right)[j] =
           IF j <= Len(left) THEN left[j] ELSE right[j - Len(left)]
  BY <1>1, <1>2, Joined, Zenon
<1>5. Len(s) \in Nat
  OBVIOUS
<1>6. Len(VecRemove(s, i)) = Len(s) - 1
  BY <1>1, <1>2, <1>3, <1>4, <1>5
<1>7. ASSUME NEW j \in 1 .. Len(s) - 1
      PROVE  VecRemove(s, i)[j] = IF j < i THEN s[j] ELSE s[j + 1]
  <2>1. VecRemove(s, i)[j] = IF j <= i - 1 THEN left[j] ELSE right[j - (i - 1)]
    BY <1>1, <1>2, <1>3, <1>4, <1>5
  <2> QED BY <1>1, <1>2, <1>5, <2>1
<1> QED BY <1>3, <1>4, <1>6, <1>7

-----------------------------------------------------------------------------
(***************************************************************************)
(* The range start..end.                                                   *)
(***************************************************************************)
LEMMA BetweenRange ==
  ASSUME NEW a \in Nat, NEW b \in Nat, a < b
  PROVE  Between(a, b) \in Ranges /\ Between(a, b).start = a /\ Between(a, b).end = b
BY DEF Between, Ranges

(***************************************************************************)
(* A number is acknowledged exactly when one of the ranges contains it.    *)
(***************************************************************************)
LEMMA CoveredMember ==
  ASSUME NEW acks \in Seq(Ranges)
  PROVE  \A n : n \in Covered(acks) <=>
           n \in Nat /\ \E i \in 1 .. Len(acks) : InRange(n, acks[i])
<1>1. DOMAIN acks = 1 .. Len(acks) /\ \A i \in 1 .. Len(acks) : acks[i] \in Ranges
  OBVIOUS
<1>2. \A i \in 1 .. Len(acks) : acks[i].start \in Nat /\ acks[i].end \in Nat
  BY <1>1 DEF Ranges
<1> QED BY <1>1, <1>2 DEF Covered, InRange

(***************************************************************************)
(* add_pending_ack when no range is at or after the sequence: a new range  *)
(* behind the others, and the oldest one given up above the limit.         *)
(***************************************************************************)
LEMMA PushBackProperties ==
  ASSUME NEW acks \in Seq(Ranges), Separated(acks), NEW sequence \in Nat,
         \A i \in 1 .. Len(acks) : acks[i].end < sequence
  PROVE  LET new == PushBack(acks, sequence)
             all == Covered(acks) \cup {sequence}
         IN  /\ new \in Seq(Ranges)
             /\ Separated(new)
             /\ \/ Covered(new) = all
                \/ /\ Len(acks) >= MaxAckRanges
                   /\ Covered(new) = all \ Covered(<<acks[1]>>)
<1> DEFINE pushed == Append(acks, Single(sequence))
           all == Covered(acks) \cup {sequence}
<1>1. Single(sequence) \in Ranges
  BY DEF Single, Between, Ranges
<1>2. /\ Len(acks) \in Nat /\ DOMAIN acks = 1 .. Len(acks)
      /\ \A i \in 1 .. Len(acks) : acks[i] \in Ranges
  OBVIOUS
<1>3. /\ pushed \in Seq(Ranges)
      /\ Len(pushed) = Len(acks) + 1
      /\ DOMAIN pushed = 1 .. Len(acks) + 1
      /\ \A i \in 1 .. Len(acks) : pushed[i] = acks[i]
      /\ pushed[Len(acks) + 1] = Single(sequence)
      /\ pushed # <<>>
  <2> DEFINE e == Single(sequence)
  <2> HIDE DEF e
  <2>1. e \in Ranges /\ pushed = Append(acks, e)
    BY <1>1 DEF e
  <2> HIDE DEF pushed
  <2>2. pushed \in Seq(Ranges) /\ Len(pushed) = Len(acks) + 1
    BY <2>1
  <2>3. \A i \in 1 .. Len(acks) : pushed[i] = acks[i]
    BY <2>1
  <2>4. pushed[Len(acks) + 1] = e
    BY <2>1
  <2>5. DOMAIN pushed = 1 .. Len(acks) + 1 /\ pushed # <<>>
    BY <1>2, <2>2
  <2> QED BY <2>2, <2>3, <2>4, <2>5 DEF e
<1> HIDE DEF pushed
<1>4. Separated(pushed)
  <2> SUFFICES ASSUME NEW i \in 1 .. Len(acks) + 1, NEW j \in 1 .. Len(acks) + 1, i < j
               PROVE  pushed[i].end < pushed[j].start
    BY <1>3 DEF Separated
  <2>1. i \in 1 .. Len(acks) /\ pushed[i] = acks[i]
    BY <1>2, <1>3
  <2>2. CASE j = Len(acks) + 1
    BY <1>3, <2>1, <2>2 DEF Single, Between
  <2>3. CASE j \in 1 .. Len(acks)
    BY <1>2, <1>3, <2>1, <2>3 DEF Separated
  <2> QED BY <1>2, <2>2, <2>3
<1>5. Covered(pushed) = all
  <2>1. \A n : n \in Covered(pushed) <=> n \in all
    <3> TAKE n
    <3>1. n \in Covered(pushed) <=>
            n \in Nat /\ \E i \in 1 .. Len(acks) + 1 : InRange(n, pushed[i])
      BY <1>3, CoveredMember
    <3>2. n \in Covered(acks) <=>
            n \in Nat /\ \E i \in 1 .. Len(acks) : InRange(n, acks[i])
      BY CoveredMember
    <3>3. n \in Nat => (InRange(n, Single(sequence)) <=> n = sequence)
      BY DEF InRange, Single, Between
    <3> QED BY <1>2, <1>3, <3>1, <3>2, <3>3
  <2> QED BY <2>1
<1>6. CASE Len(pushed) <= MaxAckRanges
  BY <1>3, <1>4, <1>5, <1>6, MaxAckRangesAssumption DEF PushBack, pushed
<1>7. CASE Len(pushed) > MaxAckRanges
  <2>1. PushBack(acks, sequence) = Tail(pushed)
    BY <1>7 DEF PushBack, pushed
  <2>2. Len(acks) >= MaxAckRanges /\ Len(acks) >= 1
    BY <1>2, <1>3, <1>7, MaxAckRangesAssumption
  <2> DEFINE new == Tail(pushed)
  <2>3. /\ new \in Seq(Ranges) /\ Len(new) = Len(acks)
        /\ DOMAIN new = 1 .. Len(acks)
        /\ \A i \in 1 .. Len(acks) : new[i] = pushed[i + 1]
    BY <1>2, <1>3
  <2> HIDE DEF new
  <2>4. Separated(new)
    <3> SUFFICES ASSUME NEW i \in 1 .. Len(acks), NEW j \in 1 .. Len(acks), i < j
                 PROVE  new[i].end < new[j].start
      BY <2>3 DEF Separated
    <3>1. i + 1 \in DOMAIN pushed /\ j + 1 \in DOMAIN pushed /\ i + 1 < j + 1
      BY <1>2, <1>3
    <3> QED BY <1>4, <2>3, <3>1 DEF Separated
  <2>5. Covered(new) = all \ Covered(<<acks[1]>>)
    <3>0. acks[1] \in Ranges /\ <<acks[1]>> \in Seq(Ranges) /\ Len(<<acks[1]>>) = 1
          /\ <<acks[1]>>[1] = acks[1]
      BY <1>2, <2>2
    <3>1. \A n : n \in Covered(<<acks[1]>>) <=> n \in Nat /\ InRange(n, acks[1])
      <4>1. \A n : n \in Covered(<<acks[1]>>) <=>
              n \in Nat /\ \E i \in 1 .. 1 : InRange(n, <<acks[1]>>[i])
        BY <3>0, CoveredMember, Zenon
      <4> QED BY <3>0, <4>1
    <3>2. \A n : n \in Covered(new) <=>
             n \in Nat /\ \E i \in 1 .. Len(acks) : InRange(n, pushed[i + 1])
      BY <2>3, CoveredMember, Zenon
    <3>3. \A n : n \in Covered(pushed) <=>
             n \in Nat /\ \E i \in 1 .. Len(acks) + 1 : InRange(n, pushed[i])
      BY <1>3, CoveredMember
    <3>4. \A n \in Nat : InRange(n, pushed[1]) =>
             ~ \E i \in 1 .. Len(acks) : InRange(n, pushed[i + 1])
      <4>1. \A i \in 1 .. Len(acks) + 1 :
              pushed[i].start \in Nat /\ pushed[i].end \in Nat
        BY <1>3 DEF Ranges
      <4> SUFFICES ASSUME NEW n \in Nat, NEW i \in 1 .. Len(acks),
                          InRange(n, pushed[1]), InRange(n, pushed[i + 1])
                   PROVE  FALSE
        OBVIOUS
      <4>2. 1 \in DOMAIN pushed /\ i + 1 \in DOMAIN pushed /\ 1 < i + 1
        BY <1>2, <1>3, <2>2
      <4>3. pushed[1].end < pushed[i + 1].start
        BY <1>4, <4>2 DEF Separated
      <4>4. pushed[1].end \in Nat /\ pushed[i + 1].start \in Nat
        BY <1>3, <4>1, <4>2
      <4>5. n < pushed[1].end /\ pushed[i + 1].start <= n
        BY DEF InRange
      <4> QED BY <4>3, <4>4, <4>5
    <3>5. pushed[1] = acks[1]
      BY <1>2, <1>3, <2>2
    <3>6. \A n : n \in Covered(new) <=> n \in Covered(pushed) /\ n \notin Covered(<<acks[1]>>)
      <4> TAKE n
      <4>1. ASSUME n \in Nat
            PROVE (\E i \in 1 .. Len(acks) + 1 : InRange(n, pushed[i])) <=>
                  InRange(n, pushed[1]) \/ \E i \in 1 .. Len(acks) : InRange(n, pushed[i + 1])
        <5>1. ASSUME NEW i \in 1 .. Len(acks) + 1, InRange(n, pushed[i]), i # 1
              PROVE  \E k \in 1 .. Len(acks) : InRange(n, pushed[k + 1])
          <6>1. i - 1 \in 1 .. Len(acks) /\ (i - 1) + 1 = i
            BY <5>1, <1>2
          <6> QED BY <5>1, <6>1
        <5>2. \A i \in 1 .. Len(acks) : i + 1 \in 1 .. Len(acks) + 1
          BY <1>2
        <5>3. 1 \in 1 .. Len(acks) + 1
          BY <1>2
        <5> QED BY <5>1, <5>2, <5>3
      <4> QED BY <3>1, <3>2, <3>3, <3>4, <3>5, <4>1, Zenon
    <3> QED BY <1>5, <3>6
  <2> QED BY <2>1, <2>2, <2>3, <2>4, <2>5, Zenon DEF new
<1>8. Len(pushed) <= MaxAckRanges \/ Len(pushed) > MaxAckRanges
  BY <1>2, <1>3, MaxAckRangesAssumption
<1> QED BY <1>6, <1>7, <1>8, Zenon

\* r is range i of acks widened by the one number sequence, and touches no
\* other range.
Widens(acks, i, r, sequence) ==
  /\ \/ r.start = sequence /\ acks[i].start = sequence + 1 /\ r.end = acks[i].end
     \/ r.end = sequence + 1 /\ acks[i].end = sequence /\ r.start = acks[i].start
  /\ \A j \in 1 .. i - 1 : acks[j].end < r.start
  /\ \A j \in i + 1 .. Len(acks) : r.end < acks[j].start

(***************************************************************************)
(* Replacing range i by one that reaches to the sequence number on either  *)
(* side keeps the order and adds that one number.                          *)
(***************************************************************************)
LEMMA WidenProperties ==
  ASSUME NEW acks \in Seq(Ranges), Separated(acks), NEW sequence \in Nat,
         NEW i \in 1 .. Len(acks), NEW r \in Ranges,
         Widens(acks, i, r, sequence)
  PROVE  LET new == [acks EXCEPT ![i] = r]
         IN  /\ new \in Seq(Ranges)
             /\ Separated(new)
             /\ Covered(new) = Covered(acks) \cup {sequence}
<1> DEFINE new == [acks EXCEPT ![i] = r]
<1>1. /\ Len(acks) \in Nat /\ DOMAIN acks = 1 .. Len(acks)
      /\ \A k \in 1 .. Len(acks) : acks[k] \in Ranges
  OBVIOUS
<1>2. /\ new \in Seq(Ranges) /\ Len(new) = Len(acks) /\ DOMAIN new = 1 .. Len(acks)
      /\ \A k \in 1 .. Len(acks) : new[k] = IF k = i THEN r ELSE acks[k]
  BY <1>1
<1> HIDE DEF new
<1> USE DEF Widens
<1>3. Separated(new)
  <2> SUFFICES ASSUME NEW k \in 1 .. Len(acks), NEW l \in 1 .. Len(acks), k < l
               PROVE  new[k].end < new[l].start
    BY <1>2 DEF Separated
  <2>1. CASE k = i
    BY <1>1, <1>2, <2>1
  <2>2. CASE l = i
    BY <1>1, <1>2, <2>2
  <2>3. CASE k # i /\ l # i
    BY <1>1, <1>2, <2>3, Zenon DEF Separated
  <2> QED BY <2>1, <2>2, <2>3
<1>4. \A n : n \in Covered(new) <=> n \in Covered(acks) \cup {sequence}
  <2> TAKE n
  <2>1. n \in Covered(new) <=> n \in Nat /\ \E k \in 1 .. Len(acks) : InRange(n, new[k])
    BY <1>2, CoveredMember, Zenon
  <2>2. n \in Covered(acks) <=> n \in Nat /\ \E k \in 1 .. Len(acks) : InRange(n, acks[k])
    BY CoveredMember
  <2>3. ASSUME n \in Nat
        PROVE  InRange(n, r) <=> InRange(n, acks[i]) \/ n = sequence
    <3>1. /\ r.start \in Nat /\ r.end \in Nat /\ r.start < r.end
          /\ acks[i].start \in Nat /\ acks[i].end \in Nat /\ acks[i].start < acks[i].end
      BY <1>1 DEF Ranges
    <3>2. \/ r.start = sequence /\ acks[i].start = sequence + 1 /\ r.end = acks[i].end
          \/ r.end = sequence + 1 /\ acks[i].end = sequence /\ r.start = acks[i].start
      OBVIOUS
    <3>3. CASE r.start = sequence /\ acks[i].start = sequence + 1 /\ r.end = acks[i].end
      BY <2>3, <3>1, <3>3 DEF InRange
    <3>4. CASE r.end = sequence + 1 /\ acks[i].end = sequence /\ r.start = acks[i].start
      BY <2>3, <3>1, <3>4 DEF InRange
    <3> QED BY <3>2, <3>3, <3>4
  <2> QED BY <1>2, <2>1, <2>2, <2>3
<1> QED BY <1>2, <1>3, <1>4, Zenon DEF new

(***************************************************************************)
(* A new range of one number put before range i, touching no other.        *)
(***************************************************************************)
LEMMA InsertProperties ==
  ASSUME NEW acks \in Seq(Ranges), Separated(acks), NEW sequence \in Nat,
         NEW i \in 1 .. Len(acks),
         acks[i].start > sequence + 1,
         \A j \in 1 .. i - 1 : acks[j].end < sequence
  PROVE  LET new == VecInsert(acks, i, Single(sequence))
         IN  /\ new \in Seq(Ranges)
             /\ Separated(new)
             /\ Covered(new) = Covered(acks) \cup {sequence}
<1> DEFINE new == VecInsert(acks, i, Single(sequence))
<1>1. /\ Len(acks) \in Nat /\ DOMAIN acks = 1 .. Len(acks)
      /\ \A k \in 1 .. Len(acks) : acks[k] \in Ranges
  OBVIOUS
<1>2. Single(sequence) \in Ranges
  BY DEF Single, Between, Ranges
<1>3. /\ new \in Seq(Ranges) /\ Len(new) = Len(acks) + 1
      /\ DOMAIN new = 1 .. Len(acks) + 1
      /\ \A k \in 1 .. Len(acks) + 1 : new[k] =
           IF k < i THEN acks[k] ELSE IF k = i THEN Single(sequence) ELSE acks[k - 1]
  <2>1. /\ new \in Seq(Ranges) /\ Len(new) = Len(acks) + 1
        /\ \A k \in 1 .. Len(acks) + 1 : new[k] =
             IF k < i THEN acks[k] ELSE IF k = i THEN Single(sequence) ELSE acks[k - 1]
    BY <1>2, VecInsertProperties
  <2> HIDE DEF new
  <2> QED BY <2>1
<1> HIDE DEF new
<1>4. \A j \in i .. Len(acks) : sequence + 1 < acks[j].start
  <2> SUFFICES ASSUME NEW j \in i .. Len(acks), j # i
               PROVE  sequence + 1 < acks[j].start
    OBVIOUS
  <2>1. acks[i].end < acks[j].start
    BY <1>1 DEF Separated
  <2>2. acks[i] \in Ranges /\ acks[j] \in Ranges
    BY <1>1
  <2>3. /\ acks[i].start \in Nat /\ acks[i].end \in Nat /\ acks[i].start < acks[i].end
        /\ acks[j].start \in Nat
    BY <2>2, Zenon DEF Ranges
  <2> QED BY <2>1, <2>3
<1>5. Separated(new)
  <2> SUFFICES ASSUME NEW k \in 1 .. Len(acks) + 1, NEW l \in 1 .. Len(acks) + 1, k < l
               PROVE  new[k].end < new[l].start
    BY <1>3 DEF Separated
  <2>1. CASE k = i
    <3>1. l - 1 \in i .. Len(acks) /\ new[l] = acks[l - 1] /\ new[k] = Single(sequence)
      BY <1>1, <1>3, <2>1
    <3> QED BY <1>4, <3>1 DEF Single, Between
  <2>2. CASE l = i
    BY <1>1, <1>3, <2>2 DEF Single, Between
  <2>3. CASE k < i /\ l < i
    <3>1. /\ l \in 1 .. Len(acks) /\ new[l] = acks[l]
          /\ k \in 1 .. Len(acks) /\ new[k] = acks[k]
      BY <1>1, <1>3, <2>3
    <3> QED BY <1>1, <3>1 DEF Separated
  <2>4. CASE k < i /\ l > i
    <3>1. l - 1 \in 1 .. Len(acks) /\ new[l] = acks[l - 1] /\ new[k] = acks[k] /\ k < l - 1
          /\ k \in 1 .. Len(acks)
      BY <1>1, <1>3, <2>4
    <3> QED BY <1>1, <3>1 DEF Separated
  <2>5. CASE k > i /\ l > i
    <3>1. /\ l - 1 \in 1 .. Len(acks) /\ new[l] = acks[l - 1]
          /\ k - 1 \in 1 .. Len(acks) /\ new[k] = acks[k - 1] /\ k - 1 < l - 1
      BY <1>1, <1>3, <2>5
    <3> QED BY <1>1, <3>1 DEF Separated
  <2> QED BY <2>1, <2>2, <2>3, <2>4, <2>5
<1>6. \A n : n \in Covered(new) <=> n \in Covered(acks) \cup {sequence}
  <2> TAKE n
  <2>1. n \in Covered(new) <=> n \in Nat /\ \E k \in 1 .. Len(acks) + 1 : InRange(n, new[k])
    BY <1>3, CoveredMember, Zenon
  <2>2. n \in Covered(acks) <=> n \in Nat /\ \E k \in 1 .. Len(acks) : InRange(n, acks[k])
    BY CoveredMember
  <2>3. n \in Nat => (InRange(n, Single(sequence)) <=> n = sequence)
    BY DEF InRange, Single, Between
  <2>4. i \in 1 .. Len(acks) + 1 /\ new[i] = Single(sequence)
    BY <1>1, <1>3
  <2>5. ASSUME NEW k \in 1 .. Len(acks)
        PROVE  \E l \in 1 .. Len(acks) + 1 : new[l] = acks[k]
    <3>1. CASE k < i
      BY <1>1, <1>3, <3>1
    <3>2. CASE k >= i
      <4>1. k + 1 \in 1 .. Len(acks) + 1 /\ new[k + 1] = acks[(k + 1) - 1] /\ (k + 1) - 1 = k
        BY <1>1, <1>3, <3>2
      <4> QED BY <4>1
    <3> QED BY <3>1, <3>2
  <2>6. ASSUME NEW l \in 1 .. Len(acks) + 1, l # i
        PROVE  \E k \in 1 .. Len(acks) : new[l] = acks[k]
    <3>1. CASE l < i
      BY <1>1, <1>3, <3>1
    <3>2. CASE l > i
      <4>1. l - 1 \in 1 .. Len(acks) /\ new[l] = acks[l - 1]
        BY <1>1, <1>3, <3>2
      <4> QED BY <4>1
    <3> QED BY <2>6, <3>1, <3>2
  <2> QED BY <2>1, <2>2, <2>3, <2>4, <2>5, <2>6, Zenon
<1> QED BY <1>3, <1>5, <1>6 DEF new

(***************************************************************************)
(* The sequence number closes the gap between range i and the next: the    *)
(* two become one.                                                         *)
(***************************************************************************)
LEMMA MergeProperties ==
  ASSUME NEW acks \in Seq(Ranges), Separated(acks), NEW sequence \in Nat,
         NEW i \in 1 .. Len(acks) - 1,
         acks[i].end = sequence, acks[i + 1].start = sequence + 1
  PROVE  LET new == VecRemove([acks EXCEPT ![i] = Between(acks[i].start, acks[i + 1].end)], i + 1)
         IN  /\ new \in Seq(Ranges)
             /\ Separated(new)
             /\ Covered(new) = Covered(acks) \cup {sequence}
<1> DEFINE r     == Between(acks[i].start, acks[i + 1].end)
           wider == [acks EXCEPT ![i] = r]
           new   == VecRemove(wider, i + 1)
<1>1. /\ Len(acks) \in Nat /\ DOMAIN acks = 1 .. Len(acks)
      /\ \A k \in 1 .. Len(acks) : acks[k] \in Ranges
      /\ i \in 1 .. Len(acks) /\ i + 1 \in 1 .. Len(acks)
  <2>1. Len(acks) \in Nat /\ DOMAIN acks = 1 .. Len(acks)
        /\ \A k \in 1 .. Len(acks) : acks[k] \in Ranges
    OBVIOUS
  <2> QED BY <2>1
<1>2. r \in Ranges /\ r.start = acks[i].start /\ r.end = acks[i + 1].end
  <2>1. acks[i] \in Ranges /\ acks[i + 1] \in Ranges
    BY <1>1
  <2>2. acks[i].start \in Nat /\ acks[i].start < acks[i].end
    BY <2>1 DEF Ranges
  <2>3. acks[i + 1].end \in Nat /\ acks[i + 1].start < acks[i + 1].end
    BY <2>1, Zenon DEF Ranges
  <2>4. acks[i].start < acks[i + 1].end
    BY <2>2, <2>3
  <2> QED BY <2>2, <2>3, <2>4, BetweenRange, Zenon
<1> HIDE DEF r
<1>4. /\ wider \in Seq(Ranges) /\ Len(wider) = Len(acks)
      /\ \A k \in 1 .. Len(acks) : wider[k] = IF k = i THEN r ELSE acks[k]
  BY <1>1, <1>2
<1> HIDE DEF wider
<1>5. /\ new \in Seq(Ranges) /\ Len(new) = Len(acks) - 1
      /\ DOMAIN new = 1 .. Len(acks) - 1
      /\ \A k \in 1 .. Len(acks) - 1 : new[k] = IF k < i + 1 THEN wider[k] ELSE wider[k + 1]
  <2>1. /\ new \in Seq(Ranges) /\ Len(new) = Len(wider) - 1
        /\ \A k \in 1 .. Len(wider) - 1 : new[k] = IF k < i + 1 THEN wider[k] ELSE wider[k + 1]
    <3>1. i + 1 \in 1 .. Len(wider)
      BY <1>1, <1>4
    <3> QED BY <1>4, <3>1, VecRemoveProperties, Zenon
  <2> HIDE DEF new
  <2>2. Len(wider) = Len(acks)
    BY <1>4
  <2>3. new \in Seq(Ranges) /\ Len(new) = Len(acks) - 1
    BY <2>1, <2>2
  <2>4. DOMAIN new = 1 .. Len(acks) - 1
    BY <2>3
  <2> QED BY <2>1, <2>2, <2>3, <2>4
<1> HIDE DEF new
<1>6. \A k \in 1 .. Len(acks) - 1 : new[k] =
        IF k < i THEN acks[k] ELSE IF k = i THEN r ELSE acks[k + 1]
  <2> TAKE k \in 1 .. Len(acks) - 1
  <2>1. k \in 1 .. Len(acks) /\ k + 1 \in 1 .. Len(acks)
    BY <1>1
  <2>2. new[k] = IF k < i + 1 THEN wider[k] ELSE wider[k + 1]
    BY <1>5
  <2>3. /\ wider[k] = IF k = i THEN r ELSE acks[k]
        /\ wider[k + 1] = IF k + 1 = i THEN r ELSE acks[k + 1]
    BY <1>4, <2>1
  <2> QED BY <2>2, <2>3
<1>7. Separated(new)
  <2> SUFFICES ASSUME NEW k \in 1 .. Len(acks) - 1, NEW l \in 1 .. Len(acks) - 1, k < l
               PROVE  new[k].end < new[l].start
    BY <1>5, Zenon DEF Separated
  <2>0. \A x, y \in 1 .. Len(acks) : x < y => acks[x].end < acks[y].start
    BY <1>1, Zenon DEF Separated
  <2>1. k \in 1 .. Len(acks) /\ l \in 1 .. Len(acks)
        /\ k + 1 \in 1 .. Len(acks) /\ l + 1 \in 1 .. Len(acks)
    BY <1>1
  <2>2. CASE l < i
    <3>1. new[k] = acks[k] /\ new[l] = acks[l]
      BY <1>1, <1>6, <2>2
    <3> QED BY <2>0, <2>1, <3>1, Zenon
  <2>3. CASE l = i
    <3>1. new[k] = acks[k] /\ new[l].start = acks[i].start
      BY <1>1, <1>2, <1>6, <2>3
    <3> QED BY <2>0, <2>1, <2>3, <3>1
  <2>4. CASE k < i /\ i < l
    <3>1. new[k] = acks[k] /\ new[l] = acks[l + 1] /\ k < l + 1
      BY <1>1, <1>6, <2>4, SMTT(20)
    <3> QED BY <2>0, <2>1, <3>1, Zenon
  <2>5. CASE k = i
    <3>1. new[k].end = acks[i + 1].end /\ new[l] = acks[l + 1] /\ i + 1 < l + 1
      BY <1>1, <1>2, <1>6, <2>5
    <3> QED BY <1>1, <2>0, <2>1, <3>1
  <2>6. CASE i < k
    <3>1. i \in Int /\ k \in Int /\ l \in Int /\ i < k /\ i < l /\ k + 1 < l + 1
      BY <1>1, <2>6
    <3>2. new[k] = acks[k + 1]
      BY <1>6, <3>1
    <3>3. new[l] = acks[l + 1]
      BY <1>6, <3>1
    <3> QED BY <2>0, <2>1, <3>1, <3>2, <3>3
  <2> QED BY <2>1, <2>2, <2>3, <2>4, <2>5, <2>6
<1>8. \A n : n \in Covered(new) <=> n \in Covered(acks) \cup {sequence}
  <2> TAKE n
  <2>1. n \in Covered(new) <=> n \in Nat /\ \E k \in 1 .. Len(acks) - 1 : InRange(n, new[k])
    BY <1>5, CoveredMember, Zenon
  <2>2. n \in Covered(acks) <=> n \in Nat /\ \E k \in 1 .. Len(acks) : InRange(n, acks[k])
    BY CoveredMember
  <2>3. ASSUME n \in Nat
        PROVE  InRange(n, r) <=>
                 InRange(n, acks[i]) \/ n = sequence \/ InRange(n, acks[i + 1])
    <3>1. /\ acks[i].start \in Nat /\ acks[i + 1].end \in Nat
          /\ acks[i].start < sequence /\ sequence + 1 < acks[i + 1].end
      <4>1. acks[i] \in Ranges /\ acks[i + 1] \in Ranges
        BY <1>1
      <4> QED BY <4>1, Zenon DEF Ranges
    <3> QED BY <1>2, <2>3, <3>1, SMTT(20) DEF InRange
  <2>4. i \in 1 .. Len(acks) - 1 /\ new[i] = r
    BY <1>1, <1>6
  <2>5. ASSUME NEW k \in 1 .. Len(acks), k # i, k # i + 1
        PROVE  \E l \in 1 .. Len(acks) - 1 : new[l] = acks[k]
    <3>1. CASE k < i
      BY <1>1, <1>6, <3>1
    <3>2. CASE k > i + 1
      <4>1. k - 1 \in 1 .. Len(acks) - 1 /\ k - 1 > i /\ (k - 1) + 1 = k
        BY <1>1, <3>2
      <4>2. new[k - 1] = acks[(k - 1) + 1]
        BY <1>1, <1>6, <4>1
      <4> QED BY <4>1, <4>2
    <3> QED BY <1>1, <2>5, <3>1, <3>2
  <2>6. ASSUME NEW l \in 1 .. Len(acks) - 1, l # i
        PROVE  \E k \in 1 .. Len(acks) : new[l] = acks[k]
    <3>1. l \in 1 .. Len(acks) /\ l + 1 \in 1 .. Len(acks)
      BY <1>1
    <3> QED BY <1>6, <2>6, <3>1
  <2> QED BY <1>1, <2>1, <2>2, <2>3, <2>4, <2>5, <2>6, Zenon
<1> QED BY <1>5, <1>7, <1>8, Zenon DEF new, wider, r

(***************************************************************************)
(* add_pending_ack on any separated list of ranges: the list stays         *)
(* separated, the sequence number is added and no other is forgotten, but  *)
(* for the oldest range when a range is pushed above the limit.            *)
(***************************************************************************)
LEMMA AddPendingAckProperties ==
  ASSUME NEW acks \in Seq(Ranges), Separated(acks), NEW sequence \in Nat
  PROVE  LET new == AddPendingAck(acks, sequence)
             all == Covered(acks) \cup {sequence}
         IN  /\ new \in Seq(Ranges)
             /\ Separated(new)
             /\ \/ Covered(new) = all
                \/ /\ Len(acks) >= MaxAckRanges
                   /\ Covered(new) = all \ Covered(<<acks[1]>>)
<1> DEFINE stops == {k \in DOMAIN acks : sequence <= acks[k].end}
           new   == AddPendingAck(acks, sequence)
<1>1. /\ Len(acks) \in Nat /\ DOMAIN acks = 1 .. Len(acks)
      /\ \A k \in 1 .. Len(acks) : acks[k] \in Ranges
  OBVIOUS
<1>2. \A k \in 1 .. Len(acks) : /\ acks[k].start \in Nat /\ acks[k].end \in Nat
                                /\ acks[k].start < acks[k].end
  BY <1>1 DEF Ranges
<1>3. CASE stops = {}
  <2>1. \A k \in 1 .. Len(acks) : acks[k].end < sequence
    BY <1>1, <1>2, <1>3
  <2>2. new = PushBack(acks, sequence)
    BY <1>3 DEF AddPendingAck
  <2> QED BY <2>1, <2>2, PushBackProperties
<1>4. CASE stops # {}
  <2>0. PICK i \in stops : /\ \A k \in stops : i <= k
                           /\ new = FitAt(acks, i, sequence)
    <3>1. stops \in SUBSET Nat
      BY <1>1
    <3>2. Min(stops) \in stops /\ \A k \in stops : Min(stops) <= k
      BY <1>4, <3>1, MinNat, Zenon
    <3> QED BY <1>4, <3>2, Zenon DEF AddPendingAck
  <2>1. /\ i \in 1 .. Len(acks) /\ sequence <= acks[i].end
        /\ \A k \in 1 .. i - 1 : acks[k].end < sequence
    <3>1. i \in 1 .. Len(acks) /\ sequence <= acks[i].end
      BY <1>1
    <3>2. ASSUME NEW k \in 1 .. i - 1 PROVE acks[k].end < sequence
      <4>1. k \in 1 .. Len(acks) /\ ~ (i <= k)
        BY <1>1, <3>1
      <4>2. ~ (sequence <= acks[k].end)
        BY <1>1, <2>0, <4>1
      <4>3. acks[k].end \in Nat
        BY <1>2, <4>1
      <4> QED BY <4>2, <4>3
    <3> QED BY <3>1, <3>2
  <2> HIDE DEF new, stops
  <2>a. \A k \in i + 1 .. Len(acks) : acks[i].end < acks[k].start
    <3> TAKE k \in i + 1 .. Len(acks)
    <3>1. i \in DOMAIN acks /\ k \in DOMAIN acks /\ i < k
      BY <1>1, <2>1
    <3> QED BY <3>1 DEF Separated
  <2>2. CASE InRange(sequence, acks[i])
    <3>1. new = acks
      BY <2>0, <2>2 DEF FitAt
    <3>2. sequence \in Covered(acks)
      BY <2>1, <2>2, CoveredMember
    <3> QED BY <3>1, <3>2 DEF new
  <2>3. CASE acks[i].start = sequence + 1
    <3>1. new = [acks EXCEPT ![i] = Between(sequence, acks[i].end)]
      BY <1>2, <2>0, <2>1, <2>3 DEF FitAt, InRange
    <3> DEFINE r == Between(sequence, acks[i].end)
    <3>2. r \in Ranges /\ r.start = sequence /\ r.end = acks[i].end
      BY <1>2, <2>1, <2>3, BetweenRange
    <3> HIDE DEF r
    <3>3. /\ \A k \in 1 .. i - 1 : acks[k].end < r.start
          /\ \A k \in i + 1 .. Len(acks) : r.end < acks[k].start
      BY <2>1, <2>a, <3>2
    <3>4. Widens(acks, i, r, sequence)
      BY <2>3, <3>2, <3>3 DEF Widens
    <3>5. new = [acks EXCEPT ![i] = r]
      BY <3>1 DEF r
    <3>6. new \in Seq(Ranges) /\ Separated(new) /\ Covered(new) = Covered(acks) \cup {sequence}
      <4>1. i \in 1 .. Len(acks) /\ r \in Ranges
        BY <2>1, <3>2
      <4> QED BY <3>4, <3>5, <4>1, WidenProperties, Zenon
    <3> QED BY <3>6 DEF new
  <2>4. CASE acks[i].end = sequence
    <3>1. new = ExtendAfter(acks, i, sequence)
      BY <1>2, <2>0, <2>1, <2>4 DEF FitAt, InRange
    <3>2. CASE i < Len(acks) /\ acks[i + 1].start = sequence + 1
      <4>1. new = VecRemove([acks EXCEPT ![i] = Between(acks[i].start, acks[i + 1].end)], i + 1)
        BY <3>1, <3>2 DEF ExtendAfter
      <4>2. i \in 1 .. Len(acks) - 1
        BY <1>1, <2>1, <3>2
      <4>3. new \in Seq(Ranges) /\ Separated(new) /\ Covered(new) = Covered(acks) \cup {sequence}
        BY <2>4, <3>2, <4>1, <4>2, MergeProperties, Zenon
      <4> QED BY <4>3 DEF new
    <3>3. CASE ~ (i < Len(acks) /\ acks[i + 1].start = sequence + 1)
      <4>1. new = [acks EXCEPT ![i] = Between(acks[i].start, sequence + 1)]
        BY <3>1, <3>3 DEF ExtendAfter
      <4> DEFINE r == Between(acks[i].start, sequence + 1)
      <4>2. r \in Ranges /\ r.start = acks[i].start /\ r.end = sequence + 1
        BY <1>2, <2>1, <2>4, BetweenRange
      <4> HIDE DEF r
      <4>3. \A k \in 1 .. i - 1 : acks[k].end < r.start
        <5> TAKE k \in 1 .. i - 1
        <5>1. k \in DOMAIN acks /\ i \in DOMAIN acks /\ k < i
          BY <1>1, <2>1
        <5> QED BY <4>2, <5>1 DEF Separated
      <4>4. \A k \in i + 1 .. Len(acks) : r.end < acks[k].start
        <5> TAKE k \in i + 1 .. Len(acks)
        <5>1. CASE k = i + 1
          <6>1. i < Len(acks) /\ acks[k].start \in Nat
            BY <1>1, <1>2, <2>1, <5>1
          <6> QED BY <2>4, <2>a, <3>3, <4>2, <5>1, <6>1
        <5>2. CASE k # i + 1
          <6>1. /\ i + 1 \in DOMAIN acks /\ k \in DOMAIN acks /\ i + 1 < k
                /\ i + 1 \in i + 1 .. Len(acks)
            BY <1>1, <2>1, <5>2
          <6>2. acks[i + 1].end < acks[k].start /\ acks[i].end < acks[i + 1].start
            BY <2>a, <6>1 DEF Separated
          <6> QED BY <1>1, <1>2, <2>4, <4>2, <6>1, <6>2
        <5> QED BY <5>1, <5>2
      <4>5. Widens(acks, i, r, sequence)
        BY <2>4, <4>2, <4>3, <4>4 DEF Widens
      <4>6. new = [acks EXCEPT ![i] = r]
        BY <4>1 DEF r
      <4>7. new \in Seq(Ranges) /\ Separated(new) /\ Covered(new) = Covered(acks) \cup {sequence}
        <5>1. i \in 1 .. Len(acks) /\ r \in Ranges
          BY <2>1, <4>2
        <5> QED BY <4>5, <4>6, <5>1, WidenProperties, Zenon
      <4> QED BY <4>7 DEF new
    <3> QED BY <3>2, <3>3
  <2>5. CASE acks[i].start > sequence + 1
    <3>1. new = VecInsert(acks, i, Single(sequence))
      BY <1>2, <2>0, <2>1, <2>5 DEF FitAt, InRange
    <3> QED BY <2>1, <2>5, <3>1, InsertProperties DEF new
  <2>6. \/ InRange(sequence, acks[i]) \/ acks[i].start = sequence + 1
        \/ acks[i].end = sequence \/ acks[i].start > sequence + 1
    BY <1>2, <2>1 DEF InRange
  <2> QED BY <2>2, <2>3, <2>4, <2>5, <2>6
<1> QED BY <1>3, <1>4

-----------------------------------------------------------------------------
(***************************************************************************)
(* acked_largest, first half: dropping the leading ranges that end at or   *)
(* below largest_ack loses no number above it.                             *)
(***************************************************************************)
LEMMA DropProperties ==
  ASSUME NEW acks \in Seq(Ranges), Separated(acks), NEW l \in Nat,
         NEW m \in 1 .. Len(acks),
         \A j \in 1 .. m - 1 : acks[j].end <= l
  PROVE  LET sub == SubSeq(acks, m, Len(acks))
         IN  /\ sub \in Seq(Ranges) /\ sub # <<>> /\ sub[1] = acks[m]
             /\ Separated(sub)
             /\ {n \in Covered(sub) : n > l} = {n \in Covered(acks) : n > l}
<1> DEFINE sub == SubSeq(acks, m, Len(acks))
<1>1. /\ Len(acks) \in Nat /\ DOMAIN acks = 1 .. Len(acks)
      /\ \A k \in 1 .. Len(acks) : acks[k] \in Ranges
  OBVIOUS
<1>2. /\ sub \in Seq(Ranges) /\ Len(sub) = Len(acks) - m + 1
      /\ \A k \in 1 .. Len(acks) - m + 1 : sub[k] = acks[m + k - 1]
  <2>1. sub \in Seq(Ranges)
    OBVIOUS
  <2>2. Len(sub) = Len(acks) - m + 1
    BY <1>1
  <2>3. ASSUME NEW k \in 1 .. Len(acks) - m + 1 PROVE sub[k] = acks[m + k - 1]
    BY <1>1
  <2> QED BY <2>1, <2>2, <2>3, Zenon
<1> HIDE DEF sub
<1>3. DOMAIN sub = 1 .. Len(acks) - m + 1
  BY <1>2
<1>4. sub # <<>> /\ sub[1] = acks[m]
  BY <1>1, <1>2
<1>5. Separated(sub)
  <2> SUFFICES ASSUME NEW i \in DOMAIN sub, NEW j \in DOMAIN sub, i < j
               PROVE  sub[i].end < sub[j].start
    BY DEF Separated
  <2>1. i \in 1 .. Len(acks) - m + 1 /\ j \in 1 .. Len(acks) - m + 1
    BY <1>3
  <2>2. sub[i] = acks[m + i - 1] /\ sub[j] = acks[m + j - 1]
    BY <1>2, <2>1, Zenon
  <2>3. /\ m + i - 1 \in DOMAIN acks /\ m + j - 1 \in DOMAIN acks
        /\ m + i - 1 < m + j - 1
    BY <1>1, <2>1
  <2> QED BY <2>2, <2>3 DEF Separated
<1>6. ASSUME NEW n, n \in Covered(sub) PROVE n \in Covered(acks)
  <2>1. PICK i \in 1 .. Len(sub) : n \in Nat /\ InRange(n, sub[i])
    BY <1>2, <1>6, CoveredMember
  <2>2. m + i - 1 \in 1 .. Len(acks) /\ sub[i] = acks[m + i - 1]
    BY <1>1, <1>2, <2>1
  <2> QED BY <2>1, <2>2, CoveredMember
<1>7. ASSUME NEW n, n \in Covered(acks), n > l PROVE n \in Covered(sub)
  <2>1. PICK i \in 1 .. Len(acks) : n \in Nat /\ InRange(n, acks[i])
    BY <1>7, CoveredMember
  <2>2. i \notin 1 .. m - 1
    BY <1>1, <1>7, <2>1 DEF InRange, Ranges
  <2>3. i - m + 1 \in 1 .. Len(acks) - m + 1 /\ m + (i - m + 1) - 1 = i
    BY <1>1, <2>2
  <2>4. i - m + 1 \in 1 .. Len(sub) /\ sub[i - m + 1] = acks[i]
    BY <1>2, <2>3
  <2> QED BY <1>2, <2>1, <2>4, CoveredMember, Zenon
<1>8. {n \in Covered(sub) : n > l} = {n \in Covered(acks) : n > l}
  BY <1>6, <1>7
<1> QED BY <1>2, <1>4, <1>5, <1>8 DEF sub

(***************************************************************************)
(* acked_largest, second half: the first range keeps what lies above       *)
(* largest_ack, and the others, which lie wholly above it, all they have.  *)
(***************************************************************************)
LEMMA CutFirstProperties ==
  ASSUME NEW acks \in Seq(Ranges), Separated(acks), NEW l \in Nat,
         acks # <<>>, acks[1].end > l
  PROVE  LET new == CutFirst(acks, l)
         IN  /\ new \in Seq(Ranges)
             /\ Separated(new)
             /\ Covered(new) = {n \in Covered(acks) : n > l}
<1> DEFINE new == CutFirst(acks, l)
<1>1. /\ Len(acks) \in Nat /\ DOMAIN acks = 1 .. Len(acks)
      /\ \A k \in 1 .. Len(acks) : acks[k] \in Ranges
  OBVIOUS
<1>2. \A k \in 1 .. Len(acks) :
         acks[k].start \in Nat /\ acks[k].end \in Nat /\ acks[k].start < acks[k].end
  BY <1>1 DEF Ranges
<1>3. Head(acks) = acks[1] /\ 1 \in 1 .. Len(acks)
  BY <1>1
<1>4. \A k \in 2 .. Len(acks) : acks[k].start > l
  <2> SUFFICES ASSUME NEW k \in 2 .. Len(acks) PROVE acks[k].start > l
    OBVIOUS
  <2>1. k \in DOMAIN acks /\ 1 \in DOMAIN acks /\ 1 < k
    BY <1>1, <1>3
  <2>2. acks[1].end < acks[k].start
    BY <2>1 DEF Separated
  <2> QED BY <1>1, <1>2, <1>3, <2>1, <2>2
<1>5. CASE l < acks[1].start
  <2>1. new = acks
    BY <1>3, <1>5 DEF CutFirst
  <2>2. \A n \in Covered(acks) : n > l
    <3> SUFFICES ASSUME NEW n \in Covered(acks) PROVE n > l
      OBVIOUS
    <3>1. PICK i \in 1 .. Len(acks) : n \in Nat /\ InRange(n, acks[i])
      BY CoveredMember
    <3>2. acks[i].start > l
      BY <1>1, <1>4, <1>5
    <3> QED BY <1>2, <3>1, <3>2 DEF InRange
  <2> QED BY <2>1, <2>2
<1>6. CASE ~ (l < acks[1].start) /\ acks[1].end = l + 1
  <2>1. new = Tail(acks)
    BY <1>3, <1>6 DEF CutFirst
  <2>2. /\ new \in Seq(Ranges) /\ Len(new) = Len(acks) - 1
        /\ \A k \in 1 .. Len(acks) - 1 : new[k] = acks[k + 1]
    BY <1>1, <2>1
  <2> HIDE DEF new
  <2>3. DOMAIN new = 1 .. Len(acks) - 1
    BY <2>2
  <2>4. Separated(new)
    <3> SUFFICES ASSUME NEW i \in DOMAIN new, NEW j \in DOMAIN new, i < j
                 PROVE  new[i].end < new[j].start
      BY DEF Separated
    <3>1. i \in 1 .. Len(acks) - 1 /\ j \in 1 .. Len(acks) - 1
      BY <2>3
    <3>2. new[i] = acks[i + 1] /\ new[j] = acks[j + 1]
      BY <2>2, <3>1
    <3>3. i + 1 \in DOMAIN acks /\ j + 1 \in DOMAIN acks /\ i + 1 < j + 1
      BY <1>1, <3>1
    <3> QED BY <3>2, <3>3 DEF Separated
  <2>5. ASSUME NEW n, n \in Covered(new) PROVE n \in Covered(acks) /\ n > l
    <3>1. PICK i \in 1 .. Len(new) : n \in Nat /\ InRange(n, new[i])
      BY <2>2, <2>5, CoveredMember
    <3>2. i + 1 \in 2 .. Len(acks) /\ new[i] = acks[i + 1]
      BY <1>1, <2>2, <3>1
    <3>3. n > l
      BY <1>1, <1>2, <1>4, <3>1, <3>2 DEF InRange
    <3> QED BY <3>1, <3>2, <3>3, CoveredMember
  <2>6. ASSUME NEW n, n \in Covered(acks), n > l PROVE n \in Covered(new)
    <3>1. PICK i \in 1 .. Len(acks) : n \in Nat /\ InRange(n, acks[i])
      BY <2>6, CoveredMember
    <3>2. i # 1
      BY <1>2, <1>3, <1>6, <2>6, <3>1 DEF InRange
    <3>3. i - 1 \in 1 .. Len(new) /\ new[i - 1] = acks[i]
      BY <1>1, <2>2, <3>2
    <3> QED BY <2>2, <3>1, <3>3, CoveredMember
  <2>7. Covered(new) = {n \in Covered(acks) : n > l}
    BY <2>5, <2>6
  <2> QED BY <2>2, <2>4, <2>7 DEF new
<1>7. CASE ~ (l < acks[1].start) /\ acks[1].end # l + 1
  <2> DEFINE r == Between(l + 1, acks[1].end)
  <2>1. new = [acks EXCEPT ![1] = r]
    BY <1>3, <1>7, Zenon DEF CutFirst
  <2>2. r \in Ranges /\ r.start = l + 1 /\ r.end = acks[1].end
    BY <1>2, <1>3, <1>7, BetweenRange
  <2> HIDE DEF r
  <2>3. /\ new \in Seq(Ranges) /\ Len(new) = Len(acks)
        /\ \A k \in 1 .. Len(acks) : new[k] = IF k = 1 THEN r ELSE acks[k]
    BY <1>1, <1>3, <2>1, <2>2
  <2> HIDE DEF new
  <2>4. DOMAIN new = 1 .. Len(acks)
    BY <2>3
  <2>5. Separated(new)
    <3> SUFFICES ASSUME NEW i \in DOMAIN new, NEW j \in DOMAIN new, i < j
                 PROVE  new[i].end < new[j].start
      BY DEF Separated
    <3>1. i \in DOMAIN acks /\ j \in DOMAIN acks /\ j # 1
      BY <1>1, <2>4
    <3>2. acks[i].end < acks[j].start
      BY <3>1 DEF Separated
    <3>3. new[i].end = acks[i].end /\ new[j] = acks[j]
      BY <1>1, <2>2, <2>3, <3>1
    <3> QED BY <3>2, <3>3
  <2>6. ASSUME NEW n, n \in Covered(new) PROVE n \in Covered(acks) /\ n > l
    <3>1. PICK i \in 1 .. Len(acks) : n \in Nat /\ InRange(n, new[i])
      BY <2>3, <2>6, CoveredMember
    <3>2. CASE i = 1
      <4>1. InRange(n, acks[1]) /\ n > l
        BY <1>2, <1>3, <1>7, <2>2, <2>3, <3>1, <3>2 DEF InRange
      <4> QED BY <1>3, <3>1, <4>1, CoveredMember
    <3>3. CASE i # 1
      <4>1. new[i] = acks[i] /\ i \in 2 .. Len(acks)
        BY <1>1, <2>3, <3>1, <3>3
      <4>2. n > l
        BY <1>2, <1>4, <3>1, <4>1 DEF InRange
      <4> QED BY <3>1, <4>1, <4>2, CoveredMember
    <3> QED BY <3>2, <3>3
  <2>7. ASSUME NEW n, n \in Covered(acks), n > l PROVE n \in Covered(new)
    <3>1. PICK i \in 1 .. Len(acks) : n \in Nat /\ InRange(n, acks[i])
      BY <2>7, CoveredMember
    <3>2. InRange(n, new[i])
      BY <1>2, <1>3, <2>2, <2>3, <2>7, <3>1 DEF InRange
    <3> QED BY <2>3, <3>1, <3>2, CoveredMember
  <2>8. Covered(new) = {n \in Covered(acks) : n > l}
    BY <2>6, <2>7
  <2> QED BY <2>3, <2>5, <2>8 DEF new
<1> QED BY <1>5, <1>6, <1>7

(***************************************************************************)
(* acked_largest removes exactly the numbers up to largest_ack, and leaves *)
(* ranges that are still separated.                                        *)
(***************************************************************************)
LEMMA AckedLargestProperties ==
  ASSUME NEW acks \in Seq(Ranges), Separated(acks), NEW l \in Nat
  PROVE  LET new == AckedLargest(acks, l)
         IN  /\ new \in Seq(Ranges)
             /\ Separated(new)
             /\ Covered(new) = {n \in Covered(acks) : n > l}
<1> DEFINE above == {i \in DOMAIN acks : acks[i].end > l}
           new == AckedLargest(acks, l)
<1>1. /\ Len(acks) \in Nat /\ DOMAIN acks = 1 .. Len(acks)
      /\ \A k \in 1 .. Len(acks) : acks[k] \in Ranges
  OBVIOUS
<1>2. \A k \in 1 .. Len(acks) :
         acks[k].start \in Nat /\ acks[k].end \in Nat /\ acks[k].start < acks[k].end
  BY <1>1 DEF Ranges
<1>3. CASE above = {}
  <2>1. new = <<>>
    BY <1>3 DEF AckedLargest
  <2>2. new \in Seq(Ranges) /\ Separated(new) /\ Covered(new) = {}
    BY <2>1 DEF Separated, Covered
  <2>3. \A n \in Covered(acks) : ~ (n > l)
    <3> SUFFICES ASSUME NEW n \in Covered(acks), n > l PROVE FALSE
      OBVIOUS
    <3>1. PICK i \in 1 .. Len(acks) : n \in Nat /\ InRange(n, acks[i])
      BY CoveredMember
    <3>2. i \in above
      BY <1>1, <1>2, <3>1 DEF InRange
    <3> QED BY <1>3, <3>2
  <2> QED BY <2>2, <2>3
<1>4. CASE above # {}
  <2>1. above \subseteq Nat
    BY <1>1
  <2>2. PICK m \in above : m = Min(above) /\ \A k \in above : m <= k
    BY <1>4, <2>1, MinNat, Zenon
  <2> DEFINE sub == SubSeq(acks, m, Len(acks))
  <2>3. new = CutFirst(sub, l)
    BY <1>4, <2>2 DEF AckedLargest
  <2>4. m \in 1 .. Len(acks) /\ acks[m].end > l
    BY <1>1
  <2>5. \A j \in 1 .. m - 1 : acks[j].end <= l
    <3> SUFFICES ASSUME NEW j \in 1 .. m - 1 PROVE acks[j].end <= l
      OBVIOUS
    <3>1. j \in 1 .. Len(acks) /\ ~ (m <= j)
      BY <1>1, <2>4
    <3>2. j \notin above
      BY <2>2, <3>1
    <3> QED BY <1>1, <1>2, <3>1, <3>2
  <2> HIDE DEF new, above
  <2>6. /\ sub \in Seq(Ranges) /\ sub # <<>> /\ sub[1] = acks[m] /\ Separated(sub)
        /\ {n \in Covered(sub) : n > l} = {n \in Covered(acks) : n > l}
    BY <2>4, <2>5, DropProperties, Zenon
  <2> HIDE DEF sub
  <2>7. sub[1].end > l
    BY <2>4, <2>6
  <2>8. /\ new \in Seq(Ranges) /\ Separated(new)
        /\ Covered(new) = {n \in Covered(sub) : n > l}
    BY <2>3, <2>6, <2>7, CutFirstProperties, Zenon
  <2> QED BY <2>6, <2>8 DEF new
<1> QED BY <1>3, <1>4

-----------------------------------------------------------------------------
(***************************************************************************)
(* The reliable channel.  M is the sequence of messages the sender was     *)
(* given: message id is M[id + 1].                                         *)
(***************************************************************************)
LEMMA IndicesFacts ==
  ASSUME NEW m \in Messages
  PROVE  /\ NumSlices(m) \in Nat \ {0}
         /\ Indices(m) \subseteq Nat /\ IsFiniteSet(Indices(m))
         /\ 0 \in Indices(m)
         /\ ~ Sliced(m) => Indices(m) = {0}
<1>1. Size[m] \in Nat
  BY MessagesAssumption
<1>2. NumSlices(m) \in Nat \ {0} /\ (~ Sliced(m) => NumSlices(m) = 1)
  BY <1>1 DEF NumSlices, Sliced, SLICE_SIZE
<1>3. IsFiniteSet(Indices(m))
  BY <1>2, FS_Interval DEF Indices
<1> QED BY <1>2, <1>3 DEF Indices

-----------------------------------------------------------------------------
(***************************************************************************)
(* The order of the loop is total on items, so that the packets pushed at  *)
(* different items have different numbers, and these are consecutive.      *)
(***************************************************************************)
IsItem(x) == x = <<x[1], x[2]>> /\ x[1] \in Nat /\ x[2] \in Nat

LEMMA BeforeIsTotal ==
  ASSUME NEW ch, NEW x, NEW y, NEW z, IsItem(x), IsItem(y), IsItem(z)
  PROVE  /\ ~ Before(ch, x, x)
         /\ x # y => Before(ch, x, y) \/ Before(ch, y, x)
         /\ Before(ch, x, y) /\ Before(ch, y, z) => Before(ch, x, z)
<1>1. ~ Before(ch, x, x)
  BY DEF Before, IsItem
<1>2. x # y => Before(ch, x, y) \/ Before(ch, y, x)
  BY DEF Before, IsItem
<1>3. Before(ch, x, y) /\ Before(ch, y, z) => Before(ch, x, z)
  BY DEF Before, IsItem
<1> QED BY <1>1, <1>2, <1>3

LEMMA RanksDiffer ==
  ASSUME NEW ch, NEW items, IsFiniteSet(items), \A x \in items : IsItem(x)
  PROVE  /\ \A x \in items : Rank(ch, items, x) \in 0 .. Cardinality(items) - 1
         /\ \A x, y \in items : x # y => Rank(ch, items, x) # Rank(ch, items, y)
<1> DEFINE Below(x) == {y \in items : Before(ch, y, x)}
<1>1. ASSUME NEW x \in items
      PROVE  IsFiniteSet(Below(x)) /\ Cardinality(Below(x)) \in 0 .. Cardinality(items) - 1
  <2>1. Below(x) \in SUBSET items /\ x \notin Below(x)
    BY BeforeIsTotal
  <2>2. Below(x) # items
    BY <2>1
  <2> HIDE DEF Below
  <2>3. /\ IsFiniteSet(Below(x)) /\ Cardinality(Below(x)) <= Cardinality(items)
        /\ Cardinality(Below(x)) # Cardinality(items)
    BY <2>1, <2>2, FS_Subset
  <2>4. Cardinality(Below(x)) \in Nat /\ Cardinality(items) \in Nat
    BY <2>3, FS_CardinalityType
  <2> QED BY <2>3, <2>4
<1>2. ASSUME NEW x \in items, NEW y \in items, Before(ch, x, y)
      PROVE  Cardinality(Below(x)) # Cardinality(Below(y))
  <2>1. Below(x) \in SUBSET Below(y)
    BY <1>2, BeforeIsTotal
  <2>2. x \in Below(y) /\ x \notin Below(x)
    BY <1>2, BeforeIsTotal
  <2> HIDE DEF Below
  <2> QED BY <1>1, <2>1, <2>2, FS_Subset
<1>3. \A x, y \in items : x # y => Before(ch, x, y) \/ Before(ch, y, x)
  BY BeforeIsTotal
<1>4. \A x \in items : Rank(ch, items, x) = Cardinality(Below(x))
  BY DEF Rank
<1> HIDE DEF Below
<1>5. \A x, y \in items : x # y => Cardinality(Below(x)) # Cardinality(Below(y))
  BY <1>2, <1>3
<1> QED BY <1>1, <1>4, <1>5

-----------------------------------------------------------------------------
\* The sending side.
SendOK(ch, M) ==
  /\ ch.next_id = Len(M)
  /\ DOMAIN ch.unacked \subseteq 0 .. Len(M) - 1
  /\ \A id \in DOMAIN ch.unacked : ch.unacked[id].message = M[id + 1]

\* Piece i of message id will not be sent again.
Gone(ch, id, i) == id \in DOMAIN ch.unacked => i \in ch.unacked[id].acked

LEMMA UnackedFacts ==
  ASSUME NEW M \in Seq(Messages), NEW ch, SendOK(ch, M), NEW id \in DOMAIN ch.unacked
  PROVE  id \in Nat /\ ch.unacked[id].message \in Messages
<1>1. Len(M) \in Nat /\ id \in 0 .. Len(M) - 1
  BY DEF SendOK
<1>2. id + 1 \in 1 .. Len(M)
  BY <1>1
<1> QED BY <1>1, <1>2 DEF SendOK

LEMMA SendMessageOK ==
  ASSUME NEW M \in Seq(Messages), NEW ch, SendOK(ch, M), NEW m \in Messages
  PROVE  /\ SendOK(SendMessage(ch, m), Append(M, m))
         /\ \A id \in 0 .. Len(M) - 1 : \A i : Gone(SendMessage(ch, m), id, i) => Gone(ch, id, i)
         /\ \A i : ~ Gone(SendMessage(ch, m), Len(M), i)
<1> DEFINE new == SendMessage(ch, m)
           N == Append(M, m)
<1>1. /\ Len(M) \in Nat /\ Len(N) = Len(M) + 1 /\ N[Len(M) + 1] = m
      /\ \A k \in 1 .. Len(M) : N[k] = M[k]
  OBVIOUS
<1>2. /\ new.next_id = Len(M) + 1 /\ DOMAIN new.unacked = DOMAIN ch.unacked \cup {Len(M)}
      /\ \A id \in DOMAIN ch.unacked : id # Len(M) => new.unacked[id] = ch.unacked[id]
      /\ new.unacked[Len(M)].message = m /\ new.unacked[Len(M)].acked = {}
  BY Zenon DEF SendMessage, SendChannel, Unacked, SendOK
<1>3. /\ DOMAIN ch.unacked \subseteq 0 .. Len(M) - 1
      /\ \A id \in DOMAIN ch.unacked : ch.unacked[id].message = M[id + 1]
  BY DEF SendOK
<1> HIDE DEF new, N
<1>4. SendOK(new, N)
  <2>1. DOMAIN new.unacked \subseteq 0 .. Len(N) - 1
    BY <1>1, <1>2, <1>3
  <2>2. \A id \in DOMAIN ch.unacked : id # Len(M) /\ id + 1 \in 1 .. Len(M)
    BY <1>1, <1>3
  <2>3. \A id \in DOMAIN new.unacked : new.unacked[id].message = N[id + 1]
    BY <1>1, <1>2, <1>3, <2>2
  <2> QED BY <1>1, <1>2, <2>1, <2>3 DEF SendOK
<1>5. \A id \in 0 .. Len(M) - 1 : \A i : Gone(new, id, i) => Gone(ch, id, i)
  BY <1>1, <1>2, <1>3 DEF Gone
<1>6. \A i : ~ Gone(new, Len(M), i)
  BY <1>2 DEF Gone
<1> QED BY <1>4, <1>5, <1>6 DEF new, N

LEMMA MarkSentOK ==
  ASSUME NEW M \in Seq(Messages), NEW ch, SendOK(ch, M), NEW S, NEW now
  PROVE  /\ SendOK(MarkSent(ch, S, now), M)
         /\ \A id, i : Gone(MarkSent(ch, S, now), id, i) <=> Gone(ch, id, i)
<1> DEFINE new == MarkSent(ch, S, now)
<1>1. /\ new.next_id = ch.next_id /\ DOMAIN new.unacked = DOMAIN ch.unacked
      /\ \A id \in DOMAIN ch.unacked : /\ new.unacked[id].message = ch.unacked[id].message
                                       /\ new.unacked[id].acked = ch.unacked[id].acked
  BY Zenon DEF MarkSent, SendChannel, Unacked
<1> HIDE DEF new
<1>2. SendOK(new, M) /\ \A id, i : Gone(new, id, i) <=> Gone(ch, id, i)
  BY <1>1 DEF SendOK, Gone
<1> QED BY <1>2 DEF new

\* What an Ack makes the sender forget it either forgot before, or the acked packets carried it.
LEMMA ProcessAcksOK ==
  ASSUME NEW M \in Seq(Messages), NEW ch, SendOK(ch, M), NEW parts, \A x \in parts : x = <<x[1], x[2]>>
  PROVE  /\ SendOK(ProcessAcks(ch, parts), M)
         /\ \A id \in 0 .. Len(M) - 1 : \A i \in Indices(M[id + 1]) :
              Gone(ProcessAcks(ch, parts), id, i) => Gone(ch, id, i) \/ <<id, i>> \in parts
<1> DEFINE new == ProcessAcks(ch, parts)
<1>1. /\ new.next_id = ch.next_id /\ DOMAIN new.unacked = DOMAIN ch.unacked \ Completed(ch, parts)
      /\ \A id \in DOMAIN new.unacked : /\ new.unacked[id].message = ch.unacked[id].message
                                        /\ new.unacked[id].acked = AckedOf(ch, parts, id)
  BY DEF ProcessAcks, SendChannel, Unacked
<1> HIDE DEF new
<1>2. SendOK(new, M)
  BY <1>1 DEF SendOK
<1>3. ASSUME NEW id \in 0 .. Len(M) - 1, NEW i \in Indices(M[id + 1]), Gone(new, id, i), ~ Gone(ch, id, i)
      PROVE  <<id, i>> \in parts
  <2>1. id \in DOMAIN ch.unacked /\ i \notin ch.unacked[id].acked
    BY <1>3 DEF Gone
  <2>2. i \in AckedOf(ch, parts, id)
    BY <1>1, <1>3, <2>1 DEF Gone, Completed, SendOK
  <2> QED BY <2>1, <2>2 DEF AckedOf
<1> QED BY <1>2, <1>3 DEF new

\* A finite set of ids gives a finite set of first items.
LEMMA FiniteFirstItems ==
  ASSUME NEW D, IsFiniteSet(D)
  PROVE  IsFiniteSet({<<id, 0>> : id \in D})
<1> DEFINE f == [id \in D |-> <<id, 0>>]
           T == {<<id, 0>> : id \in D}
<1>1. f \in Surjection(D, T)
  BY DEF Surjection
<1> QED BY <1>1, FS_Surjection

\* The items that are due are finitely many, and are pieces of unacked messages.
LEMMA DueFacts ==
  ASSUME NEW M \in Seq(Messages), NEW ch, SendOK(ch, M), NEW now
  PROVE  /\ IsFiniteSet(Due(ch, now))
         /\ \A x \in Due(ch, now) : /\ IsItem(x) /\ x[1] \in DOMAIN ch.unacked
                                    /\ x[2] \in Indices(ch.unacked[x[1]].message)
<1> DEFINE D == DOMAIN ch.unacked
           js(id) == {j \in Indices(ch.unacked[id].message) :
                        /\ j \notin ch.unacked[id].acked
                        /\ \/ ch.unacked[id].last_sent[j] = Never
                           \/ now - ch.unacked[id].last_sent[j] >= ResendTime}
           due(id) == {<<id, i>> : i \in js(id)}
           all == {due(id) : id \in D}
<1>1. IsFiniteSet(D)
  <2>1. Len(M) \in Nat /\ D \in SUBSET (0 .. Len(M) - 1)
    BY DEF SendOK
  <2>2. IsFiniteSet(0 .. Len(M) - 1)
    BY <2>1, FS_Interval
  <2> HIDE DEF D
  <2> QED BY <2>1, <2>2, FS_Subset, Zenon
<1>2. Due(ch, now) = UNION all
  BY DEF Due
<1>3. ASSUME NEW id \in D
      PROVE  IsFiniteSet(due(id))
  <2>1. IsFiniteSet(Indices(ch.unacked[id].message)) /\ js(id) \in SUBSET Indices(ch.unacked[id].message)
    BY <1>3, UnackedFacts, IndicesFacts
  <2>2. IsFiniteSet(js(id))
    <3> HIDE DEF js
    <3> QED BY <2>1, FS_Subset
  <2> DEFINE f == [i \in js(id) |-> <<id, i>>]
  <2> HIDE DEF js
  <2>3. f \in Surjection(js(id), due(id))
    BY Zenon DEF Surjection
  <2> HIDE DEF f, due
  <2> QED BY <2>2, <2>3, FS_Surjection
<1>4. ASSUME NEW id \in D, NEW x \in due(id)
      PROVE  IsItem(x) /\ x[1] = id /\ x[2] \in Indices(ch.unacked[id].message)
  <2>1. id \in Nat /\ Indices(ch.unacked[id].message) \subseteq Nat
    BY <1>4, UnackedFacts, IndicesFacts
  <2> QED BY <2>1 DEF IsItem
<1> HIDE DEF due
<1>5. IsFiniteSet(all)
  <2> DEFINE f == [id \in D |-> due(id)]
  <2>1. f \in Surjection(D, all)
    BY DEF Surjection
  <2> HIDE DEF f, all
  <2> QED BY <1>1, <2>1, FS_Surjection
<1>6. IsFiniteSet(UNION all)
  <2>1. \A T \in all : IsFiniteSet(T)
    BY <1>3
  <2> HIDE DEF all
  <2> QED BY <1>5, <2>1, FS_UNION
<1> QED BY <1>2, <1>4, <1>6

LEMMA PacketItemsFacts ==
  ASSUME NEW M \in Seq(Messages), NEW ch, SendOK(ch, M), NEW now,
         NEW S \in SUBSET Due(ch, now), NEW C \in SUBSET Small(ch, S)
  PROVE  /\ IsFiniteSet(PacketItems(ch, S, C))
         /\ \A x \in PacketItems(ch, S, C) : IsItem(x)
         /\ \A x \in PacketItems(ch, S, C) : \A y \in Carried(ch, S, C, x) :
              /\ y = <<y[1], y[2]>> /\ y[1] \in DOMAIN ch.unacked
              /\ y[2] \in Indices(ch.unacked[y[1]].message)
              /\ x[1] \in DOMAIN ch.unacked /\ Sliced(Message(ch, x)) => y = x
              /\ ~ (x[1] \in DOMAIN ch.unacked /\ Sliced(Message(ch, x))) =>
                   ~ Sliced(ch.unacked[y[1]].message)
<1> DEFINE items == PacketItems(ch, S, C)
           A == {x \in S : Sliced(Message(ch, x))}
           B == {<<id, 0>> : id \in C}
           last == {<<ch.next_id, 0>> : j \in Collected(ch, S, C, ch.next_id)}
<1>1. /\ IsFiniteSet(S)
      /\ \A x \in S : /\ IsItem(x) /\ x[1] \in DOMAIN ch.unacked
                      /\ x[2] \in Indices(ch.unacked[x[1]].message)
  BY DueFacts, FS_Subset
<1>2. /\ DOMAIN ch.unacked \subseteq Nat /\ IsFiniteSet(DOMAIN ch.unacked) /\ ch.next_id \in Nat
  <2>1. /\ Len(M) \in Nat /\ ch.next_id = Len(M)
        /\ DOMAIN ch.unacked \in SUBSET (0 .. Len(M) - 1)
    BY DEF SendOK
  <2>2. IsFiniteSet(0 .. Len(M) - 1)
    BY <2>1, FS_Interval
  <2>3. IsFiniteSet(DOMAIN ch.unacked)
    BY <2>1, <2>2, FS_Subset
  <2> QED BY <2>1, <2>3
<1>3. Small(ch, S) \in SUBSET DOMAIN ch.unacked
      /\ \A j \in Small(ch, S) : ~ Sliced(ch.unacked[j].message)
  BY <1>1 DEF Small, Message
<1>4. C \in SUBSET DOMAIN ch.unacked /\ IsFiniteSet(C)
  BY <1>2, <1>3, FS_Subset
<1>5. items = A \cup B \cup last
  BY DEF PacketItems
<1>6. IsFiniteSet(A) /\ IsFiniteSet(B) /\ IsFiniteSet(last)
  <2>1. A \in SUBSET S /\ last \in SUBSET {<<ch.next_id, 0>>}
    OBVIOUS
  <2>2. IsFiniteSet(B)
    BY <1>4, FiniteFirstItems
  <2>3. IsFiniteSet({<<ch.next_id, 0>>})
    BY FS_Singleton, Zenon
  <2> HIDE DEF A, B, last
  <2> QED BY <1>1, <2>1, <2>2, <2>3, FS_Subset
<1>7. IsFiniteSet(items)
  <2> HIDE DEF A, B, last, items
  <2> QED BY <1>5, <1>6, FS_Union, Zenon
<1>8. \A x \in items : IsItem(x)
  <2>1. \A x \in A : IsItem(x)
    BY <1>1
  <2>2. \A x \in B : IsItem(x)
    BY <1>2, <1>4 DEF IsItem
  <2>3. \A x \in last : IsItem(x)
    BY <1>2 DEF IsItem
  <2> HIDE DEF A, B, last, items
  <2> QED BY <1>5, <2>1, <2>2, <2>3
<1>9. ASSUME NEW x \in items, NEW y \in Carried(ch, S, C, x)
      PROVE  /\ y = <<y[1], y[2]>> /\ y[1] \in DOMAIN ch.unacked
             /\ y[2] \in Indices(ch.unacked[y[1]].message)
             /\ x[1] \in DOMAIN ch.unacked /\ Sliced(Message(ch, x)) => y = x
             /\ ~ (x[1] \in DOMAIN ch.unacked /\ Sliced(Message(ch, x))) =>
                  ~ Sliced(ch.unacked[y[1]].message)
  <2>1. CASE x[1] \in DOMAIN ch.unacked /\ Sliced(Message(ch, x))
    <3>1. y = x
      BY <1>9, <2>1 DEF Carried
    <3>2. x \notin B
      BY <1>3, <2>1 DEF Message
    <3>3. x \notin last
      <4>1. Len(M) \in Nat /\ ch.next_id = Len(M) /\ DOMAIN ch.unacked \subseteq 0 .. Len(M) - 1
        BY DEF SendOK
      <4> QED BY <2>1, <4>1
    <3>4. x \in A
      <4> HIDE DEF A, B, last, items
      <4> QED BY <1>5, <1>9, <3>2, <3>3
    <3>5. IsItem(x) /\ x[2] \in Indices(ch.unacked[x[1]].message)
      BY <1>1, <3>4
    <3> QED BY <2>1, <3>1, <3>5 DEF IsItem
  <2>2. CASE ~ (x[1] \in DOMAIN ch.unacked /\ Sliced(Message(ch, x)))
    <3>1. PICK j \in Small(ch, S) : y = <<j, 0>>
      BY <1>9, <2>2 DEF Carried, Collected
    <3>2. j \in DOMAIN ch.unacked /\ ~ Sliced(ch.unacked[j].message)
      BY <1>3
    <3>3. 0 \in Indices(ch.unacked[j].message)
      BY <3>2, UnackedFacts, IndicesFacts
    <3> QED BY <2>2, <3>1, <3>2, <3>3
  <2> QED BY <2>1, <2>2
<1> QED BY <1>7, <1>8, <1>9

-----------------------------------------------------------------------------
(***************************************************************************)
(* The receiving side.  D is the set of ids of the messages the            *)
(* application was given.  An ordered channel has given those before       *)
(* oldest; an unordered one has them or has given them, and remembers the  *)
(* later ones in received.                                                 *)
(***************************************************************************)
ReceiveFields == {"ordered", "slices", "messages", "oldest", "received", "memory"}

ReceiveOK(ch, M, D) ==
  /\ DOMAIN ch = ReceiveFields /\ ch.oldest \in Nat
  /\ D \subseteq 0 .. Len(M) - 1
  /\ \A id \in DOMAIN ch.messages :
       id \in 0 .. Len(M) - 1 /\ id \notin D /\ ch.messages[id] = M[id + 1]
  /\ \A id \in DOMAIN ch.slices : id \in 0 .. Len(M) - 1 /\ ch.slices[id] \subseteq Pieces(M[id + 1])
  /\ ch.ordered => D = 0 .. ch.oldest - 1
  /\ ~ ch.ordered => /\ \A id \in 0 .. ch.oldest - 1 : id \in D \cup DOMAIN ch.messages
                     /\ ch.received = {id \in D \cup DOMAIN ch.messages : id >= ch.oldest}

\* The channel has piece i of message id, or has given the message to the application.
HasPiece(ch, M, D, id, i) ==
  \/ id \in D
  \/ id \in DOMAIN ch.messages
  \/ id \in DOMAIN ch.slices /\ <<M[id + 1], i>> \in ch.slices[id]

LEMMA ProcessMessagesOK ==
  ASSUME NEW M \in Seq(Messages), NEW D, NEW ch, ReceiveOK(ch, M, D), NEW batch,
         \A b \in batch : b[1] \in 0 .. Len(M) - 1 /\ b[2] = M[b[1] + 1]
  PROVE  LET r == ProcessMessages(ch, batch)
         IN  /\ ReceiveOK(r.channel, M, D)
             /\ r.channel.ordered = ch.ordered /\ r.channel.slices = ch.slices
             /\ DOMAIN ch.messages \subseteq DOMAIN r.channel.messages
             /\ r.ok => \A b \in batch : b[1] \in D \cup DOMAIN r.channel.messages
<1> DEFINE r == ProcessMessages(ch, batch)
           added == Fitting(ch, batch)
           ids == {b[1] : b \in added}
           new == r.channel
<1>1. added \subseteq NewMessages(ch, batch) /\ NewMessages(ch, batch) \subseteq batch
  BY DEF Fitting, NewMessages
<1>2. /\ DOMAIN new = ReceiveFields /\ new.ordered = ch.ordered /\ new.slices = ch.slices
      /\ new.oldest = ch.oldest
      /\ new.messages = [id \in DOMAIN ch.messages \cup ids |->
           IF id \in ids THEN (CHOOSE b \in added : b[1] = id)[2] ELSE ch.messages[id]]
      /\ new.received = IF ch.ordered THEN ch.received ELSE ch.received \cup ids
      /\ r.ok = (added = NewMessages(ch, batch))
  BY Zenon DEF ProcessMessages, Result, ReceiveOK, ReceiveFields
<1>3. \A b \in NewMessages(ch, batch) :
        /\ b[1] >= ch.oldest /\ b[1] \in Nat
        /\ ch.ordered => b[1] \notin DOMAIN ch.messages
        /\ ~ ch.ordered => b[1] \notin ch.received
  BY <1>1 DEF NewMessages
<1>4. \A b \in batch \ NewMessages(ch, batch) :
        \/ b[1] < ch.oldest
        \/ ch.ordered /\ b[1] \in DOMAIN ch.messages
        \/ ~ ch.ordered /\ b[1] \in ch.received
  BY DEF NewMessages, ReceiveOK
<1> HIDE DEF new, r, added
<1>5. \A b \in NewMessages(ch, batch) : b[1] \notin D
  <2>1. CASE ch.ordered
    BY <1>3, <2>1 DEF ReceiveOK
  <2>2. CASE ~ ch.ordered
    BY <1>3, <2>2 DEF ReceiveOK
  <2> QED BY <2>1, <2>2
<1>6. \A id \in ids : id \in 0 .. Len(M) - 1 /\ id \notin D /\ id >= ch.oldest /\ id \in Nat
  BY <1>1, <1>3, <1>5
<1>7. DOMAIN new.messages = DOMAIN ch.messages \cup ids
  BY <1>2
<1>8. \A id \in DOMAIN new.messages :
        id \in 0 .. Len(M) - 1 /\ id \notin D /\ new.messages[id] = M[id + 1]
  <2>1. ASSUME NEW id \in ids
        PROVE  new.messages[id] = M[id + 1]
    <3>1. PICK b \in added : b[1] = id
      BY <2>1
    <3>2. (CHOOSE c \in added : c[1] = id) \in added /\ (CHOOSE c \in added : c[1] = id)[1] = id
      BY <3>1
    <3>3. (CHOOSE c \in added : c[1] = id)[2] = M[id + 1]
      BY <1>1, <3>2
    <3> QED BY <1>2, <2>1, <3>3
  <2>2. \A id \in DOMAIN ch.messages \ ids : new.messages[id] = ch.messages[id]
    BY <1>2
  <2> HIDE DEF ids
  <2> QED BY <1>6, <1>7, <2>1, <2>2 DEF ReceiveOK
<1>9. ~ ch.ordered => /\ \A id \in 0 .. ch.oldest - 1 : id \in D \cup DOMAIN new.messages
                      /\ new.received = {id \in D \cup DOMAIN new.messages : id >= ch.oldest}
  <2> HIDE DEF ids
  <2> SUFFICES ASSUME ~ ch.ordered
               PROVE  /\ \A id \in 0 .. ch.oldest - 1 : id \in D \cup DOMAIN new.messages
                      /\ new.received = {id \in D \cup DOMAIN new.messages : id >= ch.oldest}
    OBVIOUS
  <2>1. /\ \A id \in 0 .. ch.oldest - 1 : id \in D \cup DOMAIN ch.messages
        /\ ch.received = {id \in D \cup DOMAIN ch.messages : id >= ch.oldest}
    BY DEF ReceiveOK
  <2>2. new.received = ch.received \cup ids
    BY <1>2
  <2> QED BY <1>6, <1>7, <2>1, <2>2
<1>10. ReceiveOK(new, M, D)
  <2>1. new.ordered => D = 0 .. new.oldest - 1
    BY <1>2 DEF ReceiveOK
  <2>2. ~ new.ordered => /\ \A id \in 0 .. new.oldest - 1 : id \in D \cup DOMAIN new.messages
                         /\ new.received = {id \in D \cup DOMAIN new.messages : id >= new.oldest}
    BY <1>2, <1>9
  <2>3. new.oldest \in Nat /\ D \subseteq 0 .. Len(M) - 1
        /\ \A id \in DOMAIN new.slices :
             id \in 0 .. Len(M) - 1 /\ new.slices[id] \subseteq Pieces(M[id + 1])
    BY <1>2 DEF ReceiveOK
  <2> QED BY <1>2, <1>8, <2>1, <2>2, <2>3, Zenon DEF ReceiveOK
<1>11. r.ok => \A b \in batch : b[1] \in D \cup DOMAIN new.messages
  <2> SUFFICES ASSUME r.ok, NEW b \in batch
               PROVE  b[1] \in D \cup DOMAIN new.messages
    OBVIOUS
  <2>1. CASE b \in NewMessages(ch, batch)
    BY <1>2, <1>7, <2>1, Zenon
  <2>2. CASE b \notin NewMessages(ch, batch)
    <3> HIDE DEF ids
    <3>1. b[1] \in Nat
      OBVIOUS
    <3>2. /\ ch.oldest \in Nat
          /\ ch.ordered => D = 0 .. ch.oldest - 1
          /\ ~ ch.ordered => /\ \A id \in 0 .. ch.oldest - 1 : id \in D \cup DOMAIN ch.messages
                             /\ ch.received \subseteq D \cup DOMAIN ch.messages
      BY DEF ReceiveOK
    <3>3. b[1] < ch.oldest => b[1] \in D \cup DOMAIN ch.messages
      BY <3>1, <3>2
    <3>4. b[1] \in D \cup DOMAIN ch.messages
      BY <1>4, <2>2, <3>2, <3>3
    <3> QED BY <1>7, <3>4
  <2> QED BY <2>1, <2>2
<1> QED BY <1>2, <1>7, <1>10, <1>11 DEF new, r

LEMMA PiecesFacts ==
  ASSUME NEW m \in Messages
  PROVE  /\ IsFiniteSet(Pieces(m)) /\ Cardinality(Pieces(m)) = NumSlices(m)
         /\ Assembled(Pieces(m)) = m
<1> DEFINE f == [i \in Indices(m) |-> <<m, i>>]
<1>1. f \in Bijection(Indices(m), Pieces(m))
  BY Zenon DEF Bijection, Injection, IsInjective, Surjection, Pieces
<1>2. ExistsBijection(Indices(m), Pieces(m))
  BY <1>1 DEF ExistsBijection
<1>3. IsFiniteSet(Indices(m)) /\ 0 \in Indices(m) /\ NumSlices(m) \in Nat \ {0}
  BY IndicesFacts
<1>4. Cardinality(Indices(m)) = NumSlices(m)
  BY <1>3, FS_Interval DEF Indices
<1>5. IsFiniteSet(Pieces(m)) /\ Cardinality(Pieces(m)) = NumSlices(m)
  BY <1>2, <1>3, <1>4, FS_Bijection
<1>6. ASSUME NEW k \in Messages, Pieces(k) = Pieces(m)
      PROVE  k = m
  <2>1. <<m, 0>> \in Pieces(k)
    BY <1>3, <1>6, Zenon DEF Pieces
  <2> QED BY <2>1 DEF Pieces
<1>7. Assembled(Pieces(m)) = m
  BY <1>6 DEF Assembled
<1> QED BY <1>5, <1>7

LEMMA NewMemoryOK ==
  ASSUME NEW M, NEW D, NEW ch, ReceiveOK(ch, M, D), NEW new, DOMAIN new = ReceiveFields,
         new.ordered = ch.ordered, new.messages = ch.messages, new.oldest = ch.oldest,
         new.received = ch.received,
         \A id \in DOMAIN new.slices :
           id \in 0 .. Len(M) - 1 /\ new.slices[id] \subseteq Pieces(M[id + 1])
  PROVE  ReceiveOK(new, M, D)
BY DEF ReceiveOK

\* The constructor of a message with one piece more, before it is looked at whether it is complete.
LEMMA CollectOK ==
  ASSUME NEW M \in Seq(Messages), NEW D, NEW ch, ReceiveOK(ch, M, D),
         NEW id \in 0 .. Len(M) - 1, NEW i \in Indices(M[id + 1])
  PROVE  LET m == M[id + 1]
             opened == Open(ch, id, m)
             new == Collect(opened, id, m, i)
         IN  /\ ReceiveOK(opened, M, D) /\ opened.ordered = ch.ordered
             /\ \A j, k : HasPiece(ch, M, D, j, k) => HasPiece(opened, M, D, j, k)
             /\ ReceiveOK(new, M, D) /\ new.ordered = ch.ordered
             /\ \A j, k : HasPiece(ch, M, D, j, k) => HasPiece(new, M, D, j, k)
             /\ id \in DOMAIN new.slices /\ <<m, i>> \in new.slices[id]
<1> DEFINE m == M[id + 1]
           opened == Open(ch, id, m)
           new == Collect(opened, id, m, i)
<1>1. DOMAIN ch = ReceiveFields
      /\ \A j \in DOMAIN ch.slices : j \in 0 .. Len(M) - 1 /\ ch.slices[j] \subseteq Pieces(M[j + 1])
  BY DEF ReceiveOK
<1>2. /\ DOMAIN opened = ReceiveFields /\ opened.ordered = ch.ordered
      /\ opened.messages = ch.messages /\ opened.oldest = ch.oldest /\ opened.received = ch.received
      /\ DOMAIN opened.slices = DOMAIN ch.slices \cup {id}
      /\ \A j \in DOMAIN ch.slices : opened.slices[j] = ch.slices[j]
      /\ id \notin DOMAIN ch.slices => opened.slices[id] = {}
  BY <1>1 DEF Open, ReceiveFields
<1> HIDE DEF opened
<1>3. \A j \in DOMAIN opened.slices :
        j \in 0 .. Len(M) - 1 /\ opened.slices[j] \subseteq Pieces(M[j + 1])
  BY <1>1, <1>2
<1>4. ReceiveOK(opened, M, D)
  BY <1>2, <1>3, NewMemoryOK
<1>5. \A j, k : HasPiece(ch, M, D, j, k) => HasPiece(opened, M, D, j, k)
  BY <1>2 DEF HasPiece
<1>6. \A p \in opened.slices[id] : p[2] = i => p = <<m, i>>
  BY <1>2, <1>3 DEF Pieces
<1>7. /\ DOMAIN new = ReceiveFields /\ new.ordered = opened.ordered
      /\ new.messages = opened.messages /\ new.oldest = opened.oldest
      /\ new.received = opened.received
      /\ DOMAIN new.slices = DOMAIN opened.slices
      /\ \A j \in DOMAIN opened.slices \ {id} : new.slices[j] = opened.slices[j]
      /\ new.slices[id] = opened.slices[id] \cup {<<m, i>>}
  <2>1. CASE \E p \in opened.slices[id] : p[2] = i
    BY <1>2, <1>6, <2>1, Zenon DEF Collect
  <2>2. CASE ~ \E p \in opened.slices[id] : p[2] = i
    BY <1>2, <2>2 DEF Collect, ReceiveFields
  <2> QED BY <2>1, <2>2, Zenon
<1> HIDE DEF new
<1>8. \A j \in DOMAIN new.slices : j \in 0 .. Len(M) - 1 /\ new.slices[j] \subseteq Pieces(M[j + 1])
  <2>1. <<m, i>> \in Pieces(m)
    BY DEF Pieces
  <2>2. new.slices[id] \subseteq Pieces(m)
    BY <1>2, <1>3, <1>7, <2>1, Zenon
  <2> QED BY <1>2, <1>3, <1>7, <2>2, Zenon
<1>9. ReceiveOK(new, M, D)
  BY <1>4, <1>7, <1>8, NewMemoryOK
<1>10. \A j, k : HasPiece(opened, M, D, j, k) => HasPiece(new, M, D, j, k)
  BY <1>7 DEF HasPiece
<1>11. id \in DOMAIN new.slices /\ <<m, i>> \in new.slices[id]
  BY <1>2, <1>7
<1>12. new.ordered = ch.ordered
  BY <1>2, <1>7
<1> QED BY <1>2, <1>4, <1>5, <1>9, <1>10, <1>11, <1>12, Zenon DEF new, opened

\* A message all of whose pieces are there.
LEMMA AssembledOK ==
  ASSUME NEW M \in Seq(Messages), NEW D, NEW ch, ReceiveOK(ch, M, D),
         NEW id \in DOMAIN ch.slices,
         Cardinality(ch.slices[id]) = NumSlices(M[id + 1])
  PROVE  /\ M[id + 1] \in Messages /\ id \in 0 .. Len(M) - 1
         /\ Assembled(ch.slices[id]) = M[id + 1]
<1> DEFINE m == M[id + 1]
<1>1. m \in Messages /\ id \in 0 .. Len(M) - 1
  <2>1. id \in 0 .. Len(M) - 1 /\ Len(M) \in Nat
    BY DEF ReceiveOK
  <2>2. id + 1 \in 1 .. Len(M)
    BY <2>1
  <2> QED BY <2>1, <2>2
<1>2. ch.slices[id] = Pieces(m)
  <2>1. ch.slices[id] \in SUBSET Pieces(m)
    BY DEF ReceiveOK
  <2> HIDE DEF m
  <2> QED BY <1>1, <2>1, PiecesFacts, FS_Subset DEF m
<1>3. Assembled(ch.slices[id]) = m
  BY <1>1, <1>2, PiecesFacts
<1> QED BY <1>1, <1>3

\* All pieces are there: the message is put together and processed as a small one is.
LEMMA FinishOK ==
  ASSUME NEW M \in Seq(Messages), NEW D, NEW ch, ReceiveOK(ch, M, D),
         NEW id \in DOMAIN ch.slices,
         Cardinality(ch.slices[id]) = NumSlices(M[id + 1])
  PROVE  LET r == Finish(ch, id, M[id + 1])
         IN  /\ ReceiveOK(r.channel, M, D) /\ r.channel.ordered = ch.ordered
             /\ \A j, k : HasPiece(ch, M, D, j, k) => HasPiece(r.channel, M, D, j, k)
<1> DEFINE m == M[id + 1]
           freed == [ch EXCEPT !.memory = @ - ReservedBytes(m)]
           batch == {<<id, Assembled(ch.slices[id])>>}
           processed == ProcessMessages(freed, batch)
           r == Finish(ch, id, m)
           kept == processed.channel
<1>1. m \in Messages /\ id \in 0 .. Len(M) - 1 /\ Assembled(ch.slices[id]) = m
  BY AssembledOK
<1>4. /\ DOMAIN freed = ReceiveFields /\ freed.ordered = ch.ordered
      /\ freed.messages = ch.messages /\ freed.oldest = ch.oldest /\ freed.received = ch.received
      /\ freed.slices = ch.slices
  BY DEF ReceiveOK, ReceiveFields
<1>5. \A j \in DOMAIN ch.slices : j \in 0 .. Len(M) - 1 /\ ch.slices[j] \subseteq Pieces(M[j + 1])
  BY DEF ReceiveOK
<1> HIDE DEF freed
<1>6. ReceiveOK(freed, M, D)
  BY <1>4, <1>5, NewMemoryOK
<1>7. \A b \in batch : b[1] \in 0 .. Len(M) - 1 /\ b[2] = M[b[1] + 1]
  BY <1>1
<1> HIDE DEF batch
<1>8. /\ ReceiveOK(kept, M, D) /\ kept.ordered = ch.ordered /\ kept.slices = ch.slices
      /\ DOMAIN ch.messages \subseteq DOMAIN kept.messages
      /\ processed.ok => \A b \in batch : b[1] \in D \cup DOMAIN kept.messages
  <2>1. /\ ReceiveOK(kept, M, D) /\ kept.ordered = freed.ordered /\ kept.slices = freed.slices
        /\ DOMAIN freed.messages \subseteq DOMAIN kept.messages
        /\ processed.ok => \A b \in batch : b[1] \in D \cup DOMAIN kept.messages
    BY <1>6, <1>7, ProcessMessagesOK
  <2> HIDE DEF kept, processed
  <2> QED BY <1>4, <2>1
<1>9. processed.ok => id \in D \cup DOMAIN kept.messages
  BY <1>8 DEF batch
<1>10. /\ r = IF ~ processed.ok THEN processed
              ELSE [processed EXCEPT !.channel.slices = [j \in DOMAIN @ \ {id} |-> @[j]]]
       /\ DOMAIN processed = {"ok", "channel"}
  BY DEF Finish, freed, batch, processed, ProcessMessages, Result
<1> HIDE DEF processed, r
<1>11. CASE ~ processed.ok
  <2>1. r.channel = kept
    BY <1>10, <1>11
  <2>2. \A j, k : HasPiece(ch, M, D, j, k) => HasPiece(kept, M, D, j, k)
    BY <1>8 DEF HasPiece
  <2> QED BY <1>8, <2>1, <2>2 DEF r
<1>12. CASE processed.ok
  <2> DEFINE new == r.channel
  <2>0. DOMAIN kept = ReceiveFields
    BY <1>8 DEF ReceiveOK
  <2>1. new = [kept EXCEPT !.slices = [j \in DOMAIN kept.slices \ {id} |-> kept.slices[j]]]
    BY <1>10, <1>12, <2>0 DEF ReceiveFields
  <2>2. /\ DOMAIN new = ReceiveFields /\ new.ordered = kept.ordered
        /\ new.messages = kept.messages /\ new.oldest = kept.oldest /\ new.received = kept.received
        /\ new.slices = [j \in DOMAIN kept.slices \ {id} |-> kept.slices[j]]
    BY <2>0, <2>1 DEF ReceiveFields
  <2> HIDE DEF new, kept
  <2>3. \A j \in DOMAIN new.slices :
          j \in 0 .. Len(M) - 1 /\ new.slices[j] \subseteq Pieces(M[j + 1])
    BY <1>5, <1>8, <2>2, Zenon
  <2>4. ReceiveOK(new, M, D)
    BY <1>8, <2>2, <2>3, NewMemoryOK, Zenon
  <2>5. \A j, k : HasPiece(ch, M, D, j, k) => HasPiece(new, M, D, j, k)
    BY <1>8, <1>9, <1>12, <2>2 DEF HasPiece
  <2> QED BY <1>8, <2>2, <2>4, <2>5, Zenon DEF new, r
<1> QED BY <1>11, <1>12, Zenon

\* A piece that is acknowledged without an error is there, or its message was given away.
LEMMA ProcessSliceOK ==
  ASSUME NEW M \in Seq(Messages), NEW D, NEW ch, ReceiveOK(ch, M, D),
         NEW id \in 0 .. Len(M) - 1, NEW i \in Indices(M[id + 1])
  PROVE  LET r == ProcessSlice(ch, id, M[id + 1], i)
         IN  /\ ReceiveOK(r.channel, M, D) /\ r.channel.ordered = ch.ordered
             /\ \A j, k : HasPiece(ch, M, D, j, k) => HasPiece(r.channel, M, D, j, k)
             /\ r.ok => HasPiece(r.channel, M, D, id, i)
<1> DEFINE m == M[id + 1]
           opened == Open(ch, id, m)
           new == Collect(opened, id, m, i)
           finished == Finish(new, id, m)
           r == ProcessSlice(ch, id, m, i)
<1>1. /\ ReceiveOK(opened, M, D) /\ opened.ordered = ch.ordered
      /\ \A j, k : HasPiece(ch, M, D, j, k) => HasPiece(opened, M, D, j, k)
      /\ ReceiveOK(new, M, D) /\ new.ordered = ch.ordered
      /\ \A j, k : HasPiece(ch, M, D, j, k) => HasPiece(new, M, D, j, k)
      /\ id \in DOMAIN new.slices /\ <<m, i>> \in new.slices[id]
  BY CollectOK, Zenon
<1>2. HasPiece(new, M, D, id, i)
  BY <1>1, Zenon DEF HasPiece
<1>3. \/ /\ id \in DOMAIN ch.messages \/ id < ch.oldest
         /\ r = Result(TRUE, ch)
      \/ r = Result(FALSE, ch)
      \/ r = Result(FALSE, opened)
      \/ Cardinality(new.slices[id]) = NumSlices(m) /\ r = finished
      \/ r = Result(TRUE, new)
  BY Zenon DEF ProcessSlice
<1> HIDE DEF m, opened, new, r, finished
<1> DEFINE Good == /\ ReceiveOK(r.channel, M, D) /\ r.channel.ordered = ch.ordered
                   /\ \A j, k : HasPiece(ch, M, D, j, k) => HasPiece(r.channel, M, D, j, k)
                   /\ r.ok => HasPiece(r.channel, M, D, id, i)
<1>4. ASSUME (id \in DOMAIN ch.messages \/ id < ch.oldest) /\ r = Result(TRUE, ch) PROVE Good
  <2>1. id \in D \cup DOMAIN ch.messages
    BY <1>4 DEF ReceiveOK
  <2>2. HasPiece(ch, M, D, id, i)
    BY <2>1 DEF HasPiece
  <2>3. r.channel = ch
    BY <1>4 DEF Result
  <2> QED BY <2>2, <2>3
<1>5. ASSUME r = Result(FALSE, ch) PROVE Good
  <2>1. r.channel = ch /\ ~ r.ok
    BY <1>5 DEF Result
  <2> QED BY <2>1
<1>6. ASSUME r = Result(FALSE, opened) PROVE Good
  <2>1. r.channel = opened /\ ~ r.ok
    BY <1>6 DEF Result
  <2> QED BY <1>1, <2>1
<1>7. ASSUME Cardinality(new.slices[id]) = NumSlices(m) /\ r = finished PROVE Good
  <2>1. /\ ReceiveOK(finished.channel, M, D) /\ finished.channel.ordered = new.ordered
        /\ \A j, k : HasPiece(new, M, D, j, k) => HasPiece(finished.channel, M, D, j, k)
    BY <1>1, <1>7, FinishOK, Zenon DEF m, finished
  <2> QED BY <1>1, <1>2, <1>7, <2>1, Zenon
<1>8. ASSUME r = Result(TRUE, new) PROVE Good
  <2>1. r.channel = new
    BY <1>8 DEF Result
  <2> QED BY <1>1, <1>2, <2>1
<1>9. Good
  BY <1>3, <1>4, <1>5, <1>6, <1>7, <1>8, Zenon
<1> QED BY <1>9 DEF r, m

\* The first id that is missing from a bounded set of ids without an earlier one.
LEMMA FirstGapFacts ==
  ASSUME NEW bound \in Nat, NEW R \in SUBSET (0 .. bound - 1), NEW first \in R,
         \A r \in R : first <= r
  PROVE  /\ FirstGap(R) \in Nat /\ FirstGap(R) > first
         /\ \A k \in Nat : first <= k /\ k < FirstGap(R) => k \in R
<1> DEFINE absent == {k \in Nat : k > first /\ k \notin R}
           least == Min(absent)
           gaps == {r + 1 : r \in R} \ R
<1>1. first \in Nat /\ R \in SUBSET Nat
  OBVIOUS
<1>2. least \in absent /\ \A k \in absent : least <= k
  <2>1. bound \in absent
    BY <1>1
  <2>2. absent \in SUBSET Nat /\ absent # {}
    BY <2>1
  <2> HIDE DEF absent
  <2> QED BY <2>2, MinNat
<1> HIDE DEF least
<1>3. \A k \in Nat : first <= k /\ k < least => k \in R
  BY <1>1, <1>2
<1>4. least \in gaps
  <2>1. least - 1 \in Nat /\ first <= least - 1 /\ least - 1 < least /\ least = (least - 1) + 1
    BY <1>1, <1>2
  <2>2. least - 1 \in R
    BY <1>3, <2>1
  <2> QED BY <1>2, <2>1, <2>2
<1>5. gaps \in SUBSET Nat
  BY <1>1
<1>6. FirstGap(R) \in gaps /\ FirstGap(R) <= least
  <2>1. FirstGap(R) = Min(gaps)
    BY DEF FirstGap
  <2> HIDE DEF gaps
  <2> QED BY <1>4, <1>5, <2>1, MinNat
<1>7. FirstGap(R) \in Nat /\ FirstGap(R) > first
  BY <1>1, <1>6
<1> QED BY <1>1, <1>2, <1>3, <1>6, <1>7

\* receive_message gives a message that was sent and not given before, in an ordered channel the next one.
LEMMA ReadyFacts ==
  ASSUME NEW M \in Seq(Messages), NEW D, NEW ch, ReceiveOK(ch, M, D), NEW id \in Ready(ch)
  PROVE  /\ id \in DOMAIN ch.messages
         /\ ch.ordered => id = ch.oldest
         /\ id \in 0 .. Len(M) - 1 /\ id \notin D /\ ch.messages[id] = M[id + 1]
         /\ ch.ordered => \A j \in Nat : j < id => j \in D
<1>1. id \in DOMAIN ch.messages
  BY DEF Ready
<1>2. ch.ordered => id = ch.oldest /\ D = 0 .. ch.oldest - 1 /\ ch.oldest \in Nat
  BY DEF Ready, ReceiveOK
<1>3. id \in 0 .. Len(M) - 1 /\ id \notin D /\ ch.messages[id] = M[id + 1]
  BY <1>1 DEF ReceiveOK
<1>4. ch.ordered => \A j \in Nat : j < id => j \in D
  BY <1>2
<1> QED BY <1>1, <1>2, <1>3, <1>4

LEMMA ReceiveMessageOK ==
  ASSUME NEW M \in Seq(Messages), NEW D, NEW ch, ReceiveOK(ch, M, D), NEW id \in Ready(ch)
  PROVE  /\ ReceiveOK(ReceiveMessage(ch, id), M, D \cup {id})
         /\ ReceiveMessage(ch, id).ordered = ch.ordered
         /\ \A j, k : HasPiece(ch, M, D, j, k) =>
                      HasPiece(ReceiveMessage(ch, id), M, D \cup {id}, j, k)
<1> DEFINE oldest == IF ch.ordered THEN ch.oldest + 1
                     ELSE IF id = ch.oldest THEN FirstGap(ch.received) ELSE ch.oldest
           new == ReceiveMessage(ch, id)
           held == DOMAIN ch.messages
<1>1. /\ id \in DOMAIN ch.messages
      /\ ch.ordered => id = ch.oldest
      /\ id \in 0 .. Len(M) - 1 /\ id \notin D /\ ch.messages[id] = M[id + 1]
  BY ReadyFacts
<1>2. /\ DOMAIN new = ReceiveFields /\ new.ordered = ch.ordered /\ new.slices = ch.slices
      /\ new.messages = [j \in held \ {id} |-> ch.messages[j]]
      /\ new.oldest = oldest /\ new.received = {r \in ch.received : r >= oldest}
  BY DEF ReceiveMessage, ReceiveOK, ReceiveFields
<1>3. /\ Len(M) \in Nat /\ ch.oldest \in Nat /\ D \subseteq 0 .. Len(M) - 1
      /\ held \subseteq 0 .. Len(M) - 1
  BY DEF ReceiveOK
<1> HIDE DEF new, oldest
<1>4. ch.ordered => /\ oldest = ch.oldest + 1 /\ D = 0 .. ch.oldest - 1
                    /\ D \cup {id} = 0 .. oldest - 1
  <2>1. ch.ordered => oldest = ch.oldest + 1 /\ D = 0 .. ch.oldest - 1
    BY DEF ReceiveOK, oldest
  <2> QED BY <1>1, <1>3, <2>1
<1>5. ~ ch.ordered => /\ oldest \in Nat
                      /\ \A j \in 0 .. oldest - 1 : j \in D \cup held
                      /\ new.received = {j \in D \cup held : j >= oldest}
  <2> SUFFICES ASSUME ~ ch.ordered
               PROVE  /\ oldest \in Nat
                      /\ \A j \in 0 .. oldest - 1 : j \in D \cup held
                      /\ new.received = {j \in D \cup held : j >= oldest}
    OBVIOUS
  <2>1. /\ \A j \in 0 .. ch.oldest - 1 : j \in D \cup held
        /\ ch.received = {j \in D \cup held : j >= ch.oldest}
    BY DEF ReceiveOK
  <2>2. CASE id # ch.oldest
    BY <1>2, <1>3, <2>1, <2>2 DEF oldest
  <2>3. CASE id = ch.oldest
    <3>1. /\ oldest = FirstGap(ch.received) /\ ch.oldest \in ch.received
          /\ ch.received \in SUBSET (0 .. Len(M) - 1) /\ \A r \in ch.received : ch.oldest <= r
      <4>1. oldest = FirstGap(ch.received)
        BY <2>3 DEF oldest
      <4>2. ch.oldest \in ch.received
        BY <1>1, <1>3, <2>1, <2>3
      <4>3. ch.received \in SUBSET (0 .. Len(M) - 1)
        BY <1>3, <2>1
      <4>4. \A r \in ch.received : ch.oldest <= r
        BY <1>3, <2>1
      <4> QED BY <4>1, <4>2, <4>3, <4>4
    <3>2. /\ oldest \in Nat /\ oldest > ch.oldest
          /\ \A k \in Nat : ch.oldest <= k /\ k < oldest => k \in ch.received
      BY <1>3, <3>1, FirstGapFacts, Zenon
    <3> HIDE DEF held
    <3>3. \A j \in 0 .. oldest - 1 : j \in D \cup held
      BY <1>3, <2>1, <3>2
    <3>4. new.received = {j \in D \cup held : j >= oldest}
      <4>1. \A j \in D \cup held : j \in Nat
        BY <1>3
      <4>2. \A j : j \in ch.received <=> j \in D \cup held /\ j >= ch.oldest
        BY <2>1
      <4>3. \A j : j \in new.received <=> j \in ch.received /\ j >= oldest
        BY <1>2
      <4>4. ch.oldest \in Nat
        BY <1>3
      <4>5. \A j : j \in new.received <=> j \in D \cup held /\ j >= oldest
        BY <3>2, <4>1, <4>2, <4>3, <4>4
      <4> QED BY <4>5
    <3> QED BY <3>2, <3>3, <3>4
  <2> QED BY <2>2, <2>3
<1>6. /\ DOMAIN new.messages = held \ {id}
      /\ \A j \in held \ {id} : new.messages[j] = ch.messages[j]
      /\ (D \cup {id}) \cup DOMAIN new.messages = D \cup held
  BY <1>1, <1>2
<1>7. ReceiveOK(new, M, D \cup {id})
  <2>1. new.oldest \in Nat
    BY <1>2, <1>3, <1>4, <1>5
  <2>2. \A j \in DOMAIN new.messages :
          j \in 0 .. Len(M) - 1 /\ j \notin D \cup {id} /\ new.messages[j] = M[j + 1]
    BY <1>6 DEF ReceiveOK
  <2>3. \A j \in DOMAIN new.slices :
          j \in 0 .. Len(M) - 1 /\ new.slices[j] \subseteq Pieces(M[j + 1])
    BY <1>2 DEF ReceiveOK
  <2>4. D \cup {id} \subseteq 0 .. Len(M) - 1
    BY <1>1, <1>3, Zenon
  <2>5. new.ordered => D \cup {id} = 0 .. new.oldest - 1
    BY <1>2, <1>4
  <2> HIDE DEF held
  <2>6. ~ new.ordered =>
          /\ \A j \in 0 .. new.oldest - 1 : j \in (D \cup {id}) \cup DOMAIN new.messages
          /\ new.received = {j \in (D \cup {id}) \cup DOMAIN new.messages : j >= new.oldest}
    BY <1>2, <1>5, <1>6
  <2> QED BY <1>2, <2>1, <2>2, <2>3, <2>4, <2>5, <2>6, Zenon DEF ReceiveOK
<1>8. \A j, k : HasPiece(ch, M, D, j, k) => HasPiece(new, M, D \cup {id}, j, k)
  BY <1>2, <1>6 DEF HasPiece
<1> QED BY <1>2, <1>7, <1>8, Zenon DEF new

\* One message more on the sender's side changes nothing on the receiver's.
LEMMA GrowOK ==
  ASSUME NEW M \in Seq(Messages), NEW m \in Messages, NEW D, NEW ch, ReceiveOK(ch, M, D)
  PROVE  /\ ReceiveOK(ch, Append(M, m), D)
         /\ \A id \in 0 .. Len(M) - 1 : \A i :
              HasPiece(ch, M, D, id, i) => HasPiece(ch, Append(M, m), D, id, i)
<1> DEFINE N == Append(M, m)
<1>1. Len(M) \in Nat /\ Len(N) = Len(M) + 1 /\ \A k \in 1 .. Len(M) : N[k] = M[k]
  OBVIOUS
<1> HIDE DEF N
<1>2. \A id \in 0 .. Len(M) - 1 : id \in 0 .. Len(N) - 1 /\ N[id + 1] = M[id + 1]
  BY <1>1
<1>3. /\ D \subseteq 0 .. Len(N) - 1
      /\ \A id \in DOMAIN ch.messages :
           id \in 0 .. Len(N) - 1 /\ id \notin D /\ ch.messages[id] = N[id + 1]
      /\ \A id \in DOMAIN ch.slices :
           id \in 0 .. Len(N) - 1 /\ ch.slices[id] \subseteq Pieces(N[id + 1])
  BY <1>2, Zenon DEF ReceiveOK
<1>4. ReceiveOK(ch, N, D)
  BY <1>3 DEF ReceiveOK
<1>5. \A id \in 0 .. Len(M) - 1 : \A i : HasPiece(ch, M, D, id, i) => HasPiece(ch, N, D, id, i)
  BY <1>2, Zenon DEF HasPiece
<1> QED BY <1>4, <1>5 DEF N
=============================================================================
