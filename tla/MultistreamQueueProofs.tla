----------------------- MODULE MultistreamQueueProofs -----------------------
(***************************************************************************)
(* What every operation of a destination's queue preserves, for any limits,*)
(* any packets and any clock, and the safety of the queue by itself,       *)
(* whatever its caller does.  Sums over a queue are reasoned about by the  *)
(* least number for which a claim would fail (LeastNatural).               *)
(***************************************************************************)
EXTENDS MultistreamQueueUse, WellFoundedInduction, TLAPS

Packet == [size : Nat, video : BOOLEAN, key : BOOLEAN, dts : Int]

QueueInv ==
  /\ packets \in Seq(QueuedPacket)
  /\ bytes \in Int
  /\ waitingForKeyframe \in BOOLEAN
  /\ epoch \in Int
  /\ WithinLimits
  /\ OneEpoch
  /\ AccountingExact

----------------------------------------------------------------------------
(* The bytes of a queue.                                                   *)

\* A set of naturals that is not empty has a least element.
LEMMA LeastNatural ==
  ASSUME NEW T \in SUBSET Nat, T # {}
  PROVE  \E n \in T : \A m \in T : n <= m
<1> DEFINE R == {pair \in Nat \X Nat : pair[1] < pair[2]}
<1>1. R = OpToRel(<, Nat)
  BY DEF OpToRel
<1>2. IsWellFoundedOn(R, Nat)
  BY <1>1, NatLessThanWellFounded
<1>3. PICK n \in T : \A m \in T : ~(<<m, n>> \in R)
  <2> HIDE DEF R
  <2> QED BY <1>2, WFMin
<1>4. ASSUME NEW m \in T PROVE n <= m
  <2>1. n \in Nat /\ m \in Nat
    OBVIOUS
  <2>2. ~(<<m, n>> \in R)
    BY <1>3
  <2> QED BY <2>1, <2>2
<1> QED BY <1>4

Sized(q) == \A i \in 1..Len(q) : q[i].size \in Nat

\* f counts what is queued up to each place; up to place n, in the first definition.
CountsTo(q, f, n) == f[0] = 0 /\ \A i \in 1..n : f[i] = f[i - 1] + q[i].size
Counts(q, f) == f = [i \in 0..Len(q) |-> IF i = 0 THEN 0 ELSE f[i - 1] + q[i].size]

\* There are such counts: a queue is finite.
LEMMA CountsExist ==
  ASSUME NEW q, Len(q) \in Nat, Sized(q)
  PROVE  \E f \in [0..Len(q) -> Nat] : Counts(q, f) /\ CountsTo(q, f, Len(q))
<1> DEFINE Possible(n) == \E f \in [0..Len(q) -> Nat] : CountsTo(q, f, n)
<1>1. Possible(0)
  <2> DEFINE zero == [i \in 0..Len(q) |-> 0]
  <2>1. zero \in [0..Len(q) -> Nat] /\ zero[0] = 0
    OBVIOUS
  <2> HIDE DEF zero
  <2> QED BY <2>1 DEF CountsTo
<1>2. ASSUME NEW n \in 1..Len(q), Possible(n - 1) PROVE Possible(n)
  <2>1. PICK f \in [0..Len(q) -> Nat] : CountsTo(q, f, n - 1)
    BY <1>2
  <2> DEFINE g == [f EXCEPT ![n] = f[n - 1] + q[n].size]
  <2>2. f[n - 1] \in Nat /\ q[n].size \in Nat
    BY DEF Sized
  <2>3. g \in [0..Len(q) -> Nat]
    BY <2>2
  <2>4. CountsTo(q, g, n)
    BY <2>1, <2>2 DEF CountsTo
  <2> HIDE DEF g
  <2> QED BY <2>3, <2>4
<1> HIDE DEF Possible
<1>3. Possible(Len(q))
  <2> DEFINE T == {n \in 0..Len(q) : ~Possible(n)}
  <2> SUFFICES ASSUME T # {} PROVE FALSE
    OBVIOUS
  <2>1. T \in SUBSET Nat
    OBVIOUS
  <2>2. PICK n \in T : \A m \in T : n <= m
    <3> HIDE DEF T
    <3> QED BY <2>1, LeastNatural
  <2> QED BY <2>2, <1>1, <1>2
<1>4. PICK f \in [0..Len(q) -> Nat] : CountsTo(q, f, Len(q))
  BY <1>3 DEF Possible
<1>5. Counts(q, f)
  BY <1>4 DEF Counts, CountsTo
<1> QED BY <1>4, <1>5

\* Two counts of sizes that are equal agree.
LEMMA CountsAgree ==
  ASSUME NEW q, Len(q) \in Nat, Sized(q), NEW f, NEW g,
         CountsTo(q, f, Len(q)), CountsTo(q, g, Len(q))
  PROVE  f[Len(q)] = g[Len(q)] /\ f[Len(q)] \in Nat
<1> DEFINE Same(n) == f[n] = g[n] /\ f[n] \in Nat
<1> DEFINE T == {n \in 0..Len(q) : ~Same(n)}
<1> SUFFICES ASSUME T # {} PROVE FALSE
  OBVIOUS
<1>1. T \in SUBSET Nat
  OBVIOUS
<1>2. PICK n \in T : \A m \in T : n <= m
  <2> HIDE DEF T
  <2> QED BY <1>1, LeastNatural
<1>3. n # 0
  BY <1>2 DEF CountsTo
<1>4. Same(n - 1)
  BY <1>2, <1>3
<1>5. q[n].size \in Nat
  BY <1>2, <1>3 DEF Sized
<1>6. f[n] = f[n - 1] + q[n].size /\ g[n] = g[n - 1] + q[n].size
  BY <1>2, <1>3 DEF CountsTo
<1> QED BY <1>2, <1>4, <1>5, <1>6

\* So whatever counts the whole of a queue yields its bytes.
LEMMA BytesCounted ==
  ASSUME NEW q, Len(q) \in Nat, Sized(q)
  PROVE  /\ \E f \in [0..Len(q) -> Nat] : CountsTo(q, f, Len(q)) /\ f[Len(q)] = BytesOf(q)
         /\ BytesOf(q) \in Nat
         /\ \A g : CountsTo(q, g, Len(q)) => g[Len(q)] = BytesOf(q)
<1> DEFINE sum == CHOOSE f : f = [i \in 0..Len(q) |-> IF i = 0 THEN 0 ELSE f[i - 1] + q[i].size]
<1>1. sum = [i \in 0..Len(q) |-> IF i = 0 THEN 0 ELSE sum[i - 1] + q[i].size]
  BY CountsExist DEF Counts
<1>2. BytesOf(q) = sum[Len(q)]
  BY DEF BytesOf
<1> HIDE DEF sum
<1>3. CountsTo(q, sum, Len(q))
  BY <1>1 DEF CountsTo
<1>4. PICK f \in [0..Len(q) -> Nat] : CountsTo(q, f, Len(q))
  BY CountsExist
<1> QED BY <1>2, <1>3, <1>4, CountsAgree

\* An empty queue has none.
LEMMA BytesOfEmpty == BytesOf(<<>>) = 0
<1>1. \E f : CountsTo(<<>>, f, 0) /\ f[0] = BytesOf(<<>>)
  BY BytesCounted DEF Sized
<1> QED BY <1>1 DEF CountsTo

\* Only the sizes matter.
LEMMA BytesOfSizes ==
  ASSUME NEW q, NEW r, Len(q) \in Nat, Len(r) = Len(q), Sized(q),
         \A i \in 1..Len(q) : r[i].size = q[i].size
  PROVE  BytesOf(r) = BytesOf(q)
<1>1. PICK f : CountsTo(q, f, Len(q)) /\ f[Len(q)] = BytesOf(q)
  BY BytesCounted
<1>2. CountsTo(r, f, Len(r)) /\ Sized(r)
  BY <1>1 DEF CountsTo, Sized
<1> QED BY <1>1, <1>2, BytesCounted

\* The packets of a queue have a size.
LEMMA QueueSized ==
  ASSUME NEW q \in Seq(QueuedPacket)
  PROVE  Len(q) \in Nat /\ Sized(q)
<1>1. ASSUME NEW i \in 1..Len(q) PROVE q[i].size \in Nat
  <2>1. q[i] \in QueuedPacket
    OBVIOUS
  <2> QED BY <2>1 DEF QueuedPacket
<1> QED BY <1>1 DEF Sized

\* What a packet at the end adds.
LEMMA BytesOfAppend ==
  ASSUME NEW q \in Seq(QueuedPacket), NEW p \in QueuedPacket
  PROVE  BytesOf(Append(q, p)) = BytesOf(q) + p.size
<1> DEFINE r == Append(q, p)
<1>1. /\ Len(q) \in Nat /\ Len(r) = Len(q) + 1 /\ r[Len(q) + 1] = p
      /\ \A i \in 1..Len(q) : r[i] = q[i]
  OBVIOUS
<1> HIDE DEF r
<1>2. Sized(q) /\ p.size \in Nat
  BY QueueSized DEF QueuedPacket
<1>3. Sized(r)
  BY <1>1, <1>2 DEF Sized
<1>4. PICK f \in [0..Len(r) -> Nat] : CountsTo(r, f, Len(r)) /\ f[Len(r)] = BytesOf(r)
  BY <1>1, <1>3, BytesCounted
<1>5. CountsTo(q, f, Len(q))
  BY <1>1, <1>4 DEF CountsTo
<1>6. f[Len(q)] = BytesOf(q)
  BY <1>1, <1>2, <1>5, BytesCounted
<1>7. f[Len(r)] = f[Len(q)] + p.size
  BY <1>1, <1>4 DEF CountsTo
<1> QED BY <1>4, <1>6, <1>7 DEF r

\* What the first packet takes with it.
LEMMA BytesOfTail ==
  ASSUME NEW q \in Seq(QueuedPacket), q # <<>>
  PROVE  BytesOf(Tail(q)) = BytesOf(q) - Head(q).size
<1> DEFINE r == Tail(q)
<1>1. /\ Len(q) \in Nat \ {0} /\ Len(r) = Len(q) - 1 /\ q[1] = Head(q)
      /\ \A i \in 1..Len(r) : r[i] = q[i + 1]
  OBVIOUS
<1> HIDE DEF r
<1>2. Sized(q)
  BY QueueSized
<1>3. Sized(r)
  BY <1>1, <1>2 DEF Sized
<1>4. PICK f \in [0..Len(r) -> Nat] : CountsTo(r, f, Len(r)) /\ f[Len(r)] = BytesOf(r)
  BY <1>1, <1>3, BytesCounted
<1> DEFINE g == [i \in 0..Len(q) |-> IF i = 0 THEN 0 ELSE f[i - 1] + q[1].size]
<1>5. CountsTo(q, g, Len(q))
  <2>1. g[0] = 0
    BY <1>1
  <2>2. ASSUME NEW i \in 1..Len(q) PROVE g[i] = g[i - 1] + q[i].size
    <3>1. CASE i = 1
      BY <1>1, <1>2, <1>4, <3>1 DEF CountsTo, Sized
    <3>2. CASE i # 1
      <4>1. i - 1 \in 1..Len(r) /\ r[i - 1] = q[i]
        BY <1>1, <3>2
      <4>2. f[i - 1] = f[i - 2] + q[i].size
        <5>1. f[i - 1] = f[(i - 1) - 1] + r[i - 1].size
          BY <1>4, <4>1 DEF CountsTo
        <5>2. (i - 1) - 1 = i - 2
          OBVIOUS
        <5> QED BY <4>1, <5>1, <5>2
      <4>3. i - 2 \in 0..Len(r) /\ 1 \in 1..Len(q)
        BY <1>1, <4>1
      <4>4. f[i - 2] \in Nat /\ q[i].size \in Nat /\ q[1].size \in Nat
        BY <1>2, <4>3 DEF Sized
      <4>5. g[i] = f[i - 1] + q[1].size
        OBVIOUS
      <4>6. g[i - 1] = f[i - 2] + q[1].size
        BY <1>1, <4>1
      <4> QED BY <4>2, <4>4, <4>5, <4>6
    <3> QED BY <3>1, <3>2
  <2> QED BY <2>1, <2>2 DEF CountsTo
<1>6. g[Len(q)] = f[Len(r)] + q[1].size
  BY <1>1
<1> HIDE DEF g
<1>7. g[Len(q)] = BytesOf(q)
  BY <1>1, <1>2, <1>5, BytesCounted
<1>8. BytesOf(r) \in Nat /\ q[1].size \in Nat
  BY <1>1, <1>2, <1>3, BytesCounted DEF Sized
<1>9. BytesOf(r) = BytesOf(q) - Head(q).size
  BY <1>1, <1>4, <1>6, <1>7, <1>8
<1> QED BY <1>9 DEF r

----------------------------------------------------------------------------
(* The operations.                                                         *)

\* The library's Min and Max of two integers.
LEMMA MinOfTwo ==
  ASSUME NEW a \in Int, NEW b \in Int
  PROVE  /\ Min({a, b}) \in Int
         /\ a <= b => Min({a, b}) = a
<1>1. \E x \in {a, b} : \A y \in {a, b} : x <= y
  <2>1. CASE a <= b BY <2>1
  <2>2. CASE b <= a BY <2>2
  <2> QED BY <2>1, <2>2
<1>2. Min({a, b}) \in {a, b} /\ \A y \in {a, b} : Min({a, b}) <= y
  BY <1>1 DEF Min
<1> QED BY <1>2

\* ... and Max stays an integer.
LEMMA MaxOfTwo ==
  ASSUME NEW a \in Int, NEW b \in Int
  PROVE  Max({a, b}) \in Int
<1>1. \E x \in {a, b} : \A y \in {a, b} : x >= y
  <2>1. CASE a <= b BY <2>1
  <2>2. CASE b <= a BY <2>2
  <2> QED BY <2>1, <2>2
<1>2. Max({a, b}) \in {a, b}
  BY <1>1 DEF Max
<1> QED BY <1>2

\* An empty queue that waits for a keyframe satisfies the invariant ...
LEMMA InitInv == QueueInit => QueueInv
BY QueueAssumption, BytesOfEmpty
DEF QueueInit, QueueInv, WithinLimits, OneEpoch, QueuedPacket, AccountingExact

\* ... and so does one that was reset.
LEMMA ResetInv == Reset => QueueInv'
BY QueueAssumption, BytesOfEmpty
DEF Reset, QueueInv, WithinLimits, OneEpoch, QueuedPacket, AccountingExact

\* Nor does it matter what happens elsewhere.
LEMMA QueueUnchanged == QueueInv /\ UNCHANGED queueVars => QueueInv'
BY DEF QueueInv, WithinLimits, OneEpoch, AccountingExact, queueVars

\* What push does to a queue that satisfies the invariant.
LEMMA PushInv ==
  ASSUME QueueInv, NEW p \in Packet, NEW now \in Int, Push(p, now)
  PROVE  QueueInv'
<1>1. CASE PushResult(p, now) \in {"Invalid", "WaitingForKeyframe", "BeforeEpoch"}
  BY <1>1, QueueUnchanged DEF Push
<1>2. CASE PushResult(p, now) = "Overflow"
  BY <1>2, ResetInv DEF Push
<1>3. CASE PushResult(p, now) = "Accepted"
  <2>1. ~Refused(p, now) /\ (waitingForKeyframe \/ p.dts >= epoch)
    BY <1>3 DEF PushResult, Packet, QueueInv
  <2>2. /\ packets' = Append(packets, Queued(p, now))
        /\ bytes' = bytes + p.size
        /\ ~waitingForKeyframe'
        /\ epoch' = IF waitingForKeyframe THEN p.dts ELSE epoch
    BY <1>3 DEF Push
  <2>3. Queued(p, now) \in QueuedPacket
    BY DEF Queued, QueuedPacket, Packet
  <2>4. packets' \in Seq(QueuedPacket) /\ Len(packets') = Len(packets) + 1
    BY <2>2, <2>3 DEF QueueInv
  <2>5. WithinLimits'
    <3>1. bytes <= MaxBytes /\ Len(packets) < MaxPackets
      BY <2>1, QueueAssumption DEF Refused, QueueInv, WithinLimits
    <3>2. Min({bytes, MaxBytes}) = bytes
      BY <3>1, MinOfTwo, QueueAssumption DEF QueueInv
    <3>3. p.size <= MaxBytes - bytes
      BY <2>1, <3>2, QueueAssumption DEF Refused, QueueInv, Packet
    <3> QED BY <2>2, <2>4, <3>1, <3>3, QueueAssumption DEF WithinLimits, QueueInv, Packet
  <2>6. \A i \in 1..Len(packets') : packets'[i].dts >= epoch'
    <3> SUFFICES ASSUME NEW i \in 1..Len(packets') PROVE packets'[i].dts >= epoch'
      OBVIOUS
    <3>1. CASE i = Len(packets')
      <4>1. packets'[i] = Queued(p, now)
        BY <2>2, <2>4, <3>1 DEF QueueInv
      <4>2. packets'[i].dts = p.dts /\ p.dts \in Int
        BY <4>1 DEF Queued, Packet
      <4>3. epoch' <= p.dts
        BY <2>1, <2>2, <4>2 DEF QueueInv
      <4> QED BY <4>2, <4>3
    <3>2. CASE i \in 1..Len(packets)
      <4>1. packets'[i] = packets[i] /\ ~waitingForKeyframe
        BY <2>2, <3>2 DEF QueueInv, OneEpoch
      <4> QED BY <2>2, <3>2, <4>1 DEF QueueInv, OneEpoch
    <3> QED BY <2>4, <3>1, <3>2 DEF QueueInv
  <2>7. waitingForKeyframe' \in BOOLEAN
    BY <1>3 DEF Push, PushResult
  <2>8. bytes' \in Int /\ epoch' \in Int
    BY <2>2 DEF QueueInv, Packet
  <2>9. OneEpoch'
    BY <2>2, <2>6 DEF OneEpoch
  <2>10. AccountingExact'
    BY <2>2, <2>3, BytesOfAppend DEF QueueInv, AccountingExact, Queued
  <2> QED BY <2>4, <2>5, <2>7, <2>8, <2>9, <2>10 DEF QueueInv
<1> QED BY <1>1, <1>2, <1>3 DEF Push

\* And what pop does.
LEMMA PopInv ==
  ASSUME QueueInv, NEW now \in Int, Pop(now)
  PROVE  QueueInv'
<1>1. CASE PopSucceeds(now)
  <2>1. packets # <<>> /\ packets' = Tail(packets) /\ bytes' = bytes - Head(packets).size
        /\ UNCHANGED <<waitingForKeyframe, epoch>>
    BY <1>1 DEF Pop, PopSucceeds
  <2>2. /\ packets' \in Seq(QueuedPacket)
        /\ Len(packets') = Len(packets) - 1
        /\ \A i \in 1..Len(packets') : packets'[i] = packets[i + 1]
        /\ Head(packets).size \in Nat
    <3>1. packets \in Seq(QueuedPacket) /\ packets # <<>>
      BY <2>1 DEF QueueInv
    <3>2. Head(packets) \in QueuedPacket
      BY <3>1
    <3>3. Head(packets).size \in Nat
      BY <3>2 DEF QueuedPacket
    <3> QED BY <2>1, <3>1, <3>3
  <2>3. OneEpoch'
    BY <2>1, <2>2 DEF QueueInv, OneEpoch
  <2>4. AccountingExact'
    BY <2>1, BytesOfTail DEF QueueInv, AccountingExact
  <2> QED BY <2>1, <2>2, <2>3, <2>4, QueueAssumption DEF QueueInv, WithinLimits
<1>2. CASE packets # <<>> /\ ~PopSucceeds(now)
  BY <1>2, ResetInv DEF Pop
<1>3. CASE packets = <<>>
  BY <1>3, QueueUnchanged DEF Pop, PopSucceeds
<1> QED BY <1>1, <1>2, <1>3

----------------------------------------------------------------------------
(* The safety of the queue by itself, whatever its caller does.           *)

\* A queue that lost something waits for a keyframe.
UseInv == QueueInv /\ gap \in BOOLEAN /\ (gap => waitingForKeyframe)

\* What the callers submit are packets.
LEMMA SubmittedIsPacket == Submitted \subseteq Packet
  BY DEF Submitted, Packet

\* Push, pop and reset, called in any order, keep the invariant.
LEMMA UseInductive == UseInv /\ [UseNext]_useVars => UseInv'
<1> SUFFICES ASSUME UseInv, [UseNext]_useVars PROVE UseInv'
  OBVIOUS
<1>1. CASE \E p \in Submitted, now \in Int : UsePush(p, now)
  <2>1. PICK p \in Submitted, now \in Int : UsePush(p, now)
    BY <1>1
  <2>2. QueueInv'
    BY <2>1, SubmittedIsPacket, PushInv DEF UsePush, UseInv
  <2>3. gap' \in BOOLEAN /\ (gap' => waitingForKeyframe')
    BY <2>1 DEF UsePush, Push, PushResult, Reset, UseInv, queueVars
  <2> QED BY <2>2, <2>3 DEF UseInv
<1>2. CASE \E now \in Int : UsePop(now)
  <2>1. PICK now \in Int : UsePop(now)
    BY <1>2
  <2>2. QueueInv'
    BY <2>1, SubmittedIsPacket, PopInv DEF UsePop, UseInv
  <2>3. gap' \in BOOLEAN /\ (gap' => waitingForKeyframe')
    BY <2>1 DEF UsePop, Pop, PopSucceeds, Reset, UseInv, queueVars
  <2> QED BY <2>2, <2>3 DEF UseInv
<1>3. CASE UseReset
  BY <1>3, ResetInv DEF UseReset, Reset, UseInv
<1>4. CASE UNCHANGED useVars
  <2>1. UNCHANGED queueVars /\ UNCHANGED gap /\ UNCHANGED waitingForKeyframe
    BY <1>4 DEF useVars, queueVars
  <2> QED BY <2>1, QueueUnchanged DEF UseInv
<1> QED BY <1>1, <1>2, <1>3, <1>4 DEF UseNext

\* So it holds throughout.
LEMMA UseInvariant == UseSpec => []UseInv
<1>1. UseInit => UseInv
  BY InitInv DEF UseInit, QueueInit, UseInv
<1> QED BY <1>1, UseInductive, PTL DEF UseSpec

\* However the queue is used, it holds no more than its two hard limits allow
\* (the limits that push enforces, multistream-queue.hpp:47-52).
THEOREM QueueBounded == UseSpec => []WithinLimits
<1>1. UseInv => WithinLimits
  BY DEF UseInv, QueueInv
<1> QED BY <1>1, UseInvariant, PTL

\* However the queue is used, its count of bytes is the size of what it holds: push,
\* pop and every drop keep the two together (multistream-queue.hpp:54-83).
THEOREM BytesAccounted == UseSpec => []AccountingExact
<1>1. UseInv => AccountingExact
  BY DEF UseInv, QueueInv
<1> QED BY <1>1, UseInvariant, PTL

\* However the queue is used, a loss is followed by a keyframe: push and pop
\* drop everything and reopen only on one.
THEOREM LossEndsAtKeyframe == UseSpec => []GapEndsAtKeyframe
<1>1. UseInv => GapEndsAtKeyframe
  BY DEF UseInv, QueueInv, OneEpoch, GapEndsAtKeyframe
<1> QED BY <1>1, UseInvariant, PTL

\* However the queue is used, what it holds belongs to one epoch, so that no
\* timestamp relative to the epoch is negative.
THEOREM QueuedInOneEpoch == UseSpec => []OneEpoch
<1>1. UseInv => OneEpoch
  BY DEF UseInv, QueueInv
<1> QED BY <1>1, UseInvariant, PTL

\* The media time from the head to any packet that is queued is bounded, by the
\* check of push against the head.
THEOREM MediaBacklogBounded == UseSpec => BacklogBounded
<1> DEFINE Bounded ==
      Len(packets') > Len(packets) =>
        MediaDistance(packets'[Len(packets')].dts, packets'[1].dts) <= MaxDuration
<1>1. UseInv /\ [UseNext]_useVars => [Bounded]_queueVars
  <2> SUFFICES ASSUME UseInv, [UseNext]_useVars PROVE [Bounded]_queueVars
    OBVIOUS
  <2>1. CASE \E p \in Submitted, now \in Int : UsePush(p, now)
    <3>1. PICK p \in Submitted, now \in Int : UsePush(p, now)
      BY <2>1
    <3>2. p \in Packet
      BY SubmittedIsPacket
    <3>3. CASE PushResult(p, now) = "Accepted"
      <4>1. packets' = Append(packets, Queued(p, now)) /\ ~Refused(p, now)
        BY <3>1, <3>3 DEF UsePush, Push, PushResult
      <4>2. /\ Len(packets') = Len(packets) + 1
            /\ packets'[Len(packets')].dts = p.dts
            /\ packets # <<>> => packets'[1] = Head(packets)
        BY <4>1 DEF UseInv, QueueInv, Queued
      <4>3. CASE packets = <<>>
        BY <3>2, <4>2, <4>3, QueueAssumption DEF MediaDistance, Packet
      <4>4. CASE packets # <<>>
        <5>1. Head(packets).dts \in Int
          <6>1. Head(packets) \in QueuedPacket
            BY <4>4 DEF UseInv, QueueInv
          <6> QED BY <6>1 DEF QueuedPacket
        <5>2. ~(MediaDistance(p.dts, Head(packets).dts) > MaxDuration)
          BY <4>1, <4>4 DEF Refused
        <5> QED BY <3>2, <4>2, <4>4, <5>1, <5>2, QueueAssumption DEF MediaDistance, Packet
      <4> QED BY <4>3, <4>4
    <3>4. CASE PushResult(p, now) # "Accepted"
      BY <3>1, <3>4 DEF UsePush, Push, Reset, queueVars, UseInv, QueueInv
    <3> QED BY <3>3, <3>4
  <2>2. CASE \E now \in Int : UsePop(now)
    BY <2>2 DEF UsePop, Pop, PopSucceeds, Reset, queueVars, UseInv, QueueInv
  <2>3. CASE UseReset
    BY <2>3 DEF UseReset, Reset, UseInv, QueueInv
  <2>4. CASE UNCHANGED useVars
    BY <2>4 DEF useVars, queueVars
  <2> QED BY <2>1, <2>2, <2>3, <2>4 DEF UseNext
<1> QED BY <1>1, UseInvariant, PTL DEF UseSpec, BacklogBounded

============================================================================
