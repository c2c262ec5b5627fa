-------------------------- MODULE HoldAudioTapProofs -------------------------
(***************************************************************************)
(* Theorems about the ring between the two audio clocks, for every         *)
(* capacity: first for any producer and any consumer, then for HoldAudioTap*)
(* and its cursor.                                                         *)
(***************************************************************************)
EXTENDS HoldAudioTap, SequenceTheorems, TLAPS

----------------------------------------------------------------------------
(* The ring.                                                               *)

\* Numbers less than a capacity apart have different slots.
LEMMA SlotsDiffer ==
  ASSUME NEW a \in Nat, NEW b \in Nat, a < b, b - a < Capacity
  PROVE  Slot(a) # Slot(b)
<1>1. Capacity \in Nat /\ Capacity >= 2
  BY CapacityAssumption
<1>2. /\ a % Capacity = a - Capacity * (a \div Capacity)
      /\ b % Capacity = b - Capacity * (b \div Capacity)
  BY <1>1, Z3
<1>3. PICK k \in Int, m \in Int : k = a \div Capacity /\ m = b \div Capacity
  BY <1>1, Z3
<1>4. SUFFICES ASSUME a % Capacity = b % Capacity PROVE FALSE
  BY DEF Slot
<1>5. b - a = Capacity * (m - k)
  <2>1. b - a = Capacity * m - Capacity * k
    BY <1>1, <1>2, <1>3, <1>4
  <2>2. Capacity * (m - k) = Capacity * m - Capacity * k
    BY <1>1, <1>3
  <2> QED BY <2>1, <2>2
<1>6. CASE m - k <= 0
  <2>1. Capacity * (m - k) <= 0
    BY <1>1, <1>3, <1>6
  <2> QED BY <2>1, <1>5
<1>7. CASE m - k >= 1
  <2>1. Capacity * (m - k) >= Capacity
    BY <1>1, <1>3, <1>7
  <2> QED BY <2>1, <1>1, <1>5
<1> QED BY <1>3, <1>6, <1>7

\* Every number has a slot.
LEMMA SlotRange == ASSUME NEW a \in Nat PROVE Slot(a) \in 0..(Capacity - 1)
BY CapacityAssumption DEF Slot

\* What each side has seen of the other is old, but on the safe side, and a slot
\* is lent only while it lies outside, or inside, what is queued.
Numbers ==
  /\ Capacity \in Nat /\ Capacity >= 2
  /\ writeSequence \in Nat /\ readSequence \in Nat /\ knownRead \in Nat /\ knownWrite \in Nat
  /\ readSequence <= writeSequence /\ writeSequence - readSequence <= Capacity
  /\ knownRead <= readSequence /\ knownWrite <= writeSequence
  /\ held => readSequence < knownWrite
  /\ writing => writeSequence - readSequence < Capacity

Inside == readSequence..(writeSequence - 1)

RingInv ==
  /\ Numbers
  /\ slots = [i \in 0..(Capacity - 1) |-> slots[i]]
  /\ \A i \in Inside : slots[Slot(i)] # Torn

\* At first nothing is queued or lent.
LEMMA RingInvInit == RingInit => RingInv
<1> SUFFICES ASSUME RingInit PROVE RingInv
  OBVIOUS
<1>1. Numbers
  BY CapacityAssumption DEF RingInit, Numbers
<1>2. slots = [i \in 0..(Capacity - 1) |-> slots[i]]
  BY DEF RingInit
<1>3. Inside = {}
  BY DEF RingInit, Inside
<1> QED BY <1>1, <1>2, <1>3 DEF RingInv

\* The slot after what is queued is none of those that are queued.
LEMMA NextSlotFree ==
  ASSUME Numbers, writeSequence - readSequence < Capacity, NEW i \in Inside
  PROVE  i \in Nat /\ Slot(i) # Slot(writeSequence)
<1>1. i \in Nat /\ i < writeSequence /\ writeSequence - i < Capacity
  BY DEF Numbers, Inside
<1> QED BY <1>1, SlotsDiffer DEF Numbers

\* begin_push tears a slot that is not queued.
LEMMA BeginPushKeeps ==
  ASSUME RingInv, NEW seen, BeginPush(seen)
  PROVE  /\ RingInv'
         /\ UNCHANGED <<writeSequence, readSequence, received>>
         /\ \A i \in Inside : slots'[Slot(i)] = slots[Slot(i)]
<1>0. Numbers /\ slots = [i \in 0..(Capacity - 1) |-> slots[i]] /\ \A i \in Inside : slots[Slot(i)] # Torn
  BY DEF RingInv
<1>1. /\ UNCHANGED <<writeSequence, readSequence, held, knownWrite, received>>
      /\ knownRead' = seen /\ seen \in knownRead..readSequence
      /\ writing' <=> writeSequence - seen < Capacity
      /\ writeSequence - seen < Capacity => slots' = [slots EXCEPT ![Slot(writeSequence)] = Torn]
      /\ ~(writeSequence - seen < Capacity) => slots' = slots
  BY DEF BeginPush, consumerVars, HasRoom
<1>2. Numbers'
  BY <1>0, <1>1 DEF Numbers
<1>3. Inside' = Inside
  BY <1>1 DEF Inside
<1>4. \A i \in Inside : slots'[Slot(i)] = slots[Slot(i)]
  <2>1. CASE writeSequence - seen < Capacity
    <3>1. writeSequence - readSequence < Capacity
      BY <1>0, <1>1, <2>1 DEF Numbers
    <3>2. \A i \in Inside : Slot(i) # Slot(writeSequence) /\ Slot(i) \in 0..(Capacity - 1)
      BY <1>0, <3>1, NextSlotFree, SlotRange
    <3> QED BY <1>0, <1>1, <2>1, <3>2
  <2>2. CASE ~(writeSequence - seen < Capacity)
    BY <1>1, <2>2
  <2> QED BY <2>1, <2>2
<1>5. slots' = [i \in 0..(Capacity - 1) |-> slots'[i]]
  BY <1>0, <1>1
<1>6. RingInv'
  BY <1>0, <1>2, <1>3, <1>4, <1>5 DEF RingInv
<1> QED BY <1>1, <1>4, <1>6

\* commit_push queues the slot.
LEMMA CommitPushKeeps ==
  ASSUME RingInv, NEW block, IsBlock(block), CommitPush(block)
  PROVE  /\ RingInv'
         /\ writeSequence - readSequence < Capacity
         /\ writeSequence' = writeSequence + 1 /\ UNCHANGED <<readSequence, received>>
         /\ slots'[Slot(writeSequence)] = block
         /\ \A i \in Inside : slots'[Slot(i)] = slots[Slot(i)]
<1>0. Numbers /\ slots = [i \in 0..(Capacity - 1) |-> slots[i]] /\ \A i \in Inside : slots[Slot(i)] # Torn
  BY DEF RingInv
<1>1. /\ UNCHANGED <<readSequence, held, knownWrite, knownRead, received>>
      /\ writing /\ ~writing'
      /\ slots' = [slots EXCEPT ![Slot(writeSequence)] = block]
      /\ writeSequence' = writeSequence + 1
  BY DEF CommitPush, consumerVars
<1>2. writeSequence - readSequence < Capacity /\ Numbers'
  BY <1>0, <1>1 DEF Numbers
<1>3. \A i \in Inside : Slot(i) # Slot(writeSequence) /\ Slot(i) \in 0..(Capacity - 1)
  BY <1>0, <1>2, NextSlotFree, SlotRange
<1>4. Slot(writeSequence) \in 0..(Capacity - 1)
  BY <1>0, SlotRange DEF Numbers
<1>5. /\ slots'[Slot(writeSequence)] = block
      /\ \A i \in Inside : slots'[Slot(i)] = slots[Slot(i)]
  BY <1>0, <1>1, <1>3, <1>4
<1>6. Inside' = Inside \cup {writeSequence}
  BY <1>0, <1>1 DEF Inside, Numbers
<1>7. slots' = [i \in 0..(Capacity - 1) |-> slots'[i]]
  BY <1>0, <1>1
<1>8. \A i \in Inside' : slots'[Slot(i)] # Torn
  BY <1>0, <1>5, <1>6 DEF IsBlock
<1>9. RingInv'
  BY <1>2, <1>7, <1>8 DEF RingInv
<1> QED BY <1>1, <1>2, <1>5, <1>9

\* begin_pop lends a slot that is queued.
LEMMA BeginPopKeeps ==
  ASSUME RingInv, NEW seen, BeginPop(seen)
  PROVE  RingInv' /\ UNCHANGED <<slots, writeSequence, readSequence, received>>
<1>0. Numbers
  BY DEF RingInv
<1>1. /\ UNCHANGED <<slots, writeSequence, writing, knownRead, readSequence, received>>
      /\ knownWrite' = seen /\ seen \in knownWrite..writeSequence
      /\ held' <=> (held \/ seen - readSequence > 0)
  BY DEF BeginPop, producerVars, Loadable, Available
<1>2. Numbers'
  BY <1>0, <1>1 DEF Numbers
<1> QED BY <1>1, <1>2 DEF RingInv, Inside

\* commit_pop gives it back.
LEMMA CommitPopKeeps ==
  ASSUME RingInv, CommitPop
  PROVE  /\ RingInv'
         /\ UNCHANGED <<slots, writeSequence>> /\ readSequence' = readSequence + 1
         /\ readSequence < writeSequence /\ received' = slots[Slot(readSequence)]
<1>0. Numbers /\ \A i \in Inside : slots[Slot(i)] # Torn
  BY DEF RingInv
<1>1. /\ UNCHANGED <<slots, writeSequence, writing, knownRead, knownWrite>>
      /\ held /\ ~held'
      /\ readSequence' = readSequence + 1
      /\ received' = slots[Slot(readSequence)]
  BY DEF CommitPop, producerVars, Front
<1>2. readSequence < writeSequence /\ Numbers'
  BY <1>0, <1>1 DEF Numbers
<1>3. Inside' \subseteq Inside
  BY <1>0, <1>1 DEF Inside, Numbers
<1>4. RingInv'
  BY <1>0, <1>1, <1>2, <1>3 DEF RingInv
<1> QED BY <1>1, <1>2, <1>4

\* The invariant is inductive.
LEMMA RingInductive == RingInv /\ [RingNext]_ringVars => RingInv'
<1> SUFFICES ASSUME RingInv, [RingNext]_ringVars PROVE RingInv'
  OBVIOUS
<1>1. CASE \E seen \in Nat : BeginPush(seen)
  BY <1>1, BeginPushKeeps
<1>2. CASE \E seen \in Nat : BeginPop(seen)
  BY <1>2, BeginPopKeeps
<1>3. CASE IsBlock(slots'[Slot(writeSequence)]) /\ CommitPush(slots'[Slot(writeSequence)])
  BY <1>3, CommitPushKeeps
<1>4. CASE CommitPop
  BY <1>4, CommitPopKeeps
<1>5. CASE UNCHANGED ringVars
  <2>1. UNCHANGED <<slots, writeSequence, readSequence, writing, held, knownRead, knownWrite>>
    BY <1>5 DEF ringVars, producerVars, consumerVars
  <2>2. Numbers' /\ Inside' = Inside
    BY <2>1 DEF RingInv, Numbers, Inside
  <2> QED BY <2>1, <2>2 DEF RingInv
<1> QED BY <1>1, <1>2, <1>3, <1>4, <1>5 DEF RingNext

\* A slot that is written lies outside what is queued, one that is read inside.
LEMMA RingSafe == RingInv => SlotsOwnedByOne
<1> SUFFICES ASSUME RingInv, writing, held PROVE Slot(writeSequence) # Slot(readSequence)
  BY DEF SlotsOwnedByOne
<1>1. Numbers
  BY DEF RingInv
<1>2. readSequence \in Inside /\ writeSequence - readSequence < Capacity
  BY <1>1 DEF Numbers, Inside
<1> QED BY <1>1, <1>2, NextSlotFree

----------------------------------------------------------------------------
(* The ring implements a bounded channel.                                  *)

\* A function on 1..n is a sequence.
LEMMA FunctionIsSequence ==
  ASSUME NEW n \in Nat, NEW f, f = [i \in 1..n |-> f[i]],
         NEW V, \A i \in 1..n : f[i] \in V
  PROVE  f \in Seq(V) /\ Len(f) = n
<1>1. f \in [1..n -> V]
  OBVIOUS
<1>2. f \in Seq(V)
  BY <1>1, SeqDef
<1>3. DOMAIN f = 1..Len(f) /\ Len(f) \in Nat
  BY <1>2, LenProperties
<1>4. 1..Len(f) = 1..n
  BY <1>1, <1>3
<1>5. Len(f) = n
  BY <1>3, <1>4
<1> QED BY <1>2, <1>5

\* What appends a value.
LEMMA AppendsValue ==
  ASSUME NEW n \in Nat, NEW f, NEW g, 
         f = [i \in 1..n |-> f[i]], g = [i \in 1..(n + 1) |-> g[i]],
         \A i \in 1..n : g[i] = f[i]
  PROVE  Len(f) = n /\ Len(g) = n + 1 /\ g = Append(f, g[n + 1])
<1> DEFINE V == {g[i] : i \in 1..(n + 1)}
<1>1. \A i \in 1..(n + 1) : g[i] \in V
  OBVIOUS
<1> HIDE DEF V
<1>2. \A i \in 1..n : f[i] \in V
  <2> SUFFICES ASSUME NEW i \in 1..n PROVE f[i] \in V
    OBVIOUS
  <2>1. i \in 1..(n + 1) /\ g[i] = f[i]
    OBVIOUS
  <2>2. g[i] \in V
    BY <1>1, <2>1
  <2> QED BY <2>1, <2>2
<1>3. g[n + 1] \in V
  <2>1. n + 1 \in 1..(n + 1)
    OBVIOUS
  <2> QED BY <1>1, <2>1
<1>4. g \in Seq(V) /\ Len(g) = n + 1
  BY <1>1, FunctionIsSequence
<1>5. f \in Seq(V) /\ Len(f) = n
  BY <1>2, FunctionIsSequence
<1> DEFINE a == Append(f, g[n + 1])
<1>6. a \in Seq(V) /\ Len(a) = n + 1 /\ \A i \in 1..(n + 1) : a[i] = g[i]
  <2>1. a \in Seq(V) /\ Len(a) = n + 1
    BY <1>3, <1>5
  <2>2. ASSUME NEW i \in 1..(n + 1) PROVE a[i] = g[i]
    <3>1. CASE i = n + 1
      BY <1>3, <1>5, <3>1
    <3>2. CASE i \in 1..n
      <4>1. g[i] = f[i]
        BY <3>2
      <4>2. a[i] = f[i]
        BY <1>3, <1>5, <3>2
      <4> QED BY <4>1, <4>2
    <3>3. i = n + 1 \/ i \in 1..n
      OBVIOUS
    <3> QED BY <3>1, <3>2, <3>3
  <2> QED BY <2>1, <2>2
<1>7. g = a
  <2> HIDE DEF a
  <2> QED BY <1>4, <1>6, SeqEqual
<1> QED BY <1>4, <1>5, <1>7

\* What drops the first value.
LEMMA DropsFirst ==
  ASSUME NEW n \in Nat, n > 0, NEW f, NEW g,
         f = [i \in 1..n |-> f[i]], g = [i \in 1..(n - 1) |-> g[i]],
         \A i \in 1..(n - 1) : g[i] = f[i + 1]
  PROVE  f # <<>> /\ Head(f) = f[1] /\ g = Tail(f)
<1> DEFINE V == {f[i] : i \in 1..n}
<1>1. \A i \in 1..n : f[i] \in V
  OBVIOUS
<1> HIDE DEF V
<1>2. \A i \in 1..(n - 1) : g[i] \in V
  <2> SUFFICES ASSUME NEW i \in 1..(n - 1) PROVE g[i] \in V
    OBVIOUS
  <2>1. i + 1 \in 1..n /\ g[i] = f[i + 1]
    OBVIOUS
  <2>2. f[i + 1] \in V
    BY <1>1, <2>1
  <2> QED BY <2>1, <2>2
<1>3. f \in Seq(V) /\ Len(f) = n
  BY <1>1, FunctionIsSequence
<1>4. n - 1 \in Nat
  OBVIOUS
<1>5. g \in Seq(V) /\ Len(g) = n - 1
  BY <1>2, <1>4, FunctionIsSequence
<1>6. f # <<>>
  BY <1>3, EmptySeq
<1>7. Tail(f) \in Seq(V) /\ Len(Tail(f)) = n - 1 /\ \A i \in 1..(n - 1) : Tail(f)[i] = f[i + 1]
  BY <1>3, <1>6, HeadTailProperties
<1>8. g = Tail(f)
  BY <1>5, <1>7, SeqEqual
<1>9. Head(f) = f[1]
  BY <1>3, <1>6
<1> QED BY <1>6, <1>8, <1>9

\* What is queued, place by place.
LEMMA QueuedPlaces ==
  ASSUME Numbers
  PROVE  /\ writeSequence - readSequence \in Nat
         /\ Queued = [i \in 1..(writeSequence - readSequence) |-> Queued[i]]
         /\ \A i \in 1..(writeSequence - readSequence) : Queued[i] = slots[Slot(readSequence + i - 1)]
<1>1. writeSequence - readSequence \in Nat
  BY DEF Numbers
<1> QED BY <1>1 DEF Queued

\* commit_push sends its block.
LEMMA CommitPushSends ==
  ASSUME RingInv, NEW block, IsBlock(block), CommitPush(block)
  PROVE  Channel!Send
<1> DEFINE n == writeSequence - readSequence
<1>1. /\ RingInv'
      /\ n < Capacity
      /\ writeSequence' = writeSequence + 1 /\ readSequence' = readSequence /\ received' = received
      /\ slots'[Slot(writeSequence)] = block
      /\ \A i \in Inside : slots'[Slot(i)] = slots[Slot(i)]
  BY CommitPushKeeps
<1>2. Numbers /\ Numbers'
  BY <1>1 DEF RingInv
<1>3. n \in Nat /\ writeSequence \in Nat /\ readSequence \in Nat /\ (writeSequence - readSequence)' = n + 1
  BY <1>1, <1>2 DEF Numbers
<1>4. /\ Queued = [i \in 1..n |-> Queued[i]]
      /\ \A i \in 1..n : Queued[i] = slots[Slot(readSequence + i - 1)]
  BY <1>2, QueuedPlaces
<1>5. /\ Queued' = [i \in 1..(n + 1) |-> Queued'[i]]
      /\ \A i \in 1..(n + 1) : Queued'[i] = slots'[Slot(readSequence + i - 1)]
  <2>1. Queued' = [i \in 1..(n + 1) |-> slots'[Slot(readSequence + i - 1)]]
    BY <1>1, <1>3 DEF Queued
  <2> QED BY <2>1
<1>6. Queued'[n + 1] = block
  <2>1. readSequence + (n + 1) - 1 = writeSequence /\ n + 1 \in 1..(n + 1)
    BY <1>3
  <2>2. Queued'[n + 1] = slots'[Slot(readSequence + (n + 1) - 1)]
    BY <1>5, <2>1
  <2> QED BY <1>1, <2>1, <2>2
<1>7. ASSUME NEW i \in 1..n PROVE Queued'[i] = Queued[i]
  <2>1. readSequence + i - 1 \in Inside /\ i \in 1..(n + 1)
    BY <1>3 DEF Inside
  <2>2. Queued'[i] = slots'[Slot(readSequence + i - 1)]
    BY <1>5, <2>1
  <2>3. Queued[i] = slots[Slot(readSequence + i - 1)]
    BY <1>4
  <2> QED BY <1>1, <2>1, <2>2, <2>3
<1> HIDE DEF n
<1>8. /\ Len(Queued) = n /\ Len(Queued') = n + 1
      /\ Queued' = Append(Queued, Queued'[n + 1])
  BY <1>3, <1>4, <1>5, <1>7, AppendsValue
<1> QED BY <1>1, <1>6, <1>8 DEF Channel!Send, IsBlock

\* commit_pop receives the first.
LEMMA CommitPopReceives ==
  ASSUME RingInv, CommitPop
  PROVE  Channel!Receive
<1> DEFINE n == writeSequence - readSequence
<1>1. /\ RingInv'
      /\ slots' = slots /\ writeSequence' = writeSequence /\ readSequence' = readSequence + 1
      /\ readSequence < writeSequence /\ received' = slots[Slot(readSequence)]
  BY CommitPopKeeps
<1>2. Numbers /\ Numbers'
  BY <1>1 DEF RingInv
<1>3. n \in Nat /\ n > 0 /\ readSequence \in Nat /\ (writeSequence - readSequence)' = n - 1
  BY <1>1, <1>2 DEF Numbers
<1>4. /\ Queued = [i \in 1..n |-> Queued[i]]
      /\ \A i \in 1..n : Queued[i] = slots[Slot(readSequence + i - 1)]
  BY <1>2, QueuedPlaces
<1>5. /\ Queued' = [i \in 1..(n - 1) |-> Queued'[i]]
      /\ \A i \in 1..(n - 1) : Queued'[i] = slots[Slot((readSequence + 1) + i - 1)]
  <2>1. Queued' = [i \in 1..(n - 1) |-> slots[Slot((readSequence + 1) + i - 1)]]
    BY <1>1, <1>3 DEF Queued
  <2> QED BY <2>1
<1>6. ASSUME NEW i \in 1..(n - 1) PROVE Queued'[i] = Queued[i + 1]
  <2>1. i + 1 \in 1..n /\ readSequence + (i + 1) - 1 = (readSequence + 1) + i - 1
    BY <1>3
  <2>2. Queued[i + 1] = slots[Slot(readSequence + (i + 1) - 1)]
    BY <1>4, <2>1
  <2> QED BY <1>5, <2>1, <2>2
<1>7. Queued[1] = slots[Slot(readSequence)]
  <2>1. 1 \in 1..n /\ readSequence + 1 - 1 = readSequence
    BY <1>3
  <2>2. Queued[1] = slots[Slot(readSequence + 1 - 1)]
    BY <1>4, <2>1
  <2> QED BY <2>1, <2>2
<1> HIDE DEF n
<1>8. Queued # <<>> /\ Head(Queued) = Queued[1] /\ Queued' = Tail(Queued)
  BY <1>3, <1>4, <1>5, <1>6, DropsFirst
<1> QED BY <1>1, <1>7, <1>8 DEF Channel!Receive

\* What leaves the queued slots and the counters alone is no step of the channel.
LEMMA RestStutters ==
  ASSUME RingInv, UNCHANGED <<writeSequence, readSequence, received>>,
         \A i \in Inside : slots'[Slot(i)] = slots[Slot(i)]
  PROVE  UNCHANGED Channel!channelVars
<1> DEFINE n == writeSequence - readSequence
<1>1. n \in Nat /\ writeSequence \in Nat /\ readSequence \in Nat
  BY DEF RingInv, Numbers
<1>2. \A i \in 1..n : slots'[Slot(readSequence + i - 1)] = slots[Slot(readSequence + i - 1)]
  <2> SUFFICES ASSUME NEW i \in 1..n
               PROVE  slots'[Slot(readSequence + i - 1)] = slots[Slot(readSequence + i - 1)]
    OBVIOUS
  <2>1. readSequence + i - 1 \in Inside
    BY <1>1 DEF Inside
  <2> QED BY <2>1
<1>3. Queued' = Queued
  BY <1>2 DEF Queued
<1> QED BY <1>3 DEF Channel!channelVars

\* Every step of the ring is a step of the channel, or none.
LEMMA RingStepIsChannelStep ==
  RingInv /\ [RingNext]_ringVars => [Channel!Send \/ Channel!Receive]_(Channel!channelVars)
<1> SUFFICES ASSUME RingInv, [RingNext]_ringVars
             PROVE  [Channel!Send \/ Channel!Receive]_(Channel!channelVars)
  OBVIOUS
<1>1. CASE \E seen \in Nat : BeginPush(seen)
  BY <1>1, BeginPushKeeps, RestStutters
<1>2. CASE \E seen \in Nat : BeginPop(seen)
  BY <1>2, BeginPopKeeps, RestStutters
<1>3. CASE IsBlock(slots'[Slot(writeSequence)]) /\ CommitPush(slots'[Slot(writeSequence)])
  BY <1>3, CommitPushSends
<1>4. CASE CommitPop
  BY <1>4, CommitPopReceives
<1>5. CASE UNCHANGED ringVars
  <2>1. UNCHANGED <<slots, writeSequence, readSequence, received>>
    BY <1>5 DEF ringVars, producerVars, consumerVars
  <2> QED BY <2>1, RestStutters
<1> QED BY <1>1, <1>2, <1>3, <1>4, <1>5 DEF RingNext

\* The empty ring is the empty channel.
LEMMA RingInitIsChannelInit == RingInit => Channel!ChannelInit
<1> SUFFICES ASSUME RingInit PROVE Channel!ChannelInit
  OBVIOUS
<1>1. Queued = <<>>
  BY DEF RingInit, Queued
<1> QED BY <1>1 DEF RingInit, Channel!ChannelInit

\* Whatever is pushed and however late the two sides see each other, no slot is
\* lent to both.
THEOREM RingSafety == RingSpec => []SlotsOwnedByOne
<1>1. RingSpec => []RingInv
  BY RingInvInit, RingInductive, PTL DEF RingSpec
<1> QED BY <1>1, RingSafe, PTL

\* The ring is a bounded channel: blocks arrive whole, once each and in order.
THEOREM RingImplementsChannel == RingSpec => KeepsChannel
<1>1. RingSpec => []RingInv
  BY RingInvInit, RingInductive, PTL DEF RingSpec
<1> QED BY <1>1, RingInitIsChannelInit, RingStepIsChannelStep, PTL
  DEF RingSpec, KeepsChannel, Channel!ChannelSpec

----------------------------------------------------------------------------
(* The tap and the cursor use the ring as it is meant to be used.          *)

\* A block that is pushed has a timestamp, and a later one than those before.
TapInv ==
  /\ mainClock \in Int
  /\ lastPushed \in Nat
  /\ writing => rendered.timestamp \in Nat /\ IsBlock(rendered)

\* At first nothing is written.
LEMMA TapInvInit == Init => TapInv
BY DEF Init, RingInit, TapInv

\* A source's timestamps are numbers.
LEMMA SourceTimesAreNumbers ==
  ASSUME TapInv, NEW t \in SourceTimes
  PROVE  t \in Int
<1>1. Early \subseteq Int /\ Late \subseteq Int
  BY TapAssumption
<1>2. Frames \in Int
  BY FramesAssumption
<1> DEFINE regular == IF lastPushed = 0 THEN mainClock ELSE lastPushed + Frames
<1>3. regular \in Int
  BY <1>2 DEF TapInv
<1>4. t \in {regular - d : d \in Early} \cup {regular + d : d \in Late}
  BY DEF SourceTimes
<1> HIDE DEF regular
<1> QED BY <1>1, <1>3, <1>4

\* Only RenderEnds and Render touch what the producer writes.
LEMMA TapInductive == TapInv /\ [Next]_vars => TapInv'
<1> SUFFICES ASSUME TapInv, [Next]_vars PROVE TapInv'
  OBVIOUS
<1>1. CASE MainClockOutput
  <2>1. /\ mainClock' = mainClock + Frames
        /\ UNCHANGED <<writing, rendered, lastPushed>>
    BY <1>1 DEF MainClockOutput, ringVars, producerVars
  <2> QED BY <2>1, FramesAssumption DEF TapInv, IsBlock
<1>2. CASE \E t \in SourceTimes, fits \in BOOLEAN : Render(t, fits)
  <2>1. PICK t \in SourceTimes, fits \in BOOLEAN : Render(t, fits)
    BY <1>2
  <2>2. /\ t > lastPushed
        /\ rendered' = [timestamp |-> t, alignment |-> t - mainClock, fits |-> fits]
        /\ UNCHANGED <<mainClock, lastPushed>>
    BY <2>1 DEF Render, RenderPushes
  <2>3. t \in Nat /\ t # 0
    BY <2>1, <2>2, SourceTimesAreNumbers DEF TapInv
  <2>4. rendered'.timestamp = t /\ rendered' # Torn
    BY <2>2, <2>3 DEF Torn
  <2> QED BY <2>2, <2>3, <2>4 DEF TapInv, IsBlock
<1>3. CASE RenderEnds
  <2>1. writing /\ ~writing' /\ lastPushed' = rendered.timestamp /\ mainClock' = mainClock
    BY <1>3 DEF RenderEnds, CommitPush
  <2> QED BY <2>1 DEF TapInv
<1>4. CASE Consume /\ UNCHANGED tapVars
  <2>1. writing' = writing
    BY <1>4 DEF Consume, NotPrimed, Underrun, TakeBlock, BeginPop, Discard, Silence, Skip, Copy,
                FinishBlock, CommitPop, ringVars, producerVars
  <2> QED BY <1>4, <2>1 DEF tapVars, TapInv, IsBlock
<1>5. CASE Pull \/ ForceSilence \/ UNCHANGED vars
  <2>1. UNCHANGED <<writing, mainClock, rendered, lastPushed>>
    BY <1>5 DEF Pull, ForceSilence, vars, ringVars, producerVars, tapVars
  <2> QED BY <2>1 DEF TapInv, IsBlock
<1> QED BY <1>1, <1>2, <1>3, <1>4, <1>5 DEF Next

\* The consumer pops what begin_pop lent it, and pushes nothing.
LEMMA ConsumeUsesRing ==
  ASSUME RingInv, Consume
  PROVE  [RingNext]_ringVars
<1>0. \A seen \in Loadable : seen \in Nat
  <2>1. knownWrite \in Nat /\ writeSequence \in Nat
    BY DEF RingInv, Numbers
  <2> QED BY <2>1 DEF Loadable
<1>1. CASE \E seen \in Loadable : NotPrimed(seen) \/ Underrun(seen) \/ TakeBlock(seen)
  <2>1. \E seen \in Nat : BeginPop(seen)
    BY <1>0, <1>1 DEF NotPrimed, Underrun, TakeBlock
  <2> QED BY <2>1 DEF RingNext
<1>2. CASE Discard \/ Skip
  <2>1. CommitPop
    BY <1>2 DEF Discard, Skip, FinishBlock
  <2> QED BY <2>1 DEF RingNext
<1>3. CASE Silence
  BY <1>3 DEF Silence
<1>4. CASE Copy
  <2>1. CommitPop \/ UNCHANGED ringVars
    BY <1>4 DEF Copy, FinishBlock
  <2> QED BY <2>1 DEF RingNext
<1> QED BY <1>1, <1>2, <1>3, <1>4 DEF Consume

\* Every step of the tap is a step of the ring, or none.
LEMMA TapUsesRing ==
  RingInv /\ TapInv /\ [Next]_vars => [RingNext]_ringVars
<1> SUFFICES ASSUME RingInv, TapInv, [Next]_vars PROVE [RingNext]_ringVars
  OBVIOUS
<1>1. CASE MainClockOutput \/ Pull \/ ForceSilence
  BY <1>1 DEF MainClockOutput, Pull, ForceSilence
<1>2. CASE \E t \in SourceTimes, fits \in BOOLEAN : Render(t, fits)
  <2>1. PICK seen \in knownRead..readSequence : BeginPush(seen)
    BY <1>2 DEF Render
  <2>2. seen \in Nat
    BY DEF RingInv, Numbers
  <2> QED BY <2>1, <2>2 DEF RingNext
<1>3. CASE RenderEnds
  <2>1. writing /\ CommitPush(rendered) /\ IsBlock(rendered)
    BY <1>3 DEF RenderEnds, CommitPush, TapInv
  <2>2. slots'[Slot(writeSequence)] = rendered
    BY <2>1, CommitPushKeeps
  <2> QED BY <2>1, <2>2 DEF RingNext
<1>4. CASE Consume
  BY <1>4, ConsumeUsesRing
<1>5. CASE UNCHANGED vars
  BY <1>5 DEF vars
<1> QED BY <1>1, <1>2, <1>3, <1>4, <1>5 DEF Next

\* The invariant of both.
LEMMA TapInvariant == Spec => [](RingInv /\ TapInv)
<1>1. Init => RingInv /\ TapInv
  BY RingInvInit, TapInvInit DEF Init
<1>2. (RingInv /\ TapInv) /\ [Next]_vars => (RingInv /\ TapInv)'
  BY TapInductive, TapUsesRing, RingInductive
<1> QED BY <1>1, <1>2, PTL DEF Spec

\* In HoldAudioTap no slot is lent to both audio threads at once.
THEOREM TapSafety == Spec => []SlotsOwnedByOne
BY TapInvariant, RingSafe, PTL

\* HoldAudioTap uses the ring as a bounded channel: the private clock gets whole
\* blocks, once each and in the order in which the main clock pushed them.
THEOREM TapImplementsChannel == Spec => KeepsChannel
<1>1. Spec => RingSpec
  <2>1. Init => RingInit
    BY DEF Init
  <2> QED BY <2>1, TapInvariant, TapUsesRing, PTL DEF Spec, RingSpec
<1> QED BY <1>1, RingImplementsChannel, PTL

----------------------------------------------------------------------------
(* The cursor.  Blocks are queued in the order of their timestamps, all of *)
(* them later than the last copy but for the block that is copied in parts;*)
(* and between two steps the alignment still owed says where the next frame*)
(* belongs.                                                                *)

Block(i) == slots[Slot(i)]

IsTimed(b) == b.timestamp \in Nat /\ b.timestamp > 0 /\ b.alignment \in Int /\ b.fits \in BOOLEAN

BlocksAscend ==
  /\ \A i \in Inside : IsTimed(Block(i)) /\ Block(i).timestamp <= lastPushed
  /\ \A i, j \in Inside : i < j => Block(i).timestamp < Block(j).timestamp
  /\ writing => IsTimed(rendered) /\ rendered.timestamp > lastPushed

\* What the cursor's variables are, and how they go together.
CursorShape ==
  /\ window = NoWindow \/ window \in 0..(Frames - 1)
  /\ played \in Nat /\ expected \in Int /\ pending \in Int
  /\ sourceOffset \in 0..(Frames - 1)
  /\ aligned \in BOOLEAN /\ continuous \in BOOLEAN /\ alignmentPending \in BOOLEAN
  /\ aligned <=> sourceOffset > 0
  /\ sourceOffset > 0 => held
  /\ ~alignmentPending => pending = 0
  /\ continuous => expected > 0
  /\ using => held /\ primed /\ window # NoWindow

\* What was copied last precedes what is queued.
CopiesInOrder ==
  /\ copied.block \in Int /\ copied.block <= lastPushed
  /\ copied.of \in Int /\ copied.frames \in Int
  /\ \A i \in Inside : copied.block < Block(i).timestamp \/ (i = readSequence /\ sourceOffset > 0)
  /\ sourceOffset > 0 => /\ copied.block = Front.timestamp
                         /\ copied.of + copied.frames = Front.timestamp + sourceOffset

\* The frame of the private clock that is played next.
Position == played + (IF window = NoWindow THEN 0 ELSE window)

\* Where the alignment puts timestamp 0 is where the phase says, whatever is half done:
\* a block that is copied in parts, silence or skipping that is still owed.
PhaseKept ==
  /\ phase.known \in BOOLEAN /\ phase.at \in Int
  /\ phase.known =>
       /\ primed
       /\ aligned => phase.at = Position - Front.timestamp - sourceOffset
       /\ ~aligned /\ continuous => phase.at = Position + pending - expected
       /\ ~aligned /\ ~continuous => held /\ phase.at = Position + pending - Front.timestamp

CursorInv == BlocksAscend /\ CursorShape /\ CopiesInOrder /\ PhaseKept

\* The larger and the smaller of two numbers.
LEMMA MaxOfTwo == ASSUME NEW a \in Int, NEW b \in Int PROVE Max({a, b}) = IF a >= b THEN a ELSE b
<1> DEFINE m == IF a >= b THEN a ELSE b
<1>1. m \in {a, b} /\ \A y \in {a, b} : m >= y
  OBVIOUS
<1>2. \A x \in {a, b} : (\A y \in {a, b} : x >= y) => x = m
  OBVIOUS
<1> HIDE DEF m
<1>3. (CHOOSE x \in {a, b} : \A y \in {a, b} : x >= y) = m
  BY <1>1, <1>2
<1>4. Max({a, b}) = m
  BY <1>3 DEF Max
<1> QED BY <1>4 DEF m

\* And the lesser.
LEMMA MinOfTwo == ASSUME NEW a \in Int, NEW b \in Int PROVE Min({a, b}) = IF a <= b THEN a ELSE b
<1> DEFINE m == IF a <= b THEN a ELSE b
<1>1. m \in {a, b} /\ \A y \in {a, b} : m <= y
  OBVIOUS
<1>2. \A x \in {a, b} : (\A y \in {a, b} : x <= y) => x = m
  OBVIOUS
<1> HIDE DEF m
<1>3. (CHOOSE x \in {a, b} : \A y \in {a, b} : x <= y) = m
  BY <1>1, <1>2
<1>4. Min({a, b}) = m
  BY <1>3 DEF Min
<1> QED BY <1>4 DEF m

\* At first nothing is queued, copied or aligned.
LEMMA CursorInvInit == Init => CursorInv
<1> SUFFICES ASSUME Init PROVE CursorInv
  OBVIOUS
<1>1. Inside = {} /\ ~writing /\ ~held /\ lastPushed = 0
  BY DEF Init, RingInit, Inside
<1>2. BlocksAscend
  BY <1>1 DEF BlocksAscend
<1>3. CursorShape
  <2>1. /\ window = NoWindow /\ played = 0 /\ expected = 0 /\ pending = 0 /\ sourceOffset = 0
        /\ using = FALSE /\ aligned = FALSE /\ continuous = FALSE /\ alignmentPending = FALSE
    BY DEF Init, CursorInit
  <2>2. /\ window = NoWindow \/ window \in 0..(Frames - 1)
        /\ played \in Nat /\ expected \in Int /\ pending \in Int
        /\ sourceOffset \in 0..(Frames - 1) /\ ~(sourceOffset > 0)
    BY <2>1, FramesAssumption
  <2>3. /\ aligned \in BOOLEAN /\ continuous \in BOOLEAN /\ alignmentPending \in BOOLEAN
        /\ ~aligned /\ ~continuous /\ ~using /\ pending = 0
    BY <2>1
  <2> QED BY <2>2, <2>3 DEF CursorShape
<1>4. CopiesInOrder
  <2>1. copied = [block |-> 0, at |-> 0, of |-> 0, frames |-> 0] /\ sourceOffset = 0
    BY DEF Init, CursorInit
  <2> QED BY <1>1, <2>1 DEF CopiesInOrder
<1>5. PhaseKept
  BY DEF Init, CursorInit, PhaseKept, Unknown
<1> QED BY <1>2, <1>3, <1>4, <1>5 DEF CursorInv

\* What is lent to the consumer is queued.
LEMMA HeldInside ==
  ASSUME RingInv, BlocksAscend, held
  PROVE  /\ readSequence \in Inside /\ readSequence \in Nat
         /\ Front = Block(readSequence) /\ IsTimed(Front) /\ Front.timestamp <= lastPushed
<1>1. readSequence \in Inside /\ readSequence \in Nat
  <2>1. /\ readSequence \in Nat /\ writeSequence \in Nat /\ knownWrite \in Nat
        /\ readSequence < knownWrite /\ knownWrite <= writeSequence
    BY DEF RingInv, Numbers
  <2> QED BY <2>1 DEF Inside
<1>2. Front = Block(readSequence)
  BY DEF Front, Block
<1> QED BY <1>1, <1>2 DEF BlocksAscend

\* Blocks stay in their order as long as none is added.
LEMMA AscendKept ==
  ASSUME BlocksAscend, Inside' \subseteq Inside,
         \A i \in Inside' : slots'[Slot(i)] = slots[Slot(i)],
         lastPushed' = lastPushed,
         writing' => IsTimed(rendered') /\ rendered'.timestamp > lastPushed
  PROVE  BlocksAscend'
<1>1. \A i \in Inside' : Block(i)' = Block(i) /\ i \in Inside
  BY DEF Block
<1>2. \A i \in Inside' : IsTimed(Block(i)') /\ Block(i)'.timestamp <= lastPushed'
  BY <1>1 DEF BlocksAscend
<1>3. \A i, j \in Inside' : i < j => Block(i)'.timestamp < Block(j)'.timestamp
  BY <1>1 DEF BlocksAscend
<1>4. writing' => IsTimed(rendered)' /\ rendered'.timestamp > lastPushed'
  BY DEF IsTimed
<1>5. \A i \in Inside' : IsTimed(Block(i))'
  BY <1>2 DEF IsTimed
<1> QED BY <1>2, <1>3, <1>4, <1>5 DEF BlocksAscend

\* A step of the producer, the begin of a window, or none leave the cursor's side as it is.
LEMMA CursorUntouched ==
  ASSUME RingInv, TapInv, CursorInv,
         UNCHANGED <<using, sourceOffset, expected, pending, aligned, alignmentPending,
                     continuous, primed, played, phase, copied, readSequence, held>>,
         window' = window \/ (window = NoWindow /\ window' = 0),
         \A i \in Inside : slots'[Slot(i)] = slots[Slot(i)],
         lastPushed' \in Nat, lastPushed' >= lastPushed,
         \A i \in Inside' : i \in Inside \/ (/\ slots'[Slot(i)].timestamp \in Nat
                                             /\ slots'[Slot(i)].timestamp > lastPushed)
  PROVE  (CursorShape /\ CopiesInOrder /\ PhaseKept)'
<1>1. UNCHANGED <<using, sourceOffset, expected, pending, aligned, alignmentPending,
                  continuous, primed, played, phase, copied, readSequence, held>>
  OBVIOUS
<1>2. BlocksAscend /\ CursorShape /\ CopiesInOrder /\ PhaseKept
  BY DEF CursorInv
<1>3. \A i \in Inside : Block(i)' = Block(i)
  BY DEF Block
<1>4. held => Front' = Front
  BY <1>1, <1>2, <1>3, HeldInside DEF Front, Block
<1>5. CursorShape'
  <2>1. window' = NoWindow \/ window' \in 0..(Frames - 1)
    BY <1>2, FramesAssumption DEF CursorShape
  <2>2. using => window' # NoWindow
    BY <1>2 DEF CursorShape, NoWindow
  <2> QED BY <1>1, <1>2, <2>1, <2>2 DEF CursorShape
<1>6. CopiesInOrder'
  <2>1. ASSUME NEW i \in Inside'
        PROVE  copied'.block < Block(i)'.timestamp \/ (i = readSequence' /\ sourceOffset' > 0)
    <3>1. CASE i \in Inside
      BY <1>1, <1>2, <1>3, <3>1 DEF CopiesInOrder
    <3>2. CASE Block(i)'.timestamp \in Nat /\ Block(i)'.timestamp > lastPushed
      <4>1. copied.block \in Int /\ copied.block <= lastPushed /\ lastPushed \in Nat
        BY <1>2 DEF CopiesInOrder, TapInv
      <4> QED BY <1>1, <3>2, <4>1
    <3> QED BY <3>1, <3>2 DEF Block
  <2>2. sourceOffset' > 0 => /\ copied'.block = Front'.timestamp
                             /\ copied'.of + copied'.frames = Front'.timestamp + sourceOffset'
    BY <1>1, <1>2, <1>4 DEF CopiesInOrder, CursorShape
  <2>3. copied'.block \in Int /\ copied'.block <= lastPushed' /\ copied'.of \in Int /\ copied'.frames \in Int
    BY <1>1, <1>2 DEF CopiesInOrder, TapInv
  <2> QED BY <2>1, <2>2, <2>3 DEF CopiesInOrder
<1>7. PhaseKept'
  <2>1. Position' = Position
    BY <1>1, <1>2 DEF Position, CursorShape, NoWindow
  <2>2. aligned => held
    BY <1>2 DEF CursorShape
  <2> QED BY <1>1, <1>2, <1>4, <2>1, <2>2 DEF PhaseKept
<1> QED BY <1>5, <1>6, <1>7

\* The steps of the other threads, the begin of a window, and none.
LEMMA ProducerKeepsCursor ==
  ASSUME RingInv, TapInv, CursorInv,
         \/ MainClockOutput \/ Pull \/ ForceSilence \/ UNCHANGED vars
         \/ \E t \in SourceTimes, fits \in BOOLEAN : Render(t, fits)
  PROVE  CursorInv'
<1>1. /\ UNCHANGED <<using, sourceOffset, expected, pending, aligned, alignmentPending,
                     continuous, primed, played, phase, copied, readSequence, writeSequence, held, lastPushed>>
      /\ window' = window \/ (window = NoWindow /\ window' = 0)
      /\ \A i \in Inside : slots'[Slot(i)] = slots[Slot(i)]
      /\ writing' => IsTimed(rendered') /\ rendered'.timestamp > lastPushed
  <2>1. CASE MainClockOutput \/ Pull \/ ForceSilence \/ UNCHANGED vars
    <3>1. /\ UNCHANGED <<using, sourceOffset, expected, pending, aligned, alignmentPending,
                         continuous, primed, played, phase, copied>>
          /\ UNCHANGED <<slots, readSequence, writeSequence, held, writing, rendered, lastPushed>>
          /\ window' = window \/ (window = NoWindow /\ window' = 0)
      BY <2>1 DEF MainClockOutput, Pull, ForceSilence, vars, ringVars, producerVars, consumerVars,
                  cursorVars, alignmentVars, tapVars
    <3>2. writing => IsTimed(rendered) /\ rendered.timestamp > lastPushed
      BY DEF CursorInv, BlocksAscend
    <3> QED BY <3>1, <3>2 DEF IsTimed
  <2>2. CASE \E t \in SourceTimes, fits \in BOOLEAN : Render(t, fits)
    <3>1. PICK t \in SourceTimes, fits \in BOOLEAN : Render(t, fits)
      BY <2>2
    <3>2. PICK seen \in knownRead..readSequence : BeginPush(seen)
      BY <3>1 DEF Render
    <3>3. /\ UNCHANGED <<writeSequence, readSequence, held>>
          /\ \A i \in Inside : slots'[Slot(i)] = slots[Slot(i)]
      BY <3>2, BeginPushKeeps DEF BeginPush, consumerVars
    <3>4. /\ UNCHANGED <<window, using, sourceOffset, expected, pending, aligned, alignmentPending,
                         continuous, primed, played, phase, copied, mainClock, lastPushed>>
          /\ t > lastPushed
          /\ rendered' = [timestamp |-> t, alignment |-> t - mainClock, fits |-> fits]
      BY <3>1 DEF Render, RenderPushes, cursorVars, alignmentVars
    <3>5. t \in Int /\ t > 0 /\ mainClock \in Int
      BY <3>4, SourceTimesAreNumbers DEF TapInv
    <3>6. IsTimed(rendered') /\ rendered'.timestamp > lastPushed
      BY <3>4, <3>5 DEF IsTimed
    <3> QED BY <3>3, <3>4, <3>6
  <2> QED BY <2>1, <2>2
<1>2. Inside' = Inside
  BY <1>1 DEF Inside
<1>3. BlocksAscend'
  BY <1>1, <1>2, AscendKept DEF CursorInv
<1>4. lastPushed' \in Nat /\ lastPushed' >= lastPushed
  BY <1>1 DEF TapInv
<1>5. (CursorShape /\ CopiesInOrder /\ PhaseKept)'
  BY <1>1, <1>2, <1>4, CursorUntouched
<1> QED BY <1>3, <1>5 DEF CursorInv

\* A block that is pushed is later than those before.
LEMMA RenderEndsKeepsCursor ==
  ASSUME RingInv, TapInv, CursorInv, RenderEnds
  PROVE  CursorInv'
<1>1. writing /\ CommitPush(rendered) /\ IsBlock(rendered)
  BY DEF RenderEnds, CommitPush, TapInv
<1>2. /\ writeSequence' = writeSequence + 1
      /\ UNCHANGED <<readSequence, held>> /\ ~writing'
      /\ slots'[Slot(writeSequence)] = rendered
      /\ \A i \in Inside : slots'[Slot(i)] = slots[Slot(i)]
  BY <1>1, CommitPushKeeps DEF CommitPush, consumerVars
<1>3. /\ UNCHANGED <<window, using, sourceOffset, expected, pending, aligned, alignmentPending,
                     continuous, primed, played, phase, copied>>
      /\ lastPushed' = rendered.timestamp
  BY DEF RenderEnds, cursorVars, alignmentVars
<1>4. writeSequence \in Nat /\ readSequence \in Nat /\ readSequence <= writeSequence
  BY DEF RingInv, Numbers
<1>5. Inside' = Inside \cup {writeSequence} /\ \A i \in Inside : i \in Nat /\ i < writeSequence
  BY <1>2, <1>4 DEF Inside
<1>6. BlocksAscend /\ IsTimed(rendered) /\ rendered.timestamp > lastPushed /\ lastPushed \in Nat
  BY <1>1 DEF CursorInv, BlocksAscend, TapInv
<1>7. \A i \in Inside : /\ slots'[Slot(i)] = Block(i) /\ IsTimed(Block(i))
                        /\ Block(i).timestamp < rendered.timestamp
  BY <1>2, <1>6 DEF BlocksAscend, Block, IsTimed
<1>8. BlocksAscend'
  <2>1. \A i \in Inside' : IsTimed(slots'[Slot(i)]) /\ slots'[Slot(i)].timestamp <= lastPushed'
    BY <1>2, <1>3, <1>5, <1>6, <1>7 DEF IsTimed
  <2>2. \A i, j \in Inside' : i < j => slots'[Slot(i)].timestamp < slots'[Slot(j)].timestamp
    <3> SUFFICES ASSUME NEW i \in Inside', NEW j \in Inside', i < j
                 PROVE  slots'[Slot(i)].timestamp < slots'[Slot(j)].timestamp
      OBVIOUS
    <3>1. i \in Inside
      BY <1>4, <1>5
    <3>2. CASE j \in Inside
      BY <1>6, <1>7, <3>1, <3>2 DEF BlocksAscend
    <3>3. CASE j = writeSequence
      BY <1>2, <1>7, <3>1, <3>3
    <3> QED BY <1>5, <3>2, <3>3
  <2> QED BY <1>2, <2>1, <2>2 DEF BlocksAscend, Block, IsTimed
<1>9. (CursorShape /\ CopiesInOrder /\ PhaseKept)'
  <2>1. lastPushed' \in Nat /\ lastPushed' >= lastPushed
    BY <1>3, <1>6 DEF IsTimed
  <2>2. \A i \in Inside' : i \in Inside \/ (/\ slots'[Slot(i)].timestamp \in Nat
                                            /\ slots'[Slot(i)].timestamp > lastPushed)
    BY <1>2, <1>5, <1>6 DEF IsTimed
  <2> QED BY <1>2, <1>3, <2>1, <2>2, CursorUntouched
<1> QED BY <1>8, <1>9 DEF CursorInv

\* Looking at the ring: what is taken is queued, and a block that is copied in parts is seen.
LEMMA LooksKeepCursor ==
  ASSUME RingInv, TapInv, CursorInv, UNCHANGED tapVars,
         NEW seen, NotPrimed(seen) \/ Underrun(seen) \/ TakeBlock(seen)
  PROVE  CursorInv'
<1>0. BlocksAscend /\ CursorShape /\ CopiesInOrder /\ PhaseKept
  BY DEF CursorInv
<1>1. /\ UNCHANGED <<slots, writeSequence, readSequence, writing, lastPushed, rendered>>
      /\ held => held'
      /\ Available(seen) > 0 => held'
      /\ held => ~(Available(seen) = 0)
  <2>1. BeginPop(seen)
    BY DEF NotPrimed, Underrun, TakeBlock
  <2>2. readSequence \in Nat /\ knownWrite \in Nat /\ writeSequence \in Nat
    BY DEF RingInv, Numbers
  <2>3. held => readSequence < knownWrite
    BY DEF RingInv, Numbers
  <2>4. seen \in knownWrite..writeSequence
    BY <2>1 DEF BeginPop, Loadable
  <2>5. held => ~(Available(seen) = 0)
    BY <2>2, <2>3, <2>4 DEF Available
  <2>6. held' = (held \/ Available(seen) > 0) /\ UNCHANGED <<slots, writeSequence, readSequence, writing>>
    BY <2>1 DEF BeginPop, producerVars
  <2> QED BY <2>5, <2>6 DEF tapVars
<1>2. Inside' = Inside /\ Front' = Front /\ \A i \in Inside : Block(i)' = Block(i)
  BY <1>1 DEF Inside, Front, Block
<1>3. BlocksAscend'
  BY <1>0, <1>1, <1>2, AscendKept DEF Block, BlocksAscend
<1>4. UNCHANGED <<sourceOffset, copied>>
  BY DEF NotPrimed, Underrun, TakeBlock
<1>5. CopiesInOrder'
  BY <1>0, <1>1, <1>2, <1>4 DEF CopiesInOrder
<1>6. CursorShape' /\ PhaseKept'
  <2>0. Frames \in Nat /\ Frames > 0
    BY FramesAssumption
  <2>1. CASE NotPrimed(seen)
    <3>1. /\ UNCHANGED <<using, expected, pending, aligned, alignmentPending, continuous, primed, phase>>
          /\ window' = NoWindow /\ played' = played + Frames /\ ~primed /\ ~using
      BY <2>1 DEF NotPrimed, EndWindow, GoesOnAt, alignmentVars, InWindow
    <3>2. CursorShape'
      <4>1. played' \in Nat
        BY <1>0, <2>0, <3>1 DEF CursorShape
      <4> QED BY <1>0, <1>1, <1>4, <3>1, <4>1 DEF CursorShape
    <3>3. PhaseKept'
      BY <1>0, <3>1 DEF PhaseKept
    <3> QED BY <3>2, <3>3
  <2>2. CASE Underrun(seen)
    <3>1. /\ window' = NoWindow /\ played' = played + Frames /\ ~primed' /\ ~using /\ ~using'
          /\ phase' = Unknown /\ Available(seen) = 0
          /\ \/ UNCHANGED <<expected, pending, aligned, alignmentPending, continuous>>
             \/ /\ expected' = 0 /\ pending' = 0
                /\ aligned' = FALSE /\ alignmentPending' = FALSE /\ continuous' = FALSE
      BY <2>2 DEF Underrun, EndWindow, GoesOnAt, alignmentVars, InWindow, ResetAlignment
    <3>2. ~held /\ ~(sourceOffset > 0) /\ ~aligned
      BY <1>0, <1>1, <3>1 DEF CursorShape
    <3>3. CursorShape'
      <4>1. played' \in Nat
        BY <1>0, <2>0, <3>1 DEF CursorShape
      <4>2. /\ expected' \in Int /\ pending' \in Int /\ aligned' = FALSE
            /\ continuous' \in BOOLEAN /\ alignmentPending' \in BOOLEAN
            /\ ~alignmentPending' => pending' = 0
            /\ continuous' => expected' > 0
        <5>1. CASE UNCHANGED <<expected, pending, aligned, alignmentPending, continuous>>
          BY <1>0, <3>2, <5>1 DEF CursorShape
        <5>2. CASE /\ expected' = 0 /\ pending' = 0
                   /\ aligned' = FALSE /\ alignmentPending' = FALSE /\ continuous' = FALSE
          <6>1. expected' \in Int /\ pending' \in Int /\ pending' = 0
            BY <5>2
          <6>2. ~continuous' /\ continuous' \in BOOLEAN /\ alignmentPending' \in BOOLEAN /\ aligned' = FALSE
            BY <5>2
          <6> QED BY <6>1, <6>2
        <5> QED BY <3>1, <5>1, <5>2
      <4>3. sourceOffset' \in 0..(Frames - 1) /\ ~(sourceOffset' > 0)
        BY <1>0, <1>4, <3>2 DEF CursorShape
      <4> QED BY <3>1, <4>1, <4>2, <4>3 DEF CursorShape
    <3>4. PhaseKept'
      BY <3>1 DEF PhaseKept, Unknown
    <3> QED BY <3>3, <3>4
  <2>3. CASE TakeBlock(seen)
    <3>1. /\ UNCHANGED <<window, expected, pending, aligned, alignmentPending, continuous, played, phase>>
          /\ primed' /\ using' /\ window # NoWindow /\ Available(seen) > 0
      BY <2>3 DEF TakeBlock, alignmentVars, InWindow
    <3>2. CursorShape'
      BY <1>0, <1>1, <1>4, <3>1 DEF CursorShape
    <3>3. PhaseKept'
      BY <1>0, <1>1, <1>2, <1>4, <3>1 DEF PhaseKept, Position
    <3> QED BY <3>2, <3>3
  <2> QED BY <2>1, <2>2, <2>3
<1> QED BY <1>3, <1>5, <1>6 DEF CursorInv

----------------------------------------------------------------------------
(* Dealing with a block.                                                   *)

\* The alignment that is used is the one that the phase stands for: for the part of a block
\* that remains, for a block that follows, and after a step in the timestamps.
LEMMA AlignmentFitsPhase ==
  ASSUME RingInv, CursorInv, using, NotePhase(Front)
  PROVE  /\ window \in 0..(Frames - 1) /\ Position = played + window
         /\ Alignment(Front) \in Int /\ (aligned => Alignment(Front) = 0)
         /\ phase'.known \in BOOLEAN /\ phase'.at \in Int
         /\ phase'.known =>
              phase'.at = played + window + Alignment(Front) - Front.timestamp - sourceOffset
<1> DEFINE b == Front
<1>0. BlocksAscend /\ CursorShape /\ CopiesInOrder /\ PhaseKept /\ held
  BY DEF CursorInv, CursorShape
<1>1. b.timestamp \in Nat /\ b.alignment \in Int
  BY <1>0, HeldInside DEF IsTimed
<1>2. /\ window \in 0..(Frames - 1) /\ window # NoWindow /\ played \in Nat
      /\ expected \in Int /\ pending \in Int
      /\ sourceOffset \in 0..(Frames - 1) /\ (aligned <=> sourceOffset > 0)
      /\ aligned \in BOOLEAN /\ continuous \in BOOLEAN
      /\ ~alignmentPending => pending = 0
      /\ continuous => expected > 0
    BY <1>0 DEF CursorShape
<1>3. Position = played + window
  BY <1>2 DEF Position
<1>4. /\ phase.known \in BOOLEAN /\ phase.at \in Int
      /\ phase.known /\ aligned => phase.at = played + window - b.timestamp - sourceOffset
      /\ phase.known /\ ~aligned /\ continuous => phase.at = played + window + pending - expected
      /\ phase.known /\ ~aligned /\ ~continuous => phase.at = played + window + pending - b.timestamp
  <2>1. /\ phase.known \in BOOLEAN /\ phase.at \in Int
        /\ phase.known /\ aligned => phase.at = Position - b.timestamp - sourceOffset
        /\ phase.known /\ ~aligned /\ continuous => phase.at = Position + pending - expected
        /\ phase.known /\ ~aligned /\ ~continuous => phase.at = Position + pending - b.timestamp
    BY <1>0, Zenon DEF PhaseKept, b
  <2>2. ASSUME phase.known, aligned PROVE phase.at = played + window - b.timestamp - sourceOffset
    BY <1>1, <1>2, <1>3, <2>1, <2>2
  <2>3. ASSUME phase.known, ~aligned, continuous PROVE phase.at = played + window + pending - expected
    BY <1>3, <2>1, <2>3
  <2>4. ASSUME phase.known, ~aligned, ~continuous PROVE phase.at = played + window + pending - b.timestamp
    BY <1>3, <2>1, <2>4
  <2> QED BY <2>1, <2>2, <2>3, <2>4, Zenon
<1> HIDE DEF b
<1>5. ASSUME sourceOffset = 0, phase'.known => phase'.at = played + window + Alignment(b) - b.timestamp
      PROVE  phase'.known => phase'.at = played + window + Alignment(b) - b.timestamp - sourceOffset
  <2> SUFFICES ASSUME phase'.known
               PROVE  phase'.at = played + window + Alignment(b) - b.timestamp - sourceOffset
    OBVIOUS
  <2> QED BY <1>1, <1>2, <1>5 DEF Alignment
<1>6. CASE aligned
  <2>1. ~Realigns(b)
    BY <1>6 DEF Realigns
  <2>2. Alignment(b) = 0 /\ phase' = phase
    BY <1>6, <2>1 DEF Alignment, NotePhase, b
  <2>3. phase'.known =>
          phase'.at = played + window + Alignment(b) - b.timestamp - sourceOffset
    <3>1. Alignment(b) = 0 => played + window + Alignment(b) - b.timestamp - sourceOffset
                                = played + window - b.timestamp - sourceOffset
      BY <1>1, <1>2
    <3> QED BY <1>4, <1>6, <2>2, <3>1, Zenon
  <2>4. Alignment(b) \in Int /\ (aligned => Alignment(b) = 0)
    BY <2>2
  <2>5. phase'.known \in BOOLEAN /\ phase'.at \in Int
    BY <1>4, <2>2
  <2> QED BY <1>2, <1>3, <2>3, <2>4, <2>5, Zenon DEF b
<1>7. CASE ~aligned /\ Realigns(b) /\ continuous
  <2>1. Alignment(b) = b.timestamp - expected /\ phase' = phase
    BY <1>2, <1>7 DEF Alignment, NotePhase, b
  <2>2. ~alignmentPending /\ pending = 0 /\ sourceOffset = 0
    BY <1>2, <1>7 DEF Realigns
  <2>3. phase'.known => phase'.at = played + window + Alignment(b) - b.timestamp
    BY <1>1, <1>2, <1>4, <1>7, <2>1, <2>2
  <2> QED BY <1>1, <1>2, <1>3, <1>4, <1>5, <1>7, <2>1, <2>2, <2>3 DEF b
<1>8. CASE ~aligned /\ Realigns(b) /\ ~continuous
  <2>1. Alignment(b) = b.alignment /\ phase' = Known(played + window + b.alignment - b.timestamp)
    BY <1>8 DEF Alignment, NotePhase, b
  <2>2. sourceOffset = 0
    BY <1>2, <1>8
  <2>3. phase'.known = TRUE /\ phase'.at = played + window + b.alignment - b.timestamp
    BY <2>1 DEF Known
  <2>4. phase'.known => phase'.at = played + window + Alignment(b) - b.timestamp - sourceOffset
    BY <1>5, <2>1, <2>2, <2>3
  <2>5. Alignment(b) \in Int /\ (aligned => Alignment(b) = 0)
    BY <1>1, <1>8, <2>1
  <2>6. phase'.known \in BOOLEAN /\ phase'.at \in Int
    <3>1. played + window + b.alignment - b.timestamp \in Int
      BY <1>1, <1>2
    <3> QED BY <2>3, <3>1
  <2> QED BY <1>2, <1>3, <2>4, <2>5, <2>6, Zenon DEF b
<1>9. CASE ~aligned /\ ~Realigns(b) /\ (~continuous \/ Contiguous(b))
  <2>1. Alignment(b) = pending /\ phase' = phase
    BY <1>9 DEF Alignment, NotePhase, b
  <2>2. sourceOffset = 0
    BY <1>2, <1>9
  <2>3. phase'.known => phase'.at = played + window + Alignment(b) - b.timestamp
    <3>1. CASE continuous
      <4>1. expected = b.timestamp
        BY <1>9, <3>1 DEF Contiguous
      <4> QED BY <1>4, <1>9, <2>1, <3>1, <4>1
    <3>2. CASE ~continuous
      BY <1>4, <1>9, <2>1, <3>2
    <3> QED BY <3>1, <3>2
  <2> QED BY <1>2, <1>3, <1>4, <1>5, <1>9, <2>1, <2>2, <2>3 DEF b
<1>10. CASE ~aligned /\ ~Realigns(b) /\ continuous /\ ~Contiguous(b)
  <2>1. sourceOffset = 0
    BY <1>2, <1>10
  <2>2. Alignment(b) = pending /\ phase' = Unknown
    BY <1>10, <2>1 DEF Alignment, NotePhase, b
  <2> QED BY <1>2, <1>3, <1>10, <2>2 DEF Unknown, b
<1> QED BY <1>2, <1>6, <1>7, <1>8, <1>9, <1>10

\* A block that is given back leaves later ones.
LEMMA PopKeepsOrder ==
  ASSUME RingInv, CursorInv, CommitPop, UNCHANGED tapVars, sourceOffset' = 0,
         \/ copied' = copied
         \/ copied'.block = Front.timestamp /\ copied'.of \in Int /\ copied'.frames \in Int
  PROVE  BlocksAscend' /\ CopiesInOrder'
<1>0. BlocksAscend /\ CopiesInOrder /\ held
  BY DEF CursorInv, CommitPop
<1>1. /\ UNCHANGED <<slots, writeSequence, writing, lastPushed, rendered>>
      /\ readSequence' = readSequence + 1
  BY DEF CommitPop, producerVars, tapVars
<1>2. /\ readSequence \in Inside /\ readSequence \in Nat /\ writeSequence \in Nat
      /\ Front = Block(readSequence) /\ IsTimed(Front) /\ Front.timestamp <= lastPushed
  BY <1>0, HeldInside DEF RingInv, Numbers
<1>3. Inside' \subseteq Inside /\ \A i \in Inside' : i # readSequence /\ readSequence < i
  BY <1>1, <1>2 DEF Inside
<1>4. \A i \in Inside' : Block(i)' = Block(i) /\ slots'[Slot(i)] = slots[Slot(i)]
  BY <1>1 DEF Block
<1>5. BlocksAscend'
  <2>1. writing' => IsTimed(rendered') /\ rendered'.timestamp > lastPushed
    BY <1>0, <1>1 DEF BlocksAscend
  <2> QED BY <1>0, <1>1, <1>3, <1>4, <2>1, AscendKept
<1>6. \A i \in Inside' : Front.timestamp < Block(i).timestamp /\ copied.block < Block(i).timestamp
  BY <1>0, <1>2, <1>3 DEF BlocksAscend, CopiesInOrder
<1>7. \A i \in Inside' : copied'.block < Block(i)'.timestamp
  BY <1>4, <1>6
<1>8. copied'.block \in Int /\ copied'.block <= lastPushed' /\ copied'.of \in Int /\ copied'.frames \in Int
  <2>1. copied.block \in Int /\ copied.block <= lastPushed /\ copied.of \in Int /\ copied.frames \in Int
    BY <1>0 DEF CopiesInOrder
  <2>2. Front.timestamp \in Int
    BY <1>2 DEF IsTimed
  <2> QED BY <1>1, <1>2, <2>1, <2>2
<1>9. ~(sourceOffset' > 0)
  OBVIOUS
<1> QED BY <1>5, <1>7, <1>8, <1>9 DEF CopiesInOrder

\* A block of another format.
LEMMA DiscardKeeps ==
  ASSUME RingInv, CursorInv, Discard, UNCHANGED tapVars
  PROVE  CursorInv'
<1>1. /\ CommitPop /\ ~held' /\ ~using' /\ ~primed' /\ sourceOffset' = 0 /\ phase' = Unknown
      /\ expected' = 0 /\ pending' = 0 /\ UNCHANGED <<window, played, copied>>
      /\ aligned' = FALSE /\ alignmentPending' = FALSE /\ continuous' = FALSE
  BY DEF Discard, CommitPop, ResetAlignment
<1>2. BlocksAscend' /\ CopiesInOrder'
  BY <1>1, PopKeepsOrder
<1>3. CursorShape'
  <2>1. /\ window' = NoWindow \/ window' \in 0..(Frames - 1)
        /\ played' \in Nat
    BY <1>1 DEF CursorInv, CursorShape
  <2>2. /\ sourceOffset' \in 0..(Frames - 1) /\ ~(sourceOffset' > 0)
        /\ expected' \in Int /\ pending' \in Int
    BY <1>1, FramesAssumption
  <2>3. /\ aligned' \in BOOLEAN /\ continuous' \in BOOLEAN /\ alignmentPending' \in BOOLEAN
        /\ ~aligned' /\ ~continuous'
    BY <1>1
  <2> QED BY <1>1, <2>1, <2>2, <2>3 DEF CursorShape
<1>4. PhaseKept'
  BY <1>1 DEF PhaseKept, Unknown
<1> QED BY <1>2, <1>3, <1>4 DEF CursorInv

\* Silence to the end of the window; what is owed beyond it stays.
LEMMA SilenceKeeps ==
  ASSUME RingInv, CursorInv, Silence, UNCHANGED tapVars
  PROVE  CursorInv'
<1> DEFINE b == Front
<1> DEFINE owed == Alignment(Front)
<1>0. BlocksAscend /\ CursorShape /\ CopiesInOrder /\ PhaseKept /\ held /\ using /\ primed
  BY DEF CursorInv, CursorShape, Silence
<1>1. /\ owed >= Frames - window /\ ~using' /\ window' = NoWindow /\ played' = played + Frames
      /\ pending' = owed - (Frames - window) /\ alignmentPending' = TRUE
      /\ continuous' = (continuous /\ ~Realigns(b))
      /\ NotePhase(b)
      /\ UNCHANGED <<sourceOffset, expected, aligned, primed, copied>>
      /\ UNCHANGED <<slots, writeSequence, readSequence, writing, held>>
  BY DEF Silence, EndWindow, GoesOnAt, ringVars, producerVars, consumerVars
<1>2. /\ window \in 0..(Frames - 1) /\ owed \in Int /\ (aligned => owed = 0)
      /\ phase'.known \in BOOLEAN /\ phase'.at \in Int
      /\ phase'.known => phase'.at = played + window + owed - b.timestamp - sourceOffset
  BY <1>0, <1>1, AlignmentFitsPhase
<1>3. Frames \in Nat /\ Frames > 0
  BY FramesAssumption
<1>4. /\ played \in Nat /\ expected \in Int /\ sourceOffset \in 0..(Frames - 1)
      /\ aligned <=> sourceOffset > 0
      /\ aligned \in BOOLEAN /\ continuous \in BOOLEAN
      /\ continuous => expected > 0
  BY <1>0 DEF CursorShape
<1>5. ~aligned /\ ~(sourceOffset > 0) /\ sourceOffset = 0
  <2>1. ~(owed = 0)
    BY <1>1, <1>2, <1>3
  <2> QED BY <1>2, <1>4, <2>1
<1>6. b.timestamp \in Nat
  BY <1>0, HeldInside DEF IsTimed
<1>7. Inside' = Inside /\ Front' = Front /\ \A i \in Inside : Block(i)' = Block(i)
  BY <1>1 DEF Inside, Front, Block
<1>8. BlocksAscend' /\ CopiesInOrder'
  <2>1. lastPushed' = lastPushed /\ rendered' = rendered
    BY DEF tapVars
  <2>2. BlocksAscend'
    BY <1>0, <1>1, <1>7, <2>1, AscendKept DEF Block, BlocksAscend
  <2>3. CopiesInOrder'
    BY <1>0, <1>1, <1>7, <2>1 DEF CopiesInOrder
  <2> QED BY <2>2, <2>3
<1>9. CursorShape'
  <2>1. played' \in Nat /\ pending' \in Int /\ expected' \in Int /\ sourceOffset' \in 0..(Frames - 1)
    BY <1>1, <1>2, <1>3, <1>4
  <2>2. continuous' \in BOOLEAN /\ (continuous' => continuous) /\ alignmentPending' \in BOOLEAN
    BY <1>1, <1>4
  <2>3. continuous' => expected' > 0
    BY <1>1, <1>4, <2>2
  <2> QED BY <1>1, <1>4, <1>5, <2>1, <2>2, <2>3 DEF CursorShape
<1>10. PhaseKept'
  <2>1. Position' = played + Frames
    <3>1. played + Frames + 0 = played + Frames
      BY <1>3, <1>4
    <3> QED BY <1>1, <3>1 DEF Position
  <2>2. phase'.known => phase'.at = Position' + pending' - b.timestamp
    <3> SUFFICES ASSUME phase'.known PROVE phase'.at = Position' + pending' - b.timestamp
      OBVIOUS
    <3> HIDE DEF owed, b
    <3> QED BY <1>1, <1>2, <1>3, <1>4, <1>5, <1>6, <2>1
  <2>3. continuous' /\ phase'.known => expected = b.timestamp
    <3> SUFFICES ASSUME continuous', phase'.known PROVE expected = b.timestamp
      OBVIOUS
    <3>1. continuous /\ ~Realigns(b)
      BY <1>1
    <3>2. phase' # Unknown
      BY DEF Unknown
    <3>3. Contiguous(b)
      BY <1>1, <1>5, <3>1, <3>2 DEF NotePhase
    <3> QED BY <3>3 DEF Contiguous
  <2>4. ASSUME phase'.known, continuous' PROVE phase'.at = Position' + pending' - expected'
    BY <1>1, <2>2, <2>3, <2>4
  <2>5. ~aligned' /\ primed' /\ held' /\ Front' = b
    BY <1>0, <1>1, <1>5, <1>7
  <2> HIDE DEF b
  <2> QED BY <1>2, <2>2, <2>4, <2>5, Zenon DEF PhaseKept
<1> QED BY <1>8, <1>9, <1>10 DEF CursorInv

\* finish_block: the next block is expected where this one ends.
LEMMA FinishKeeps ==
  ASSUME RingInv, CursorInv, using, UNCHANGED <<tapVars, primed>>, ~using',
         NEW owed \in Int, FinishBlock(Front, owed),
         window' = NoWindow \/ window' \in 0..(Frames - 1), played' \in Nat,
         \/ copied' = copied
         \/ copied'.block = Front.timestamp /\ copied'.of \in Int /\ copied'.frames \in Int,
         phase'.known \in BOOLEAN, phase'.at \in Int,
         phase'.known => phase'.at = Position' + owed - (Front.timestamp + Frames)
  PROVE  CursorInv'
<1>0. BlocksAscend /\ CursorShape /\ held /\ primed
  BY DEF CursorInv, CursorShape
<1>1. /\ CommitPop /\ sourceOffset' = 0 /\ expected' = Front.timestamp + Frames /\ continuous' = TRUE
      /\ aligned' = FALSE /\ alignmentPending' = (owed # 0) /\ pending' = owed
  BY DEF FinishBlock
<1>2. BlocksAscend' /\ CopiesInOrder'
  BY <1>1, PopKeepsOrder
<1>3. Front.timestamp \in Nat /\ Front.timestamp > 0 /\ Frames \in Nat /\ Frames > 0
  BY <1>0, HeldInside, FramesAssumption DEF IsTimed
<1>4. CursorShape'
  <2>1. /\ expected' \in Int /\ expected' > 0 /\ pending' \in Int
        /\ sourceOffset' \in 0..(Frames - 1) /\ ~(sourceOffset' > 0)
    BY <1>1, <1>3
  <2>2. /\ aligned' \in BOOLEAN /\ continuous' \in BOOLEAN /\ alignmentPending' \in BOOLEAN
        /\ ~aligned' /\ (~alignmentPending' => pending' = 0)
    BY <1>1
  <2> QED BY <2>1, <2>2 DEF CursorShape
<1>5. PhaseKept'
  <2>1. phase'.known => phase'.at = Position' + pending' - expected'
    BY <1>1
  <2>2. primed' /\ ~aligned' /\ continuous'
    BY <1>0, <1>1
  <2> QED BY <2>1, <2>2, Zenon DEF PhaseKept
<1> QED BY <1>2, <1>4, <1>5 DEF CursorInv

\* A block that is skipped.
LEMMA SkipKeeps ==
  ASSUME RingInv, CursorInv, Skip, UNCHANGED tapVars
  PROVE  CursorInv'
<1> DEFINE b == Front
<1> DEFINE owed == Alignment(Front)
<1>0. BlocksAscend /\ CursorShape /\ held /\ using
  BY DEF CursorInv, CursorShape, Skip
<1>1. /\ -owed >= Frames - sourceOffset /\ ~using'
      /\ FinishBlock(b, owed + (Frames - sourceOffset))
      /\ NotePhase(b)
      /\ UNCHANGED <<window, primed, played, copied>>
  BY DEF Skip
<1>2. /\ window \in 0..(Frames - 1) /\ Position = played + window
      /\ owed \in Int /\ (aligned => owed = 0)
      /\ phase'.known \in BOOLEAN /\ phase'.at \in Int
      /\ phase'.known => phase'.at = played + window + owed - b.timestamp - sourceOffset
  BY <1>0, <1>1, AlignmentFitsPhase
<1>3. /\ Frames \in Nat /\ played \in Nat /\ sourceOffset \in 0..(Frames - 1) /\ b.timestamp \in Nat
      /\ window' = NoWindow \/ window' \in 0..(Frames - 1)
  BY <1>0, <1>1, <1>2, HeldInside, FramesAssumption DEF IsTimed, CursorShape
<1>4. Position' = played + window
  BY <1>1, <1>2 DEF Position
<1> HIDE DEF owed, b
<1>5. owed + (Frames - sourceOffset) \in Int
  BY <1>2, <1>3
<1>6. ASSUME phase'.known
      PROVE  phase'.at = Position' + (owed + (Frames - sourceOffset)) - (b.timestamp + Frames)
  BY <1>2, <1>3, <1>4, <1>6
<1> QED BY <1>0, <1>1, <1>2, <1>3, <1>5, <1>6, FinishKeeps DEF b

\* What a copy takes and where it puts it.
LEMMA CopyPlaces ==
  ASSUME RingInv, CursorInv, Copy
  PROVE  \E from \in Nat, to \in Nat, count \in Nat, owed \in Int :
           /\ owed = Alignment(Front)
           /\ count > 0 /\ from + count <= Frames /\ to + count <= Frames
           /\ from + count = Frames \/ to + count = Frames
           /\ to - from = window + owed - sourceOffset
           /\ sourceOffset > 0 => from = sourceOffset
           /\ copied' = [block |-> Front.timestamp, at |-> played + to,
                         of |-> Front.timestamp + from, frames |-> count]
           /\ GoesOnAt(to + count)
           /\ IF from + count = Frames
              THEN FinishBlock(Front, 0)
              ELSE /\ sourceOffset' = from + count
                   /\ aligned' = TRUE /\ alignmentPending' = FALSE /\ pending' = 0
                   /\ continuous' = (continuous /\ ~Realigns(Front))
                   /\ UNCHANGED <<expected, ringVars>>
<1> DEFINE owed == Alignment(Front)
<1> DEFINE from == sourceOffset + Max({-owed, 0})
<1> DEFINE to == window + Max({owed, 0})
<1> DEFINE count == Min({Frames - from, Frames - to})
<1>0. using /\ NotePhase(Front) /\ CursorShape
  BY DEF Copy, CursorInv
<1>1. window \in 0..(Frames - 1) /\ owed \in Int /\ (aligned => owed = 0)
  BY <1>0, AlignmentFitsPhase
<1>2. Frames \in Nat /\ sourceOffset \in 0..(Frames - 1) /\ (sourceOffset > 0 => aligned)
  BY <1>0, FramesAssumption DEF CursorShape
<1>3. /\ from < Frames /\ to < Frames
      /\ copied' = [block |-> Front.timestamp, at |-> played + to,
                    of |-> Front.timestamp + from, frames |-> count]
      /\ GoesOnAt(to + count)
      /\ IF from + count = Frames
         THEN FinishBlock(Front, 0)
         ELSE /\ sourceOffset' = from + count
              /\ aligned' = TRUE /\ alignmentPending' = FALSE /\ pending' = 0
              /\ continuous' = (continuous /\ ~Realigns(Front))
              /\ UNCHANGED <<expected, ringVars>>
  BY DEF Copy
<1> HIDE DEF owed
<1>4. /\ Max({-owed, 0}) = (IF -owed >= 0 THEN -owed ELSE 0)
      /\ Max({owed, 0}) = (IF owed >= 0 THEN owed ELSE 0)
  BY <1>1, MaxOfTwo
<1>5. from \in Nat /\ to \in Nat /\ to - from = window + owed - sourceOffset
  BY <1>1, <1>2, <1>4
<1>6. sourceOffset > 0 => from = sourceOffset
  BY <1>1, <1>2, <1>4
<1> HIDE DEF from, to
<1>7. count = IF Frames - from <= Frames - to THEN Frames - from ELSE Frames - to
  BY <1>2, <1>5, MinOfTwo
<1> HIDE DEF count
<1>8. /\ count \in Nat /\ count > 0 /\ from + count <= Frames /\ to + count <= Frames
      /\ from + count = Frames \/ to + count = Frames
  BY <1>2, <1>3, <1>5, <1>7
<1> QED BY <1>1, <1>3, <1>5, <1>6, <1>8 DEF owed

\* A copy, of a whole block or of a part of it.
LEMMA CopyKeeps ==
  ASSUME RingInv, CursorInv, Copy, UNCHANGED tapVars
  PROVE  CursorInv'
<1> DEFINE b == Front
<1>0. BlocksAscend /\ CursorShape /\ CopiesInOrder /\ held /\ using /\ primed /\ NotePhase(b)
  BY DEF CursorInv, CursorShape, Copy
<1>1. PICK from \in Nat, to \in Nat, count \in Nat, owed \in Int :
        /\ owed = Alignment(b)
        /\ count > 0 /\ from + count <= Frames /\ to + count <= Frames
        /\ from + count = Frames \/ to + count = Frames
        /\ to - from = window + owed - sourceOffset
        /\ sourceOffset > 0 => from = sourceOffset
        /\ copied' = [block |-> b.timestamp, at |-> played + to,
                      of |-> b.timestamp + from, frames |-> count]
        /\ GoesOnAt(to + count)
        /\ IF from + count = Frames
           THEN FinishBlock(b, 0)
           ELSE /\ sourceOffset' = from + count
                /\ aligned' = TRUE /\ alignmentPending' = FALSE /\ pending' = 0
                /\ continuous' = (continuous /\ ~Realigns(b))
                /\ UNCHANGED <<expected, ringVars>>
  BY CopyPlaces
<1>2. /\ window \in 0..(Frames - 1)
      /\ phase'.known \in BOOLEAN /\ phase'.at \in Int
      /\ phase'.known => phase'.at = played + window + owed - b.timestamp - sourceOffset
  BY <1>0, <1>1, AlignmentFitsPhase
<1>3. /\ Frames \in Nat /\ Frames > 0 /\ played \in Nat /\ sourceOffset \in 0..(Frames - 1)
      /\ expected \in Int /\ continuous \in BOOLEAN /\ (continuous => expected > 0)
      /\ b.timestamp \in Nat /\ b.timestamp <= lastPushed
  BY <1>0, HeldInside, FramesAssumption DEF IsTimed, CursorShape
<1>4. ~using' /\ primed' = primed
  BY DEF Copy
<1>5. Position' = played + to + count /\ (window' = NoWindow \/ window' \in 0..(Frames - 1)) /\ played' \in Nat
  <2>1. CASE to + count = Frames
    <3>1. window' = NoWindow /\ played' = played + Frames
      BY <1>1, <2>1 DEF GoesOnAt
    <3>2. played + Frames \in Nat /\ played + Frames + 0 = played + to + count
      BY <1>3, <2>1
    <3> QED BY <3>1, <3>2 DEF Position
  <2>2. CASE to + count # Frames
    <3>1. window' = to + count /\ played' = played
      BY <1>1, <2>2 DEF GoesOnAt
    <3>2. to + count \in 0..(Frames - 1) /\ played + (to + count) = played + to + count
      BY <1>1, <1>3, <2>2
    <3>3. to + count # NoWindow
      BY <3>2 DEF NoWindow
    <3> QED BY <1>3, <3>1, <3>2, <3>3 DEF Position
  <2> QED BY <2>1, <2>2
<1> HIDE DEF b
<1>6. /\ copied'.block = b.timestamp /\ copied'.of = b.timestamp + from /\ copied'.frames = count
      /\ copied'.of \in Int /\ copied'.frames \in Int
  BY <1>1, <1>3
<1>7. phase'.known => phase'.at = Position' - b.timestamp - (from + count)
  <2> SUFFICES ASSUME phase'.known PROVE phase'.at = Position' - b.timestamp - (from + count)
    OBVIOUS
  <2> QED BY <1>1, <1>2, <1>3, <1>5
<1>8. CASE from + count = Frames
  <2>1. FinishBlock(b, 0) /\ 0 \in Int
    BY <1>1, <1>8
  <2>2. ASSUME phase'.known PROVE phase'.at = Position' + 0 - (b.timestamp + Frames)
    <3>1. Position' \in Int
      BY <1>1, <1>3, <1>5
    <3> QED BY <1>3, <1>7, <1>8, <2>2, <3>1
  <2> QED BY <1>0, <1>2, <1>4, <1>5, <1>6, <2>1, <2>2, FinishKeeps DEF b
<1>9. CASE from + count # Frames
  <2>1. /\ sourceOffset' = from + count
        /\ aligned' = TRUE /\ alignmentPending' = FALSE /\ pending' = 0
        /\ continuous' = (continuous /\ ~Realigns(b)) /\ expected' = expected
        /\ UNCHANGED <<slots, writeSequence, readSequence, writing, held>>
    BY <1>1, <1>9 DEF ringVars, producerVars, consumerVars
  <2>2. sourceOffset' \in 0..(Frames - 1) /\ sourceOffset' > 0
    BY <1>1, <1>3, <1>9, <2>1
  <2>3. Inside' = Inside /\ Front' = Front /\ \A i \in Inside : Block(i)' = Block(i)
    BY <2>1 DEF Inside, Front, Block
  <2>4. lastPushed' = lastPushed /\ rendered' = rendered
    BY DEF tapVars
  <2>5. BlocksAscend'
    BY <1>0, <2>1, <2>3, <2>4, AscendKept DEF Block, BlocksAscend
  <2>6. CopiesInOrder'
    <3>1. \A i \in Inside' : copied'.block < Block(i)'.timestamp \/ (i = readSequence' /\ sourceOffset' > 0)
      <4>1. \A i \in Inside : readSequence < i \/ i = readSequence
        BY DEF RingInv, Numbers, Inside
      <4>2. readSequence \in Inside /\ b = Block(readSequence)
        BY <1>0, HeldInside DEF b
      <4> QED BY <1>0, <1>6, <2>1, <2>2, <2>3, <4>1, <4>2 DEF BlocksAscend
    <3>2. copied'.of + copied'.frames = b.timestamp + sourceOffset'
      BY <1>1, <1>3, <1>6, <2>1
    <3> QED BY <1>3, <1>6, <2>3, <2>4, <3>1, <3>2 DEF CopiesInOrder, b
  <2>7. CursorShape'
    <3>1. /\ aligned' \in BOOLEAN /\ continuous' \in BOOLEAN /\ alignmentPending' \in BOOLEAN
          /\ aligned' /\ held' /\ (continuous' => continuous)
      BY <1>0, <1>3, <2>1
    <3>2. continuous' => expected' > 0
      BY <1>3, <2>1, <3>1
    <3>3. expected' \in Int /\ pending' \in Int /\ (~alignmentPending' => pending' = 0)
      BY <1>3, <2>1
    <3> QED BY <1>4, <1>5, <2>2, <3>1, <3>2, <3>3 DEF CursorShape
  <2>8. PhaseKept'
    <3>1. aligned' /\ primed' /\ Front' = b
      BY <1>0, <1>4, <2>1, <2>3 DEF b
    <3>2. phase'.known => phase'.at = Position' - b.timestamp - sourceOffset'
      BY <1>7, <2>1
    <3> QED BY <1>2, <3>1, <3>2, Zenon DEF PhaseKept
  <2> QED BY <2>5, <2>6, <2>7, <2>8 DEF CursorInv
<1> QED BY <1>8, <1>9

\* Every step keeps all of it.
LEMMA CursorInductive == RingInv /\ TapInv /\ CursorInv /\ [Next]_vars => CursorInv'
<1> SUFFICES ASSUME RingInv, TapInv, CursorInv, [Next]_vars PROVE CursorInv'
  OBVIOUS
<1>1. CASE \/ MainClockOutput \/ Pull \/ ForceSilence \/ UNCHANGED vars
           \/ \E t \in SourceTimes, fits \in BOOLEAN : Render(t, fits)
  BY <1>1, ProducerKeepsCursor
<1>2. CASE RenderEnds
  BY <1>2, RenderEndsKeepsCursor
<1>3. CASE Consume /\ UNCHANGED tapVars
  BY <1>3, LooksKeepCursor, DiscardKeeps, SilenceKeeps, SkipKeeps, CopyKeeps DEF Consume
<1> QED BY <1>1, <1>2, <1>3 DEF Next

\* All three invariants hold in every state.
LEMMA CursorInvariant == Spec => [](RingInv /\ TapInv /\ CursorInv)
<1>1. RingInv /\ TapInv /\ CursorInv /\ [Next]_vars => CursorInv'
  BY CursorInductive
<1> QED BY <1>1, CursorInvInit, TapInvariant, PTL DEF Spec

\* Only a copy changes what was copied last.
LEMMA OnlyCopyCopies ==
  ASSUME [Next]_vars, copied' # copied
  PROVE  Copy
BY DEF Next, MainClockOutput, Render, RenderEnds, Pull, Consume, NotPrimed, Underrun, TakeBlock, Discard,
       Silence, Skip, ForceSilence, vars, cursorVars

\* Each block is played once and in its turn, its frames without a gap, however the two
\* clocks interleave and wherever the windows cut.
THEOREM BlocksPlayedOnce == Spec => BlocksOnce
<1>1. ASSUME RingInv, CursorInv, [Next]_vars, copied' # copied
      PROVE  IF copied'.block = copied.block
             THEN copied'.of = copied.of + copied.frames
             ELSE copied'.block > copied.block
  <2>1. Copy
    BY <1>1, OnlyCopyCopies
  <2>2. PICK from \in Nat, to \in Nat, count \in Nat :
          /\ sourceOffset > 0 => from = sourceOffset
          /\ copied' = [block |-> Front.timestamp, at |-> played + to,
                        of |-> Front.timestamp + from, frames |-> count]
    BY <1>1, <2>1, CopyPlaces
  <2>3. BlocksAscend /\ CopiesInOrder /\ held
    BY <1>1, <2>1 DEF CursorInv, CursorShape, Copy
  <2>4. readSequence \in Inside /\ Front = Block(readSequence) /\ IsTimed(Front)
    BY <1>1, <2>3, HeldInside
  <2>5. copied.block \in Int /\ copied'.block = Front.timestamp /\ copied'.of = Front.timestamp + from
    BY <2>2, <2>3 DEF CopiesInOrder
  <2>6. copied.block < Front.timestamp \/ sourceOffset > 0
    BY <2>3, <2>4 DEF CopiesInOrder
  <2>7. CASE sourceOffset > 0
    BY <2>2, <2>3, <2>5, <2>7 DEF CopiesInOrder
  <2>8. CASE copied.block < Front.timestamp
    BY <2>4, <2>5, <2>8 DEF IsTimed
  <2> QED BY <2>6, <2>7, <2>8
<1>2. (RingInv /\ CursorInv /\ [Next]_vars) =>
        [copied' # copied =>
           IF copied'.block = copied.block
           THEN copied'.of = copied.of + copied.frames
           ELSE copied'.block > copied.block]_cursorVars
  BY <1>1
<1> QED BY <1>2, CursorInvariant, PTL DEF Spec, BlocksOnce

\* PCM stays where the alignment put it: silence, skips and copies of parts of a block, over
\* any number of windows, add up to what was owed.
THEOREM PhaseNeverDrifts == Spec => InPhase
<1>1. ASSUME RingInv, CursorInv, [Next]_vars, copied' # copied, phase'.known
      PROVE  copied'.at - copied'.of = phase'.at
  <2>1. Copy
    BY <1>1, OnlyCopyCopies
  <2>2. PICK from \in Nat, to \in Nat, count \in Nat, owed \in Int :
          /\ owed = Alignment(Front)
          /\ to - from = window + owed - sourceOffset
          /\ copied' = [block |-> Front.timestamp, at |-> played + to,
                        of |-> Front.timestamp + from, frames |-> count]
    BY <1>1, <2>1, CopyPlaces
  <2>3. using /\ NotePhase(Front) /\ held /\ CursorShape /\ BlocksAscend
    BY <1>1, <2>1 DEF Copy, CursorInv, CursorShape
  <2>4. window \in 0..(Frames - 1) /\ phase'.at = played + window + owed - Front.timestamp - sourceOffset
    BY <1>1, <2>2, <2>3, AlignmentFitsPhase
  <2>5. Front.timestamp \in Nat /\ played \in Nat /\ sourceOffset \in 0..(Frames - 1) /\ Frames \in Nat
    BY <1>1, <2>3, HeldInside, FramesAssumption DEF IsTimed, CursorShape
  <2>6. copied'.at = played + to /\ copied'.of = Front.timestamp + from
    BY <2>2
  <2> QED BY <2>2, <2>4, <2>5, <2>6
<1>2. (RingInv /\ CursorInv /\ [Next]_vars) =>
        [(copied' # copied /\ phase'.known) => copied'.at - copied'.of = phase'.at]_cursorVars
  BY <1>1
<1> QED BY <1>2, CursorInvariant, PTL DEF Spec, InPhase

=============================================================================
