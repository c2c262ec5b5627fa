---------------------------- MODULE PcmSpscFifo -----------------------------
(***************************************************************************)
(* The single-producer, single-consumer ring of                            *)
(* src/src/core/audio_spsc_fifo.hpp.  Each side writes its own counter,    *)
(* with release, and reads the other's, with acquire.  An acquire load may *)
(* return a value that is out of date, though never older than one it has  *)
(* returned before; it makes visible what was written to the slots before  *)
(* that value was stored.  From begin_push on a slot is in an undefined    *)
(* state (Torn) until commit_push.  The counters are 64 bits wide and do   *)
(* not wrap within the life of a hold scene.                               *)
(***************************************************************************)
EXTENDS Integers

CONSTANT Capacity

ASSUME CapacityAssumption == Capacity \in Nat /\ Capacity >= 2

VARIABLES
  slots,                          \* slots_
  writeSequence, readSequence,    \* writeSequence_, readSequence_
  writing,                        \* the producer is between begin_push and commit_push
  held,                           \* the consumer is between begin_pop and commit_pop
  knownRead, knownWrite,          \* what the producer, the consumer last loaded
  received                        \* history: the block the consumer gave back last

producerVars == <<slots, writeSequence, writing, knownRead>>
consumerVars == <<readSequence, held, knownWrite, received>>
ringVars == <<producerVars, consumerVars>>

\* A pushed block has a timestamp.
Torn == [timestamp |-> 0, alignment |-> 0, fits |-> FALSE]

Slot(sequence) == sequence % Capacity

RingInit ==
  /\ slots = [i \in 0..(Capacity - 1) |-> Torn]
  /\ writeSequence = 0 /\ readSequence = 0
  /\ writing = FALSE /\ held = FALSE
  /\ knownRead = 0 /\ knownWrite = 0
  /\ received = Torn

HasRoom_OneTooMany_Bug(seen) == writeSequence - seen <= Capacity

HasRoom(seen) == writeSequence - seen < Capacity

\* begin_push, which returns a slot or counts a dropped block.
BeginPush(seen) ==
  /\ ~writing
  /\ seen \in knownRead..readSequence
  /\ knownRead' = seen
  /\ writing' = HasRoom(seen)
  /\ slots' = IF HasRoom(seen) THEN [slots EXCEPT ![Slot(writeSequence)] = Torn] ELSE slots
  /\ UNCHANGED <<writeSequence, consumerVars>>

CommitPush(block) ==
  /\ writing
  /\ writing' = FALSE
  /\ slots' = [slots EXCEPT ![Slot(writeSequence)] = block]
  /\ writeSequence' = writeSequence + 1
  /\ UNCHANGED <<knownRead, consumerVars>>

Loadable_Unpublished_Bug == knownWrite..(writeSequence + (IF writing THEN 1 ELSE 0))

\* What the consumer may load of writeSequence_.
Loadable == knownWrite..writeSequence

Available(seen) == seen - readSequence

\* begin_pop and size: both load writeSequence_; only begin_pop lends a slot.
BeginPop(seen) ==
  /\ seen \in Loadable
  /\ knownWrite' = seen
  /\ held' = (held \/ Available(seen) > 0)
  /\ UNCHANGED <<readSequence, received, producerVars>>

Front == slots[Slot(readSequence)]

CommitPop ==
  /\ held
  /\ held' = FALSE
  /\ readSequence' = readSequence + 1
  /\ received' = Front
  /\ UNCHANGED <<knownWrite, producerVars>>

----------------------------------------------------------------------------
(* The ring by itself, for a producer of any blocks.                       *)

IsBlock(b) == b # Torn

RingNext ==
  \/ \E seen \in Nat : BeginPush(seen)
  \/ \E seen \in Nat : BeginPop(seen)
  \/ writing /\ IsBlock(slots'[Slot(writeSequence)]) /\ CommitPush(slots'[Slot(writeSequence)])
  \/ CommitPop

RingSpec == RingInit /\ [][RingNext]_ringVars

----------------------------------------------------------------------------
(* Properties.                                                             *)

\* No slot is lent to both sides at once, whatever each has seen of the other:
\* the ring needs no lock, and no PCM is torn.
SlotsOwnedByOne ==
  ~(writing /\ held /\ Slot(writeSequence) = Slot(readSequence))

\* What is queued.
Queued == [i \in 1..(writeSequence - readSequence) |-> slots[Slot(readSequence + i - 1)]]

Channel == INSTANCE BoundedChannel 
           WITH channel <- Queued, delivered <- received, Nothing <- Torn

\* The ring is a bounded channel: blocks arrive whole, once each and in order.
KeepsChannel == Channel!ChannelSpec

=============================================================================
