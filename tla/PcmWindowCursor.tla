-------------------------- MODULE PcmWindowCursor ---------------------------
(***************************************************************************)
(* The consumer of the ring: class PcmWindowCursor of                      *)
(* src/src/core/audio_spsc_fifo.hpp, which places timestamped blocks into  *)
(* the windows of the private audio clock.  One step is what it does       *)
(* between two looks at the ring, so that the producer can act in between. *)
(* Timestamps are in frames (timestamps_contiguous tolerates less than one *)
(* frame), and a window has the length of a block, as in HoldAudioTap.     *)
(***************************************************************************)
EXTENDS PcmSpscFifo, FiniteSetsExt

CONSTANT Frames     \* PcmAudioBlock::Frames

ASSUME FramesAssumption == Frames \in Nat \ {0}

VARIABLES
  window,             \* destinationCursor, NoWindow between the calls of consume
  using,              \* begin_pop has returned a block that is not dealt with yet
  sourceOffset,       \* sourceOffsetFrames_
  expected,           \* expectedNextBlockTimestampNs_
  pending,            \* pendingAlignmentFrames_
  aligned,            \* currentBlockAligned_
  alignmentPending,   \* alignmentPending_
  continuous,         \* haveContinuity_
  primed,             \* primed_
  played,             \* history: the frames of all earlier windows
  phase,              \* history: where the last alignment places timestamp 0
  copied              \* history: the last copy: its block, place, source time, length

alignmentVars == <<expected, pending, aligned, alignmentPending, continuous>>
cursorVars == <<window, using, sourceOffset, alignmentVars, primed, played, phase, copied>>

NoWindow == -1
Unknown == [known |-> FALSE, at |-> 0]
Known(at) == [known |-> TRUE, at |-> at]

CursorInit ==
  /\ window = NoWindow /\ using = FALSE
  /\ sourceOffset = 0 /\ expected = 0 /\ pending = 0
  /\ aligned = FALSE /\ alignmentPending = FALSE /\ continuous = FALSE /\ primed = FALSE
  /\ played = 0 /\ phase = Unknown
  /\ copied = [block |-> 0, at |-> 0, of |-> 0, frames |-> 0]

\* reset_alignment
ResetAlignment ==
  /\ expected' = 0 /\ pending' = 0
  /\ aligned' = FALSE /\ alignmentPending' = FALSE /\ continuous' = FALSE

\* The window goes on at this frame, or is complete.
GoesOnAt(frame) ==
  IF frame = Frames
  THEN window' = NoWindow /\ played' = played + Frames
  ELSE window' = frame /\ UNCHANGED played

EndWindow == GoesOnAt(Frames)

----------------------------------------------------------------------------
(* Looking at the ring.                                                    *)

InWindow == window # NoWindow /\ ~using

\* One quantum of lookahead is kept, unless the block asks for silence.
Waits(seen) == Available(seen) = 0 \/ (Available(seen) = 1 /\ Front.alignment <= 0)

NotPrimed(seen) ==
  /\ InWindow /\ ~primed
  /\ Waits(seen)
  /\ BeginPop(seen)
  /\ EndWindow
  /\ UNCHANGED <<using, sourceOffset, alignmentVars, primed, phase, copied>>

\* The rest of the window is silent.  What is still to be skipped stays so.
Underrun(seen) ==
  /\ InWindow /\ primed
  /\ Available(seen) = 0
  /\ BeginPop(seen)
  /\ EndWindow
  /\ primed' = FALSE
  /\ phase' = Unknown
  /\ IF alignmentPending /\ pending < 0 THEN UNCHANGED alignmentVars ELSE ResetAlignment
  /\ UNCHANGED <<using, sourceOffset, copied>>

TakeBlock(seen) ==
  /\ InWindow
  /\ Available(seen) > 0 /\ (primed \/ ~Waits(seen))
  /\ BeginPop(seen)
  /\ primed' = TRUE
  /\ using' = TRUE
  /\ UNCHANGED <<window, sourceOffset, alignmentVars, played, phase, copied>>

----------------------------------------------------------------------------
(* Dealing with a block.                                                   *)

\* Another format.
Discard ==
  /\ using /\ ~Front.fits
  /\ CommitPop
  /\ using' = FALSE /\ primed' = FALSE /\ sourceOffset' = 0
  /\ ResetAlignment
  /\ phase' = Unknown
  /\ UNCHANGED <<window, played, copied>>

Contiguous(block) == continuous /\ expected = block.timestamp

\* An alignment is due, and by how much.
Realigns(block) == ~aligned /\ ~alignmentPending /\ ~Contiguous(block)

Alignment_Absolute_Bug(block) ==
  IF Realigns(block) THEN block.alignment ELSE IF aligned THEN 0 ELSE pending

Alignment(block) ==
  IF Realigns(block)
  THEN IF continuous /\ expected # 0 THEN block.timestamp - expected ELSE block.alignment
  ELSE IF aligned THEN 0 ELSE pending

\* Where timestamp 0 is placed: an alignment to the window chooses it, one after
\* a step in the timestamps keeps it.  A step that comes while frames are still
\* to be skipped goes unnoticed.
NotePhase(block) ==
  phase' = IF Realigns(block)
           THEN IF continuous /\ expected # 0 THEN phase
                ELSE Known(played + window + block.alignment - block.timestamp)
           ELSE IF aligned \/ sourceOffset # 0 \/ ~continuous \/ Contiguous(block) THEN phase ELSE Unknown

\* finish_block; owed is what is left of the alignment.
FinishBlock(block, owed) ==
  /\ CommitPop
  /\ sourceOffset' = 0
  /\ expected' = block.timestamp + Frames
  /\ continuous' = TRUE
  /\ aligned' = FALSE
  /\ alignmentPending' = (owed # 0)
  /\ pending' = owed

\* The alignment is silence to the end of the window, or beyond.
Silence ==
  LET block == Front
      owed  == Alignment(block)
  IN  /\ using /\ block.fits
      /\ owed >= Frames - window
      /\ using' = FALSE
      /\ EndWindow
      /\ pending' = owed - (Frames - window)
      /\ alignmentPending' = TRUE
      /\ continuous' = (continuous /\ ~Realigns(block))
      /\ NotePhase(block)
      /\ UNCHANGED <<sourceOffset, expected, aligned, primed, copied, ringVars>>

\* The alignment skips the rest of the block, or more.
Skip ==
  LET block == Front
      owed  == Alignment(block)
  IN  /\ using /\ block.fits
      /\ -owed >= Frames - sourceOffset
      /\ using' = FALSE
      /\ FinishBlock(block, owed + (Frames - sourceOffset))
      /\ NotePhase(block)
      /\ UNCHANGED <<window, primed, played, copied>>

\* Part of the block, after some silence or without its first frames.
Copy ==
  LET block == Front
      owed  == Alignment(block)
      from  == sourceOffset + Max({-owed, 0})
      to    == window + Max({owed, 0})
      count == Min({Frames - from, Frames - to})
  IN  /\ using /\ block.fits
      /\ from < Frames /\ to < Frames
      /\ using' = FALSE
      /\ copied' = [block |-> block.timestamp, at |-> played + to, of |-> block.timestamp + from, frames |-> count]
      /\ GoesOnAt(to + count)
      /\ IF from + count = Frames
         THEN FinishBlock(block, 0)
         ELSE /\ sourceOffset' = from + count
              /\ aligned' = TRUE /\ alignmentPending' = FALSE /\ pending' = 0
              /\ continuous' = (continuous /\ ~Realigns(block))
              /\ UNCHANGED <<expected, ringVars>>
      /\ NotePhase(block)
      /\ UNCHANGED primed

Consume ==
  \/ \E seen \in Loadable : NotPrimed(seen) \/ Underrun(seen) \/ TakeBlock(seen)
  \/ Discard \/ Silence \/ Skip \/ Copy

----------------------------------------------------------------------------
(* Properties.                                                             *)

\* PCM stays where the alignment put it, across blocks, windows of another phase,
\* and steps in the timestamps: no drift, and no gap is counted twice.
InPhase ==
  [][(copied' # copied /\ phase'.known) => copied'.at - copied'.of = phase'.at]_cursorVars

\* Each block is played once, after the ones before it, its frames without a gap:
\* what the main clock renders again, or a window leaves over, is not repeated.
BlocksOnce ==
  [][copied' # copied =>
       IF copied'.block = copied.block
       THEN copied'.of = copied.of + copied.frames
       ELSE copied'.block > copied.block]_cursorVars

=============================================================================
