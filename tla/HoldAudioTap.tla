---------------------------- MODULE HoldAudioTap ----------------------------
(***************************************************************************)
(* The audio of a hold scene, src/src/hold-audio-tap.cpp: the main audio   *)
(* thread renders the scene and pushes its blocks (source_audio_render,    *)
(* push, main_clock_output), the private audio thread pulls windows (pull),*)
(* and the frontend may silence it for good (force_silence).  A tick of    *)
(* the main clock renders at most one block.                               *)
(***************************************************************************)
EXTENDS PcmWindowCursor

CONSTANTS
  Early, Late,  \* how far back or ahead a source's timestamp may step, besides one block
  MaxTicks,     \* bound: ticks of the main clock
  MaxWindows    \* bound: windows of the private clock

ASSUME TapAssumption ==
  Early \subseteq Nat /\ Late \subseteq Nat /\ MaxTicks \in Nat /\ MaxWindows \in Nat

VARIABLES
  mainClock,        \* the end of the main window, 0 before the first
  rendered,         \* the block the producer writes
  lastPushed,       \* lastPushedTimestampNs
  due,              \* the tick has not rendered the source yet
  forceSilence

tapVars == <<mainClock, rendered, lastPushed, due, forceSilence>>
vars == <<ringVars, cursorVars, tapVars>>

\* main_clock_output: the tick ends.
MainClockOutput ==
  /\ ~writing
  /\ mainClock < MaxTicks * Frames
  /\ mainClock' = mainClock + Frames
  /\ due' = TRUE
  /\ UNCHANGED <<ringVars, cursorVars, rendered, lastPushed, forceSilence>>

\* The timestamps a source may have: of the window or near it at first, then
\* one block later than before, with a step at times.
SourceTimes ==
  LET regular == IF lastPushed = 0 THEN mainClock ELSE lastPushed + Frames
  IN  {regular - d : d \in Early} \cup {regular + d : d \in Late}

\* push, up to begin_push; a timestamp that was pushed already is left out here,
\* since it changes nothing.
RenderPushes_Twice_Bug(timestamp) == timestamp + Frames > lastPushed

RenderPushes(timestamp) == timestamp > lastPushed

Render(timestamp, fits) ==
  /\ ~writing /\ due /\ ~forceSilence
  /\ mainClock # 0
  /\ RenderPushes(timestamp)
  /\ \E seen \in knownRead..readSequence : BeginPush(seen)
  /\ rendered' = [timestamp |-> timestamp, alignment |-> timestamp - mainClock, fits |-> fits]
  /\ due' = FALSE
  /\ UNCHANGED <<cursorVars, mainClock, lastPushed, forceSilence>>

RenderEnds ==
  /\ CommitPush(rendered)
  /\ lastPushed' = rendered.timestamp
  /\ UNCHANGED <<cursorVars, mainClock, rendered, due, forceSilence>>

\* pull
Pull ==
  /\ window = NoWindow /\ ~forceSilence
  /\ played < MaxWindows * Frames
  /\ window' = 0
  /\ UNCHANGED <<ringVars, using, sourceOffset, alignmentVars, primed, played, phase, copied, tapVars>>

\* force_silence
ForceSilence ==
  /\ ~forceSilence
  /\ forceSilence' = TRUE
  /\ UNCHANGED <<ringVars, cursorVars, mainClock, rendered, lastPushed, due>>

Init ==
  /\ RingInit
  /\ CursorInit
  /\ mainClock = 0 /\ lastPushed = 0 /\ due = FALSE /\ forceSilence = FALSE
  /\ rendered = Torn

Next ==
  \/ MainClockOutput
  \/ \E t \in SourceTimes, fits \in BOOLEAN : Render(t, fits)
  \/ RenderEnds
  \/ Pull
  \/ Consume /\ UNCHANGED tapVars
  \/ ForceSilence

Spec == Init /\ [][Next]_vars

=============================================================================
