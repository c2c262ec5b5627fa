--------------------------- MODULE OutputSession ---------------------------
(***************************************************************************)
(* The per-output delay state machine of src/src/output-session.cpp.       *)
(*                                                                         *)
(* An output delivers encoded packets ("carriers") through a packet        *)
(* callback; the session may leave a carrier alone (live) or replace its   *)
(* payload by a packet of the hold encoder or by an older packet of the    *)
(* same output.  Three threads act on a session:                           *)
(*   - the output's packet callback          (Carrier actions),            *)
(*   - the hold encoder's collector callback (HoldPacket actions),         *)
(*   - the frontend thread: request_delay, request_bypass, maintenance,    *)
(* and libobs signals a reconnection from a fourth.  Everything done under *)
(* OutputSession::mutex_ is one step; request_delay and maintenance, which *)
(* release the mutex to stop encoders, are several.                        *)
(*                                                                         *)
(* Abstraction: a packet is [src, seq, dts, size, key, cto]; a tick is one *)
(* video frame and one audio packet; sizes are small; cto is PTS - DTS.    *)
(* Only formats' agreement is kept (mismatch), not their fields.           *)
(***************************************************************************)
EXTENDS Integers, Sequences, FiniteSets, FiniteSetsExt

CONSTANTS
  AudioTracks,   \* the active audio tracks, a set of positive lane numbers
  Target,        \* targetSeconds_, in ticks
  Preroll,       \* HoldPrerollNs, in ticks
  Sizes,         \* the sizes of video packets; an audio packet has size 1
  MaxPrimary,    \* MaxPrimaryBufferBytes
  MaxHold,       \* MaxHoldBufferBytes
  MaxHoldLane,   \* MaxHoldLanePackets
  BFrames,       \* whether the encoders reorder frames
  GopLengths,    \* how many frames a GOP may have
  HoleTicks,     \* how many ticks one encoder hole skips
  MaxIdle,       \* bound: ... at this tick as long as no delay was requested
  MaxDts,        \* bound: the primary encoders stop at this tick
  MaxHoldDts,    \* bound: the hold encoders stop at this tick
  MaxRequests,   \* bound: calls of request_delay that are accepted
  MaxReconnects, \* bound: reconnections
  MaxHoles       \* bound: encoder holes

Video == 0
Lanes == {Video} \cup AudioTracks

ASSUME SessionAssumption ==
  /\ AudioTracks \subseteq Nat \ {0}
  /\ AudioTracks # {}
  /\ IsFiniteSet(AudioTracks)
  /\ {Target, MaxHoldLane, HoleTicks} \subseteq Nat \ {0}
  /\ {Preroll, MaxPrimary, MaxHold} \subseteq Nat
  /\ {MaxIdle, MaxDts, MaxHoldDts, MaxRequests, MaxReconnects, MaxHoles} \subseteq Nat
  /\ BFrames \in BOOLEAN
  /\ GopLengths # {} /\ GopLengths \subseteq Nat \ {0}
  /\ Sizes \subseteq Nat
  /\ BFrames => \A n \in GopLengths : n % 2 = 1

VARIABLES
  state,              \* DelayState
  primaryQueues, holdQueues,               \* one FIFO per lane
  primaryFallback, holdFallback,           \* <<>> or one packet per lane
  holdReady, returnFromFilling, drainPrimaryOnReturn,
  cleanupHoldRequested, errorReturnPending, realignmentPending,
  fillStart,          \* fillStartDtsUsec_
  holdGopStart,       \* holdGopStartDtsUsec_
  primaryFormats, holdFormats,             \* the lanes whose format was seen
  lastPrimary,        \* lastPrimaryDts_, NoDts when not known
  lastSource,         \* lastEmittedSourceDts_, NoDts when not known
  offset,             \* timelineOffsetUsec_
  maxPts,             \* maxEmittedVideoPtsUsec_, NoDts when not known
  frontend,           \* where the frontend thread is
  pipeline,           \* holdPipeline_: "none", "running" or "stopped"
  retiring,           \* a collector taken from holdPipeline_ still delivers
  reconnectResetPending, reconnectRearmRequested,
  connected,          \* the output has data capture active
  clock,              \* the encoders: next dts, next seq, frames left of the GOP
  mismatch,           \* lanes on which the hold encoder's format differs
  spent,              \* uses of the bounds
  lastOut,            \* history: the last packet each lane emitted
  peakPts             \* history: the largest video PTS emitted

controlVars == <<state, returnFromFilling, drainPrimaryOnReturn, errorReturnPending>>
primaryVars == <<primaryQueues, primaryFallback, lastSource>>
cadenceVars == <<primaryFormats, lastPrimary, realignmentPending>>
holdVars    == <<holdQueues, holdFallback, holdReady, holdGopStart, holdFormats>>
outVars     == <<offset, maxPts, lastOut, peakPts>>
frontVars   == <<frontend, pipeline, retiring, mismatch>>
signalVars  == <<reconnectResetPending, reconnectRearmRequested, connected>>
vars == <<controlVars, primaryVars, cadenceVars, holdVars, outVars, frontVars,
          signalVars, cleanupHoldRequested, fillStart, clock, spent>>

DelayStates == {"Bypass", "Preparing", "Filling", "Delayed", "ReturningLive", "Error"}
LiveStates  == {"Bypass", "Error"}
NoDts == -1

Packet ==
  [src : {"primary", "hold"}, seq : Nat, dts : Nat, size : Nat, key : BOOLEAN, cto : Nat]

----------------------------------------------------------------------------
(* The encoders, external to the plugin.  A GOP is a keyframe and P frames, *)
(* or, with reordering, P frames each followed by the B frame it encloses; *)
(* a frame's kind fixes its composition offset.  left counts the frames    *)
(* still to come of the current GOP.                                       *)

CompositionTicks(left) ==
  IF ~BFrames THEN 0 ELSE IF left = 0 THEN 1 ELSE IF left % 2 = 0 THEN 2 ELSE 0

\* Audio packets are all independently decodable, hence key.
Encoded(src, l, size) ==
  [src |-> src, seq |-> clock[src].seq[l], dts |-> clock[src].dts[l], size |-> size,
   key |-> (l # Video \/ clock[src].left = 0),
   cto |-> IF l = Video THEN CompositionTicks(clock[src].left) ELSE 0]

PacketSizes(l) == IF l = Video THEN Sizes ELSE {1}

FramesLeft(left) == IF left = 0 THEN {n - 1 : n \in GopLengths} ELSE {left - 1}

\* The interleaver of an output delivers its lanes in dts order, video first.
Delivers(src, l) ==
  /\ \A m \in Lanes : LET ahead == clock[src].dts[m] - clock[src].dts[l]
                       IN  ahead > 0 \/ (ahead = 0 /\ l <= m)
  /\ \E left \in IF l = Video THEN FramesLeft(clock[src].left) ELSE {clock[src].left} :
       clock' = [clock EXCEPT ![src].dts[l] = @ + 1, ![src].seq[l] = @ + 1, ![src].left = left]

----------------------------------------------------------------------------
(* Helpers of the packet path.                                             *)

Size(queues) ==
  MapThenSumSet(LAMBDA l : MapThenSumSet(LAMBDA i : queues[l][i].size, 1..Len(queues[l])), Lanes)

Last(s) == s[Len(s)]

\* A lane without its packets before origin; a lane's dts never decrease.
DropBefore(s, origin) ==
  SubSeq(s, Cardinality({i \in 1..Len(s) : s[i].dts < origin}) + 1, Len(s))

\* A step in media time that is more than one tick is a hole.
Hole(earlier, later) == earlier # NoDts /\ later - earlier > 1

\* hold_formats_compatible_locked: both formats of every lane seen and equal.
FormatsReady(primarySeen, holdSeen) ==
  Lanes \subseteq primarySeen \cap holdSeen /\ mismatch = {}

\* ... and the case "not compatible, and complete up to the differing lane".
FormatsRejected(primarySeen, holdSeen) ==
  \E l \in mismatch :
    \A m \in Lanes : m <= l => m \in primarySeen \cap holdSeen

HoldPrerollReady(primarySeen) ==
  /\ holdReady
  /\ \A l \in Lanes :
       holdQueues[l] # <<>> /\ Last(holdQueues[l]).dts >= holdGopStart + Preroll
  /\ Head(holdQueues[Video]).key
  /\ FormatsReady(primarySeen, holdFormats)

Choose_NoFallback_Bug(queues, fallback, usable, l, p) ==
  IF usable /\ queues[l] # <<>> THEN [via |-> "queue", pkt |-> Head(queues[l])]
  ELSE [via |-> "live", pkt |-> p]

\* replace_from's choice: the head of the lane's queue, else its fallback,
\* else the carrier p stays as it is.
Choose(queues, fallback, usable, l, p) ==
  IF usable /\ queues[l] # <<>> THEN [via |-> "queue", pkt |-> Head(queues[l])]
  ELSE IF usable /\ fallback[l] # <<>> THEN [via |-> "fallback", pkt |-> Head(fallback[l])]
  ELSE [via |-> "live", pkt |-> p]

TakeHead(queues, l, chosen) ==
  IF chosen.via = "queue" THEN [queues EXCEPT ![l] = Tail(@)] ELSE queues

\* Faulty variants of the definitions, one plausible bug each, are named with a
\* trailing _Bug and used by no other definition.
EpochShift_NoComparison_Bug(l, base, cto) ==
  IF l = Video /\ maxPts # NoDts THEN maxPts + 1 - (base + cto) ELSE 0

EpochShift_Never_Bug(l, base, cto) == 0

\* begin_timeline_epoch_locked: how far the carrier at DTS base, carrying a
\* payload with this cto, must move so that its PTS passes every emitted one.
EpochShift(l, base, cto) ==
  IF l = Video /\ maxPts # NoDts /\ base + cto < maxPts + 1 THEN maxPts + 1 - (base + cto) ELSE 0

\* The carrier p leaves lane l with the chosen payload, after the timeline
\* offset and, when epoch, after begin_timeline_epoch_locked; then
\* note_emitted_video_locked.
Emit(l, p, chosen, epoch) ==
  LET base  == p.dts + offset
      shift == IF epoch THEN EpochShift(l, base, chosen.pkt.cto) ELSE 0
      pts   == base + shift + chosen.pkt.cto
  IN  /\ offset' = offset + shift
      /\ maxPts' = IF l = Video /\ pts > maxPts THEN pts ELSE maxPts
      /\ peakPts' = IF l = Video /\ pts > peakPts THEN pts ELSE peakPts
      /\ lastOut' = [lastOut EXCEPT ![l] =
           [via |-> chosen.via, src |-> chosen.pkt.src, seq |-> chosen.pkt.seq,
            key |-> chosen.pkt.key, age |-> p.dts - chosen.pkt.dts,
            dts |-> base + shift, pts |-> pts]]

\* The prelude of the locked path: note_primary_cadence_locked and
\* note_lane_format.
Observed(l, p) ==
  /\ lastPrimary' = [lastPrimary EXCEPT ![l] = p.dts]
  /\ primaryFormats' = primaryFormats \cup {l}

HoleSeen(l, p) == realignmentPending \/ Hole(lastPrimary[l], p.dts)

\* replace_from(primaryQueues_, &primaryFallbackPackets_, carrier, false):
\* queues, fallback, sources and pending are the values it finds.
TakePrimary(l, chosen, queues, fallback, sources, pending) ==
  /\ primaryQueues' = TakeHead(queues, l, chosen)
  /\ primaryFallback' = IF chosen.via = "queue" /\ chosen.pkt.key
                        THEN [fallback EXCEPT ![l] = <<chosen.pkt>>] ELSE fallback
  /\ IF chosen.via = "live"
     THEN lastSource' = sources /\ realignmentPending' = pending
     ELSE /\ lastSource' = [sources EXCEPT ![l] = chosen.pkt.dts]
          /\ realignmentPending' = (pending \/ Hole(sources[l], chosen.pkt.dts))

\* return_live_with_error_locked
ReturnLiveWithError(fromFilling) ==
  /\ state' = "ReturningLive"
  /\ errorReturnPending' = TRUE
  /\ returnFromFilling' = fromFilling

Fits(queues, p, limit) == Size(queues) + p.size <= limit

Buffered(l, p) == [primaryQueues EXCEPT ![l] = Append(@, p)]

----------------------------------------------------------------------------
(* realign_primary_locked: after a hole, when the ages of the lanes differ *)
(* by more than the tolerance, cut every lane to one buffered GOP for      *)
(* which all audio lanes have data, the latest one not after the target    *)
(* age if there is one.                                                    *)

RealignTolerance_TooWide_Bug == 9

RealignTolerance == 2

AudioAligned(queues, dts) ==
  \A m \in AudioTracks :
    LET kept == DropBefore(queues[m], dts)
    IN  kept # <<>> /\ Head(kept).dts - dts <= 1

RealignPending(queues, p) ==
  HoleSeen(Video, p) \/ Hole(lastSource[Video], Head(queues[Video]).dts)

AudioAges(queues) ==
  {lastPrimary[m] + 1 - Head(queues[m]).dts : m \in AudioTracks}

Skewed(queues, p) ==
  \E age \in AudioAges(queues) :
    LET difference == (p.dts - Head(queues[Video]).dts) - age
    IN  difference > RealignTolerance \/ -difference > RealignTolerance

RealignOrigins_AnyFrame_Bug(queues) ==
  LET lowerBound == Max({Head(queues[m]).dts : m \in Lanes})
  IN  {d \in {queues[Video][i].dts : i \in 1..Len(queues[Video])} :
         d >= lowerBound /\ AudioAligned(queues, d)}

RealignOrigins(queues) ==
  LET lowerBound == Max({Head(queues[m]).dts : m \in Lanes})
  IN  {d \in {queues[Video][i].dts : i \in {j \in 1..Len(queues[Video]) : queues[Video][j].key}} :
         d >= lowerBound /\ AudioAligned(queues, d)}

RealignOrigin(origins, desired) ==
  LET aged == {d \in origins : d <= desired}
  IN  IF aged # {} THEN Max(aged) ELSE Min(origins)

\* What realign_primary_locked leaves, given the buffered queues.
Realigned(queues, l, p) ==
  LET asIs(pending) == [queues |-> queues, fallback |-> primaryFallback, sources |-> lastSource,
                        pending |-> pending, cut |-> FALSE]
      audioKnown == \A m \in AudioTracks : queues[m] # <<>> /\ lastPrimary[m] # NoDts
      origins == RealignOrigins(queues)
      origin  == RealignOrigin(origins, p.dts - Target)
  IN  IF l # Video THEN asIs(HoleSeen(l, p))
      ELSE IF ~RealignPending(queues, p) THEN asIs(FALSE)
      ELSE IF ~audioKnown THEN asIs(TRUE)
      ELSE IF ~Skewed(queues, p) THEN asIs(FALSE)
      ELSE IF origins = {} THEN asIs(TRUE)
      ELSE [queues |-> [m \in Lanes |-> DropBefore(queues[m], origin)],
            fallback |-> [m \in Lanes |-> <<>>],
            sources |-> [m \in Lanes |-> NoDts],
            pending |-> FALSE, cut |-> TRUE]

----------------------------------------------------------------------------
(* process_primary_packet, one action per outcome.                         *)

Carrier(l) ==
  /\ connected
  /\ clock["primary"].dts[l] <= IF spent.requests = 0 THEN MaxIdle ELSE MaxDts
  /\ Delivers("primary", l)
  /\ UNCHANGED <<frontVars, signalVars, spent>>

LivePacket(p) == [via |-> "live", pkt |-> p]

\* The unlocked fast path: the carrier is not even looked at.  Reading the state
\* and passing are one step: what other threads do in between, such as arming the
\* session, neither reads nor writes anything of the pass, and what it starts shows
\* only with the next carrier.  (One that read another state just before the session
\* went live takes the mutex instead and passes all the same; its timestamps are
\* noted, which the next epoch then only respects.)
PassUntouched(l, p) ==
  /\ state \in LiveStates
  /\ offset = 0
  /\ lastOut' = [lastOut EXCEPT ![l] =
       [via |-> "live", src |-> p.src, seq |-> p.seq, key |-> p.key, age |-> 0,
        dts |-> p.dts, pts |-> p.dts + p.cto]]
  /\ peakPts' = IF l = Video /\ p.dts + p.cto > peakPts THEN p.dts + p.cto ELSE peakPts
  /\ UNCHANGED <<controlVars, primaryVars, cadenceVars, holdVars, offset, maxPts,
                 cleanupHoldRequested, fillStart>>

\* Bypass or Error with a timeline offset, and Preparing until a live keyframe
\* finds the preroll ready.
StartsFilling(l, p) ==
  state = "Preparing" /\ l = Video /\ p.key /\ HoldPrerollReady(primaryFormats \cup {l})

PassLive(l, p) ==
  /\ \/ state \in LiveStates /\ offset # 0
     \/ state = "Preparing" /\ ~StartsFilling(l, p)
  /\ Observed(l, p)
  /\ realignmentPending' = HoleSeen(l, p)
  /\ Emit(l, p, LivePacket(p), FALSE)
  /\ UNCHANGED <<controlVars, primaryVars, holdVars, cleanupHoldRequested, fillStart>>

RestoreLive_AnyFrame_Bug(l, p) ==
  /\ state = "ReturningLive" /\ l = Video
  /\ Observed(l, p)
  /\ realignmentPending' = HoleSeen(l, p)
  /\ Emit(l, p, LivePacket(p), TRUE)
  /\ state' = IF errorReturnPending THEN "Error" ELSE "Bypass"
  /\ errorReturnPending' = FALSE
  /\ cleanupHoldRequested' = TRUE
  /\ UNCHANGED <<returnFromFilling, drainPrimaryOnReturn, primaryVars, holdVars, fillStart>>

\* Any live keyframe ends the return.
RestoreLive(l, p) ==
  /\ state = "ReturningLive" /\ l = Video /\ p.key
  /\ Observed(l, p)
  /\ realignmentPending' = HoleSeen(l, p)
  /\ Emit(l, p, LivePacket(p), TRUE)
  /\ state' = IF errorReturnPending THEN "Error" ELSE "Bypass"
  /\ errorReturnPending' = FALSE
  /\ cleanupHoldRequested' = TRUE
  /\ UNCHANGED <<returnFromFilling, drainPrimaryOnReturn, primaryVars, holdVars, fillStart>>

\* The carrier is replaced from the hold queue, in Filling or when a Filling
\* session is cancelled.  strict: an underrun returns live with an error.
EmitHold(l, p, epoch, strict, next) ==
  LET chosen   == Choose(holdQueues, holdFallback, l \notin mismatch, l, p)
      underrun == chosen.via = "live" \/ (strict /\ chosen.via = "fallback")
  IN  /\ holdQueues' = TakeHead(holdQueues, l, chosen)
      /\ Emit(l, p, chosen, epoch \/ (strict /\ chosen.via = "fallback"))
      /\ IF underrun
         THEN ReturnLiveWithError(TRUE)
         ELSE /\ state' = next
              /\ returnFromFilling' = (returnFromFilling \/ next = "ReturningLive")
              /\ UNCHANGED errorReturnPending
      /\ UNCHANGED <<drainPrimaryOnReturn, holdFallback, holdReady, holdGopStart, holdFormats,
                     cleanupHoldRequested>>

DurationReady_TooEarly_Bug(l, p) ==
  /\ state = "Filling"
  /\ l = Video
  /\ Fits(primaryQueues, p, MaxPrimary)
  /\ p.dts - fillStart >= Target - 1
  /\ Head(Buffered(l, p)[Video]).key

\* Filling is complete.
DurationReady(l, p) ==
  /\ state = "Filling"
  /\ l = Video
  /\ Fits(primaryQueues, p, MaxPrimary)
  /\ p.dts - fillStart >= Target
  /\ Head(Buffered(l, p)[Video]).key

\* Filling, or Preparing on the keyframe that starts it.
Fill(l, p) ==
  /\ state = "Filling" \/ StartsFilling(l, p)
  /\ ~DurationReady(l, p)
  /\ Observed(l, p)
  /\ realignmentPending' = HoleSeen(l, p)
  /\ fillStart' = IF state = "Preparing" THEN p.dts ELSE fillStart
  /\ IF Fits(primaryQueues, p, MaxPrimary)
     THEN /\ primaryQueues' = Buffered(l, p)
          /\ EmitHold(l, p, state = "Preparing", TRUE, "Filling")
     ELSE /\ UNCHANGED primaryQueues
          /\ EmitHold(l, p, state = "Preparing", FALSE, "ReturningLive")
  /\ UNCHANGED <<primaryFallback, lastSource>>

\* The carrier is replaced from the primary queue; what is an underrun there
\* returns live with an error.  found is what realignment left.
EmitPrimary(l, p, found, next) ==
  LET chosen == Choose(found.queues, found.fallback, TRUE, l, p)
      kept   == chosen.via = "queue"
  IN  /\ TakePrimary(l, chosen, found.queues, found.fallback, found.sources, found.pending)
      /\ Emit(l, p, chosen, found.cut \/ chosen.via = "fallback")
      /\ state' = IF kept THEN next ELSE "ReturningLive"
      /\ errorReturnPending' = (errorReturnPending \/ ~kept)
      /\ returnFromFilling' = (returnFromFilling /\ kept /\ next = "Delayed")
      /\ UNCHANGED <<holdVars, fillStart>>

NotRealigned(queues, l, p) ==
  [queues |-> queues, fallback |-> primaryFallback, sources |-> lastSource,
   pending |-> HoleSeen(l, p), cut |-> FALSE]

StartDelayed(l, p) ==
  /\ DurationReady(l, p)
  /\ Observed(l, p)
  /\ EmitPrimary(l, p, [NotRealigned(Buffered(l, p), l, p)
                          EXCEPT !.sources = [m \in Lanes |-> NoDts], !.cut = TRUE], "Delayed")
  /\ cleanupHoldRequested' = TRUE
  /\ UNCHANGED drainPrimaryOnReturn

Delay(l, p) ==
  /\ state = "Delayed"
  /\ Fits(primaryQueues, p, MaxPrimary)
  /\ Observed(l, p)
  /\ EmitPrimary(l, p, Realigned(Buffered(l, p), l, p), "Delayed")
  /\ UNCHANGED <<drainPrimaryOnReturn, cleanupHoldRequested>>

\* The RAM limit in Delayed: a live keyframe is passed at once, anything else
\* drains the queue without adding to it.
DelayLimitLive(l, p) ==
  /\ state = "Delayed" /\ l = Video /\ p.key
  /\ ~Fits(primaryQueues, p, MaxPrimary)
  /\ Observed(l, p)
  /\ realignmentPending' = HoleSeen(l, p)
  /\ Emit(l, p, LivePacket(p), TRUE)
  /\ state' = "Bypass"
  /\ returnFromFilling' = FALSE
  /\ drainPrimaryOnReturn' = TRUE
  /\ cleanupHoldRequested' = TRUE
  /\ UNCHANGED <<errorReturnPending, primaryVars, holdVars, fillStart>>

DelayLimitDrain_Evicts_Bug(l, p) ==
  /\ state = "Delayed" /\ ~(l = Video /\ p.key)
  /\ ~Fits(primaryQueues, p, MaxPrimary)
  /\ Observed(l, p)
  /\ EmitPrimary(l, p, NotRealigned([primaryQueues EXCEPT ![l] = Tail(@)], l, p), "ReturningLive")
  /\ drainPrimaryOnReturn' = TRUE
  /\ UNCHANGED cleanupHoldRequested

DelayLimitDrain(l, p) ==
  /\ state = "Delayed" /\ ~(l = Video /\ p.key)
  /\ ~Fits(primaryQueues, p, MaxPrimary)
  /\ Observed(l, p)
  /\ EmitPrimary(l, p, NotRealigned(primaryQueues, l, p), "ReturningLive")
  /\ drainPrimaryOnReturn' = TRUE
  /\ UNCHANGED cleanupHoldRequested

\* Waiting for the live keyframe, after an error: the safe packet is repeated.
ReturnOnFallback(l, p) ==
  /\ state = "ReturningLive" /\ ~(l = Video /\ p.key)
  /\ errorReturnPending
  /\ Observed(l, p)
  /\ realignmentPending' = HoleSeen(l, p)
  /\ LET nothing == [m \in Lanes |-> <<>>]
     IN  Emit(l, p, IF returnFromFilling THEN Choose(nothing, holdFallback, l \notin mismatch, l, p)
                    ELSE Choose(nothing, primaryFallback, TRUE, l, p), FALSE)
  /\ UNCHANGED <<controlVars, primaryVars, holdVars, cleanupHoldRequested, fillStart>>

\* ... after a cancelled Filling: the hold queue continues.
ReturnFromFilling(l, p) ==
  /\ state = "ReturningLive" /\ ~(l = Video /\ p.key)
  /\ ~errorReturnPending /\ returnFromFilling
  /\ Observed(l, p)
  /\ realignmentPending' = HoleSeen(l, p)
  /\ EmitHold(l, p, FALSE, FALSE, "ReturningLive")
  /\ UNCHANGED <<primaryVars, fillStart>>

\* ... after a cancelled Delayed: the primary queue continues, fed unless the
\* RAM limit was met.
ReturnFromDelayed(l, p) ==
  /\ state = "ReturningLive" /\ ~(l = Video /\ p.key)
  /\ ~errorReturnPending /\ ~returnFromFilling
  /\ Observed(l, p)
  /\ LET feeds == ~drainPrimaryOnReturn /\ Fits(primaryQueues, p, MaxPrimary)
     IN  /\ drainPrimaryOnReturn' = ~feeds
         /\ EmitPrimary(l, p, NotRealigned(IF feeds THEN Buffered(l, p) ELSE primaryQueues, l, p),
                        "ReturningLive")
  /\ UNCHANGED cleanupHoldRequested

\* packet_callback
PrimaryPacket(l) ==
  /\ Carrier(l)
  /\ \E size \in PacketSizes(l) :
       LET p == Encoded("primary", l, size)
       IN  \/ PassUntouched(l, p)
           \/ PassLive(l, p)
           \/ RestoreLive(l, p)
           \/ Fill(l, p)
           \/ StartDelayed(l, p)
           \/ Delay(l, p)
           \/ DelayLimitLive(l, p)
           \/ DelayLimitDrain(l, p)
           \/ ReturnOnFallback(l, p)
           \/ ReturnFromFilling(l, p)
           \/ ReturnFromDelayed(l, p)

----------------------------------------------------------------------------
(* receive_hold_packet, one action per outcome.  The collector that feeds  *)
(* the session may also be one the frontend has taken but not yet stopped. *)
(* A packet that is not accepted leaves no trace: its encoder's clock may  *)
(* as well stand still, since the next collector starts another stream.    *)

HoldAccepted ==
  state \in {"Preparing", "Filling"} \/ (state = "ReturningLive" /\ returnFromFilling)

\* The first keyframe of the preroll starts the hold GOP.
StartsHoldGop(l, h) == state = "Preparing" /\ l = Video /\ h.key /\ ~holdReady

GopTrimmed_Never_Bug(l, h) == holdQueues

GopTrimmed(l, h) ==
  IF StartsHoldGop(l, h)
  THEN [m \in Lanes |-> IF m = Video THEN <<>> ELSE DropBefore(holdQueues[m], h.dts)]
  ELSE holdQueues

SetError_NoCleanup_Bug ==
  /\ state' = "Error"
  /\ UNCHANGED cleanupHoldRequested

\* set_error_locked
SetError ==
  /\ state' = "Error"
  /\ cleanupHoldRequested' = TRUE

\* What every accepted packet does.
NoteHold(l, h) ==
  /\ holdFormats' = holdFormats \cup {l}
  /\ holdGopStart' = IF StartsHoldGop(l, h) THEN h.dts ELSE holdGopStart
  /\ holdFallback' = IF h.key THEN [holdFallback EXCEPT ![l] = <<h>>] ELSE holdFallback
  /\ UNCHANGED <<drainPrimaryOnReturn, errorReturnPending>>

HoldLimit(l, h) ==
  /\ NoteHold(l, h)
  /\ ~Fits(GopTrimmed(l, h), h, MaxHold)
  /\ holdQueues' = GopTrimmed(l, h)
  /\ cleanupHoldRequested' = TRUE
  /\ state' = IF state = "Preparing" THEN "Error" ELSE "ReturningLive"
  /\ returnFromFilling' = (returnFromFilling \/ state # "Preparing")
  /\ UNCHANGED holdReady

\* Formats that differ, or (compatible_with_primary) incompatible headers.
RejectHold(l, h, compatible) ==
  /\ NoteHold(l, h)
  /\ Fits(GopTrimmed(l, h), h, MaxHold)
  /\ \/ state = "Preparing" /\ FormatsRejected(primaryFormats, holdFormats \cup {l})
     \/ StartsHoldGop(l, h) /\ ~compatible
  /\ holdQueues' = [GopTrimmed(l, h) EXCEPT ![l] = Append(@, h)]
  /\ SetError
  /\ UNCHANGED <<returnFromFilling, holdReady>>

KeepHold(l, h, compatible) ==
  /\ NoteHold(l, h)
  /\ Fits(GopTrimmed(l, h), h, MaxHold)
  /\ ~(state = "Preparing" /\ FormatsRejected(primaryFormats, holdFormats \cup {l}))
  /\ StartsHoldGop(l, h) => compatible
  /\ holdReady' = (holdReady \/ StartsHoldGop(l, h))
  /\ LET queues == [GopTrimmed(l, h) EXCEPT ![l] = Append(@, h)]
     IN  holdQueues' = IF state = "Preparing" /\ l # Video /\ Len(queues[l]) > MaxHoldLane
                       THEN [queues EXCEPT ![l] = Tail(@)] ELSE queues
  /\ UNCHANGED <<state, returnFromFilling, cleanupHoldRequested>>

HoldPacket(l) ==
  /\ pipeline = "running" \/ retiring
  /\ HoldAccepted
  /\ clock["hold"].dts[l] <= MaxHoldDts
  /\ Delivers("hold", l)
  /\ \E size \in PacketSizes(l), compatible \in BOOLEAN :
       LET h == Encoded("hold", l, size)
       IN  \/ HoldLimit(l, h)
           \/ RejectHold(l, h, compatible)
           \/ KeepHold(l, h, compatible)
  /\ UNCHANGED <<primaryVars, cadenceVars, outVars, frontVars, signalVars, fillStart, spent>>

----------------------------------------------------------------------------
(* The frontend thread and the libobs signals.                             *)

NoPackets == [l \in Lanes |-> <<>>]
NoTimes   == [l \in Lanes |-> NoDts]

\* request_delay, first critical section: the old collector is taken out ...
TakeOldPipeline ==
  /\ frontend = "idle" /\ state \in LiveStates /\ connected
  /\ spent.requests < MaxRequests
  /\ spent' = [spent EXCEPT !.requests = @ + 1]
  /\ frontend' = "retireOld"
  /\ retiring' = (pipeline = "running")
  /\ pipeline' = "none"
  /\ UNCHANGED <<controlVars, primaryVars, cadenceVars, holdVars, outVars, signalVars,
                 cleanupHoldRequested, fillStart, clock, mismatch>>

RetireOldPipeline_NoJoin_Bug ==
  /\ frontend = "retireOld"
  /\ frontend' = "publish"
  /\ UNCHANGED <<controlVars, primaryVars, cadenceVars, holdVars, outVars, signalVars,
                 cleanupHoldRequested, fillStart, clock, mismatch, pipeline, retiring, spent>>

\* ... and stopped without the mutex, which joins its callbacks.
RetireOldPipeline ==
  /\ frontend = "retireOld"
  /\ frontend' = "publish"
  /\ retiring' = FALSE
  /\ UNCHANGED <<controlVars, primaryVars, cadenceVars, holdVars, outVars, signalVars,
                 cleanupHoldRequested, fillStart, clock, mismatch, pipeline, spent>>

\* Second critical section: the new generation is published.
PublishDelay ==
  /\ frontend = "publish" /\ state \in LiveStates
  /\ frontend' = "start"
  /\ state' = "Preparing"
  /\ holdReady' = FALSE /\ returnFromFilling' = FALSE /\ drainPrimaryOnReturn' = FALSE
  /\ cleanupHoldRequested' = FALSE /\ errorReturnPending' = FALSE /\ realignmentPending' = FALSE
  /\ fillStart' = 0 /\ holdGopStart' = 0
  /\ primaryFormats' = {} /\ holdFormats' = {}
  /\ lastPrimary' = NoTimes /\ lastSource' = NoTimes
  /\ primaryQueues' = NoPackets /\ primaryFallback' = NoPackets
  /\ holdQueues' = NoPackets /\ holdFallback' = NoPackets
  /\ UNCHANGED <<outVars, signalVars, pipeline, retiring, mismatch, clock, spent>>

\* The new collector: a fresh encoding, whose first frame is a keyframe, or
\* one it shares with another output, joined anywhere in a GOP.
StartPipeline ==
  /\ frontend = "start"
  /\ frontend' = "idle"
  /\ pipeline' = "running"
  /\ mismatch' \in {{}, {Video}}
  /\ \E joined \in UNION {0..(n - 1) : n \in GopLengths}, m \in Lanes :
       LET hold == clock["hold"]
       IN  /\ \A l \in Lanes : hold.dts[l] <= hold.dts[m]
           /\ clock' = [clock EXCEPT !["hold"] =
                [dts |-> [l \in Lanes |-> hold.dts[m]],
                 seq |-> [l \in Lanes |-> hold.seq[l] + 1], left |-> joined]]
  /\ UNCHANGED <<controlVars, primaryVars, cadenceVars, holdVars, outVars, signalVars,
                 cleanupHoldRequested, fillStart, retiring, spent>>

StartPipelineFails ==
  /\ frontend = "start"
  /\ frontend' = "idle"
  /\ pipeline' = "stopped"
  /\ SetError
  /\ UNCHANGED <<returnFromFilling, drainPrimaryOnReturn, errorReturnPending, primaryVars,
                 cadenceVars, holdVars, outVars, signalVars, fillStart, clock, mismatch,
                 retiring, spent>>

Clear ==
  /\ primaryQueues' = NoPackets /\ primaryFallback' = NoPackets
  /\ holdQueues' = NoPackets /\ holdFallback' = NoPackets
  /\ holdGopStart' = 0

\* request_bypass
Bypassed ==
  \/ /\ state \in {"Preparing", "Error"}
     /\ state' = "Bypass"
     /\ errorReturnPending' = FALSE
     /\ Clear
     /\ cleanupHoldRequested' = TRUE
     /\ UNCHANGED <<returnFromFilling, drainPrimaryOnReturn>>
  \/ /\ state \in {"Filling", "Delayed"}
     /\ state' = "ReturningLive"
     /\ returnFromFilling' = (state = "Filling")
     /\ drainPrimaryOnReturn' = FALSE
     /\ UNCHANGED <<errorReturnPending, primaryQueues, primaryFallback, holdQueues,
                    holdFallback, holdGopStart, cleanupHoldRequested>>

RequestBypass ==
  /\ frontend = "idle"
  /\ Bypassed
  /\ UNCHANGED <<lastSource, cadenceVars, holdReady, holdFormats, outVars, frontVars,
                 signalVars, fillStart, clock, spent>>

\* maintenance, first critical section.
MaintenanceTake ==
  /\ frontend = "idle" /\ cleanupHoldRequested
  /\ cleanupHoldRequested' = FALSE
  /\ frontend' = "stopOld"
  /\ retiring' = (pipeline = "running")
  /\ pipeline' = "none"
  /\ UNCHANGED <<controlVars, primaryVars, cadenceVars, holdVars, outVars, signalVars,
                 fillStart, clock, mismatch, spent>>

MaintenanceStop ==
  /\ frontend = "stopOld"
  /\ frontend' = "retireQueues"
  /\ retiring' = FALSE
  /\ UNCHANGED <<controlVars, primaryVars, cadenceVars, holdVars, outVars, signalVars,
                 cleanupHoldRequested, fillStart, clock, mismatch, pipeline, spent>>

\* Second critical section: what the state then no longer needs is freed.
MaintenanceRetire ==
  /\ frontend = "retireQueues"
  /\ frontend' = "idle"
  /\ IF state \in LiveStates
     THEN primaryQueues' = NoPackets /\ primaryFallback' = NoPackets
     ELSE UNCHANGED <<primaryQueues, primaryFallback>>
  /\ IF state \in LiveStates \cup {"Delayed"}
     THEN holdQueues' = NoPackets /\ holdFallback' = NoPackets /\ holdGopStart' = 0
     ELSE UNCHANGED <<holdQueues, holdFallback, holdGopStart>>
  /\ UNCHANGED <<controlVars, lastSource, cadenceVars, holdReady, holdFormats, outVars,
                 signalVars, cleanupHoldRequested, fillStart, clock, mismatch, pipeline,
                 retiring, spent>>

\* reconnect_signal, from the output's reconnection thread; data capture has
\* ended.
Reconnect ==
  /\ connected /\ spent.reconnects < MaxReconnects
  /\ spent' = [spent EXCEPT !.reconnects = @ + 1]
  /\ connected' = FALSE
  /\ reconnectResetPending' = TRUE
  /\ IF state \in {"Bypass", "ReturningLive"}
     THEN UNCHANGED <<controlVars, primaryQueues, primaryFallback, holdQueues, holdFallback,
                      holdGopStart, cleanupHoldRequested>>
     ELSE Bypassed
  /\ UNCHANGED <<lastSource, cadenceVars, holdReady, holdFormats, outVars, frontVars,
                 reconnectRearmRequested, fillStart, clock>>

\* activate_signal, before the new connection's first packet, which for video
\* is a keyframe (libobs drops what precedes it).
Activate ==
  /\ ~connected /\ reconnectResetPending
  /\ connected' = TRUE
  /\ reconnectResetPending' = FALSE
  /\ reconnectRearmRequested' = TRUE
  /\ state' = "Bypass"
  /\ errorReturnPending' = FALSE
  /\ cleanupHoldRequested' = TRUE
  /\ offset' = 0 /\ maxPts' = NoDts /\ fillStart' = 0
  /\ lastPrimary' = NoTimes /\ lastSource' = NoTimes /\ realignmentPending' = FALSE
  /\ primaryFormats' = {} /\ holdFormats' = {}
  /\ clock' = [clock EXCEPT !["primary"].left = 0]
  /\ peakPts' = NoDts
  /\ lastOut' = [l \in Lanes |-> [lastOut[l] EXCEPT !.dts = NoDts, !.via = "reset"]]
  /\ UNCHANGED <<returnFromFilling, drainPrimaryOnReturn, primaryQueues, primaryFallback,
                 holdQueues, holdFallback, holdReady, holdGopStart, frontVars, spent>>

\* take_rearm_request, from the controller's poll.
TakeRearmRequest ==
  /\ frontend = "idle" /\ reconnectRearmRequested
  /\ reconnectRearmRequested' = FALSE
  /\ UNCHANGED <<controlVars, primaryVars, cadenceVars, holdVars, outVars, frontVars,
                 reconnectResetPending, connected, cleanupHoldRequested, fillStart, clock, spent>>

\* The encoder skips frames: media time passes without a packet.
EncoderHole(l) ==
  /\ spent.holes < MaxHoles
  /\ BFrames => clock["primary"].left % 2 = 0
  /\ spent' = [spent EXCEPT !.holes = @ + 1]
  /\ clock' = [clock EXCEPT !["primary"].dts[l] = @ + HoleTicks]
  /\ UNCHANGED <<controlVars, primaryVars, cadenceVars, holdVars, outVars, frontVars,
                 signalVars, cleanupHoldRequested, fillStart>>

----------------------------------------------------------------------------
StartOfEncoder == [dts |-> [l \in Lanes |-> 0], seq |-> [l \in Lanes |-> 1], left |-> 0]

Init ==
  /\ state = "Bypass"
  /\ primaryQueues = NoPackets /\ holdQueues = NoPackets
  /\ primaryFallback = NoPackets /\ holdFallback = NoPackets
  /\ holdReady = FALSE /\ returnFromFilling = FALSE /\ drainPrimaryOnReturn = FALSE
  /\ cleanupHoldRequested = FALSE /\ errorReturnPending = FALSE /\ realignmentPending = FALSE
  /\ fillStart = 0 /\ holdGopStart = 0
  /\ primaryFormats = {} /\ holdFormats = {}
  /\ lastPrimary = NoTimes /\ lastSource = NoTimes
  /\ offset = 0 /\ maxPts = NoDts /\ peakPts = NoDts
  /\ frontend = "idle" /\ pipeline = "none" /\ retiring = FALSE /\ mismatch = {}
  /\ reconnectResetPending = FALSE /\ reconnectRearmRequested = FALSE /\ connected = TRUE
  /\ clock = [src \in {"primary", "hold"} |-> StartOfEncoder]
  /\ spent = [requests |-> 0, reconnects |-> 0, holes |-> 0]
  /\ lastOut = [l \in Lanes |-> [via |-> "live", src |-> "primary", seq |-> 0, key |-> TRUE,
                                 age |-> 0, dts |-> NoDts, pts |-> NoDts]]

Frontend ==
  \/ TakeOldPipeline \/ RetireOldPipeline \/ PublishDelay
  \/ StartPipeline \/ StartPipelineFails
  \/ RequestBypass
  \/ MaintenanceTake \/ MaintenanceStop \/ MaintenanceRetire
  \/ TakeRearmRequest

Next ==
  \/ \E l \in Lanes : PrimaryPacket(l) \/ HoldPacket(l)
  \/ Frontend
  \/ Reconnect
  \/ Activate
  \/ \E l \in Lanes : EncoderHole(l)

Spec == Init /\ [][Next]_vars

----------------------------------------------------------------------------
(* Properties.                                                             *)

EmittedPacket ==
  [via : {"live", "queue", "fallback", "reset"}, src : {"primary", "hold"}, seq : Nat,
   key : BOOLEAN, age : Int, dts : Int, pts : Int]

LaneQueues == [Lanes -> Seq(Packet)]

EncoderClock == [dts : [Lanes -> Nat], seq : [Lanes -> Nat], left : Nat]

FrontendSteps == {"idle", "retireOld", "publish", "start", "stopOld", "retireQueues"}

ControlOK == /\ state \in DelayStates
             /\ returnFromFilling \in BOOLEAN
             /\ drainPrimaryOnReturn \in BOOLEAN
             /\ errorReturnPending \in BOOLEAN
PrimaryOK == /\ primaryQueues \in LaneQueues
             /\ primaryFallback \in LaneQueues
             /\ lastSource \in [Lanes -> Int]
CadenceOK == /\ primaryFormats \subseteq Lanes
             /\ lastPrimary \in [Lanes -> Int]
             /\ realignmentPending \in BOOLEAN
HoldOK    == /\ holdQueues \in LaneQueues
             /\ holdFallback \in LaneQueues
             /\ holdReady \in BOOLEAN
             /\ holdGopStart \in Nat
             /\ holdFormats \subseteq Lanes
OutOK     == /\ offset \in Nat
             /\ maxPts \in Int
             /\ peakPts \in Int
             /\ lastOut \in [Lanes -> EmittedPacket]
FrontOK   == /\ frontend \in FrontendSteps
             /\ pipeline \in {"none", "running", "stopped"}
             /\ retiring \in BOOLEAN
             /\ mismatch \subseteq Lanes
SignalOK  == /\ reconnectResetPending \in BOOLEAN
             /\ reconnectRearmRequested \in BOOLEAN
             /\ connected \in BOOLEAN

\* Every variable keeps its type.
TypeOK ==
  /\ ControlOK /\ PrimaryOK /\ CadenceOK /\ HoldOK /\ OutOK /\ FrontOK /\ SignalOK
  /\ cleanupHoldRequested \in BOOLEAN
  /\ fillStart \in Nat
  /\ clock \in [{"primary", "hold"} -> EncoderClock]
  /\ spent \in [requests : Nat, reconnects : Nat, holes : Nat]

\* In idle frontend states where no hold packet is wanted any more, a collector
\* that still exists is scheduled for maintenance: the hold encoder, which
\* competes with the stream for the GPU, never runs on unnoticed.
PipelineReclaimed ==
  (frontend = "idle" /\ pipeline # "none" /\ state \in LiveStates \cup {"Delayed"})
    => cleanupHoldRequested

\* A clean-up that was asked for an earlier generation never reaches the
\* collector of the generation that prerolls or fills.
NoStaleCleanup ==
  state \in {"Preparing", "Filling"} =>
    /\ ~cleanupHoldRequested
    /\ ~retiring
    /\ frontend \in {"idle", "start"}
    /\ frontend = "idle" => pipeline = "running"

\* The preroll kept for the switch is one decodable hold GOP: it starts with the
\* keyframe that set the GOP origin, no frame of it is missing, and no audio
\* is older.
Contiguous(q) == \A i \in 1..(Len(q) - 1) : q[i + 1].seq = q[i].seq + 1

PrerollIsOneGop ==
  (state = "Preparing" /\ holdReady) =>
    /\ holdQueues[Video] # <<>>
    /\ Head(holdQueues[Video]).key /\ Head(holdQueues[Video]).dts = holdGopStart
    /\ Contiguous(holdQueues[Video])
    /\ \A l \in AudioTracks : holdQueues[l] # <<>> => Head(holdQueues[l]).dts >= holdGopStart

\* Steps in which the output emits a packet of lane l.
Emits(l) == clock'["primary"].seq[l] # clock["primary"].seq[l]

\* What follows in decoding order.
Follows(earlier, later) == later.src = earlier.src /\ later.seq = earlier.seq + 1

\* Where the code gives up the next property: a Filling that is being left.
LeavingFilling == state' = "ReturningLive" /\ returnFromFilling' /\ ~errorReturnPending'

\* Video is spliced on keyframes only: a frame that is no keyframe follows, in
\* the output, the frame it follows in its own GOP.
SplicesOnKeyframes ==
  [][Emits(Video) => \/ lastOut'[Video].key
                     \/ Follows(lastOut[Video], lastOut'[Video])]_vars

\* ... and in every other step, so the exception is the only one: overflow,
\* holes, reconnections and hold GOPs of any length included.
SplicesOnKeyframesOtherwise ==
  [][(Emits(Video) /\ ~LeavingFilling) => \/ lastOut'[Video].key
                                         \/ Follows(lastOut[Video], lastOut'[Video])]_vars

\* From the switch to hold until the return, no lane ever shows the present.
NoLiveLeak ==
  [][\A l \in Lanes : (Emits(l) /\ state' \in {"Filling", "Delayed", "ReturningLive"})
        => lastOut'[l].via # "live"]_vars

\* A lane of a delayed output is as late as was asked for, within the tick that
\* separates the lanes, as long as the encoders leave no hole.
AgeIsTarget ==
  [][\A l \in Lanes : (Emits(l) /\ state' = "Delayed")
        => lastOut'[l].age - Target \in IF l = Video THEN {0} ELSE -1..1]_vars

\* While delayed, no packet is lost or repeated, on any lane.
NothingLostWhileDelayed ==
  [][\A l \in Lanes : (Emits(l) /\ state = "Delayed" /\ lastOut[l].src = "primary" /\ lastOut[l].via = "queue"
                         /\ lastOut'[l].via = "queue")
        => Follows(lastOut[l], lastOut'[l])]_vars

\* After a hole the lanes are brought together again: audio that is emitted
\* while no realignment is pending is as late as the video, but for the two
\* ticks of the tolerance.
LanesInSync ==
  [][\A l \in AudioTracks :
       (Emits(l) /\ state = "Delayed" /\ state' = "Delayed" /\ ~realignmentPending')
         => LET skew == lastOut'[l].age - lastOut[Video].age
            IN  skew \in -2..2]_vars

\* The muxer sees strictly increasing DTS on every lane of one connection.
IncreasingDts ==
  [][\A l \in Lanes : Emits(l) => lastOut'[l].dts > lastOut[l].dts]_vars

\* What a session shows on an error, until it is live again.
ShowsFallback == state' = "ReturningLive" /\ lastOut'[Video].via = "fallback"

\* A keyframe is presented after everything that was emitted before it, but for
\* the exceptions that SplicesOnKeyframesOtherwise makes and repeated fallbacks.
KeyframesPresentedLast ==
  [][(Emits(Video) /\ lastOut'[Video].key /\ ~LeavingFilling /\ ~ShowsFallback)
       => lastOut'[Video].pts > peakPts]_vars

\* Through every splice, with B-frames and without: the timestamps of each lane ascend,
\* and no keyframe is shown before what was sent ahead of it.
TimestampsAscend == IncreasingDts /\ KeyframesPresentedLast

\* The session as the delay controller sees it keeps to the contract on which the
\* model of the controller rests, in every interleaving of packets, requests,
\* clean-ups and reconnections.
SeenByController == INSTANCE SessionContract WITH
  session <- [state |-> state, failing |-> errorReturnPending, cleanup |-> cleanupHoldRequested,
              reset |-> reconnectResetPending, rearm |-> reconnectRearmRequested,
              holds |-> pipeline # "none"]

KeepsSessionContract == SeenByController!Contract

============================================================================
