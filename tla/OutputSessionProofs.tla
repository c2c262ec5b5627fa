------------------------ MODULE OutputSessionProofs ------------------------
(***************************************************************************)
(* Theorems about OutputSession, for every value of its constants: the     *)
(* hand-over of the hold encoder between the generations of a delay, the   *)
(* types of all variables, the preroll, the contract of a session with the *)
(* controller, and what its video timeline is: spliced where it can be     *)
(* decoded, with ascending timestamps.  Where the encoders leave no hole,  *)
(* the queues are an exact delay line: nothing is shown early, the delay is *)
(* the target, and nothing is lost.  With whatever holes they leave, audio *)
(* that is sent while no realignment is pending is in step with the video. *)
(***************************************************************************)
EXTENDS OutputSession, TLAPS, FiniteSetTheorems, SequenceTheorems, WellFoundedInduction

LaneSteps == \E l \in Lanes : PrimaryPacket(l) \/ HoldPacket(l) \/ EncoderHole(l)

\* The actors of a session.
LEMMA NextCases == Next => LaneSteps \/ Frontend \/ Reconnect \/ Activate
BY DEF Next, LaneSteps

----------------------------------------------------------------------------
(* The hand-over.  What the two invariants need besides themselves: only   *)
(* a stop that has not been joined yet leaves a collector retiring; while  *)
(* the frontend is at work holdPipeline_ is empty; a request proceeds only *)
(* while the output is live; and a reconnection that overtakes a request   *)
(* leaves its clean-up request to the maintenance that follows.            *)

ControlTypes ==
  /\ state \in DelayStates
  /\ frontend \in FrontendSteps
  /\ pipeline \in {"none", "running", "stopped"}
  /\ cleanupHoldRequested \in BOOLEAN
  /\ retiring \in BOOLEAN

HandOver ==
  /\ retiring => frontend \in {"retireOld", "stopOld"}
  /\ frontend # "idle" => pipeline = "none"
  /\ frontend \in {"retireOld", "publish"} => state \in LiveStates
  /\ (frontend = "start" /\ state \in LiveStates \cup {"Delayed"}) => cleanupHoldRequested

IControl == ControlTypes /\ HandOver /\ PipelineReclaimed /\ NoStaleCleanup

\* The packet callback: it never touches what the frontend owns.
LEMMA PrimaryPacketControl ==
  ASSUME IControl, NEW l \in Lanes, PrimaryPacket(l)
  PROVE  IControl'
<1>0. PICK p :
        \/ PassUntouched(l, p) \/ PassLive(l, p) \/ RestoreLive(l, p) \/ Fill(l, p)
        \/ StartDelayed(l, p) \/ Delay(l, p) \/ DelayLimitLive(l, p) \/ DelayLimitDrain(l, p)
        \/ ReturnOnFallback(l, p) \/ ReturnFromFilling(l, p) \/ ReturnFromDelayed(l, p)
  BY DEF PrimaryPacket
<1>1. UNCHANGED <<frontend, pipeline, retiring>>
  BY DEF PrimaryPacket, Carrier, frontVars
<1>2. /\ state' \in DelayStates
      /\ cleanupHoldRequested' \in BOOLEAN
      /\ state' \in {"Preparing", "Filling"} =>
           /\ state \in {"Preparing", "Filling"}
           /\ cleanupHoldRequested' = cleanupHoldRequested
      /\ state' \in LiveStates \cup {"Delayed"} =>
           cleanupHoldRequested' \/ (state \in LiveStates \cup {"Delayed"} /\ cleanupHoldRequested' = cleanupHoldRequested)
      /\ state \in LiveStates => state' = state
  <2> USE DEF IControl, ControlTypes, DelayStates, LiveStates
  <2>1. CASE PassUntouched(l, p)
    BY <2>1 DEF PassUntouched, controlVars
  <2>2. CASE PassLive(l, p)
    BY <2>2 DEF PassLive, controlVars
  <2>3. CASE RestoreLive(l, p)
    BY <2>3 DEF RestoreLive
  <2>4. CASE Fill(l, p)
    <3>1. /\ cleanupHoldRequested' = cleanupHoldRequested
          /\ state' \in {"Filling", "ReturningLive"}
          /\ state \in {"Preparing", "Filling"}
      BY <2>4 DEF Fill, StartsFilling, EmitHold, ReturnLiveWithError
    <3> QED BY <3>1
  <2>5. CASE StartDelayed(l, p)
    BY <2>5 DEF StartDelayed, EmitPrimary, DurationReady
  <2>6. CASE Delay(l, p)
    BY <2>6 DEF Delay, EmitPrimary
  <2>7. CASE DelayLimitLive(l, p)
    BY <2>7 DEF DelayLimitLive
  <2>8. CASE DelayLimitDrain(l, p)
    BY <2>8 DEF DelayLimitDrain, EmitPrimary
  <2>9. CASE ReturnOnFallback(l, p)
    BY <2>9 DEF ReturnOnFallback, controlVars
  <2>10. CASE ReturnFromFilling(l, p)
    BY <2>10 DEF ReturnFromFilling, EmitHold, ReturnLiveWithError
  <2>11. CASE ReturnFromDelayed(l, p)
    BY <2>11 DEF ReturnFromDelayed, EmitPrimary
  <2> QED BY <1>0, <2>1, <2>2, <2>3, <2>4, <2>5, <2>6, <2>7, <2>8, <2>9, <2>10, <2>11
<1> QED BY <1>1, <1>2 DEF IControl, ControlTypes, HandOver, PipelineReclaimed, NoStaleCleanup,
              LiveStates, DelayStates

\* The collector callback.
LEMMA HoldPacketControl ==
  ASSUME IControl, NEW l \in Lanes, HoldPacket(l)
  PROVE  IControl'
<1>0. PICK h, compatible :
        HoldLimit(l, h) \/ RejectHold(l, h, compatible) \/ KeepHold(l, h, compatible)
  BY DEF HoldPacket
<1>1. UNCHANGED <<frontend, pipeline, retiring>>
  BY DEF HoldPacket, frontVars
<1>2. \/ state' = state /\ cleanupHoldRequested' = cleanupHoldRequested
      \/ state' \in {"Error", "ReturningLive"} /\ cleanupHoldRequested'
  <2>1. CASE HoldLimit(l, h)
    BY <2>1 DEF HoldLimit
  <2>2. CASE RejectHold(l, h, compatible)
    BY <2>2 DEF RejectHold, SetError
  <2>3. CASE KeepHold(l, h, compatible)
    BY <2>3 DEF KeepHold
  <2> QED BY <1>0, <2>1, <2>2, <2>3
<1>3. state \in {"Preparing", "Filling", "ReturningLive"}
  BY DEF HoldPacket, HoldAccepted
<1>4. cleanupHoldRequested' \in BOOLEAN
  <2>1. CASE HoldLimit(l, h)
    BY <2>1 DEF HoldLimit
  <2>2. CASE RejectHold(l, h, compatible)
    BY <2>2 DEF RejectHold, SetError
  <2>3. CASE KeepHold(l, h, compatible)
    BY <2>3 DEF KeepHold, IControl, ControlTypes
  <2> QED BY <1>0, <2>1, <2>2, <2>3
<1> QED BY <1>1, <1>2, <1>3, <1>4 DEF IControl, ControlTypes, HandOver, PipelineReclaimed, NoStaleCleanup,
              LiveStates, DelayStates

\* The frontend thread: request_delay, request_bypass and maintenance.
LEMMA FrontendControl ==
  ASSUME IControl, Frontend
  PROVE  IControl'
<1> USE DEF IControl, ControlTypes, HandOver, PipelineReclaimed, NoStaleCleanup,
            LiveStates, DelayStates, FrontendSteps
<1>1. CASE TakeOldPipeline
  BY <1>1 DEF TakeOldPipeline, controlVars
<1>2. CASE RetireOldPipeline
  BY <1>2 DEF RetireOldPipeline, controlVars
<1>3. CASE PublishDelay
  BY <1>3 DEF PublishDelay
<1>4. CASE StartPipeline
  BY <1>4 DEF StartPipeline, controlVars
<1>5. CASE StartPipelineFails
  BY <1>5 DEF StartPipelineFails, SetError
<1>6. CASE RequestBypass
  BY <1>6 DEF RequestBypass, Bypassed, frontVars
<1>7. CASE MaintenanceTake
  BY <1>7 DEF MaintenanceTake, controlVars
<1>8. CASE MaintenanceStop
  BY <1>8 DEF MaintenanceStop, controlVars
<1>9. CASE MaintenanceRetire
  BY <1>9 DEF MaintenanceRetire, controlVars
<1>10. CASE TakeRearmRequest
  BY <1>10 DEF TakeRearmRequest, controlVars, frontVars
<1> QED BY <1>1, <1>2, <1>3, <1>4, <1>5, <1>6, <1>7, <1>8, <1>9, <1>10 DEF Frontend

\* The signals, which may fall between any two steps of the frontend.
LEMMA SignalControl ==
  ASSUME IControl, Reconnect \/ Activate
  PROVE  IControl'
<1> USE DEF IControl, ControlTypes, HandOver, PipelineReclaimed, NoStaleCleanup,
            LiveStates, DelayStates, FrontendSteps
<1>1. CASE Reconnect
  BY <1>1 DEF Reconnect, Bypassed, frontVars, controlVars
<1>2. CASE Activate
  BY <1>2 DEF Activate, frontVars
<1> QED BY <1>1, <1>2

\* Every step of every thread keeps the control invariant.
LEMMA ControlInductive == IControl /\ [Next]_vars => IControl'
<1> SUFFICES ASSUME IControl, [Next]_vars
             PROVE  IControl'
  OBVIOUS
<1>1. CASE LaneSteps
  <2> PICK l \in Lanes : PrimaryPacket(l) \/ HoldPacket(l) \/ EncoderHole(l)
    BY <1>1 DEF LaneSteps
  <2>1. CASE PrimaryPacket(l)
    BY <2>1, PrimaryPacketControl
  <2>2. CASE HoldPacket(l)
    BY <2>2, HoldPacketControl
  <2>3. CASE EncoderHole(l)
    BY <2>3 DEF EncoderHole, controlVars, frontVars, IControl, ControlTypes, HandOver,
                PipelineReclaimed, NoStaleCleanup
  <2> QED BY <2>1, <2>2, <2>3
<1>2. CASE Frontend
  BY <1>2, FrontendControl
<1>3. CASE Reconnect \/ Activate
  BY <1>3, SignalControl
<1>4. CASE UNCHANGED vars
  BY <1>4 DEF vars, controlVars, frontVars, IControl, ControlTypes, HandOver,
              PipelineReclaimed, NoStaleCleanup
<1> QED BY <1>1, <1>2, <1>3, <1>4, NextCases

\* The hand-over invariant holds in every behaviour, whichever way the packet
\* callbacks, the signals and the frontend's critical sections interleave.
THEOREM ControlInvariant == Spec => []IControl
<1>1. Init => IControl
  BY DEF Init, IControl, ControlTypes, HandOver, PipelineReclaimed, NoStaleCleanup,
         DelayStates, LiveStates, FrontendSteps
<1> QED BY <1>1, ControlInductive, PTL DEF Spec

\* The hold encoder is never forgotten: however request_delay, maintenance and
\* the signals interleave, a collector nobody needs is scheduled for clean-up.
THEOREM HoldEncoderReclaimed == Spec => []PipelineReclaimed
BY ControlInvariant, PTL DEF IControl

\* A generation that prerolls or fills has a collector of its own, which no
\* clean-up of an earlier generation can reach.
THEOREM GenerationsKeptApart == Spec => []NoStaleCleanup
BY ControlInvariant, PTL DEF IControl

----------------------------------------------------------------------------
(* Types.                                                                  *)

USE DEF LaneQueues, ControlOK, PrimaryOK, CadenceOK, HoldOK, OutOK, FrontOK, SignalOK

(* What the helpers of the packet path return.                             *)

\* Lanes are natural numbers, and video is one of them.
LEMMA LanesAreNaturals == Lanes \subseteq Nat /\ Video \in Lanes
BY SessionAssumption DEF Lanes, Video

\* A composition offset is a natural number.
LEMMA CompositionType == ASSUME NEW left \in Nat PROVE CompositionTicks(left) \in Nat
BY DEF CompositionTicks

\* An encoder produces packets ...
LEMMA EncodedType ==
  ASSUME TypeOK, NEW src \in {"primary", "hold"}, NEW l \in Lanes, NEW size \in PacketSizes(l)
  PROVE  Encoded(src, l, size) \in Packet
<1>1. clock[src] \in EncoderClock
  BY DEF TypeOK
<1>2. /\ clock[src].seq[l] \in Nat /\ clock[src].dts[l] \in Nat /\ clock[src].left \in Nat
  BY <1>1 DEF EncoderClock
<1>3. size \in Nat
  BY SessionAssumption DEF PacketSizes
<1> QED BY <1>2, <1>3, CompositionType DEF Encoded, Packet

\* ... and its clock stays a clock.
LEMMA DeliversType ==
  ASSUME TypeOK, NEW src \in {"primary", "hold"}, NEW l \in Lanes, Delivers(src, l)
  PROVE  clock' \in [{"primary", "hold"} -> EncoderClock]
<1>1. clock \in [{"primary", "hold"} -> EncoderClock]
  BY DEF TypeOK
<1>2. PICK left \in IF l = Video THEN FramesLeft(clock[src].left) ELSE {clock[src].left} :
        clock' = [clock EXCEPT ![src].dts[l] = @ + 1, ![src].seq[l] = @ + 1, ![src].left = left]
  BY DEF Delivers
<1>3. clock[src].left \in Nat
  BY <1>1 DEF EncoderClock
<1>4. left \in Nat
  BY <1>2, <1>3, SessionAssumption DEF FramesLeft
<1> QED BY <1>1, <1>2, <1>4 DEF EncoderClock

\* replace_from chooses a packet.
LEMMA ChooseType ==
  ASSUME NEW queues \in LaneQueues, NEW fallback \in LaneQueues, NEW usable \in BOOLEAN,
         NEW l \in Lanes, NEW p \in Packet
  PROVE  LET chosen == Choose(queues, fallback, usable, l, p)
         IN  /\ chosen.via \in {"queue", "fallback", "live"}
             /\ chosen.pkt \in Packet
             /\ chosen.via = "queue" => queues[l] # <<>>
<1>1. queues[l] \in Seq(Packet) /\ fallback[l] \in Seq(Packet)
  OBVIOUS
<1>2. queues[l] # <<>> => Head(queues[l]) \in Packet
  BY <1>1
<1>3. fallback[l] # <<>> => Head(fallback[l]) \in Packet
  BY <1>1
<1> QED BY <1>2, <1>3 DEF Choose

\* Taking the head of a lane leaves queues of packets.
LEMMA TakeHeadType ==
  ASSUME NEW queues \in LaneQueues, NEW l \in Lanes, NEW chosen,
         chosen.via = "queue" => queues[l] # <<>>
  PROVE  TakeHead(queues, l, chosen) \in LaneQueues
<1>1. queues[l] \in Seq(Packet)
  OBVIOUS
<1>2. queues[l] # <<>> => Tail(queues[l]) \in Seq(Packet)
  BY <1>1
<1> QED BY <1>2 DEF TakeHead

\* What leaves the output is well typed, its timeline offset a natural number.
LEMMA EmitType ==
  ASSUME TypeOK, NEW l \in Lanes, NEW p \in Packet, NEW chosen, NEW epoch \in BOOLEAN,
         chosen.via \in {"queue", "fallback", "live"}, chosen.pkt \in Packet,
         Emit(l, p, chosen, epoch)
  PROVE  offset' \in Nat /\ maxPts' \in Int /\ peakPts' \in Int /\ lastOut' \in [Lanes -> EmittedPacket]
<1> DEFINE base  == p.dts + offset
           shift == IF epoch THEN EpochShift(l, base, chosen.pkt.cto) ELSE 0
           pts   == base + shift + chosen.pkt.cto
<1>1. /\ p.dts \in Nat
      /\ chosen.pkt.cto \in Nat /\ chosen.pkt.dts \in Nat /\ chosen.pkt.seq \in Nat
      /\ chosen.pkt.key \in BOOLEAN /\ chosen.pkt.src \in {"primary", "hold"}
  BY DEF Packet
<1>2. offset \in Nat /\ maxPts \in Int /\ peakPts \in Int /\ lastOut \in [Lanes -> EmittedPacket]
  BY DEF TypeOK
<1>3. base \in Nat
  BY <1>1, <1>2
<1>4. shift \in Nat
  <2>1. EpochShift(l, base, chosen.pkt.cto) \in Nat
    BY <1>1, <1>2, <1>3 DEF EpochShift
  <2> QED BY <2>1
<1>5. pts \in Nat
  BY <1>1, <1>3, <1>4
<1>6. /\ offset' = offset + shift
      /\ maxPts' = IF l = Video /\ pts > maxPts THEN pts ELSE maxPts
      /\ peakPts' = IF l = Video /\ pts > peakPts THEN pts ELSE peakPts
      /\ lastOut' = [lastOut EXCEPT ![l] =
           [via |-> chosen.via, src |-> chosen.pkt.src, seq |-> chosen.pkt.seq,
            key |-> chosen.pkt.key, age |-> p.dts - chosen.pkt.dts,
            dts |-> base + shift, pts |-> pts]]
  BY DEF Emit
<1> HIDE DEF base, shift, pts
<1>7. base + shift \in Int /\ p.dts - chosen.pkt.dts \in Int /\ pts \in Int
  BY <1>1, <1>3, <1>4, <1>5
<1>8. [via |-> chosen.via, src |-> chosen.pkt.src, seq |-> chosen.pkt.seq,
       key |-> chosen.pkt.key, age |-> p.dts - chosen.pkt.dts,
       dts |-> base + shift, pts |-> pts] \in EmittedPacket
  BY <1>1, <1>7 DEF EmittedPacket
<1> QED BY <1>2, <1>4, <1>5, <1>6, <1>8

\* A suffix of a lane is a lane.
LEMMA DropBeforeType ==
  ASSUME NEW s \in Seq(Packet), NEW origin
  PROVE  DropBefore(s, origin) \in Seq(Packet)
<1> DEFINE old == {i \in 1..Len(s) : s[i].dts < origin}
<1>0. Len(s) \in Nat
  OBVIOUS
<1>1. IsFiniteSet(1..Len(s)) /\ Cardinality(1..Len(s)) = Len(s)
  BY <1>0, FS_Interval
<1>2. IsFiniteSet(old) /\ Cardinality(old) \in Nat /\ Cardinality(old) <= Len(s)
  BY <1>0, <1>1, FS_Subset, FS_CardinalityType
<1>3. Cardinality(old) + 1 \in Int /\ Len(s) \in Int
  BY <1>2
<1>4. \A i \in (Cardinality(old) + 1)..Len(s) : s[i] \in Packet
  BY <1>2
<1>5. SubSeq(s, Cardinality(old) + 1, Len(s)) \in Seq(Packet)
  BY <1>3, <1>4, SubSeqProperties
<1> QED BY <1>5 DEF DropBefore

\* So is a lane with one packet more.
LEMMA BufferedType ==
  ASSUME TypeOK, NEW l \in Lanes, NEW p \in Packet
  PROVE  Buffered(l, p) \in LaneQueues
BY DEF Buffered, TypeOK

\* What a primary packet finds when it is to be replaced from the queues.
Found == [queues : LaneQueues, fallback : LaneQueues, sources : [Lanes -> Int],
          pending : BOOLEAN, cut : BOOLEAN]

\* Whether a hole was seen is a Boolean.
LEMMA HoleSeenType ==
  ASSUME TypeOK, NEW l \in Lanes, NEW p \in Packet PROVE HoleSeen(l, p) \in BOOLEAN
BY DEF HoleSeen, Hole, TypeOK

\* What the carrier finds when no realignment is due ...
LEMMA NotRealignedType ==
  ASSUME TypeOK, NEW queues \in LaneQueues, NEW l \in Lanes, NEW p \in Packet
  PROVE  NotRealigned(queues, l, p) \in Found
BY HoleSeenType DEF NotRealigned, Found, TypeOK

\* ... and when one is.
LEMMA RealignedType ==
  ASSUME TypeOK, NEW queues \in LaneQueues, NEW l \in Lanes, NEW p \in Packet
  PROVE  Realigned(queues, l, p) \in Found
<1>1. \A pending \in BOOLEAN :
        [queues |-> queues, fallback |-> primaryFallback, sources |-> lastSource,
         pending |-> pending, cut |-> FALSE] \in Found
  BY DEF Found, TypeOK
<1>2. \A origin :
        [queues |-> [m \in Lanes |-> DropBefore(queues[m], origin)],
         fallback |-> [m \in Lanes |-> <<>>], sources |-> [m \in Lanes |-> NoDts],
         pending |-> FALSE, cut |-> TRUE] \in Found
  <2> TAKE origin
  <2>1. [m \in Lanes |-> DropBefore(queues[m], origin)] \in LaneQueues
    BY DropBeforeType
  <2>2. [m \in Lanes |-> <<>>] \in LaneQueues
    OBVIOUS
  <2> QED BY <2>1, <2>2 DEF Found, NoDts
<1> QED BY <1>1, <1>2, HoleSeenType DEF Realigned

\* The parts of what it finds.
LEMMA FoundFields ==
  ASSUME NEW found \in Found
  PROVE  /\ found.queues \in LaneQueues /\ found.fallback \in LaneQueues
         /\ found.sources \in [Lanes -> Int] /\ found.pending \in BOOLEAN /\ found.cut \in BOOLEAN
BY DEF Found

----------------------------------------------------------------------------
(* The two ways of replacing a carrier.                                    *)

\* An emission of an older packet of the output keeps the types.
LEMMA EmitPrimaryType ==
  ASSUME TypeOK, NEW l \in Lanes, NEW p \in Packet, NEW found \in Found,
         NEW next \in DelayStates, EmitPrimary(l, p, found, next)
  PROVE  /\ offset' \in Nat /\ maxPts' \in Int /\ peakPts' \in Int
         /\ lastOut' \in [Lanes -> EmittedPacket]
         /\ primaryQueues' \in LaneQueues /\ primaryFallback' \in LaneQueues
         /\ lastSource' \in [Lanes -> Int] /\ realignmentPending' \in BOOLEAN
         /\ state' \in DelayStates /\ errorReturnPending' \in BOOLEAN /\ returnFromFilling' \in BOOLEAN
         /\ UNCHANGED <<holdVars, fillStart>>
<1> DEFINE chosen == Choose(found.queues, found.fallback, TRUE, l, p)
<1>1. /\ chosen.via \in {"queue", "fallback", "live"} /\ chosen.pkt \in Packet
      /\ chosen.via = "queue" => found.queues[l] # <<>>
  BY ChooseType, FoundFields
<1>2. /\ TakePrimary(l, chosen, found.queues, found.fallback, found.sources, found.pending)
      /\ Emit(l, p, chosen, found.cut \/ chosen.via = "fallback")
      /\ state' = IF chosen.via = "queue" THEN next ELSE "ReturningLive"
      /\ errorReturnPending' = (errorReturnPending \/ ~(chosen.via = "queue"))
      /\ returnFromFilling' = (returnFromFilling /\ chosen.via = "queue" /\ next = "Delayed")
      /\ UNCHANGED <<holdVars, fillStart>>
  BY DEF EmitPrimary
<1> HIDE DEF chosen
<1>3. (found.cut \/ chosen.via = "fallback") \in BOOLEAN
  OBVIOUS
<1>4. offset' \in Nat /\ maxPts' \in Int /\ peakPts' \in Int /\ lastOut' \in [Lanes -> EmittedPacket]
  BY <1>1, <1>2, <1>3, EmitType
<1>5. primaryQueues' \in LaneQueues
  BY <1>1, <1>2, TakeHeadType, FoundFields DEF TakePrimary
<1>6. primaryFallback' \in LaneQueues
  BY <1>1, <1>2, FoundFields DEF TakePrimary
<1>7. chosen.pkt.dts \in Nat
  BY <1>1 DEF Packet
<1>8. lastSource' \in [Lanes -> Int] /\ realignmentPending' \in BOOLEAN
  <2>1. \/ lastSource' = found.sources /\ realignmentPending' = found.pending
        \/ /\ lastSource' = [found.sources EXCEPT ![l] = chosen.pkt.dts]
           /\ realignmentPending' = (found.pending \/ Hole(found.sources[l], chosen.pkt.dts))
    BY <1>2 DEF TakePrimary
  <2>2. found.sources \in [Lanes -> Int] /\ found.pending \in BOOLEAN
    BY FoundFields
  <2>3. Hole(found.sources[l], chosen.pkt.dts) \in BOOLEAN
    BY DEF Hole
  <2> QED BY <1>7, <2>1, <2>2, <2>3
<1> QED BY <1>2, <1>4, <1>5, <1>6, <1>8 DEF DelayStates

\* So does an emission of a hold packet.
LEMMA EmitHoldType ==
  ASSUME TypeOK, NEW l \in Lanes, NEW p \in Packet, NEW epoch \in BOOLEAN, NEW strict \in BOOLEAN,
         NEW next \in DelayStates, EmitHold(l, p, epoch, strict, next)
  PROVE  /\ offset' \in Nat /\ maxPts' \in Int /\ peakPts' \in Int
         /\ lastOut' \in [Lanes -> EmittedPacket]
         /\ holdQueues' \in LaneQueues
         /\ state' \in DelayStates /\ errorReturnPending' \in BOOLEAN /\ returnFromFilling' \in BOOLEAN
         /\ UNCHANGED <<drainPrimaryOnReturn, holdFallback, holdReady, holdGopStart, holdFormats,
                        cleanupHoldRequested>>
<1> DEFINE chosen == Choose(holdQueues, holdFallback, l \notin mismatch, l, p)
<1>1. /\ chosen.via \in {"queue", "fallback", "live"} /\ chosen.pkt \in Packet
      /\ chosen.via = "queue" => holdQueues[l] # <<>>
  BY ChooseType DEF TypeOK
<1>2. /\ holdQueues' = TakeHead(holdQueues, l, chosen)
      /\ Emit(l, p, chosen, epoch \/ (strict /\ chosen.via = "fallback"))
      /\ IF chosen.via = "live" \/ (strict /\ chosen.via = "fallback")
         THEN ReturnLiveWithError(TRUE)
         ELSE /\ state' = next
              /\ returnFromFilling' = (returnFromFilling \/ next = "ReturningLive")
              /\ UNCHANGED errorReturnPending
      /\ UNCHANGED <<drainPrimaryOnReturn, holdFallback, holdReady, holdGopStart, holdFormats,
                     cleanupHoldRequested>>
  BY DEF EmitHold
<1> HIDE DEF chosen
<1>3. (epoch \/ (strict /\ chosen.via = "fallback")) \in BOOLEAN
  OBVIOUS
<1>4. offset' \in Nat /\ maxPts' \in Int /\ peakPts' \in Int /\ lastOut' \in [Lanes -> EmittedPacket]
  BY <1>1, <1>2, <1>3, EmitType
<1>5. holdQueues' \in LaneQueues
  BY <1>1, <1>2, TakeHeadType DEF TypeOK
<1>6. state' \in DelayStates /\ errorReturnPending' \in BOOLEAN /\ returnFromFilling' \in BOOLEAN
  BY <1>2 DEF ReturnLiveWithError, DelayStates, TypeOK
<1> QED BY <1>2, <1>4, <1>5, <1>6

----------------------------------------------------------------------------
(* The actions.                                                            *)

\* A group of variables that a step leaves alone keeps its type.
LEMMA Preserved ==
  ASSUME TypeOK
  PROVE  /\ UNCHANGED controlVars => ControlOK'
         /\ UNCHANGED primaryVars => PrimaryOK'
         /\ UNCHANGED cadenceVars => CadenceOK'
         /\ UNCHANGED holdVars => HoldOK'
         /\ UNCHANGED outVars => OutOK'
         /\ UNCHANGED frontVars => FrontOK'
         /\ UNCHANGED signalVars => SignalOK'
BY DEF TypeOK, controlVars, primaryVars, cadenceVars, holdVars, outVars, frontVars, signalVars

\* One more use of a bound.
LEMMA SpentType ==
  ASSUME NEW uses \in [requests : Nat, reconnects : Nat, holes : Nat]
  PROVE  /\ [uses EXCEPT !.requests = @ + 1] \in [requests : Nat, reconnects : Nat, holes : Nat]
         /\ [uses EXCEPT !.reconnects = @ + 1] \in [requests : Nat, reconnects : Nat, holes : Nat]
         /\ [uses EXCEPT !.holes = @ + 1] \in [requests : Nat, reconnects : Nat, holes : Nat]
<1>1. uses.requests + 1 \in Nat /\ uses.reconnects + 1 \in Nat /\ uses.holes + 1 \in Nat
  OBVIOUS
<1> QED BY <1>1

\* The packet callback keeps the types.
LEMMA PrimaryPacketType ==
  ASSUME TypeOK, NEW l \in Lanes, PrimaryPacket(l)
  PROVE  TypeOK'
<1>0. PICK size \in PacketSizes(l) :
        LET p == Encoded("primary", l, size)
        IN  \/ PassUntouched(l, p) \/ PassLive(l, p) \/ RestoreLive(l, p) \/ Fill(l, p)
            \/ StartDelayed(l, p) \/ Delay(l, p) \/ DelayLimitLive(l, p) \/ DelayLimitDrain(l, p)
            \/ ReturnOnFallback(l, p) \/ ReturnFromFilling(l, p) \/ ReturnFromDelayed(l, p)
  BY DEF PrimaryPacket
<1> DEFINE p == Encoded("primary", l, size)
<1>1. p \in Packet
  BY EncodedType
<1>2. /\ clock' \in [{"primary", "hold"} -> EncoderClock]
      /\ UNCHANGED <<frontVars, signalVars, spent>>
  BY DeliversType DEF PrimaryPacket, Carrier
<1>3. p.dts \in Nat /\ p.seq \in Nat /\ p.cto \in Nat /\ p.key \in BOOLEAN /\ p.src \in {"primary", "hold"}
  BY <1>1 DEF Packet
<1>4. \/ PassUntouched(l, p) \/ PassLive(l, p) \/ RestoreLive(l, p) \/ Fill(l, p)
      \/ StartDelayed(l, p) \/ Delay(l, p) \/ DelayLimitLive(l, p) \/ DelayLimitDrain(l, p)
      \/ ReturnOnFallback(l, p) \/ ReturnFromFilling(l, p) \/ ReturnFromDelayed(l, p)
  BY <1>0
<1> HIDE DEF p
<1>5. Observed(l, p) =>
        lastPrimary' \in [Lanes -> Int] /\ primaryFormats' \subseteq Lanes
  BY <1>3 DEF Observed, TypeOK
<1>6. HoleSeen(l, p) \in BOOLEAN
  BY <1>1, HoleSeenType
<1>7. LivePacket(p).via = "live" /\ LivePacket(p).pkt \in Packet
  BY <1>1 DEF LivePacket
<1>8. \A epoch \in BOOLEAN : Emit(l, p, LivePacket(p), epoch) =>
        offset' \in Nat /\ maxPts' \in Int /\ peakPts' \in Int /\ lastOut' \in [Lanes -> EmittedPacket]
  BY <1>1, <1>7, EmitType
<1>9. CASE PassUntouched(l, p)
  <2>1. lastOut' \in [Lanes -> EmittedPacket] /\ peakPts' \in Int
    <3>1. p.dts + p.cto \in Int
      BY <1>3
    <3>2. [via |-> "live", src |-> p.src, seq |-> p.seq, key |-> p.key, age |-> 0,
           dts |-> p.dts, pts |-> p.dts + p.cto] \in EmittedPacket
      BY <1>3, <3>1 DEF EmittedPacket
    <3>3. lastOut \in [Lanes -> EmittedPacket] /\ peakPts \in Int
      BY DEF TypeOK
    <3> QED BY <1>9, <3>1, <3>2, <3>3 DEF PassUntouched
  <2> QED BY <1>2, <1>9, <2>1 DEF PassUntouched, TypeOK, controlVars, primaryVars, cadenceVars,
             holdVars, frontVars, signalVars
<1>10. CASE PassLive(l, p)
  <2>1. /\ Observed(l, p) /\ realignmentPending' = HoleSeen(l, p)
        /\ Emit(l, p, LivePacket(p), FALSE)
        /\ UNCHANGED <<controlVars, primaryVars, holdVars, cleanupHoldRequested, fillStart>>
    BY <1>10 DEF PassLive
  <2>2. OutOK'
    BY <1>8, <2>1
  <2>3. CadenceOK'
    BY <1>5, <1>6, <2>1
  <2>4. ControlOK' /\ PrimaryOK' /\ HoldOK' /\ FrontOK' /\ SignalOK'
    BY <1>2, <2>1, Preserved
  <2>5. cleanupHoldRequested' \in BOOLEAN /\ fillStart' \in Nat
    BY <2>1 DEF TypeOK
  <2>6. spent' \in [requests : Nat, reconnects : Nat, holes : Nat]
    BY <1>2 DEF TypeOK
  <2> QED BY <1>2, <2>2, <2>3, <2>4, <2>5, <2>6 DEF TypeOK
<1>11. CASE RestoreLive(l, p)
  BY <1>2, <1>5, <1>6, <1>8, <1>11 DEF RestoreLive, TypeOK, DelayStates, primaryVars, holdVars,
     frontVars, signalVars
<1>12. CASE Fill(l, p)
  <2>1. primaryQueues' \in LaneQueues
    <3>1. primaryQueues' = Buffered(l, p) \/ primaryQueues' = primaryQueues
      BY <1>12 DEF Fill
    <3>2. Buffered(l, p) \in LaneQueues /\ primaryQueues \in LaneQueues
      BY <1>1, BufferedType DEF TypeOK
    <3> QED BY <3>1, <3>2
  <2>2. fillStart' \in Nat
    <3>1. fillStart' = IF state = "Preparing" THEN p.dts ELSE fillStart
      BY <1>12 DEF Fill
    <3> QED BY <1>3, <3>1 DEF TypeOK
  <2>3. PICK strict \in BOOLEAN, next \in {"Filling", "ReturningLive"} :
          EmitHold(l, p, state = "Preparing", strict, next)
    BY <1>12 DEF Fill
  <2>4. (state = "Preparing") \in BOOLEAN /\ next \in DelayStates
    BY DEF DelayStates
  <2>5. /\ offset' \in Nat /\ maxPts' \in Int /\ peakPts' \in Int
        /\ lastOut' \in [Lanes -> EmittedPacket]
        /\ holdQueues' \in LaneQueues
        /\ state' \in DelayStates /\ errorReturnPending' \in BOOLEAN /\ returnFromFilling' \in BOOLEAN
        /\ UNCHANGED <<drainPrimaryOnReturn, holdFallback, holdReady, holdGopStart, holdFormats,
                       cleanupHoldRequested>>
    BY <1>1, <2>3, <2>4, EmitHoldType
  <2>6. Observed(l, p) /\ realignmentPending' = HoleSeen(l, p) /\ UNCHANGED <<primaryFallback, lastSource>>
    BY <1>12 DEF Fill
  <2> QED BY <1>2, <1>5, <1>6, <2>1, <2>2, <2>5, <2>6 DEF TypeOK, frontVars, signalVars
<1>13. ASSUME NEW found \in Found, NEW next \in DelayStates, EmitPrimary(l, p, found, next),
              Observed(l, p), cleanupHoldRequested' \in BOOLEAN, drainPrimaryOnReturn' \in BOOLEAN
       PROVE  TypeOK'
  <2>1. /\ offset' \in Nat /\ maxPts' \in Int /\ peakPts' \in Int
        /\ lastOut' \in [Lanes -> EmittedPacket]
        /\ primaryQueues' \in LaneQueues /\ primaryFallback' \in LaneQueues
        /\ lastSource' \in [Lanes -> Int] /\ realignmentPending' \in BOOLEAN
        /\ state' \in DelayStates /\ errorReturnPending' \in BOOLEAN /\ returnFromFilling' \in BOOLEAN
        /\ UNCHANGED <<holdVars, fillStart>>
    BY <1>1, <1>13, EmitPrimaryType
  <2> QED BY <1>2, <1>5, <1>13, <2>1 DEF TypeOK, holdVars, frontVars, signalVars
<1>14. CASE StartDelayed(l, p)
  <2>1. Buffered(l, p) \in LaneQueues
    BY <1>1, BufferedType
  <2> DEFINE asBuffered == NotRealigned(Buffered(l, p), l, p)
             found == [asBuffered EXCEPT !.sources = [m \in Lanes |-> NoDts], !.cut = TRUE]
  <2>2. asBuffered \in Found
    BY <1>1, <2>1, NotRealignedType
  <2>3. found \in Found
    <3> HIDE DEF asBuffered
    <3>1. [m \in Lanes |-> NoDts] \in [Lanes -> Int]
      BY DEF NoDts
    <3> QED BY <2>2, <3>1 DEF Found
  <2>4. EmitPrimary(l, p, found, "Delayed")
    BY <1>14 DEF StartDelayed
  <2>5. /\ Observed(l, p) /\ cleanupHoldRequested' \in BOOLEAN
        /\ drainPrimaryOnReturn' \in BOOLEAN /\ "Delayed" \in DelayStates
    BY <1>14 DEF StartDelayed, TypeOK, DelayStates
  <2> HIDE DEF found
  <2> QED BY <1>13, <2>3, <2>4, <2>5
<1>15. CASE Delay(l, p)
  <2>1. Realigned(Buffered(l, p), l, p) \in Found
    BY <1>1, BufferedType, RealignedType
  <2>2. /\ EmitPrimary(l, p, Realigned(Buffered(l, p), l, p), "Delayed") /\ Observed(l, p)
        /\ cleanupHoldRequested' \in BOOLEAN /\ drainPrimaryOnReturn' \in BOOLEAN
        /\ "Delayed" \in DelayStates
    BY <1>15 DEF Delay, TypeOK, DelayStates
  <2> QED BY <1>13, <2>1, <2>2
<1>16. CASE DelayLimitLive(l, p)
  BY <1>2, <1>5, <1>6, <1>8, <1>16 DEF DelayLimitLive, TypeOK, DelayStates, primaryVars, holdVars,
     frontVars, signalVars
<1>17. CASE DelayLimitDrain(l, p)
  <2>1. NotRealigned(primaryQueues, l, p) \in Found
    BY <1>1, NotRealignedType DEF TypeOK
  <2>2. /\ EmitPrimary(l, p, NotRealigned(primaryQueues, l, p), "ReturningLive") /\ Observed(l, p)
        /\ cleanupHoldRequested' \in BOOLEAN /\ drainPrimaryOnReturn' \in BOOLEAN
        /\ "ReturningLive" \in DelayStates
    BY <1>17 DEF DelayLimitDrain, TypeOK, DelayStates
  <2> QED BY <1>13, <2>1, <2>2
<1>18. CASE ReturnOnFallback(l, p)
  <2> DEFINE nothing == [m \in Lanes |-> <<>>]
  <2>1. nothing \in LaneQueues
    OBVIOUS
  <2>2. PICK fallback \in LaneQueues, usable \in BOOLEAN :
          Emit(l, p, Choose(nothing, fallback, usable, l, p), FALSE)
    BY <1>18 DEF ReturnOnFallback, TypeOK
  <2>3. LET chosen == Choose(nothing, fallback, usable, l, p)
        IN  chosen.via \in {"queue", "fallback", "live"} /\ chosen.pkt \in Packet
    BY <1>1, <2>1, ChooseType
  <2>4. offset' \in Nat /\ maxPts' \in Int /\ peakPts' \in Int /\ lastOut' \in [Lanes -> EmittedPacket]
    BY <1>1, <2>2, <2>3, EmitType
  <2> QED BY <1>2, <1>5, <1>6, <1>18, <2>4 DEF ReturnOnFallback, TypeOK, controlVars, primaryVars,
             holdVars, frontVars, signalVars
<1>19. CASE ReturnFromFilling(l, p)
  <2>1. EmitHold(l, p, FALSE, FALSE, "ReturningLive") /\ Observed(l, p)
        /\ realignmentPending' = HoleSeen(l, p) /\ UNCHANGED <<primaryVars, fillStart>>
        /\ "ReturningLive" \in DelayStates
    BY <1>19 DEF ReturnFromFilling, DelayStates
  <2>2. /\ offset' \in Nat /\ maxPts' \in Int /\ peakPts' \in Int
        /\ lastOut' \in [Lanes -> EmittedPacket]
        /\ holdQueues' \in LaneQueues
        /\ state' \in DelayStates /\ errorReturnPending' \in BOOLEAN /\ returnFromFilling' \in BOOLEAN
        /\ UNCHANGED <<drainPrimaryOnReturn, holdFallback, holdReady, holdGopStart, holdFormats,
                       cleanupHoldRequested>>
    BY <1>1, <2>1, EmitHoldType
  <2> QED BY <1>2, <1>5, <1>6, <2>1, <2>2 DEF TypeOK, primaryVars, frontVars, signalVars
<1>20. CASE ReturnFromDelayed(l, p)
  <2>1. PICK queues \in LaneQueues :
          EmitPrimary(l, p, NotRealigned(queues, l, p), "ReturningLive")
    BY <1>1, <1>20, BufferedType DEF ReturnFromDelayed, TypeOK
  <2>2. /\ Observed(l, p) /\ cleanupHoldRequested' \in BOOLEAN
        /\ drainPrimaryOnReturn' \in BOOLEAN /\ "ReturningLive" \in DelayStates
    BY <1>20 DEF ReturnFromDelayed, TypeOK, DelayStates
  <2> QED BY <1>1, <1>13, <2>1, <2>2, NotRealignedType
<1> QED BY <1>4, <1>9, <1>10, <1>11, <1>12, <1>14, <1>15, <1>16, <1>17, <1>18, <1>19, <1>20

\* So does the collector callback.
LEMMA HoldPacketType ==
  ASSUME TypeOK, NEW l \in Lanes, HoldPacket(l)
  PROVE  TypeOK'
<1>0. PICK size \in PacketSizes(l), compatible \in BOOLEAN :
        LET h == Encoded("hold", l, size)
        IN  HoldLimit(l, h) \/ RejectHold(l, h, compatible) \/ KeepHold(l, h, compatible)
  BY DEF HoldPacket
<1> DEFINE h == Encoded("hold", l, size)
           trimmed == GopTrimmed(l, h)
<1>1. h \in Packet
  BY EncodedType
<1>2. /\ clock' \in [{"primary", "hold"} -> EncoderClock]
      /\ UNCHANGED <<primaryVars, cadenceVars, outVars, frontVars, signalVars, fillStart, spent>>
  BY DeliversType DEF HoldPacket
<1>3. HoldLimit(l, h) \/ RejectHold(l, h, compatible) \/ KeepHold(l, h, compatible)
  BY <1>0
<1> HIDE DEF h
<1>4. trimmed \in LaneQueues
  <2>1. \A m \in Lanes : holdQueues[m] \in Seq(Packet)
    BY DEF TypeOK
  <2>2. \A m \in Lanes : DropBefore(holdQueues[m], h.dts) \in Seq(Packet)
    BY <2>1, DropBeforeType
  <2>3. [m \in Lanes |-> IF m = Video THEN <<>> ELSE DropBefore(holdQueues[m], h.dts)] \in LaneQueues
    BY <2>2
  <2> QED BY <2>3 DEF GopTrimmed, TypeOK
<1> DEFINE kept == [trimmed EXCEPT ![l] = Append(@, h)]
<1>5. kept \in LaneQueues /\ kept[l] # <<>>
  <2> HIDE DEF trimmed
  <2>1. trimmed[l] \in Seq(Packet)
    BY <1>4
  <2>2. Append(trimmed[l], h) \in Seq(Packet) /\ Append(trimmed[l], h) # <<>>
    BY <1>1, <2>1
  <2> QED BY <1>4, <2>2
<1>6. [kept EXCEPT ![l] = Tail(@)] \in LaneQueues
  <2> HIDE DEF kept
  <2>1. Tail(kept[l]) \in Seq(Packet)
    BY <1>5
  <2> QED BY <1>5, <2>1
<1>7. NoteHold(l, h) =>
        /\ holdFormats' \subseteq Lanes /\ holdGopStart' \in Nat /\ holdFallback' \in LaneQueues
        /\ UNCHANGED <<drainPrimaryOnReturn, errorReturnPending>>
  BY <1>1 DEF NoteHold, TypeOK, Packet
<1> HIDE DEF trimmed
<1>8. CASE HoldLimit(l, h)
  <2>1. /\ holdQueues' = trimmed /\ cleanupHoldRequested' \in BOOLEAN
        /\ state' \in DelayStates /\ returnFromFilling' \in BOOLEAN
        /\ NoteHold(l, h) /\ UNCHANGED holdReady
    BY <1>8 DEF HoldLimit, trimmed, DelayStates, TypeOK
  <2> QED BY <1>2, <1>4, <1>7, <2>1 DEF TypeOK, primaryVars, cadenceVars, outVars, frontVars, signalVars
<1>9. CASE RejectHold(l, h, compatible)
  <2>1. /\ holdQueues' = kept /\ cleanupHoldRequested' \in BOOLEAN
        /\ state' \in DelayStates /\ NoteHold(l, h) /\ UNCHANGED <<returnFromFilling, holdReady>>
    BY <1>9 DEF RejectHold, SetError, trimmed, DelayStates
  <2> QED BY <1>2, <1>5, <1>7, <2>1 DEF TypeOK, primaryVars, cadenceVars, outVars, frontVars, signalVars
<1>10. CASE KeepHold(l, h, compatible)
  <2>1. /\ holdQueues' = kept \/ holdQueues' = [kept EXCEPT ![l] = Tail(@)]
        /\ holdReady' \in BOOLEAN
        /\ NoteHold(l, h) /\ UNCHANGED <<state, returnFromFilling, cleanupHoldRequested>>
    BY <1>10 DEF KeepHold, trimmed
  <2>2. holdQueues' \in LaneQueues
    BY <1>5, <1>6, <2>1
  <2> QED BY <1>2, <1>7, <2>1, <2>2 DEF TypeOK, primaryVars, cadenceVars, outVars, frontVars, signalVars
<1> QED BY <1>3, <1>8, <1>9, <1>10

\* Cleared queues and clocks are well typed.
LEMMA NoPacketsType == NoPackets \in LaneQueues /\ NoTimes \in [Lanes -> Int]
BY DEF NoPackets, NoTimes, NoDts

\* What request_bypass changes is well typed.
LEMMA BypassedType ==
  ASSUME TypeOK, Bypassed
  PROVE  /\ state' \in DelayStates /\ errorReturnPending' \in BOOLEAN
         /\ returnFromFilling' \in BOOLEAN /\ drainPrimaryOnReturn' \in BOOLEAN
         /\ cleanupHoldRequested' \in BOOLEAN
         /\ primaryQueues' \in LaneQueues /\ primaryFallback' \in LaneQueues
         /\ holdQueues' \in LaneQueues /\ holdFallback' \in LaneQueues /\ holdGopStart' \in Nat
<1>1. CASE /\ state' = "Bypass" /\ errorReturnPending' = FALSE
           /\ Clear /\ cleanupHoldRequested' = TRUE
           /\ UNCHANGED <<returnFromFilling, drainPrimaryOnReturn>>
  BY <1>1, NoPacketsType DEF Clear, TypeOK, DelayStates
<1>2. CASE /\ state' = "ReturningLive" /\ returnFromFilling' = (state = "Filling")
           /\ drainPrimaryOnReturn' = FALSE
           /\ UNCHANGED <<errorReturnPending, primaryQueues, primaryFallback, holdQueues,
                          holdFallback, holdGopStart, cleanupHoldRequested>>
  BY <1>2 DEF TypeOK, DelayStates
<1> QED BY <1>1, <1>2 DEF Bypassed

\* The frontend thread keeps the types.
LEMMA FrontendType ==
  ASSUME TypeOK, Frontend
  PROVE  TypeOK'
<1> USE DEF FrontendSteps
<1>1. CASE TakeOldPipeline
  <2>1. spent' = [spent EXCEPT !.requests = @ + 1]
    BY <1>1 DEF TakeOldPipeline
  <2>2. spent' \in [requests : Nat, reconnects : Nat, holes : Nat]
    BY <2>1, SpentType DEF TypeOK
  <2>3. FrontOK'
    BY <1>1 DEF TakeOldPipeline, TypeOK
  <2> QED BY <1>1, <2>2, <2>3, Preserved DEF TakeOldPipeline, TypeOK
<1>2. CASE RetireOldPipeline
  BY <1>2, Preserved DEF RetireOldPipeline, TypeOK
<1>3. CASE PublishDelay
  BY <1>3, NoPacketsType, Preserved DEF PublishDelay, TypeOK, DelayStates
<1>4. CASE StartPipeline
  <2>1. clock' \in [{"primary", "hold"} -> EncoderClock]
    <3>1. PICK joined \in UNION {0..(n - 1) : n \in GopLengths}, m \in Lanes :
            clock' = [clock EXCEPT !["hold"] =
              [dts |-> [l \in Lanes |-> clock["hold"].dts[m]],
               seq |-> [l \in Lanes |-> clock["hold"].seq[l] + 1], left |-> joined]]
      BY <1>4 DEF StartPipeline
    <3>2. clock["hold"] \in EncoderClock /\ clock \in [{"primary", "hold"} -> EncoderClock]
      BY DEF TypeOK
    <3>3. joined \in Nat
      BY SessionAssumption
    <3>4. [dts |-> [l \in Lanes |-> clock["hold"].dts[m]],
           seq |-> [l \in Lanes |-> clock["hold"].seq[l] + 1], left |-> joined] \in EncoderClock
      BY <3>2, <3>3 DEF EncoderClock
    <3> QED BY <3>1, <3>2, <3>4
  <2>2. mismatch' \subseteq Lanes
    BY <1>4, LanesAreNaturals DEF StartPipeline
  <2> QED BY <1>4, <2>1, <2>2, Preserved DEF StartPipeline, TypeOK
<1>5. CASE StartPipelineFails
  BY <1>5, Preserved DEF StartPipelineFails, SetError, TypeOK, DelayStates
<1>6. CASE RequestBypass
  BY <1>6, BypassedType, Preserved DEF RequestBypass, TypeOK
<1>7. CASE MaintenanceTake
  BY <1>7, Preserved DEF MaintenanceTake, TypeOK
<1>8. CASE MaintenanceStop
  BY <1>8, Preserved DEF MaintenanceStop, TypeOK
<1>9. CASE MaintenanceRetire
  <2>1. \/ primaryQueues' = NoPackets /\ primaryFallback' = NoPackets
        \/ UNCHANGED <<primaryQueues, primaryFallback>>
    BY <1>9 DEF MaintenanceRetire
  <2>2. \/ holdQueues' = NoPackets /\ holdFallback' = NoPackets /\ holdGopStart' = 0
        \/ UNCHANGED <<holdQueues, holdFallback, holdGopStart>>
    BY <1>9 DEF MaintenanceRetire
  <2>3. /\ frontend' = "idle"
        /\ UNCHANGED <<controlVars, lastSource, cadenceVars, holdReady, holdFormats, outVars,
                       signalVars, cleanupHoldRequested, fillStart, clock, mismatch, pipeline,
                       retiring, spent>>
    BY <1>9 DEF MaintenanceRetire
  <2>4. PrimaryOK'
    BY <2>1, <2>3, NoPacketsType DEF TypeOK
  <2>5. HoldOK'
    <3>1. HoldOK /\ NoPackets \in LaneQueues
      BY NoPacketsType DEF TypeOK
    <3>2. holdReady' = holdReady /\ holdFormats' = holdFormats
      BY <2>3
    <3>3. holdQueues' \in LaneQueues /\ holdFallback' \in LaneQueues /\ holdGopStart' \in Nat
      <4> HIDE DEF LaneQueues
      <4> QED BY <2>2, <3>1
    <3> QED BY <3>1, <3>2, <3>3
  <2>6. FrontOK'
    BY <2>3 DEF TypeOK
  <2> QED BY <2>3, <2>4, <2>5, <2>6, Preserved DEF TypeOK
<1>10. CASE TakeRearmRequest
  BY <1>10, Preserved DEF TakeRearmRequest, TypeOK
<1> QED BY <1>1, <1>2, <1>3, <1>4, <1>5, <1>6, <1>7, <1>8, <1>9, <1>10 DEF Frontend

\* So does a reconnection ...
LEMMA ReconnectType ==
  ASSUME TypeOK, Reconnect
  PROVE  TypeOK'
<1>1. /\ state' \in DelayStates /\ errorReturnPending' \in BOOLEAN
      /\ returnFromFilling' \in BOOLEAN /\ drainPrimaryOnReturn' \in BOOLEAN
      /\ cleanupHoldRequested' \in BOOLEAN
      /\ primaryQueues' \in LaneQueues /\ primaryFallback' \in LaneQueues
      /\ holdQueues' \in LaneQueues /\ holdFallback' \in LaneQueues /\ holdGopStart' \in Nat
  BY BypassedType DEF Reconnect, TypeOK, controlVars
<1>2. /\ spent' = [spent EXCEPT !.reconnects = @ + 1]
      /\ connected' = FALSE /\ reconnectResetPending' = TRUE
      /\ UNCHANGED <<lastSource, cadenceVars, holdReady, holdFormats, outVars, frontVars,
                     reconnectRearmRequested, fillStart, clock>>
  BY DEF Reconnect
<1>3. spent' \in [requests : Nat, reconnects : Nat, holes : Nat]
  BY <1>2, SpentType DEF TypeOK
<1>4. ControlOK' /\ PrimaryOK' /\ HoldOK' /\ SignalOK'
  BY <1>1, <1>2 DEF TypeOK
<1> QED BY <1>1, <1>2, <1>3, <1>4, Preserved DEF TypeOK

\* ... and the start of data capture.
LEMMA ActivateType ==
  ASSUME TypeOK, Activate
  PROVE  TypeOK'
<1>1. clock' \in [{"primary", "hold"} -> EncoderClock]
  BY DEF Activate, TypeOK, EncoderClock
<1>2. lastOut' \in [Lanes -> EmittedPacket]
  <2>1. \A l \in Lanes : [lastOut[l] EXCEPT !.dts = NoDts, !.via = "reset"] \in EmittedPacket
    <3> TAKE l \in Lanes
    <3>1. lastOut[l] \in EmittedPacket
      BY DEF TypeOK
    <3>2. NoDts \in Int
      BY DEF NoDts
    <3> HIDE DEF NoDts
    <3>3. \A o \in EmittedPacket : [o EXCEPT !.dts = NoDts, !.via = "reset"] \in EmittedPacket
      BY <3>2 DEF EmittedPacket
    <3> QED BY <3>1, <3>3
  <2> QED BY <2>1 DEF Activate
<1>3. ControlOK' /\ SignalOK' /\ CadenceOK' /\ PrimaryOK' /\ HoldOK'
  BY NoPacketsType DEF Activate, TypeOK, DelayStates
<1>4. OutOK' /\ fillStart' \in Nat
  <2>1. offset' = 0 /\ maxPts' = NoDts /\ peakPts' = NoDts /\ fillStart' = 0
    BY DEF Activate
  <2>2. NoDts \in Int
    BY DEF NoDts
  <2> QED BY <1>2, <2>1, <2>2
<1> QED BY <1>1, <1>3, <1>4, Preserved DEF Activate, TypeOK

\* So does a hole of the encoder.
LEMMA EncoderHoleType ==
  ASSUME TypeOK, NEW l \in Lanes, EncoderHole(l)
  PROVE  TypeOK'
<1>1. clock' \in [{"primary", "hold"} -> EncoderClock]
  <2>1. clock["primary"] \in EncoderClock /\ clock \in [{"primary", "hold"} -> EncoderClock]
    BY DEF TypeOK
  <2>2. clock["primary"].dts[l] + HoleTicks \in Nat
    BY <2>1, SessionAssumption DEF EncoderClock
  <2> QED BY <2>1, <2>2 DEF EncoderHole, EncoderClock
<1>2. spent' \in [requests : Nat, reconnects : Nat, holes : Nat]
  <2>1. spent' = [spent EXCEPT !.holes = @ + 1]
    BY DEF EncoderHole
  <2> QED BY <2>1, SpentType DEF TypeOK
<1> QED BY <1>1, <1>2, Preserved DEF EncoderHole, TypeOK

\* The initial state is well typed.
LEMMA InitType == Init => TypeOK
<1> SUFFICES ASSUME Init PROVE TypeOK
  OBVIOUS
<1>1. clock \in [{"primary", "hold"} -> EncoderClock]
  BY DEF Init, StartOfEncoder, EncoderClock
<1>2. lastOut \in [Lanes -> EmittedPacket]
  BY DEF Init, EmittedPacket, NoDts
<1>3. spent \in [requests : Nat, reconnects : Nat, holes : Nat]
  BY DEF Init
<1>4. ControlOK /\ CadenceOK /\ FrontOK /\ SignalOK
  BY NoPacketsType DEF Init, DelayStates, FrontendSteps
<1>5. PrimaryOK
  BY NoPacketsType DEF Init
<1>6. HoldOK
  BY NoPacketsType DEF Init
<1>7. OutOK
  <2>1. offset = 0 /\ maxPts = NoDts /\ peakPts = NoDts
    BY DEF Init
  <2> QED BY <1>2, <2>1 DEF NoDts
<1> QED BY <1>1, <1>3, <1>4, <1>5, <1>6, <1>7 DEF Init, TypeOK

----------------------------------------------------------------------------
\* Every variable keeps its type, in every behaviour.
THEOREM TypeCorrect == Spec => []TypeOK
<1>1. TypeOK /\ [Next]_vars => TypeOK'
  <2> SUFFICES ASSUME TypeOK, [Next]_vars PROVE TypeOK'
    OBVIOUS
  <2>1. ASSUME NEW l \in Lanes, PrimaryPacket(l) PROVE TypeOK'
    BY <2>1, PrimaryPacketType
  <2>2. ASSUME NEW l \in Lanes, HoldPacket(l) PROVE TypeOK'
    BY <2>2, HoldPacketType
  <2>3. CASE Frontend
    BY <2>3, FrontendType
  <2>4. CASE Reconnect
    BY <2>4, ReconnectType
  <2>5. CASE Activate
    BY <2>5, ActivateType
  <2>6. ASSUME NEW l \in Lanes, EncoderHole(l) PROVE TypeOK'
    BY <2>6, EncoderHoleType
  <2>7. CASE UNCHANGED vars
    BY <2>7 DEF vars, TypeOK, controlVars, primaryVars, cadenceVars, holdVars, outVars, frontVars, signalVars
  <2> QED BY <2>1, <2>2, <2>3, <2>4, <2>5, <2>6, <2>7 DEF Next
<1> QED BY InitType, <1>1, PTL DEF Spec

HIDE DEF LaneQueues, ControlOK, PrimaryOK, CadenceOK, HoldOK, OutOK, FrontOK, SignalOK

----------------------------------------------------------------------------
(* The preroll.  What PrerollIsOneGop needs besides itself: the lanes of   *)
(* the hold queues are in DTS order and behind their encoder, so that the  *)
(* cut at the keyframe leaves nothing older; the encoder goes on with the  *)
(* frame after the last one that is queued; and no other collector starts  *)
(* once a GOP has begun.                                                   *)

Ascending(q) == \A i, j \in 1..Len(q) : i <= j => q[i].dts <= q[j].dts

UpTo(q, dts) == \A i \in 1..Len(q) : q[i].dts <= dts

HoldInOrder ==
  \A l \in Lanes : Ascending(holdQueues[l]) /\ UpTo(holdQueues[l], clock["hold"].dts[l])

GopBegun ==
  /\ frontend # "start"
  /\ holdQueues[Video] # <<>>
  /\ Head(holdQueues[Video]).key /\ Head(holdQueues[Video]).dts = holdGopStart
  /\ Contiguous(holdQueues[Video])
  /\ Last(holdQueues[Video]).seq + 1 = clock["hold"].seq[Video]
  /\ \A l \in AudioTracks :
       /\ clock["hold"].dts[l] >= holdGopStart
       /\ \A i \in 1..Len(holdQueues[l]) : holdQueues[l][i].dts >= holdGopStart

PrerollInv == HoldInOrder /\ (state = "Preparing" /\ holdReady => GopBegun)

\* What the packets of a queue and of its encoder look like.
LEMMA HoldQueueTypes ==
  ASSUME TypeOK, NEW l \in Lanes
  PROVE  /\ holdQueues[l] \in Seq(Packet) /\ Len(holdQueues[l]) \in Nat
         /\ \A i \in 1..Len(holdQueues[l]) :
              /\ holdQueues[l][i] \in Packet
              /\ holdQueues[l][i].dts \in Nat /\ holdQueues[l][i].seq \in Nat
         /\ clock["hold"].dts[l] \in Nat /\ clock["hold"].seq[l] \in Nat
<1>1. holdQueues[l] \in Seq(Packet)
  BY DEF TypeOK, HoldOK, LaneQueues
<1>2. Len(holdQueues[l]) \in Nat /\ \A i \in 1..Len(holdQueues[l]) : holdQueues[l][i] \in Packet
  BY <1>1
<1>3. clock["hold"] \in EncoderClock
  BY DEF TypeOK
<1>4. clock["hold"].dts[l] \in Nat /\ clock["hold"].seq[l] \in Nat
  BY <1>3 DEF EncoderClock
<1> QED BY <1>1, <1>2, <1>4 DEF Packet

\* What a lane in DTS order keeps from origin on is not older than origin.
LEMMA DropBeforeCuts ==
  ASSUME NEW s \in Seq(Packet), NEW origin \in Nat, Ascending(s)
  PROVE  /\ DropBefore(s, origin) \in Seq(Packet)
         /\ \E dropped \in 0..Len(s) :
              /\ Len(DropBefore(s, origin)) = Len(s) - dropped
              /\ \A i \in 1..(Len(s) - dropped) :
                   /\ DropBefore(s, origin)[i] = s[i + dropped]
                   /\ s[i + dropped].dts >= origin
              /\ \A i \in 1..dropped : s[i].dts < origin
<1> DEFINE old == {i \in 1..Len(s) : s[i].dts < origin}
<1> DEFINE dropped == Cardinality(old)
<1>0. Len(s) \in Nat
  OBVIOUS
<1>1. IsFiniteSet(1..Len(s)) /\ Cardinality(1..Len(s)) = Len(s)
  BY <1>0, FS_Interval
<1>0a. \A i \in 1..Len(s) : s[i] \in Packet /\ s[i].dts \in Nat
  <2>1. \A i \in 1..Len(s) : s[i] \in Packet
    OBVIOUS
  <2> QED BY <2>1 DEF Packet
<1>2. IsFiniteSet(old) /\ dropped \in Nat /\ dropped <= Len(s)
  BY <1>0, <1>1, FS_Subset, FS_CardinalityType
<1>3. ASSUME NEW i \in 1..Len(s), i > dropped PROVE s[i].dts >= origin
  <2> SUFFICES ASSUME s[i].dts < origin PROVE FALSE
    BY <1>0a
  <2>1. 1..i \subseteq old
    BY <1>0, <1>0a DEF Ascending
  <2>2. Cardinality(1..i) = i
    BY FS_Interval
  <2>3. i <= dropped
    BY <1>2, <2>1, <2>2, FS_Subset
  <2> HIDE DEF dropped
  <2> QED BY <1>2, <1>3, <2>3
<1>3a. ASSUME NEW i \in 1..Len(s), i <= dropped PROVE s[i].dts < origin
  <2> SUFFICES ASSUME s[i].dts >= origin PROVE FALSE
    BY <1>0a
  <2>0. PICK k \in Nat : i = k + 1
    <3>1. i - 1 \in Nat /\ i = (i - 1) + 1
      BY <1>0
    <3> QED BY <3>1
  <2>1. old \subseteq 1..k
    <3> SUFFICES ASSUME NEW n \in 1..Len(s), s[n].dts < origin PROVE n \in 1..k
      OBVIOUS
    <3>1. CASE i <= n
      <4>1. s[i].dts <= s[n].dts
        BY <3>1 DEF Ascending
      <4>2. s[i].dts \in Nat /\ s[n].dts \in Nat
        BY <1>0a
      <4> QED BY <4>1, <4>2
    <3>2. CASE n < i
      BY <1>0, <2>0, <3>2
    <3> QED BY <1>0, <3>1, <3>2
  <2>2. IsFiniteSet(1..k) /\ Cardinality(1..k) = k
    <3>1. CASE k = 0
      <4>1. 1..k = {}
        BY <3>1
      <4> QED BY <3>1, <4>1, FS_EmptySet
    <3>2. CASE k # 0
      <4>1. 1 \in Int /\ k \in Int
        OBVIOUS
      <4>2. IsFiniteSet(1..k) /\ Cardinality(1..k) = IF 1 > k THEN 0 ELSE k - 1 + 1
        BY <4>1, FS_Interval, Zenon
      <4>3. ~(1 > k) /\ k - 1 + 1 = k
        BY <3>2
      <4> QED BY <4>2, <4>3
    <3> QED BY <3>1, <3>2
  <2>3. dropped <= k
    BY <1>2, <2>1, <2>2, FS_Subset
  <2> HIDE DEF dropped
  <2> QED BY <1>2, <1>3a, <2>0, <2>3
<1>4. DropBefore(s, origin) = SubSeq(s, dropped + 1, Len(s))
  BY DEF DropBefore
<1> HIDE DEF dropped
<1>5. \A i \in (dropped + 1)..Len(s) : s[i] \in Packet
  BY <1>0, <1>2, <1>0a
<1>6. /\ SubSeq(s, dropped + 1, Len(s)) \in Seq(Packet)
      /\ Len(SubSeq(s, dropped + 1, Len(s))) = Len(s) - dropped
      /\ \A i \in 1..(Len(s) - dropped) : SubSeq(s, dropped + 1, Len(s))[i] = s[i + dropped]
  BY <1>0, <1>2, <1>5, SubSeqProperties
<1> QED BY <1>0, <1>2, <1>3, <1>3a, <1>4, <1>6

\* Order survives when the head is taken ...
LEMMA TailInOrder ==
  ASSUME NEW q \in Seq(Packet), q # <<>>, Ascending(q), NEW dts, UpTo(q, dts)
  PROVE  Tail(q) \in Seq(Packet) /\ Ascending(Tail(q)) /\ UpTo(Tail(q), dts)
<1>1. /\ Len(Tail(q)) = Len(q) - 1 /\ Len(q) \in Nat /\ Tail(q) \in Seq(Packet)
      /\ \A i \in 1..(Len(q) - 1) : Tail(q)[i] = q[i + 1]
  OBVIOUS
<1>2. \A i \in 1..Len(Tail(q)) : i + 1 \in 1..Len(q) /\ Tail(q)[i] = q[i + 1]
  BY <1>1
<1>3. \A i, j \in 1..Len(Tail(q)) : i <= j => i + 1 <= j + 1
  BY <1>1
<1> QED BY <1>1, <1>2, <1>3 DEF Ascending, UpTo

\* ... and when the encoder adds its next packet.
LEMMA AppendInOrder ==
  ASSUME NEW q \in Seq(Packet), NEW h \in Packet, Ascending(q), UpTo(q, h.dts)
  PROVE  /\ Append(q, h) \in Seq(Packet) /\ Append(q, h) # <<>>
         /\ Ascending(Append(q, h)) /\ UpTo(Append(q, h), h.dts)
<1>1. /\ Append(q, h) \in Seq(Packet) /\ Append(q, h) # <<>>
      /\ Len(Append(q, h)) = Len(q) + 1 /\ Len(q) \in Nat
      /\ \A i \in 1..Len(q) : Append(q, h)[i] = q[i]
      /\ Append(q, h)[Len(q) + 1] = h
  OBVIOUS
<1>2. \A i \in 1..(Len(q) + 1) : i \in 1..Len(q) \/ i = Len(q) + 1
  BY <1>1
<1>3. h.dts \in Nat
  BY DEF Packet
<1>4. UpTo(Append(q, h), h.dts)
  BY <1>1, <1>2, <1>3 DEF UpTo
<1>5. Ascending(Append(q, h))
  <2> SUFFICES ASSUME NEW i \in 1..(Len(q) + 1), NEW j \in 1..(Len(q) + 1), i <= j
               PROVE  Append(q, h)[i].dts <= Append(q, h)[j].dts
    BY <1>1 DEF Ascending
  <2>1. CASE j = Len(q) + 1
    BY <1>1, <1>4, <2>1 DEF UpTo
  <2>2. CASE j # Len(q) + 1
    <3>1. i \in 1..Len(q) /\ j \in 1..Len(q)
      BY <1>1, <1>2, <2>2
    <3> QED BY <1>1, <3>1 DEF Ascending
  <2> QED BY <2>1, <2>2
<1> QED BY <1>1, <1>4, <1>5

\* A step that only takes packets out of the hold queues, and begins no preroll.
LEMMA HoldTaken ==
  ASSUME TypeOK, PrerollInv, NEW l \in Lanes, NEW chosen,
         holdQueues' = TakeHead(holdQueues, l, chosen),
         chosen.via = "queue" => holdQueues[l] # <<>>,
         clock'["hold"] = clock["hold"], state' # "Preparing"
  PROVE  PrerollInv'
<1>1. \A m \in Lanes : holdQueues'[m] = holdQueues[m] \/ (holdQueues[m] # <<>> /\ holdQueues'[m] = Tail(holdQueues[m]))
  BY DEF TakeHead, TypeOK, HoldOK, LaneQueues
<1>2. SUFFICES ASSUME NEW m \in Lanes
               PROVE  Ascending(holdQueues'[m]) /\ UpTo(holdQueues'[m], clock'["hold"].dts[m])
  BY DEF PrerollInv, HoldInOrder, Ascending, UpTo
<1>3. Ascending(holdQueues[m]) /\ UpTo(holdQueues[m], clock["hold"].dts[m])
  BY DEF PrerollInv, HoldInOrder
<1>4. CASE holdQueues'[m] = holdQueues[m]
  BY <1>3, <1>4
<1>5. CASE holdQueues[m] # <<>> /\ holdQueues'[m] = Tail(holdQueues[m])
  <2>1. holdQueues[m] \in Seq(Packet)
    BY HoldQueueTypes
  <2> QED BY <1>3, <1>5, <2>1, TailInOrder
<1> QED BY <1>1, <1>4, <1>5

\* A step that leaves the hold queues and their encoder alone, and begins no preroll.
LEMMA HoldSame ==
  ASSUME PrerollInv, UNCHANGED <<holdQueues, holdReady, holdGopStart, frontend>>,
         clock'["hold"] = clock["hold"], state' = "Preparing" => state = "Preparing"
  PROVE  PrerollInv'
BY DEF PrerollInv, HoldInOrder, GopBegun, Ascending, UpTo

\* The next packet of the hold encoder, and its clock after that.
LEMMA HoldDelivered ==
  ASSUME TypeOK, NEW l \in Lanes, Delivers("hold", l), NEW size \in PacketSizes(l),
         NEW h, h = Encoded("hold", l, size)
  PROVE  /\ h \in Packet /\ h.dts = clock["hold"].dts[l] /\ h.seq = clock["hold"].seq[l]
         /\ \A m \in Lanes :
              /\ clock["hold"].dts[l] <= clock["hold"].dts[m]
              /\ clock'["hold"].dts[m] = IF m = l THEN h.dts + 1 ELSE clock["hold"].dts[m]
              /\ clock'["hold"].seq[m] = IF m = l THEN h.seq + 1 ELSE clock["hold"].seq[m]
<1>1. h \in Packet
  BY EncodedType
<1>2. h.dts = clock["hold"].dts[l] /\ h.seq = clock["hold"].seq[l]
  BY DEF Encoded
<1>3. clock \in [{"primary", "hold"} -> EncoderClock] /\ clock["hold"] \in EncoderClock
  BY DEF TypeOK
<1>4. ASSUME NEW m \in Lanes PROVE clock["hold"].dts[l] <= clock["hold"].dts[m]
  <2>1. clock["hold"].dts[l] \in Nat /\ clock["hold"].dts[m] \in Nat
    BY <1>3 DEF EncoderClock
  <2>2. LET ahead == clock["hold"].dts[m] - clock["hold"].dts[l] IN ahead > 0 \/ ahead = 0
    BY DEF Delivers
  <2> QED BY <2>1, <2>2
<1>5. PICK left : clock' = [clock EXCEPT !["hold"].dts[l] = @ + 1, !["hold"].seq[l] = @ + 1,
                                         !["hold"].left = left]
  BY DEF Delivers
<1>6. ASSUME NEW m \in Lanes
      PROVE  /\ clock'["hold"].dts[m] = IF m = l THEN h.dts + 1 ELSE clock["hold"].dts[m]
             /\ clock'["hold"].seq[m] = IF m = l THEN h.seq + 1 ELSE clock["hold"].seq[m]
  BY <1>2, <1>3, <1>5 DEF EncoderClock
<1> QED BY <1>1, <1>2, <1>4, <1>6

\* The cut at the keyframe keeps the lanes in order, and what is kept of the audio is
\* not older than the keyframe.
LEMMA GopTrimmedInOrder ==
  ASSUME TypeOK, HoldInOrder, NEW l \in Lanes, NEW h \in Packet, NEW m \in Lanes
  PROVE  /\ GopTrimmed(l, h)[m] \in Seq(Packet)
         /\ Ascending(GopTrimmed(l, h)[m]) /\ UpTo(GopTrimmed(l, h)[m], clock["hold"].dts[m])
         /\ StartsHoldGop(l, h) =>
              /\ m = Video => GopTrimmed(l, h)[m] = <<>>
              /\ \A i \in 1..Len(GopTrimmed(l, h)[m]) : GopTrimmed(l, h)[m][i].dts >= h.dts
<1> DEFINE q == holdQueues[m]
           kept == DropBefore(q, h.dts)
<1>1. q \in Seq(Packet) /\ Ascending(q) /\ UpTo(q, clock["hold"].dts[m])
  BY HoldQueueTypes DEF HoldInOrder
<1>2. CASE ~StartsHoldGop(l, h)
  BY <1>1, <1>2 DEF GopTrimmed
<1>3. CASE StartsHoldGop(l, h)
  <2>1. GopTrimmed(l, h)[m] = IF m = Video THEN <<>> ELSE kept
    BY <1>3 DEF GopTrimmed
  <2>2. CASE m = Video
    <3>1. <<>> \in Seq(Packet) /\ Ascending(<<>>) /\ UpTo(<<>>, clock["hold"].dts[m])
      BY DEF Ascending, UpTo
    <3> QED BY <1>3, <2>1, <2>2, <3>1
  <2>3. CASE m # Video
    <3>1. h.dts \in Nat
      BY DEF Packet
    <3>2. kept \in Seq(Packet)
      BY <1>1, <3>1, DropBeforeCuts
    <3>3. PICK dropped \in 0..Len(q) :
            /\ Len(kept) = Len(q) - dropped
            /\ \A i \in 1..(Len(q) - dropped) :
                 kept[i] = q[i + dropped] /\ q[i + dropped].dts >= h.dts
      BY <1>1, <3>1, DropBeforeCuts
    <3> HIDE DEF kept, q
    <3>4. \A i \in 1..Len(kept) :
            i + dropped \in 1..Len(q) /\ kept[i] = q[i + dropped] /\ kept[i].dts >= h.dts
      BY <1>1, <3>3
    <3>5. \A i, j \in 1..Len(kept) : i <= j => i + dropped <= j + dropped
      BY <1>1, <3>3
    <3>6. Ascending(kept) /\ UpTo(kept, clock["hold"].dts[m])
      BY <1>1, <3>4, <3>5 DEF Ascending, UpTo
    <3> QED BY <2>1, <2>3, <3>2, <3>4, <3>6
  <2> QED BY <2>2, <2>3
<1> QED BY <1>2, <1>3

\* A packet of the hold encoder: it begins the GOP, goes on with it, or ends the preroll.
LEMMA HoldPacketPreroll ==
  ASSUME TypeOK, IControl, PrerollInv, NEW l \in Lanes, HoldPacket(l)
  PROVE  PrerollInv'
<1>1. PICK size \in PacketSizes(l), compatible \in BOOLEAN :
        LET h == Encoded("hold", l, size)
        IN  HoldLimit(l, h) \/ RejectHold(l, h, compatible) \/ KeepHold(l, h, compatible)
  BY DEF HoldPacket
<1> DEFINE h == Encoded("hold", l, size)
<1>2. /\ h \in Packet /\ h.dts = clock["hold"].dts[l] /\ h.seq = clock["hold"].seq[l]
      /\ \A m \in Lanes :
           /\ clock["hold"].dts[l] <= clock["hold"].dts[m]
           /\ clock'["hold"].dts[m] = IF m = l THEN h.dts + 1 ELSE clock["hold"].dts[m]
           /\ clock'["hold"].seq[m] = IF m = l THEN h.seq + 1 ELSE clock["hold"].seq[m]
  BY HoldDelivered DEF HoldPacket
<1>3. HoldLimit(l, h) \/ RejectHold(l, h, compatible) \/ KeepHold(l, h, compatible)
  BY <1>1
<1> HIDE DEF h
<1> DEFINE trimmed == GopTrimmed(l, h)
           added   == Append(trimmed[l], h)
<1>4. \A m \in Lanes :
        /\ trimmed[m] \in Seq(Packet) /\ Ascending(trimmed[m])
        /\ UpTo(trimmed[m], clock["hold"].dts[m])
        /\ StartsHoldGop(l, h) =>
             /\ m = Video => trimmed[m] = <<>>
             /\ \A i \in 1..Len(trimmed[m]) : trimmed[m][i].dts >= h.dts
  BY <1>2, GopTrimmedInOrder DEF PrerollInv
<1>5. /\ added \in Seq(Packet) /\ added # <<>>
      /\ Ascending(added) /\ UpTo(added, h.dts)
  BY <1>2, <1>4, AppendInOrder
<1>6. /\ Tail(added) \in Seq(Packet) /\ Ascending(Tail(added)) /\ UpTo(Tail(added), h.dts)
  BY <1>5, TailInOrder
<1>7. \A m \in Lanes : holdQueues'[m] = trimmed[m] \/ (m = l /\ holdQueues'[m] \in {added, Tail(added)})
  <2>1. DOMAIN trimmed = Lanes
    BY DEF GopTrimmed, TypeOK, HoldOK, LaneQueues
  <2>2. \/ holdQueues' = trimmed
        \/ holdQueues' = [trimmed EXCEPT ![l] = added]
        \/ holdQueues' = [trimmed EXCEPT ![l] = Tail(added)]
    <3>1. [trimmed EXCEPT ![l] = Append(@, h)] = [trimmed EXCEPT ![l] = added]
      OBVIOUS
    <3> DEFINE queues == [trimmed EXCEPT ![l] = added]
    <3>2. [queues EXCEPT ![l] = Tail(@)] = [trimmed EXCEPT ![l] = Tail(added)]
      BY <2>1
    <3> HIDE DEF added
    <3>3. CASE HoldLimit(l, h)
      BY <3>3 DEF HoldLimit
    <3>4. CASE RejectHold(l, h, compatible)
      BY <3>1, <3>4 DEF RejectHold
    <3>5. CASE KeepHold(l, h, compatible)
      <4>1. holdQueues' = queues \/ holdQueues' = [queues EXCEPT ![l] = Tail(@)]
        BY <3>1, <3>5 DEF KeepHold
      <4> QED BY <3>2, <4>1
    <3> QED BY <1>3, <3>3, <3>4, <3>5
  <2> HIDE DEF trimmed, added
  <2> QED BY <2>1, <2>2
<1>8. HoldInOrder'
  <2> SUFFICES ASSUME NEW m \in Lanes
               PROVE  Ascending(holdQueues'[m]) /\ UpTo(holdQueues'[m], clock'["hold"].dts[m])
    BY DEF HoldInOrder, Ascending, UpTo
  <2>1. clock["hold"].dts[m] \in Nat /\ clock["hold"].dts[l] \in Nat
    BY HoldQueueTypes
  <2>2. ASSUME NEW q \in Seq(Packet), NEW dts \in Nat, UpTo(q, dts), dts <= clock'["hold"].dts[m],
               clock'["hold"].dts[m] \in Nat
        PROVE  UpTo(q, clock'["hold"].dts[m])
    <3>1. \A i \in 1..Len(q) : q[i] \in Packet
      OBVIOUS
    <3>2. \A i \in 1..Len(q) : q[i].dts \in Nat
      BY <3>1 DEF Packet
    <3> QED BY <2>2, <3>2 DEF UpTo
  <2>3. clock'["hold"].dts[m] \in Nat /\ clock["hold"].dts[m] <= clock'["hold"].dts[m]
        /\ (m = l => h.dts <= clock'["hold"].dts[m] /\ h.dts \in Nat)
    BY <1>2, <2>1
  <2> HIDE DEF trimmed, added
  <2>4. CASE holdQueues'[m] = trimmed[m]
    BY <1>4, <2>1, <2>2, <2>3, <2>4
  <2>5. CASE m = l /\ holdQueues'[m] \in {added, Tail(added)}
    BY <1>5, <1>6, <2>2, <2>3, <2>5
  <2> QED BY <1>7, <2>4, <2>5
<1>9. ASSUME state' = "Preparing", holdReady' PROVE GopBegun'
  <2>1. state = "Preparing" /\ KeepHold(l, h, compatible)
    <3>1. state = "Preparing" \/ state' # "Preparing"
      BY <1>3 DEF HoldLimit, RejectHold, KeepHold, SetError
    <3> QED BY <1>3, <1>9, <3>1 DEF HoldLimit, RejectHold, SetError
  <2>2. frontend' # "start"
    BY <2>1 DEF HoldPacket, frontVars, IControl, HandOver, NoStaleCleanup
  <2>3. Video \in Lanes /\ AudioTracks \subseteq Lanes /\ Video \notin AudioTracks
    BY SessionAssumption DEF Lanes, Video
  <2>4. DOMAIN trimmed = Lanes
    BY DEF GopTrimmed, TypeOK, HoldOK, LaneQueues
  <2>5. /\ l = Video => holdQueues'[Video] = added
        /\ l # Video => holdQueues'[Video] = trimmed[Video]
        /\ holdReady' = (holdReady \/ StartsHoldGop(l, h))
        /\ holdGopStart' = IF StartsHoldGop(l, h) THEN h.dts ELSE holdGopStart
    <3>1. [trimmed EXCEPT ![l] = Append(@, h)] = [trimmed EXCEPT ![l] = added]
      OBVIOUS
    <3> HIDE DEF added
    <3>2. l = Video => holdQueues' = [trimmed EXCEPT ![l] = added]
      BY <2>1, <3>1 DEF KeepHold
    <3>3. l # Video => holdQueues'[Video] = trimmed[Video]
      <4> HIDE DEF trimmed
      <4> QED BY <1>2, <1>7, <2>3
    <3>4. /\ holdReady' = (holdReady \/ StartsHoldGop(l, h))
          /\ holdGopStart' = IF StartsHoldGop(l, h) THEN h.dts ELSE holdGopStart
      BY <2>1 DEF KeepHold, NoteHold
    <3> HIDE DEF trimmed
    <3> QED BY <2>3, <2>4, <3>2, <3>3, <3>4
  <2>6. CASE StartsHoldGop(l, h)
    <3>1. l = Video /\ h.key /\ holdGopStart' = h.dts /\ trimmed[Video] = <<>>
      BY <1>4, <2>3, <2>5, <2>6 DEF StartsHoldGop
    <3>2. holdQueues'[Video] = <<h>>
      BY <2>5, <3>1
    <3>3. /\ holdQueues'[Video] # <<>> /\ Head(holdQueues'[Video]) = h
          /\ Len(holdQueues'[Video]) = 1 /\ Last(holdQueues'[Video]) = h
      BY <3>2 DEF Last
    <3>4. Contiguous(holdQueues'[Video])
      BY <3>3 DEF Contiguous
    <3>5. h.seq + 1 = clock'["hold"].seq[Video]
      BY <1>2, <2>3, <3>1
    <3>6. ASSUME NEW m \in AudioTracks
          PROVE  /\ clock'["hold"].dts[m] >= h.dts
                 /\ \A i \in 1..Len(holdQueues'[m]) : holdQueues'[m][i].dts >= h.dts
      <4>1. m \in Lanes /\ m # l
        BY <2>3, <3>1
      <4>2. holdQueues'[m] = trimmed[m] /\ clock'["hold"].dts[m] = clock["hold"].dts[m]
        BY <1>2, <1>7, <4>1
      <4>3. clock["hold"].dts[m] \in Nat /\ h.dts \in Nat
        BY <1>2, <4>1, HoldQueueTypes DEF Packet
      <4> HIDE DEF trimmed
      <4> QED BY <1>2, <1>4, <2>6, <4>1, <4>2, <4>3
    <3> QED BY <2>2, <3>1, <3>3, <3>4, <3>5, <3>6 DEF GopBegun, Contiguous, Last
  <2>7. CASE ~StartsHoldGop(l, h)
    <3>1. GopBegun /\ trimmed = holdQueues /\ holdGopStart' = holdGopStart
      BY <1>9, <2>1, <2>5, <2>7 DEF PrerollInv, GopTrimmed
    <3> HIDE DEF trimmed
    <3>2. holdQueues[Video] \in Seq(Packet) /\ holdQueues[Video] # <<>>
      BY <2>3, <3>1, HoldQueueTypes DEF GopBegun
    <3>3. /\ holdQueues'[Video] # <<>> /\ Head(holdQueues'[Video]) = Head(holdQueues[Video])
          /\ Contiguous(holdQueues'[Video])
          /\ Last(holdQueues'[Video]).seq + 1 = clock'["hold"].seq[Video]
      <4>1. CASE l = Video
        <5> DEFINE q == holdQueues[Video]
        <5>1. holdQueues'[Video] = Append(q, h)
          BY <2>5, <3>1, <4>1
        <5>2. /\ Len(Append(q, h)) = Len(q) + 1 /\ Len(q) \in Nat \ {0} /\ Append(q, h) # <<>>
              /\ \A i \in 1..Len(q) : Append(q, h)[i] = q[i]
              /\ Append(q, h)[Len(q) + 1] = h /\ Head(Append(q, h)) = Head(q)
          BY <1>2, <3>2
        <5>3. Contiguous(q) /\ q[Len(q)].seq + 1 = h.seq
          BY <1>2, <3>1, <4>1 DEF GopBegun, Last
        <5>4. Contiguous(Append(q, h))
          <6> SUFFICES ASSUME NEW i \in 1..Len(q)
                       PROVE  Append(q, h)[i + 1].seq = Append(q, h)[i].seq + 1
            BY <5>2 DEF Contiguous
          <6> HIDE DEF q
          <6>1. CASE i = Len(q)
            BY <5>2, <5>3, <6>1
          <6>2. CASE i # Len(q)
            <7>1. i \in 1..(Len(q) - 1) /\ i + 1 \in 1..Len(q)
              BY <5>2, <6>2
            <7> QED BY <5>2, <5>3, <7>1 DEF Contiguous
          <6> QED BY <6>1, <6>2
        <5>5. Last(Append(q, h)).seq + 1 = clock'["hold"].seq[Video]
          BY <1>2, <2>3, <4>1, <5>2 DEF Last
        <5> QED BY <5>1, <5>2, <5>4, <5>5
      <4>2. CASE l # Video
        <5>1. clock'["hold"].seq[Video] = clock["hold"].seq[Video]
          BY <1>2, <2>3, <4>2
        <5> QED BY <2>5, <3>1, <4>2, <5>1 DEF GopBegun
      <4> QED BY <4>1, <4>2
    <3>4. ASSUME NEW m \in AudioTracks
          PROVE  /\ clock'["hold"].dts[m] >= holdGopStart
                 /\ \A i \in 1..Len(holdQueues'[m]) : holdQueues'[m][i].dts >= holdGopStart
      <4>1. /\ m \in Lanes /\ clock["hold"].dts[m] \in Nat /\ holdGopStart \in Nat
            /\ holdQueues[m] \in Seq(Packet)
        BY <2>3, HoldQueueTypes DEF TypeOK, HoldOK
      <4>2. clock["hold"].dts[m] >= holdGopStart
            /\ \A i \in 1..Len(holdQueues[m]) : holdQueues[m][i].dts >= holdGopStart
        BY <3>1 DEF GopBegun
      <4>3. clock'["hold"].dts[m] >= holdGopStart
        BY <1>2, <4>1, <4>2
      <4>4. CASE holdQueues'[m] = trimmed[m]
        BY <3>1, <4>2, <4>3, <4>4
      <4>5. CASE m = l /\ holdQueues'[m] \in {added, Tail(added)}
        <5>1. added = Append(holdQueues[m], h) /\ h.dts >= holdGopStart
          BY <1>2, <3>1, <4>2, <4>5
        <5>2. /\ Len(added) = Len(holdQueues[m]) + 1 /\ Len(holdQueues[m]) \in Nat
              /\ \A i \in 1..Len(holdQueues[m]) : added[i] = holdQueues[m][i]
              /\ added[Len(holdQueues[m]) + 1] = h
          BY <1>2, <4>1, <5>1
        <5>3. \A i \in 1..Len(added) : i \in 1..Len(holdQueues[m]) \/ i = Len(holdQueues[m]) + 1
          BY <5>2
        <5> HIDE DEF added
        <5>4. \A i \in 1..Len(added) : added[i].dts >= holdGopStart
          BY <4>2, <5>1, <5>2, <5>3
        <5>5. \A i \in 1..Len(Tail(added)) : i + 1 \in 1..Len(added) /\ Tail(added)[i] = added[i + 1]
          BY <1>5
        <5> QED BY <4>3, <4>5, <5>4, <5>5
      <4> HIDE DEF added
      <4> QED BY <1>7, <4>1, <4>4, <4>5
    <3> QED BY <2>2, <3>1, <3>3, <3>4 DEF GopBegun, Contiguous, Last
  <2> QED BY <2>6, <2>7
<1> QED BY <1>8, <1>9 DEF PrerollInv

\* A packet of the output: it takes hold packets only when the preroll is over.
LEMMA PrimaryPacketPreroll ==
  ASSUME TypeOK, PrerollInv, NEW l \in Lanes, PrimaryPacket(l)
  PROVE  PrerollInv'
<1>0. PICK p :
        \/ PassUntouched(l, p) \/ PassLive(l, p) \/ RestoreLive(l, p) \/ Fill(l, p)
        \/ StartDelayed(l, p) \/ Delay(l, p) \/ DelayLimitLive(l, p) \/ DelayLimitDrain(l, p)
        \/ ReturnOnFallback(l, p) \/ ReturnFromFilling(l, p) \/ ReturnFromDelayed(l, p)
  BY DEF PrimaryPacket
<1>1. UNCHANGED frontend
  BY DEF PrimaryPacket, Carrier, frontVars
<1>2. clock'["hold"] = clock["hold"]
  <2>1. clock \in [{"primary", "hold"} -> EncoderClock]
    BY DEF TypeOK
  <2> QED BY <2>1 DEF PrimaryPacket, Carrier, Delivers
<1>3. ASSUME NEW epoch, NEW strict, NEW next \in {"Filling", "ReturningLive"},
             EmitHold(l, p, epoch, strict, next)
      PROVE  PrerollInv'
  <2> DEFINE chosen == Choose(holdQueues, holdFallback, l \notin mismatch, l, p)
  <2>1. holdQueues' = TakeHead(holdQueues, l, chosen) /\ state' # "Preparing"
    BY <1>3 DEF EmitHold, ReturnLiveWithError
  <2>2. chosen.via = "queue" => holdQueues[l] # <<>>
    BY DEF Choose
  <2> QED BY <1>2, <2>1, <2>2, HoldTaken
<1>4. CASE UNCHANGED holdVars /\ (state' = "Preparing" => state = "Preparing")
  BY <1>1, <1>2, <1>4, HoldSame DEF holdVars
<1>5. CASE PassUntouched(l, p) \/ PassLive(l, p) \/ RestoreLive(l, p) \/ DelayLimitLive(l, p)
           \/ ReturnOnFallback(l, p)
  BY <1>4, <1>5
     DEF PassUntouched, PassLive, RestoreLive, DelayLimitLive, ReturnOnFallback, controlVars
<1>6. CASE Fill(l, p) \/ ReturnFromFilling(l, p)
  BY <1>3, <1>6 DEF Fill, ReturnFromFilling
<1>7. CASE StartDelayed(l, p) \/ Delay(l, p) \/ DelayLimitDrain(l, p) \/ ReturnFromDelayed(l, p)
  BY <1>4, <1>7 DEF StartDelayed, Delay, DelayLimitDrain, ReturnFromDelayed, EmitPrimary
<1> QED BY <1>0, <1>5, <1>6, <1>7

\* Empty lanes are in order.
LEMMA EmptyInOrder ==
  ASSUME holdQueues' = NoPackets, state' = "Preparing" => ~holdReady'
  PROVE  PrerollInv'
<1>1. \A m \in Lanes : holdQueues'[m] = <<>>
  BY DEF NoPackets
<1> QED BY <1>1 DEF PrerollInv, HoldInOrder, Ascending, UpTo

\* The frontend: a new generation starts without a preroll, and its collector behind
\* all that the one before it sent.
LEMMA FrontendPreroll ==
  ASSUME TypeOK, IControl, PrerollInv, Frontend
  PROVE  PrerollInv'
<1>1. ASSUME UNCHANGED <<holdQueues, holdReady, holdGopStart, clock>>, frontend' # "start",
             state' = "Preparing" => state = "Preparing"
      PROVE  PrerollInv'
  BY <1>1 DEF PrerollInv, HoldInOrder, GopBegun, Ascending, UpTo
<1>2. CASE PublishDelay
  BY <1>2, EmptyInOrder DEF PublishDelay
<1>3. CASE StartPipeline
  <2>1. /\ UNCHANGED <<holdQueues, holdReady, holdGopStart, state>> /\ frontend = "start"
    BY <1>3 DEF StartPipeline, holdVars, controlVars
  <2>2. PICK top \in Lanes :
          /\ \A m \in Lanes : clock["hold"].dts[m] <= clock["hold"].dts[top]
          /\ \A m \in Lanes : clock'["hold"].dts[m] = clock["hold"].dts[top]
    <3>1. PICK joined \in UNION {0..(n - 1) : n \in GopLengths}, top \in Lanes :
            /\ \A m \in Lanes : clock["hold"].dts[m] <= clock["hold"].dts[top]
            /\ clock' = [clock EXCEPT !["hold"] =
                 [dts |-> [m \in Lanes |-> clock["hold"].dts[top]],
                  seq |-> [m \in Lanes |-> clock["hold"].seq[m] + 1], left |-> joined]]
      BY <1>3 DEF StartPipeline
    <3>2. clock \in [{"primary", "hold"} -> EncoderClock]
      BY DEF TypeOK
    <3>3. \A m \in Lanes : clock'["hold"].dts[m] = clock["hold"].dts[top]
      BY <3>1, <3>2
    <3> QED BY <3>1, <3>3
  <2>3. ASSUME NEW m \in Lanes, NEW i \in 1..Len(holdQueues[m])
        PROVE  holdQueues[m][i].dts <= clock'["hold"].dts[m]
    <3>1. /\ holdQueues[m][i].dts \in Nat /\ clock["hold"].dts[m] \in Nat
          /\ clock["hold"].dts[top] \in Nat
      BY HoldQueueTypes
    <3>2. holdQueues[m][i].dts <= clock["hold"].dts[m]
      BY DEF PrerollInv, HoldInOrder, UpTo
    <3> QED BY <2>2, <3>1, <3>2
  <2>4. HoldInOrder'
    BY <2>1, <2>3 DEF PrerollInv, HoldInOrder, Ascending, UpTo
  <2>5. ~(state' = "Preparing" /\ holdReady')
    BY <2>1 DEF PrerollInv, GopBegun
  <2> QED BY <2>4, <2>5 DEF PrerollInv
<1>4. CASE RequestBypass
  <2>1. CASE holdQueues' = NoPackets /\ state' # "Preparing"
    BY <2>1, EmptyInOrder
  <2>2. CASE UNCHANGED <<holdQueues, holdGopStart>> /\ state' # "Preparing"
    <3>1. UNCHANGED <<clock, holdReady, frontend>>
      BY <1>4 DEF RequestBypass, frontVars
    <3> QED BY <2>2, <3>1, HoldSame
  <2> QED BY <1>4, <2>1, <2>2 DEF RequestBypass, Bypassed, Clear
<1>5. CASE MaintenanceRetire
  <2>1. UNCHANGED <<clock, holdReady, state>> /\ frontend' = "idle"
    BY <1>5 DEF MaintenanceRetire, controlVars
  <2>2. CASE state \in LiveStates \cup {"Delayed"}
    <3>1. holdQueues' = NoPackets /\ state' # "Preparing"
      BY <1>5, <2>1, <2>2 DEF MaintenanceRetire, LiveStates
    <3> QED BY <3>1, EmptyInOrder
  <2>3. CASE state \notin LiveStates \cup {"Delayed"}
    BY <1>1, <1>5, <2>1, <2>3 DEF MaintenanceRetire
  <2> QED BY <2>2, <2>3
<1>6. CASE TakeRearmRequest
  BY <1>6, HoldSame DEF TakeRearmRequest, holdVars, controlVars, frontVars
<1>7. CASE TakeOldPipeline \/ RetireOldPipeline \/ StartPipelineFails \/ MaintenanceTake
           \/ MaintenanceStop
  BY <1>1, <1>7
     DEF TakeOldPipeline, RetireOldPipeline, StartPipelineFails, SetError, MaintenanceTake,
         MaintenanceStop, holdVars, controlVars
<1> QED BY <1>2, <1>3, <1>4, <1>5, <1>6, <1>7 DEF Frontend

\* Every step of every thread keeps the preroll in order.
LEMMA PrerollInductive == TypeOK /\ IControl /\ PrerollInv /\ [Next]_vars => PrerollInv'
<1> SUFFICES ASSUME TypeOK, IControl, PrerollInv, [Next]_vars
             PROVE  PrerollInv'
  OBVIOUS
<1>1. ASSUME NEW l \in Lanes, PrimaryPacket(l) PROVE PrerollInv'
  BY <1>1, PrimaryPacketPreroll
<1>2. ASSUME NEW l \in Lanes, HoldPacket(l) PROVE PrerollInv'
  BY <1>2, HoldPacketPreroll
<1>3. CASE Frontend
  BY <1>3, FrontendPreroll
<1>4. CASE Reconnect
  <2>1. UNCHANGED <<clock, holdReady, frontend>>
    BY <1>4 DEF Reconnect, frontVars
  <2>2. CASE holdQueues' = NoPackets /\ state' # "Preparing"
    BY <2>2, EmptyInOrder
  <2>3. CASE UNCHANGED <<holdQueues, holdGopStart>> /\ (state' = "Preparing" => state = "Preparing")
    BY <2>1, <2>3, HoldSame
  <2> QED BY <1>4, <2>2, <2>3 DEF Reconnect, Bypassed, Clear, controlVars
<1>5. CASE Activate
  <2>1. UNCHANGED <<holdQueues, holdReady, holdGopStart, frontend>> /\ state' # "Preparing"
    BY <1>5 DEF Activate, frontVars
  <2>2. clock'["hold"] = clock["hold"]
    <3>1. clock \in [{"primary", "hold"} -> EncoderClock]
      BY DEF TypeOK
    <3> QED BY <1>5, <3>1 DEF Activate
  <2> QED BY <2>1, <2>2, HoldSame
<1>6. ASSUME NEW l \in Lanes, EncoderHole(l) PROVE PrerollInv'
  <2>1. clock'["hold"] = clock["hold"]
    <3>1. clock \in [{"primary", "hold"} -> EncoderClock]
      BY DEF TypeOK
    <3> QED BY <1>6, <3>1 DEF EncoderHole
  <2> QED BY <1>6, <2>1, HoldSame DEF EncoderHole, controlVars, holdVars, frontVars
<1>7. CASE UNCHANGED vars
  BY <1>7, HoldSame DEF vars, controlVars, holdVars, frontVars
<1> QED BY <1>1, <1>2, <1>3, <1>4, <1>5, <1>6, <1>7 DEF Next

\* The preroll is in order whenever a packet finds it.
LEMMA PrerollInvariant == Spec => []PrerollInv
<1>1. Init => PrerollInv
  <2> SUFFICES ASSUME Init PROVE PrerollInv
    OBVIOUS
  <2>1. \A m \in Lanes : holdQueues[m] = <<>>
    BY DEF Init, NoPackets
  <2> QED BY <2>1 DEF Init, PrerollInv, HoldInOrder, Ascending, UpTo
<1> QED BY <1>1, TypeCorrect, ControlInvariant, PrerollInductive, PTL DEF Spec

\* In every interleaving of the two encoders, the requests and the clean-ups: what is kept
\* for the switch is one GOP that can be decoded, and no audio older than it.
THEOREM PrerollDecodable == Spec => []PrerollIsOneGop
<1>1. TypeOK /\ PrerollInv => PrerollIsOneGop
  <2> SUFFICES ASSUME TypeOK, GopBegun, NEW l \in AudioTracks, holdQueues[l] # <<>>
               PROVE  Head(holdQueues[l]).dts >= holdGopStart
    BY DEF PrerollInv, PrerollIsOneGop, GopBegun
  <2>1. holdQueues[l] \in Seq(Packet)
    BY HoldQueueTypes DEF Lanes
  <2>2. 1 \in 1..Len(holdQueues[l]) /\ Head(holdQueues[l]) = holdQueues[l][1]
    BY <2>1
  <2> QED BY <2>2 DEF GopBegun
<1> QED BY <1>1, PrerollInvariant, TypeCorrect, PTL

----------------------------------------------------------------------------
(* The contract with the controller.  A session that goes back to live     *)
(* because of an error is not yet live, and while a collector is to start  *)
(* there is no preroll that packets could move the session with.           *)

ReturnInv ==
  /\ errorReturnPending => state = "ReturningLive"
  /\ frontend = "start" => state \in LiveStates \cup {"Preparing"}

Holding == pipeline # "none"

Seen ==
  [state |-> state, failing |-> errorReturnPending, cleanup |-> cleanupHoldRequested,
   reset |-> reconnectResetPending, rearm |-> reconnectRearmRequested, holds |-> Holding]

\* What the controller sees does not change.
SeenSame ==
  UNCHANGED <<state, errorReturnPending, cleanupHoldRequested, reconnectResetPending,
              reconnectRearmRequested, pipeline>>

\* The record the controller sees, part by part.
LEMMA SeenAs ==
  ASSUME NEW t, t = [i \in {"state", "failing", "cleanup", "reset", "rearm", "holds"} |-> t[i]],
         t["state"] = state', t["failing"] = errorReturnPending',
         t["cleanup"] = cleanupHoldRequested', t["reset"] = reconnectResetPending',
         t["rearm"] = reconnectRearmRequested', t["holds"] = Holding'
  PROVE  Seen' = t
<1> DEFINE Names == {"state", "failing", "cleanup", "reset", "rearm", "holds"}
<1>1. \A i \in Names : t[i] = Seen'[i]
  <2>1. t["state"] = Seen'["state"]
    BY DEF Seen
  <2>2. t["failing"] = Seen'["failing"]
    BY DEF Seen
  <2>3. t["cleanup"] = Seen'["cleanup"]
    BY DEF Seen
  <2>4. t["reset"] = Seen'["reset"]
    BY DEF Seen
  <2>5. t["rearm"] = Seen'["rearm"]
    BY DEF Seen
  <2>6. t["holds"] = Seen'["holds"]
    BY DEF Seen
  <2> QED BY <2>1, <2>2, <2>3, <2>4, <2>5, <2>6
<1>2. Seen' = [i \in Names |-> Seen'[i]]
  BY DEF Seen
<1> HIDE DEF Names
<1>3. t = [i \in Names |-> Seen'[i]]
  BY <1>1 DEF Names
<1> QED BY <1>2, <1>3

\* A step that leaves reconnection and pipeline alone changes three fields of what the
\* controller sees.
LEMMA PacketSeen ==
  ASSUME UNCHANGED <<reconnectResetPending, reconnectRearmRequested, pipeline>>
  PROVE  Seen' = [Seen EXCEPT !.state = state', !.failing = errorReturnPending',
                              !.cleanup = cleanupHoldRequested']
<1> DEFINE t == [Seen EXCEPT !.state = state', !.failing = errorReturnPending',
                             !.cleanup = cleanupHoldRequested']
<1>1. Holding' = Holding
  BY DEF Holding
<1>2. DOMAIN t = {"state", "failing", "cleanup", "reset", "rearm", "holds"} /\ t = [i \in DOMAIN t |-> t[i]]
  BY DEF Seen
<1>3. t["state"] = state'
  BY DEF Seen
<1>4. t["failing"] = errorReturnPending'
  BY DEF Seen
<1>5. t["cleanup"] = cleanupHoldRequested'
  BY DEF Seen
<1>6. t["reset"] = reconnectResetPending'
  BY DEF Seen
<1>7. t["rearm"] = reconnectRearmRequested'
  BY DEF Seen
<1>8. t["holds"] = Holding'
  BY <1>1 DEF Seen
<1> HIDE DEF t
<1>9. Seen' = t
  BY <1>2, <1>3, <1>4, <1>5, <1>6, <1>7, <1>8, SeenAs
<1> QED BY <1>9 DEF t

\* A packet either moves the session as Advanced says ...
LEMMA AdvancedSeen ==
  ASSUME UNCHANGED <<reconnectResetPending, reconnectRearmRequested, pipeline>>,
         <<state, state'>> \in SeenByController!PacketMoves,
         cleanupHoldRequested' = (cleanupHoldRequested \/ state' \in LiveStates \cup {"Delayed"}),
         state = "ReturningLive" => (state' = "Error" <=> errorReturnPending),
         errorReturnPending' => state' = "ReturningLive"
  PROVE  SeenByController!PacketStep
<1>1. SeenByController!Advanced(Seen, Seen')
  <2>1. /\ Seen.state = state /\ Seen'.state = state'
        /\ Seen.failing = errorReturnPending /\ Seen'.failing = errorReturnPending'
        /\ Seen.cleanup = cleanupHoldRequested /\ Seen'.cleanup = cleanupHoldRequested'
    BY DEF Seen
  <2>2. Seen' = [Seen EXCEPT !.state = Seen'.state, !.failing = Seen'.failing,
                             !.cleanup = Seen'.cleanup]
    BY <2>1, PacketSeen
  <2>3. Seen'.cleanup = (Seen.cleanup \/ Seen'.state \in LiveStates \cup {"Delayed"})
    BY <2>1, Zenon
  <2>4. Seen.state = "ReturningLive" => (Seen'.state = "Error" <=> Seen.failing)
    BY <2>1, Zenon
  <2>5. Seen'.failing => Seen'.state = "ReturningLive"
    BY <2>1, Zenon
  <2>6. <<Seen.state, Seen'.state>> \in SeenByController!PacketMoves
    BY <2>1
  <2> QED BY <2>2, <2>3, <2>4, <2>5, <2>6, Zenon
        DEF SeenByController!Advanced, SeenByController!LiveStates, LiveStates
<1> QED BY <1>1 DEF SeenByController!PacketStep, Seen, Holding

\* ... or strains it.
LEMMA StrainedSeen ==
  ASSUME UNCHANGED <<reconnectResetPending, reconnectRearmRequested, pipeline>>,
         state \in {"Filling", "ReturningLive"}, state' = "ReturningLive",
         errorReturnPending' \in BOOLEAN, cleanupHoldRequested' \in BOOLEAN,
         errorReturnPending => errorReturnPending',
         cleanupHoldRequested => cleanupHoldRequested'
  PROVE  SeenByController!PacketStep
<1>1. SeenByController!Strained(Seen, Seen')
  <2>1. /\ Seen.state = state
        /\ Seen.failing = errorReturnPending
        /\ Seen.cleanup = cleanupHoldRequested
    BY DEF Seen
  <2>2. Seen' = [Seen EXCEPT !.state = "ReturningLive", !.failing = errorReturnPending',
                             !.cleanup = cleanupHoldRequested']
    BY PacketSeen
  <2>3. (Seen.failing => errorReturnPending') /\ (Seen.cleanup => cleanupHoldRequested')
    BY <2>1, Zenon
  <2> QED BY <2>1, <2>2, <2>3, Zenon DEF SeenByController!Strained
<1> QED BY <1>1 DEF SeenByController!PacketStep, Seen, Holding

\* ... or leaves it as it is.
PacketKept == SeenByController!PacketStep \/ SeenSame

\* What the two ways of replacing a carrier do to the session.
LEMMA HoldEmitted ==
  ASSUME ControlOK, cleanupHoldRequested \in BOOLEAN,
         NEW l, NEW p, NEW epoch, NEW strict, NEW next, EmitHold(l, p, epoch, strict, next)
  PROVE  /\ UNCHANGED cleanupHoldRequested
         /\ \/ state' = next /\ errorReturnPending' = errorReturnPending
            \/ state' = "ReturningLive" /\ errorReturnPending' = TRUE
BY DEF EmitHold, ReturnLiveWithError, ControlOK

\* Emitting a primary packet goes on with `next', unless nothing can stand in for it.
LEMMA PrimaryEmitted ==
  ASSUME ControlOK, NEW l, NEW p, NEW found, NEW next, EmitPrimary(l, p, found, next)
  PROVE  \/ state' = next /\ errorReturnPending' = errorReturnPending
         \/ state' = "ReturningLive" /\ errorReturnPending' = TRUE
<1> DEFINE kept == Choose(found.queues, found.fallback, TRUE, l, p).via = "queue"
<1>1. /\ state' = IF kept THEN next ELSE "ReturningLive"
      /\ errorReturnPending' = (errorReturnPending \/ ~kept)
  BY DEF EmitPrimary
<1>2. errorReturnPending \in BOOLEAN
  BY DEF ControlOK
<1> HIDE DEF kept
<1> QED BY <1>1, <1>2

\* A packet of the output.
LEMMA PrimaryPacketSeen ==
  ASSUME TypeOK, PrerollInv, ReturnInv, NEW l \in Lanes, PrimaryPacket(l)
  PROVE  PacketKept /\ ReturnInv'
<1>0. PICK p :
        \/ PassUntouched(l, p) \/ PassLive(l, p) \/ RestoreLive(l, p) \/ Fill(l, p)
        \/ StartDelayed(l, p) \/ Delay(l, p) \/ DelayLimitLive(l, p) \/ DelayLimitDrain(l, p)
        \/ ReturnOnFallback(l, p) \/ ReturnFromFilling(l, p) \/ ReturnFromDelayed(l, p)
  BY DEF PrimaryPacket
<1>1. UNCHANGED <<frontend, pipeline, reconnectResetPending, reconnectRearmRequested>>
  BY DEF PrimaryPacket, Carrier, frontVars, signalVars
<1>2. /\ ControlOK /\ state \in DelayStates /\ errorReturnPending \in BOOLEAN
      /\ cleanupHoldRequested \in BOOLEAN
  BY DEF TypeOK, ControlOK
<1>3. ASSUME UNCHANGED <<controlVars, cleanupHoldRequested>>
      PROVE  PacketKept /\ ReturnInv'
  BY <1>1, <1>3 DEF PacketKept, SeenSame, ReturnInv, controlVars
<1>4. CASE PassUntouched(l, p) \/ PassLive(l, p) \/ ReturnOnFallback(l, p)
  BY <1>3, <1>4 DEF PassUntouched, PassLive, ReturnOnFallback
<1>5. CASE RestoreLive(l, p)
  <2>1. /\ state = "ReturningLive" /\ state' = (IF errorReturnPending THEN "Error" ELSE "Bypass")
        /\ errorReturnPending' = FALSE /\ cleanupHoldRequested' = TRUE
    BY <1>5 DEF RestoreLive
  <2>2. /\ <<state, state'>> \in SeenByController!PacketMoves
        /\ cleanupHoldRequested' = (cleanupHoldRequested \/ state' \in LiveStates \cup {"Delayed"})
        /\ state = "ReturningLive" => (state' = "Error" <=> errorReturnPending)
        /\ errorReturnPending' => state' = "ReturningLive"
    BY <1>2, <2>1 DEF SeenByController!PacketMoves, LiveStates
  <2>3. SeenByController!PacketStep
    BY <1>1, <2>2, AdvancedSeen
  <2>4. ReturnInv'
    BY <1>1, <2>1 DEF ReturnInv, LiveStates
  <2> QED BY <2>3, <2>4 DEF PacketKept
<1>6. CASE Fill(l, p)
  <2>1. PICK epoch \in BOOLEAN, strict \in BOOLEAN, next \in {"Filling", "ReturningLive"} :
          EmitHold(l, p, epoch, strict, next)
    <3>1. (state = "Preparing") \in BOOLEAN
      OBVIOUS
    <3>2. \/ EmitHold(l, p, state = "Preparing", TRUE, "Filling")
          \/ EmitHold(l, p, state = "Preparing", FALSE, "ReturningLive")
      BY <1>6 DEF Fill
    <3> QED BY <3>1, <3>2, Zenon
  <2>2. /\ UNCHANGED cleanupHoldRequested
        /\ \/ state' = next /\ errorReturnPending' = errorReturnPending
           \/ state' = "ReturningLive" /\ errorReturnPending' = TRUE
    BY <1>2, <2>1, HoldEmitted
  <2>3. state \in {"Preparing", "Filling"} /\ frontend # "start" /\ ~errorReturnPending
    <3>1. state = "Filling" \/ StartsFilling(l, p)
      BY <1>6 DEF Fill
    <3>2. CASE state = "Filling"
      BY <3>2 DEF ReturnInv, LiveStates
    <3>3. CASE StartsFilling(l, p)
      BY <3>3 DEF StartsFilling, HoldPrerollReady, PrerollInv, GopBegun, ReturnInv
    <3> QED BY <3>1, <3>2, <3>3
  <2>4. ReturnInv'
    BY <1>1, <2>2, <2>3 DEF ReturnInv
  <2>5. CASE state = "Filling" /\ state' = "Filling"
    <3>1. SeenSame
      BY <1>1, <1>2, <2>2, <2>3, <2>5 DEF SeenSame
    <3> QED BY <2>4, <3>1 DEF PacketKept
  <2>6. CASE ~(state = "Filling" /\ state' = "Filling")
    <3>1. state' \in {"Filling", "ReturningLive"}
      BY <2>2
    <3>2. <<state, state'>> \in SeenByController!PacketMoves
      BY <2>3, <2>6, <3>1 DEF SeenByController!PacketMoves
    <3>3. cleanupHoldRequested' = (cleanupHoldRequested \/ state' \in LiveStates \cup {"Delayed"})
      BY <1>2, <2>2, <3>1 DEF LiveStates
    <3>4. errorReturnPending' => state' = "ReturningLive"
      BY <2>2, <2>3
    <3>5. SeenByController!PacketStep
      BY <1>1, <2>3, <3>2, <3>3, <3>4, AdvancedSeen
    <3> QED BY <2>4, <3>5 DEF PacketKept
  <2> QED BY <2>5, <2>6
<1>7. CASE StartDelayed(l, p)
  <2>1. state = "Filling" /\ cleanupHoldRequested' = TRUE
    BY <1>7 DEF StartDelayed, DurationReady
  <2>2. \/ state' = "Delayed" /\ errorReturnPending' = errorReturnPending
        \/ state' = "ReturningLive" /\ errorReturnPending' = TRUE
    BY <1>2, <1>7, PrimaryEmitted DEF StartDelayed
  <2>3. ReturnInv' /\ ~errorReturnPending
    BY <1>1, <2>1, <2>2 DEF ReturnInv, LiveStates
  <2>4. CASE state' = "Delayed"
    <3>1. <<state, state'>> \in SeenByController!PacketMoves
      BY <2>1, <2>4 DEF SeenByController!PacketMoves
    <3>2. cleanupHoldRequested' = (cleanupHoldRequested \/ state' \in LiveStates \cup {"Delayed"})
      BY <1>2, <2>1, <2>4
    <3>3. ~errorReturnPending'
      BY <2>2, <2>3, <2>4
    <3>4. SeenByController!PacketStep
      BY <1>1, <2>1, <3>1, <3>2, <3>3, AdvancedSeen
    <3> QED BY <2>3, <3>4 DEF PacketKept
  <2>5. CASE state' # "Delayed"
    <3>1. SeenByController!PacketStep
      BY <1>1, <2>1, <2>2, <2>5, StrainedSeen
    <3> QED BY <2>3, <3>1 DEF PacketKept
  <2> QED BY <2>4, <2>5
<1>8. CASE Delay(l, p) \/ DelayLimitDrain(l, p)
  <2>1. state = "Delayed" /\ UNCHANGED cleanupHoldRequested
    BY <1>8 DEF Delay, DelayLimitDrain
  <2>2. \/ state' = "Delayed" /\ errorReturnPending' = errorReturnPending
        \/ state' = "ReturningLive" /\ errorReturnPending' \in BOOLEAN
    BY <1>2, <1>8, PrimaryEmitted DEF Delay, DelayLimitDrain
  <2>3. ReturnInv' /\ ~errorReturnPending
    BY <1>1, <2>1, <2>2 DEF ReturnInv, LiveStates
  <2>4. CASE state' = "Delayed"
    <3>1. SeenSame
      BY <1>1, <2>1, <2>2, <2>4 DEF SeenSame
    <3> QED BY <2>3, <3>1 DEF PacketKept
  <2>5. CASE state' # "Delayed"
    <3>1. /\ <<state, state'>> \in SeenByController!PacketMoves
          /\ cleanupHoldRequested' = (cleanupHoldRequested \/ state' \in LiveStates \cup {"Delayed"})
          /\ errorReturnPending' => state' = "ReturningLive"
      BY <1>2, <2>1, <2>2, <2>5 DEF SeenByController!PacketMoves, LiveStates
    <3>2. SeenByController!PacketStep
      BY <1>1, <2>1, <3>1, AdvancedSeen
    <3> QED BY <2>3, <3>2 DEF PacketKept
  <2> QED BY <2>4, <2>5
<1>9. CASE DelayLimitLive(l, p)
  <2>1. /\ state = "Delayed" /\ state' = "Bypass" /\ cleanupHoldRequested' = TRUE
        /\ UNCHANGED errorReturnPending
    BY <1>9 DEF DelayLimitLive
  <2>2. ReturnInv' /\ ~errorReturnPending /\ ~errorReturnPending'
    BY <1>1, <2>1 DEF ReturnInv, LiveStates
  <2>3. /\ <<state, state'>> \in SeenByController!PacketMoves
        /\ cleanupHoldRequested' = (cleanupHoldRequested \/ state' \in LiveStates \cup {"Delayed"})
    BY <1>2, <2>1 DEF SeenByController!PacketMoves, LiveStates
  <2>4. SeenByController!PacketStep
    BY <1>1, <2>1, <2>2, <2>3, AdvancedSeen
  <2> QED BY <2>2, <2>4 DEF PacketKept
<1>10. CASE ReturnFromFilling(l, p) \/ ReturnFromDelayed(l, p)
  <2>1. state = "ReturningLive"
    BY <1>10 DEF ReturnFromFilling, ReturnFromDelayed
  <2>2. /\ state' = "ReturningLive" /\ UNCHANGED cleanupHoldRequested
        /\ errorReturnPending' \in BOOLEAN /\ (errorReturnPending => errorReturnPending')
    <3>1. CASE ReturnFromFilling(l, p)
      BY <1>2, <3>1, HoldEmitted DEF ReturnFromFilling
    <3>2. CASE ReturnFromDelayed(l, p)
      BY <1>2, <3>2, PrimaryEmitted DEF ReturnFromDelayed
    <3> QED BY <1>10, <3>1, <3>2
  <2>3. ReturnInv'
    BY <1>1, <2>1, <2>2 DEF ReturnInv, LiveStates
  <2>4. SeenByController!PacketStep
    BY <1>1, <1>2, <2>1, <2>2, StrainedSeen
  <2> QED BY <2>3, <2>4 DEF PacketKept
<1> QED BY <1>0, <1>4, <1>5, <1>6, <1>7, <1>8, <1>9, <1>10

\* A packet of the hold encoder.
LEMMA HoldPacketSeen ==
  ASSUME TypeOK, ReturnInv, NEW l \in Lanes, HoldPacket(l)
  PROVE  PacketKept /\ ReturnInv'
<1>0. PICK h, compatible : HoldLimit(l, h) \/ RejectHold(l, h, compatible) \/ KeepHold(l, h, compatible)
  BY DEF HoldPacket
<1>1. /\ UNCHANGED <<frontend, pipeline, reconnectResetPending, reconnectRearmRequested>>
      /\ state \in {"Preparing", "Filling", "ReturningLive"}
  BY DEF HoldPacket, frontVars, signalVars, HoldAccepted
<1>2. UNCHANGED errorReturnPending
  BY <1>0 DEF HoldLimit, RejectHold, KeepHold, NoteHold
<1>3. errorReturnPending \in BOOLEAN /\ cleanupHoldRequested \in BOOLEAN
  BY DEF TypeOK, ControlOK
<1>4. CASE KeepHold(l, h, compatible)
  BY <1>1, <1>2, <1>4 DEF KeepHold, PacketKept, SeenSame, ReturnInv
<1>5. CASE state = "Preparing" /\ state' = "Error" /\ cleanupHoldRequested' = TRUE
  <2>1. ReturnInv' /\ ~errorReturnPending /\ ~errorReturnPending'
    BY <1>1, <1>2, <1>5 DEF ReturnInv, LiveStates
  <2>2. /\ <<state, state'>> \in SeenByController!PacketMoves
        /\ cleanupHoldRequested' = (cleanupHoldRequested \/ state' \in LiveStates \cup {"Delayed"})
    BY <1>3, <1>5 DEF SeenByController!PacketMoves, LiveStates
  <2>3. SeenByController!PacketStep
    BY <1>1, <1>5, <2>1, <2>2, AdvancedSeen
  <2> QED BY <2>1, <2>3 DEF PacketKept
<1>6. CASE RejectHold(l, h, compatible)
  BY <1>5, <1>6 DEF RejectHold, StartsHoldGop, SetError
<1>7. CASE HoldLimit(l, h)
  <2>1. cleanupHoldRequested' = TRUE /\ state' = (IF state = "Preparing" THEN "Error" ELSE "ReturningLive")
    BY <1>7 DEF HoldLimit
  <2>2. CASE state = "Preparing"
    BY <1>5, <2>1, <2>2
  <2>3. CASE state # "Preparing"
    <3>1. SeenByController!PacketStep
      BY <1>1, <1>2, <1>3, <2>1, <2>3, StrainedSeen
    <3>2. ReturnInv'
      BY <1>1, <1>2, <2>1, <2>3 DEF ReturnInv, LiveStates
    <3> QED BY <3>1, <3>2 DEF PacketKept
  <2> QED BY <2>2, <2>3
<1> QED BY <1>0, <1>4, <1>6, <1>7


\* The request takes the collector out ...
LEMMA ReleasedSeen ==
  ASSUME UNCHANGED <<state, errorReturnPending, cleanupHoldRequested, reconnectResetPending,
                   reconnectRearmRequested>>,
         pipeline' = "none"
  PROVE  Seen' = SeenByController!Released(Seen)
<1> DEFINE t == SeenByController!Released(Seen)
<1> USE DEF Seen, Holding, SeenByController!Released
<1>1. DOMAIN t = {"state", "failing", "cleanup", "reset", "rearm", "holds"} /\ t = [i \in DOMAIN t |-> t[i]]
  OBVIOUS
<1>2. /\ t["state"] = state' /\ t["failing"] = errorReturnPending'
      /\ t["cleanup"] = cleanupHoldRequested' /\ t["reset"] = reconnectResetPending'
      /\ t["rearm"] = reconnectRearmRequested' /\ t["holds"] = Holding'
  OBVIOUS
<1> HIDE DEF t, Seen, Holding, SeenByController!Released
<1>3. Seen' = t
  BY <1>1, <1>2, SeenAs
<1> QED BY <1>3 DEF t

\* ... and publishes the new generation;
LEMMA PreparedSeen ==
  ASSUME UNCHANGED <<reconnectResetPending, reconnectRearmRequested, pipeline>>,
         state' = "Preparing",
         errorReturnPending' = FALSE,
         cleanupHoldRequested' = FALSE
  PROVE  Seen' = SeenByController!Prepared(Seen)
<1> DEFINE t == SeenByController!Prepared(Seen)
<1> USE DEF Seen, Holding, SeenByController!Prepared
<1>1. DOMAIN t = {"state", "failing", "cleanup", "reset", "rearm", "holds"} /\ t = [i \in DOMAIN t |-> t[i]]
  OBVIOUS
<1>2. /\ t["state"] = state' /\ t["failing"] = errorReturnPending'
      /\ t["cleanup"] = cleanupHoldRequested' /\ t["reset"] = reconnectResetPending'
      /\ t["rearm"] = reconnectRearmRequested' /\ t["holds"] = Holding'
  OBVIOUS
<1> HIDE DEF t, Seen, Holding, SeenByController!Prepared
<1>3. Seen' = t
  BY <1>1, <1>2, SeenAs
<1> QED BY <1>3 DEF t

\* its collector starts ...
LEMMA StartedSeen ==
  ASSUME UNCHANGED <<state, errorReturnPending, cleanupHoldRequested, reconnectResetPending,
                   reconnectRearmRequested>>,
         pipeline' # "none"
  PROVE  Seen' = SeenByController!Started(Seen)
<1> DEFINE t == SeenByController!Started(Seen)
<1> USE DEF Seen, Holding, SeenByController!Started
<1>1. DOMAIN t = {"state", "failing", "cleanup", "reset", "rearm", "holds"} /\ t = [i \in DOMAIN t |-> t[i]]
  OBVIOUS
<1>2. /\ t["state"] = state' /\ t["failing"] = errorReturnPending'
      /\ t["cleanup"] = cleanupHoldRequested' /\ t["reset"] = reconnectResetPending'
      /\ t["rearm"] = reconnectRearmRequested' /\ t["holds"] = Holding'
  OBVIOUS
<1> HIDE DEF t, Seen, Holding, SeenByController!Started
<1>3. Seen' = t
  BY <1>1, <1>2, SeenAs
<1> QED BY <1>3 DEF t

\* ... or does not.
LEMMA StartFailedSeen ==
  ASSUME UNCHANGED <<errorReturnPending, reconnectResetPending, reconnectRearmRequested>>,
         pipeline' # "none",
         state' = "Error",
         cleanupHoldRequested' = TRUE
  PROVE  Seen' = SeenByController!StartFailed(Seen)
<1> DEFINE t == SeenByController!StartFailed(Seen)
<1> USE DEF Seen, Holding, SeenByController!StartFailed
<1>1. DOMAIN t = {"state", "failing", "cleanup", "reset", "rearm", "holds"} /\ t = [i \in DOMAIN t |-> t[i]]
  OBVIOUS
<1>2. /\ t["state"] = state' /\ t["failing"] = errorReturnPending'
      /\ t["cleanup"] = cleanupHoldRequested' /\ t["reset"] = reconnectResetPending'
      /\ t["rearm"] = reconnectRearmRequested' /\ t["holds"] = Holding'
  OBVIOUS
<1> HIDE DEF t, Seen, Holding, SeenByController!StartFailed
<1>3. Seen' = t
  BY <1>1, <1>2, SeenAs
<1> QED BY <1>3 DEF t

\* The controller takes the request to rearm.
LEMMA RearmTakenSeen ==
  ASSUME UNCHANGED <<state, errorReturnPending, cleanupHoldRequested, reconnectResetPending,
                   pipeline>>,
         reconnectRearmRequested' = FALSE
  PROVE  Seen' = SeenByController!RearmTaken(Seen)
<1> DEFINE t == SeenByController!RearmTaken(Seen)
<1> USE DEF Seen, Holding, SeenByController!RearmTaken
<1>1. DOMAIN t = {"state", "failing", "cleanup", "reset", "rearm", "holds"} /\ t = [i \in DOMAIN t |-> t[i]]
  OBVIOUS
<1>2. /\ t["state"] = state' /\ t["failing"] = errorReturnPending'
      /\ t["cleanup"] = cleanupHoldRequested' /\ t["reset"] = reconnectResetPending'
      /\ t["rearm"] = reconnectRearmRequested' /\ t["holds"] = Holding'
  OBVIOUS
<1> HIDE DEF t, Seen, Holding, SeenByController!RearmTaken
<1>3. Seen' = t
  BY <1>1, <1>2, SeenAs
<1> QED BY <1>3 DEF t

\* Maintenance takes the collector with the request for it.
LEMMA MaintainedSeen ==
  ASSUME UNCHANGED <<state, errorReturnPending, reconnectResetPending, reconnectRearmRequested>>,
         cleanupHoldRequested,
         cleanupHoldRequested' = FALSE,
         pipeline' = "none"
  PROVE  Seen' = SeenByController!Maintained(Seen)
<1> DEFINE t == SeenByController!Maintained(Seen)
<1> USE DEF Seen, Holding, SeenByController!Maintained
<1>1. DOMAIN t = {"state", "failing", "cleanup", "reset", "rearm", "holds"} /\ t = [i \in DOMAIN t |-> t[i]]
  OBVIOUS
<1>2. /\ t["state"] = state' /\ t["failing"] = errorReturnPending'
      /\ t["cleanup"] = cleanupHoldRequested' /\ t["reset"] = reconnectResetPending'
      /\ t["rearm"] = reconnectRearmRequested' /\ t["holds"] = Holding'
  OBVIOUS
<1> HIDE DEF t, Seen, Holding, SeenByController!Maintained
<1>3. Seen' = t
  BY <1>1, <1>2, SeenAs
<1> QED BY <1>3 DEF t

\* A new connection begins live, and asks to be delayed again.
LEMMA ReactivatedSeen ==
  ASSUME UNCHANGED pipeline,
         reconnectResetPending,
         state' = "Bypass",
         errorReturnPending' = FALSE,
         cleanupHoldRequested' = TRUE,
         reconnectResetPending' = FALSE,
         reconnectRearmRequested' = TRUE
  PROVE  Seen' = SeenByController!Reactivated(Seen)
<1> DEFINE t == SeenByController!Reactivated(Seen)
<1> USE DEF Seen, Holding, SeenByController!Reactivated
<1>1. DOMAIN t = {"state", "failing", "cleanup", "reset", "rearm", "holds"} /\ t = [i \in DOMAIN t |-> t[i]]
  OBVIOUS
<1>2. /\ t["state"] = state' /\ t["failing"] = errorReturnPending'
      /\ t["cleanup"] = cleanupHoldRequested' /\ t["reset"] = reconnectResetPending'
      /\ t["rearm"] = reconnectRearmRequested' /\ t["holds"] = Holding'
  OBVIOUS
<1> HIDE DEF t, Seen, Holding, SeenByController!Reactivated
<1>3. Seen' = t
  BY <1>1, <1>2, SeenAs
<1> QED BY <1>3 DEF t

\* What the session does when the delay is given up, by request or by a reconnection.
GivesUp ==
  \/ Bypassed
  \/ state \in {"Bypass", "ReturningLive"} /\ UNCHANGED <<controlVars, cleanupHoldRequested>>

\* Giving up, by the states it begins in.
LEMMA GivenUpCases ==
  ASSUME GivesUp
  PROVE  \/ /\ state \in {"Preparing", "Error"} /\ state' = "Bypass"
            /\ errorReturnPending' = FALSE /\ cleanupHoldRequested' = TRUE
         \/ /\ state \in {"Filling", "Delayed"} /\ state' = "ReturningLive"
            /\ UNCHANGED <<errorReturnPending, cleanupHoldRequested>>
         \/ /\ state \in {"Bypass", "ReturningLive"}
            /\ UNCHANGED <<state, errorReturnPending, cleanupHoldRequested>>
BY DEF GivesUp, Bypassed, controlVars

\* Giving up leaves an error pending only while the session returns to live.
LEMMA GivenUpKeeps ==
  ASSUME TypeOK, ReturnInv, GivesUp, UNCHANGED frontend
  PROVE  ReturnInv'
<1>1. errorReturnPending \in BOOLEAN
  BY DEF TypeOK, ControlOK
<1>2. errorReturnPending' => state' = "ReturningLive"
  BY <1>1, GivenUpCases DEF ReturnInv
<1>3. frontend' = "start" => state' \in LiveStates \cup {"Preparing"}
  BY GivenUpCases DEF ReturnInv, LiveStates
<1> QED BY <1>2, <1>3 DEF ReturnInv

\* A request for bypass.
LEMMA BypassedSeen ==
  ASSUME GivesUp, UNCHANGED <<reconnectRearmRequested, pipeline>>,
         UNCHANGED reconnectResetPending
  PROVE  Seen' = SeenByController!Bypassed(Seen)
<1> DEFINE t == SeenByController!Bypassed(Seen)
<1> USE GivenUpCases DEF Seen, Holding, SeenByController!Bypassed
<1>1. DOMAIN t = {"state", "failing", "cleanup", "reset", "rearm", "holds"} /\ t = [i \in DOMAIN t |-> t[i]]
  OBVIOUS
<1>2. /\ t["state"] = state' /\ t["failing"] = errorReturnPending'
      /\ t["cleanup"] = cleanupHoldRequested'
  OBVIOUS
<1>3. /\ t["reset"] = reconnectResetPending' /\ t["rearm"] = reconnectRearmRequested'
      /\ t["holds"] = Holding'
  OBVIOUS
<1> HIDE DEF t, Seen, Holding, SeenByController!Bypassed
<1>4. Seen' = t
  BY <1>1, <1>2, <1>3, SeenAs
<1> QED BY <1>4 DEF t

\* A reconnection.
LEMMA ReconnectingSeen ==
  ASSUME GivesUp, UNCHANGED <<reconnectRearmRequested, pipeline>>,
         reconnectResetPending' = TRUE
  PROVE  Seen' = SeenByController!Reconnecting(Seen)
<1> DEFINE t == SeenByController!Reconnecting(Seen)
<1> USE GivenUpCases DEF Seen, Holding, SeenByController!Bypassed, SeenByController!Reconnecting
<1>1. DOMAIN t = {"state", "failing", "cleanup", "reset", "rearm", "holds"} /\ t = [i \in DOMAIN t |-> t[i]]
  OBVIOUS
<1>2. /\ t["state"] = state' /\ t["failing"] = errorReturnPending'
      /\ t["cleanup"] = cleanupHoldRequested'
  OBVIOUS
<1>3. /\ t["reset"] = reconnectResetPending' /\ t["rearm"] = reconnectRearmRequested'
      /\ t["holds"] = Holding'
  OBVIOUS
<1> HIDE DEF t, Seen, Holding, SeenByController!Bypassed, SeenByController!Reconnecting
<1>4. Seen' = t
  BY <1>1, <1>2, <1>3, SeenAs
<1> QED BY <1>4 DEF t

\* A step as the controller sees it.
SeenStep ==
  \/ SeenByController!PacketStep \/ SeenByController!RequestStep \/ SeenByController!BypassStep
  \/ SeenByController!MaintenanceStep \/ SeenByController!SignalStep

\* The frontend: each critical section is the step of the contract it is named for.
LEMMA FrontendSeen ==
  ASSUME TypeOK, IControl, ReturnInv, Frontend
  PROVE  (SeenStep \/ SeenSame) /\ ReturnInv'
<1>1. /\ Seen.state = state /\ (Seen.holds <=> pipeline # "none")
  BY DEF Seen, Holding
<1>2. CASE TakeOldPipeline
  <2>1. Seen' = SeenByController!Released(Seen)
    BY <1>2, ReleasedSeen DEF TakeOldPipeline, controlVars, signalVars
  <2>2. SeenByController!RequestStep
    BY <1>2, <2>1
       DEF SeenByController!RequestStep, SeenByController!LiveStates, TakeOldPipeline, LiveStates, Seen, Holding
  <2>3. ReturnInv'
    BY <1>2 DEF TakeOldPipeline, ReturnInv, controlVars
  <2> QED BY <2>2, <2>3 DEF SeenStep
<1>3. CASE PublishDelay
  <2>1. Seen' = SeenByController!Prepared(Seen)
    BY <1>3, PreparedSeen DEF PublishDelay, signalVars
  <2>2. state \in LiveStates /\ pipeline = "none"
    BY <1>3 DEF PublishDelay, IControl, HandOver
  <2>3. SeenByController!RequestStep
    BY <2>1, <2>2
       DEF SeenByController!RequestStep, SeenByController!LiveStates, LiveStates, Seen, Holding
  <2>4. ReturnInv'
    BY <1>3 DEF PublishDelay, ReturnInv
  <2> QED BY <2>3, <2>4 DEF SeenStep
<1>4. CASE StartPipeline \/ StartPipelineFails
  <2>1. pipeline = "none"
    BY <1>4 DEF StartPipeline, StartPipelineFails, IControl, HandOver
  <2>2. Seen' \in {SeenByController!Started(Seen), SeenByController!StartFailed(Seen)}
    <3>1. CASE StartPipeline
      BY <3>1, StartedSeen DEF StartPipeline, controlVars, signalVars
    <3>2. CASE StartPipelineFails
      BY <3>2, StartFailedSeen DEF StartPipelineFails, SetError, signalVars
    <3> QED BY <1>4, <3>1, <3>2
  <2>3. SeenByController!RequestStep
    BY <2>1, <2>2 DEF SeenByController!RequestStep, Seen, Holding
  <2>4. ReturnInv'
    BY <1>4 DEF StartPipeline, StartPipelineFails, SetError, ReturnInv, LiveStates, controlVars
  <2> QED BY <2>3, <2>4 DEF SeenStep
<1>5. CASE RequestBypass
  <2>1. Seen' = SeenByController!Bypassed(Seen)
    BY <1>5, BypassedSeen DEF RequestBypass, GivesUp, frontVars, signalVars
  <2>2. SeenByController!BypassStep
    BY <2>1 DEF SeenByController!BypassStep, Seen, Holding
  <2>3. ReturnInv'
    <3>1. GivesUp /\ frontend' = frontend
      BY <1>5 DEF RequestBypass, GivesUp, frontVars
    <3> QED BY <3>1, GivenUpKeeps
  <2> QED BY <2>2, <2>3 DEF SeenStep
<1>6. CASE MaintenanceTake
  <2>1. Seen' = SeenByController!Maintained(Seen)
    BY <1>6, MaintainedSeen DEF MaintenanceTake, controlVars, signalVars
  <2>2. SeenByController!MaintenanceStep
    BY <2>1 DEF SeenByController!MaintenanceStep, Seen, Holding
  <2>3. ReturnInv'
    BY <1>6 DEF MaintenanceTake, ReturnInv, controlVars
  <2> QED BY <2>2, <2>3 DEF SeenStep
<1>7. CASE TakeRearmRequest
  <2>1. Seen' = SeenByController!RearmTaken(Seen)
    BY <1>7, RearmTakenSeen DEF TakeRearmRequest, controlVars, frontVars
  <2>2. SeenByController!SignalStep
    BY <2>1 DEF SeenByController!SignalStep, Seen, Holding
  <2>3. ReturnInv'
    BY <1>7 DEF TakeRearmRequest, ReturnInv, controlVars, frontVars
  <2> QED BY <2>2, <2>3 DEF SeenStep
<1>8. CASE RetireOldPipeline \/ MaintenanceStop \/ MaintenanceRetire
  BY <1>8 DEF RetireOldPipeline, MaintenanceStop, MaintenanceRetire, SeenSame, ReturnInv,
              controlVars, signalVars
<1> QED BY <1>2, <1>3, <1>4, <1>5, <1>6, <1>7, <1>8 DEF Frontend

\* Every step of every thread is one the controller allows for.
LEMMA StepsSeen ==
  TypeOK /\ IControl /\ PrerollInv /\ ReturnInv /\ [Next]_vars => (SeenStep \/ SeenSame) /\ ReturnInv'
<1> SUFFICES ASSUME TypeOK, IControl, PrerollInv, ReturnInv, [Next]_vars
             PROVE  (SeenStep \/ SeenSame) /\ ReturnInv'
  OBVIOUS
<1>1. ASSUME NEW l \in Lanes, PrimaryPacket(l) PROVE (SeenStep \/ SeenSame) /\ ReturnInv'
  BY <1>1, PrimaryPacketSeen DEF PacketKept, SeenStep
<1>2. ASSUME NEW l \in Lanes, HoldPacket(l) PROVE (SeenStep \/ SeenSame) /\ ReturnInv'
  BY <1>2, HoldPacketSeen DEF PacketKept, SeenStep
<1>3. CASE Frontend
  BY <1>3, FrontendSeen
<1>4. CASE Reconnect
  <2>1. GivesUp /\ frontend' = frontend
    BY <1>4 DEF Reconnect, GivesUp, frontVars
  <2>2. Seen' = SeenByController!Reconnecting(Seen)
    BY <1>4, <2>1, ReconnectingSeen DEF Reconnect, frontVars
  <2>3. SeenByController!SignalStep
    BY <2>2 DEF SeenByController!SignalStep, Seen, Holding
  <2>4. ReturnInv'
    BY <2>1, GivenUpKeeps
  <2> QED BY <2>3, <2>4 DEF SeenStep
<1>5. CASE Activate
  <2>1. Seen' = SeenByController!Reactivated(Seen)
    BY <1>5, ReactivatedSeen DEF Activate, frontVars
  <2>2. SeenByController!SignalStep
    BY <2>1 DEF SeenByController!SignalStep, Seen, Holding
  <2>3. ReturnInv'
    BY <1>5 DEF Activate, ReturnInv, LiveStates
  <2> QED BY <2>2, <2>3 DEF SeenStep
<1>6. ASSUME NEW l \in Lanes, EncoderHole(l) PROVE (SeenStep \/ SeenSame) /\ ReturnInv'
  BY <1>6 DEF EncoderHole, SeenSame, ReturnInv, controlVars, frontVars, signalVars
<1>7. CASE UNCHANGED vars
  BY <1>7 DEF vars, SeenSame, ReturnInv, controlVars, frontVars, signalVars
<1> QED BY <1>1, <1>2, <1>3, <1>4, <1>5, <1>6, <1>7 DEF Next

\* The session implements its contract with the controller: whatever the threads do, the
\* controller sees one of the steps it is written for, or none.
THEOREM SessionImplementsContract == Spec => KeepsSessionContract
<1>1. Init => ReturnInv
  BY DEF Init, ReturnInv
<1>2. Init => Seen = SeenByController!NewSession
  BY DEF Init, SeenByController!NewSession, Seen, Holding
<1>3. TypeOK /\ IControl /\ PrerollInv /\ ReturnInv /\ [Next]_vars
        => [SeenStep]_Seen /\ ReturnInv'
  <2>1. SeenSame => Seen' = Seen
    BY DEF SeenSame, Seen, Holding
  <2> QED BY <2>1, StepsSeen
<1> QED BY <1>1, <1>2, <1>3, TypeCorrect, ControlInvariant, PrerollInvariant, PTL
      DEF Spec, KeepsSessionContract, SeenByController!Contract, SeenStep, Seen, Holding

----------------------------------------------------------------------------
(* Splices.  What ties the video that is shown to the video that is        *)
(* queued: the packets of a queue follow each other in the GOPs of their   *)
(* encoder, the first one follows the packet shown last, and the encoder's *)
(* next packet follows the last one.  A keyframe never follows a P frame   *)
(* that is still presented after its own B frame.                          *)

Shaped(p) ==
  /\ p.cto \in 0..2
  /\ ~BFrames => p.cto = 0
  /\ p.key => p.cto = IF BFrames THEN 1 ELSE 0

Linked(q) ==
  \A i \in 1..(Len(q) - 1) :
    q[i + 1].seq = q[i].seq + 1 /\ (q[i + 1].key => q[i].cto # 2)

Rising(q, dts) ==
  /\ \A i, j \in 1..Len(q) : i < j => q[i].dts < q[j].dts
  /\ \A i \in 1..Len(q) : q[i].dts < dts

OneSource(q, src) == \A i \in 1..Len(q) : q[i].src = src

\* The encoder enc goes on where q ends.
EndsAt(q, enc) ==
  q # <<>> => /\ Last(q).seq + 1 = enc.seq[Video]
              /\ enc.left = 0 => Last(q).cto # 2

\* The encoder enc of src goes on after the emitted packet e.
ShownLast(src, e, enc) ==
  /\ e.src = src /\ e.seq + 1 = enc.seq[Video]
  /\ enc.left = 0 => e.pts - e.dts # 2

\* The queue q goes on after the emitted packet e.
ShownBefore(q, e) ==
  q # <<>> => /\ Head(q).src = e.src /\ Head(q).seq = e.seq + 1
              /\ Head(q).key => e.pts - e.dts # 2

Supplied(q, src, e, enc) ==
  /\ Linked(q) /\ EndsAt(q, enc) /\ ShownBefore(q, e)
  /\ q = <<>> => ShownLast(src, e, enc)

\* p is the video packet the encoder enc of src delivers, and enc2 the encoder after it.
NextOf(p, src, enc, enc2) ==
  /\ p \in Packet /\ Shaped(p)
  /\ p.src = src /\ p.seq = enc.seq[Video] /\ p.dts = enc.dts[Video]
  /\ p.key <=> enc.left = 0
  /\ enc2.seq[Video] = p.seq + 1 /\ enc2.dts[Video] = p.dts + 1
  /\ enc2.left = 0 => p.cto # 2

\* The emitted packet e carries p.
Carries(e, p) ==
  /\ e.src = p.src /\ e.seq = p.seq /\ e.key = p.key
  /\ e.pts - e.dts = p.cto

\* The encoder's next packet continues a queue ...
LEMMA AppendContinues ==
  ASSUME NEW q \in Seq(Packet), NEW p, NEW src, NEW enc, NEW enc2, NextOf(p, src, enc, enc2),
         Linked(q), EndsAt(q, enc)
  PROVE  Linked(Append(q, p)) /\ EndsAt(Append(q, p), enc2) /\ Append(q, p) # <<>>
<1> DEFINE r == Append(q, p)
<1>1. /\ p \in Packet /\ r \in Seq(Packet) /\ r # <<>> /\ Len(r) = Len(q) + 1 /\ Len(q) \in Nat
      /\ r[Len(q) + 1] = p /\ \A i \in 1..Len(q) : r[i] = q[i]
  BY DEF NextOf
<1> HIDE DEF r
<1>2. Last(r) = p
  BY <1>1 DEF Last
<1>3. EndsAt(r, enc2)
  BY <1>2 DEF EndsAt, NextOf
<1>4. ASSUME NEW i \in 1..(Len(r) - 1)
      PROVE  r[i + 1].seq = r[i].seq + 1 /\ (r[i + 1].key => r[i].cto # 2)
  <2>1. CASE i = Len(q)
    <3>1. q # <<>> /\ r[i] = Last(q) /\ r[i + 1] = p
      BY <1>1, <2>1 DEF Last
    <3> QED BY <3>1 DEF EndsAt, NextOf
  <2>2. CASE i # Len(q)
    <3>1. i \in 1..(Len(q) - 1) /\ r[i] = q[i] /\ r[i + 1] = q[i + 1]
      BY <1>1, <2>2
    <3> QED BY <3>1 DEF Linked
  <2> QED BY <2>1, <2>2
<1> QED BY <1>1, <1>3, <1>4 DEF Linked, r

\* ... also one that the output has emptied.
LEMMA AppendSupplies ==
  ASSUME NEW q \in Seq(Packet), NEW p, NEW src, NEW e, NEW enc, NEW enc2,
         NextOf(p, src, enc, enc2), Supplied(q, src, e, enc)
  PROVE  ShownBefore(Append(q, p), e)
<1>1. CASE q = <<>>
  <2>1. Head(Append(q, p)) = p
    BY <1>1
  <2> QED BY <1>1, <2>1 DEF ShownBefore, Supplied, ShownLast, NextOf
<1>2. CASE q # <<>>
  <2>1. Head(Append(q, p)) = Head(q)
    BY <1>2 DEF NextOf
  <2> QED BY <1>2, <2>1 DEF ShownBefore, Supplied
<1> QED BY <1>1, <1>2

\* Taking the head of a queue for the output keeps the rest in line ...
LEMMA TakeContinues ==
  ASSUME NEW q \in Seq(Packet), q # <<>>, NEW src, OneSource(q, src), Linked(q),
         NEW e, Carries(e, Head(q))
  PROVE  /\ Tail(q) \in Seq(Packet) /\ OneSource(Tail(q), src)
         /\ Linked(Tail(q)) /\ ShownBefore(Tail(q), e)
<1>1. /\ Len(Tail(q)) = Len(q) - 1 /\ Len(q) \in Nat \ {0} /\ Tail(q) \in Seq(Packet)
      /\ \A i \in 1..(Len(q) - 1) : Tail(q)[i] = q[i + 1] /\ i + 1 \in 1..Len(q)
      /\ Head(q) = q[1]
  OBVIOUS
<1>2. ShownBefore(Tail(q), e)
  <2> SUFFICES ASSUME Tail(q) # <<>> PROVE ShownBefore(Tail(q), e)
    BY DEF ShownBefore
  <2>1. 1 \in 1..(Len(q) - 1) /\ Head(Tail(q)) = q[1 + 1]
    BY <1>1
  <2>2. q[1 + 1].seq = q[1].seq + 1 /\ (q[1 + 1].key => q[1].cto # 2)
    BY <2>1 DEF Linked
  <2>3. q[1].src = q[1 + 1].src
    BY <1>1, <2>1 DEF OneSource
  <2> QED BY <1>1, <2>1, <2>2, <2>3 DEF ShownBefore, Carries
<1>3. Linked(Tail(q))
  <2> SUFFICES ASSUME NEW i \in 1..(Len(Tail(q)) - 1)
               PROVE  /\ Tail(q)[i + 1].seq = Tail(q)[i].seq + 1
                      /\ Tail(q)[i + 1].key => Tail(q)[i].cto # 2
    BY DEF Linked
  <2>1. i + 1 \in 1..(Len(q) - 1) /\ Tail(q)[i] = q[i + 1] /\ Tail(q)[i + 1] = q[(i + 1) + 1]
    BY <1>1
  <2> QED BY <2>1 DEF Linked
<1>4. OneSource(Tail(q), src)
  BY <1>1 DEF OneSource
<1> QED BY <1>1, <1>2, <1>3, <1>4

\* ... and its end where it was.
LEMMA TakeSupplies ==
  ASSUME NEW q \in Seq(Packet), q # <<>>, NEW src, OneSource(q, src), Linked(q),
         NEW e, Carries(e, Head(q)), NEW enc, EndsAt(q, enc)
  PROVE  Supplied(Tail(q), src, e, enc)
<1>1. /\ Len(Tail(q)) = Len(q) - 1 /\ Len(q) \in Nat \ {0} /\ Tail(q) \in Seq(Packet)
      /\ \A i \in 1..(Len(q) - 1) : Tail(q)[i] = q[i + 1] /\ i + 1 \in 1..Len(q)
      /\ Head(q) = q[1]
  OBVIOUS
<1>2. Linked(Tail(q)) /\ ShownBefore(Tail(q), e)
  BY TakeContinues
<1>3. CASE Tail(q) = <<>>
  <2>1. Head(q) = Last(q) /\ 1 \in 1..Len(q)
    BY <1>1, <1>3 DEF Last
  <2>2. ShownLast(src, e, enc)
    BY <1>1, <2>1 DEF EndsAt, Carries, ShownLast, OneSource
  <2> QED BY <1>2, <1>3, <2>2 DEF Supplied, EndsAt
<1>4. CASE Tail(q) # <<>>
  <2>1. Last(Tail(q)) = Last(q)
    BY <1>1, <1>4 DEF Last
  <2> QED BY <1>2, <1>4, <2>1 DEF Supplied, EndsAt
<1> QED BY <1>3, <1>4

\* The live packet of an encoder is followed by the encoder.
LEMMA LiveShown ==
  ASSUME NEW p, NEW src, NEW enc, NEW enc2, NextOf(p, src, enc, enc2), NEW e, Carries(e, p)
  PROVE  ShownLast(src, e, enc2)
BY DEF NextOf, Carries, ShownLast

\* A set of naturals that is not empty has a least element,
LEMMA LeastOf ==
  ASSUME NEW S \in SUBSET Nat, S # {}
  PROVE  \E n \in S : \A m \in S : n <= m
<1> DEFINE R == {pair \in Nat \X Nat : pair[1] < pair[2]}
<1>1. R = OpToRel(<, Nat)
  BY DEF OpToRel
<1>2. IsWellFoundedOn(R, Nat)
  BY <1>1, NatLessThanWellFounded
<1>3. PICK n \in S : \A m \in S : ~(<<m, n>> \in R)
  <2> HIDE DEF R
  <2> QED BY <1>2, WFMin
<1>4. ASSUME NEW m \in S PROVE n <= m
  <2>1. n \in Nat /\ m \in Nat
    OBVIOUS
  <2>2. ~(<<m, n>> \in R)
    BY <1>3
  <2> QED BY <2>1, <2>2
<1> QED BY <1>4

\* and a greatest one if it is bounded.
LEMMA GreatestOf ==
  ASSUME NEW S \in SUBSET Nat, S # {}, NEW bound \in Nat, \A m \in S : m <= bound
  PROVE  \E n \in S : \A m \in S : n >= m
<1> DEFINE T == {bound - m : m \in S}
<1>1. T \in SUBSET Nat /\ T # {}
  <2>1. \A m \in S : bound - m \in Nat
    OBVIOUS
  <2> QED BY <2>1
<1>2. PICK least \in T : \A t \in T : least <= t
  <2> HIDE DEF T
  <2> QED BY <1>1, LeastOf
<1>3. PICK n \in S : least = bound - n
  BY <1>2
<1>4. ASSUME NEW m \in S PROVE n >= m
  <2>1. n \in Nat /\ m \in Nat /\ least <= bound - m
    BY <1>2
  <2> QED BY <1>3, <2>1
<1> QED BY <1>4

\* The origin of a realignment is one of the candidates.
LEMMA OriginIsCandidate ==
  ASSUME NEW S \in SUBSET Nat, S # {}, NEW bound \in Nat, \A m \in S : m <= bound, NEW desired \in Int
  PROVE  RealignOrigin(S, desired) \in S
<1> DEFINE aged == {d \in S : d <= desired}
<1>1. CASE aged # {}
  <2>1. aged \in SUBSET Nat /\ \A m \in aged : m <= bound
    OBVIOUS
  <2>2. \E n \in aged : \A m \in aged : n >= m
    <3> HIDE DEF aged
    <3> QED BY <1>1, <2>1, GreatestOf
  <2>3. Max(aged) \in aged
    BY <2>2 DEF Max
  <2> QED BY <1>1, <2>3 DEF RealignOrigin
<1>2. CASE aged = {}
  <2>1. \E n \in S : \A m \in S : n <= m
    BY LeastOf
  <2>2. Min(S) \in S
    BY <2>1 DEF Min
  <2> QED BY <1>2, <2>2 DEF RealignOrigin
<1> QED BY <1>1, <1>2

\* The order of DTS survives what the output and the encoder do to a queue,
LEMMA RisingTail ==
  ASSUME NEW q \in Seq(Packet), q # <<>>, NEW dts, Rising(q, dts)
  PROVE  Rising(Tail(q), dts)
<1>1. \A i \in 1..Len(Tail(q)) : i + 1 \in 1..Len(q) /\ Tail(q)[i] = q[i + 1]
  OBVIOUS
<1>2. \A i, j \in 1..Len(Tail(q)) : i < j => i + 1 < j + 1
  OBVIOUS
<1> QED BY <1>1, <1>2 DEF Rising

\* A queue that ends before a packet still rises with that packet behind it,
LEMMA RisingAppend ==
  ASSUME NEW q \in Seq(Packet), NEW p \in Packet, Rising(q, p.dts)
  PROVE  Rising(Append(q, p), p.dts + 1)
<1> DEFINE r == Append(q, p)
<1>1. /\ r \in Seq(Packet) /\ Len(r) = Len(q) + 1 /\ Len(q) \in Nat
      /\ r[Len(q) + 1] = p /\ \A i \in 1..Len(q) : r[i] = q[i]
      /\ \A i \in 1..Len(q) : q[i] \in Packet
  OBVIOUS
<1>2. p.dts \in Nat /\ \A i \in 1..Len(q) : q[i].dts \in Nat
  BY <1>1 DEF Packet
<1> HIDE DEF r
<1>3. ASSUME NEW i \in 1..Len(r) PROVE r[i].dts < p.dts + 1
  BY <1>1, <1>2 DEF Rising
<1>4. ASSUME NEW i \in 1..Len(r), NEW j \in 1..Len(r), i < j PROVE r[i].dts < r[j].dts
  <2>1. i \in 1..Len(q) /\ r[i] = q[i]
    BY <1>1, <1>4
  <2>2. CASE j = Len(q) + 1
    BY <1>1, <2>1, <2>2 DEF Rising
  <2>3. CASE j # Len(q) + 1
    <3>1. j \in 1..Len(q) /\ r[j] = q[j]
      BY <1>1, <2>3
    <3> QED BY <1>4, <2>1, <3>1 DEF Rising
  <2> QED BY <2>2, <2>3
<1> QED BY <1>3, <1>4 DEF Rising, r

\* and a queue that ends before a time ends before every later one.
LEMMA RisingLater ==
  ASSUME NEW q \in Seq(Packet), NEW dts \in Nat, Rising(q, dts), NEW later \in Nat, dts <= later
  PROVE  Rising(q, later)
<1>1. \A i \in 1..Len(q) : q[i] \in Packet
  OBVIOUS
<1>2. \A i \in 1..Len(q) : q[i].dts \in Nat
  BY <1>1 DEF Packet
<1> QED BY <1>2 DEF Rising

\* and a cut: the frame at the origin is then the first.
LEMMA CutAtOrigin ==
  ASSUME NEW q \in Seq(Packet), NEW dts, Rising(q, dts), NEW src, OneSource(q, src), Linked(q),
         NEW enc, EndsAt(q, enc), NEW j \in 1..Len(q)
  PROVE  LET cut == DropBefore(q, q[j].dts)
         IN  /\ cut \in Seq(Packet) /\ cut # <<>> /\ Head(cut) = q[j]
             /\ Rising(cut, dts) /\ OneSource(cut, src) /\ Linked(cut) /\ EndsAt(cut, enc)
             /\ \A i \in 1..Len(cut) : \E k \in 1..Len(q) : cut[i] = q[k]
<1> DEFINE origin == q[j].dts
           cut == DropBefore(q, origin)
<1>1. \A i \in 1..Len(q) : q[i] \in Packet
  OBVIOUS
<1>2. (\A i \in 1..Len(q) : q[i].dts \in Nat) /\ origin \in Nat /\ Len(q) \in Nat
  <2>1. \A i \in 1..Len(q) : q[i].dts \in Nat
    BY <1>1 DEF Packet
  <2> QED
    BY <2>1
<1>3. Ascending(q)
  BY <1>2 DEF Ascending, Rising
<1>4. PICK dropped \in 0..Len(q) :
        /\ cut \in Seq(Packet) /\ Len(cut) = Len(q) - dropped
        /\ \A i \in 1..(Len(q) - dropped) : cut[i] = q[i + dropped] /\ q[i + dropped].dts >= origin
        /\ \A i \in 1..dropped : q[i].dts < origin
  <2> HIDE DEF origin
  <2> QED BY <1>2, <1>3, DropBeforeCuts
<1> HIDE DEF cut
<1>5. dropped + 1 = j
  <2>1. dropped < j
    BY <1>2, <1>4
  <2>2. CASE dropped + 1 < j
    <3>1. 1 \in 1..(Len(q) - dropped) /\ dropped + 1 \in 1..Len(q)
      BY <1>2, <2>2
    <3>2. q[1 + dropped].dts >= origin /\ q[dropped + 1].dts < origin
      BY <1>4, <2>2, <3>1 DEF Rising
    <3> QED BY <1>2, <3>1, <3>2
  <2> QED BY <1>2, <2>1, <2>2
<1>6. /\ Len(cut) \in Nat \ {0} /\ cut # <<>> /\ Head(cut) = q[j] /\ Last(cut) = Last(q)
      /\ \A i \in 1..Len(cut) : i + dropped \in 1..Len(q) /\ cut[i] = q[i + dropped]
  <2>1. /\ Len(cut) \in Nat \ {0} /\ 1 \in 1..(Len(q) - dropped) /\ Len(cut) \in 1..(Len(q) - dropped)
        /\ Len(cut) + dropped = Len(q)
    BY <1>2, <1>4, <1>5
  <2>2. cut # <<>> /\ Head(cut) = cut[1]
    BY <1>4, <2>1
  <2>3. cut[1] = q[j] /\ cut[Len(cut)] = q[Len(q)]
    <3>1. cut[1] = q[1 + dropped] /\ cut[Len(cut)] = q[Len(cut) + dropped]
      BY <1>4, <2>1
    <3>2. 1 + dropped = j
      BY <1>5
    <3> QED BY <2>1, <3>1, <3>2
  <2>4. \A i \in 1..Len(cut) : i + dropped \in 1..Len(q) /\ cut[i] = q[i + dropped]
    BY <1>2, <1>4
  <2> QED BY <2>1, <2>2, <2>3, <2>4 DEF Last
<1>7. Rising(cut, dts)
  <2>1. \A i, k \in 1..Len(cut) : i < k => i + dropped < k + dropped
    BY <1>6
  <2> QED BY <1>6, <2>1 DEF Rising
<1>8. Linked(cut)
  <2> SUFFICES ASSUME NEW i \in 1..(Len(cut) - 1)
               PROVE  cut[i + 1].seq = cut[i].seq + 1 /\ (cut[i + 1].key => cut[i].cto # 2)
    BY DEF Linked
  <2>1. /\ i + dropped \in 1..(Len(q) - 1) /\ cut[i] = q[i + dropped]
        /\ cut[i + 1] = q[(i + dropped) + 1]
    BY <1>4, <1>6
  <2> QED BY <2>1 DEF Linked
<1>9. OneSource(cut, src) /\ EndsAt(cut, enc)
  BY <1>2, <1>6 DEF OneSource, EndsAt
<1> QED BY <1>4, <1>6, <1>7, <1>8, <1>9 DEF cut

----------------------------------------------------------------------------
(* What one packet of an encoder and one packet of the output change.      *)

\* The encoder src delivers a video packet.
LEMMA VideoDelivered ==
  ASSUME TypeOK, NEW src \in {"primary", "hold"}, NEW size \in PacketSizes(Video),
         Delivers(src, Video)
  PROVE  NextOf(Encoded(src, Video, size), src, clock[src], clock'[src])
<1> DEFINE p == Encoded(src, Video, size)
<1>1. Video \in Lanes /\ clock \in [{"primary", "hold"} -> EncoderClock] /\ clock[src] \in EncoderClock
  BY LanesAreNaturals DEF TypeOK
<1>2. /\ clock[src].left \in Nat /\ clock[src].seq[Video] \in Nat /\ clock[src].dts[Video] \in Nat
      /\ clock[src].seq \in [Lanes -> Nat] /\ clock[src].dts \in [Lanes -> Nat]
  BY <1>1 DEF EncoderClock
<1>3. /\ p \in Packet /\ p.src = src /\ p.seq = clock[src].seq[Video]
      /\ p.dts = clock[src].dts[Video] /\ p.cto = CompositionTicks(clock[src].left)
  BY <1>1, EncodedType DEF Encoded
<1>4. p.key <=> clock[src].left = 0
  BY DEF Encoded
<1>5. PICK left \in FramesLeft(clock[src].left) :
        clock' = [clock EXCEPT ![src].dts[Video] = @ + 1, ![src].seq[Video] = @ + 1, ![src].left = left]
  BY DEF Delivers
<1>6. /\ clock'[src].seq[Video] = p.seq + 1 /\ clock'[src].dts[Video] = p.dts + 1
      /\ clock'[src].left = left
  <2> HIDE DEF p
  <2> QED BY <1>1, <1>2, <1>3, <1>5
<1>7. Shaped(p)
  <2> HIDE DEF p
  <2> QED BY <1>2, <1>3, <1>4 DEF Shaped, CompositionTicks
<1>8. left = 0 => p.cto # 2
  <2>1. CASE clock[src].left = 0
    BY <1>3, <2>1 DEF CompositionTicks
  <2>2. CASE clock[src].left # 0
    <3>1. left = clock[src].left - 1
      BY <1>5, <2>2 DEF FramesLeft
    <3>2. left = 0 => clock[src].left = 1
      BY <1>2, <3>1
    <3>3. CompositionTicks(1) # 2
      BY DEF CompositionTicks
    <3> QED BY <1>3, <3>2, <3>3
  <2> QED BY <2>1, <2>2
<1> HIDE DEF p
<1>9. NextOf(p, src, clock[src], clock'[src])
  BY <1>3, <1>4, <1>6, <1>7, <1>8 DEF NextOf
<1> QED BY <1>9 DEF p

\* The encoder src delivers an audio packet.
LEMMA AudioDelivered ==
  ASSUME TypeOK, NEW src \in {"primary", "hold"}, NEW l \in Lanes, l # Video, Delivers(src, l)
  PROVE  /\ clock'[src].seq[Video] = clock[src].seq[Video]
         /\ clock'[src].dts[Video] = clock[src].dts[Video]
         /\ clock'[src].left = clock[src].left
<1>1. Video \in Lanes /\ clock \in [{"primary", "hold"} -> EncoderClock] /\ clock[src] \in EncoderClock
  BY LanesAreNaturals DEF TypeOK
<1>2. clock[src].seq \in [Lanes -> Nat] /\ clock[src].dts \in [Lanes -> Nat]
  BY <1>1 DEF EncoderClock
<1>3. clock' = [clock EXCEPT ![src].dts[l] = @ + 1, ![src].seq[l] = @ + 1,
                             ![src].left = clock[src].left]
  BY DEF Delivers
<1> QED BY <1>1, <1>2, <1>3

\* Whichever lane it is, the DTS of the encoder goes on by one, and no other clock moves.
LEMMA LaneDelivered ==
  ASSUME TypeOK, NEW src \in {"primary", "hold"}, NEW l \in Lanes, Delivers(src, l)
  PROVE  /\ \A m \in Lanes :
              clock'[src].dts[m] = IF m = l THEN clock[src].dts[l] + 1 ELSE clock[src].dts[m]
         /\ \A other \in {"primary", "hold"} : other # src => clock'[other] = clock[other]
<1>1. clock \in [{"primary", "hold"} -> EncoderClock] /\ clock[src] \in EncoderClock
  BY DEF TypeOK
<1>2. clock[src].seq \in [Lanes -> Nat] /\ clock[src].dts \in [Lanes -> Nat]
  BY <1>1 DEF EncoderClock
<1>3. PICK left : clock' = [clock EXCEPT ![src].dts[l] = @ + 1, ![src].seq[l] = @ + 1,
                                         ![src].left = left]
  BY DEF Delivers
<1> QED BY <1>1, <1>2, <1>3

\* How far behind its DTS the emitted packets may be presented: a P frame that waits for
\* its B frame by two ticks.
Reach(e) == IF ~BFrames THEN 0 ELSE IF e.pts - e.dts = 2 THEN 2 ELSE 1

\* Every lane is behind its encoder, and no video is presented much later than the last one.
LanesAscend == \A l \in Lanes : lastOut[l].dts < clock["primary"].dts[l] + offset

\* How far the presentation of video has got.
VideoTimeline ==
  /\ maxPts <= peakPts
  /\ peakPts <= lastOut[Video].dts + Reach(lastOut[Video])
  /\ state \in {"Filling", "Delayed", "ReturningLive"} => maxPts = peakPts

\* What Emit does to an audio lane ...
LEMMA AudioEmitted ==
  ASSUME TypeOK, NEW l \in Lanes, l # Video, NEW p \in Packet, NEW chosen, NEW epoch,
         Emit(l, p, chosen, epoch)
  PROVE  /\ offset' = offset /\ maxPts' = maxPts /\ peakPts' = peakPts
         /\ lastOut'[l].dts = p.dts + offset
         /\ \A m \in Lanes : m # l => lastOut'[m] = lastOut[m]
<1>1. offset \in Nat /\ p.dts \in Nat /\ lastOut \in [Lanes -> EmittedPacket]
  BY DEF TypeOK, OutOK, Packet
<1>2. EpochShift(l, p.dts + offset, chosen.pkt.cto) = 0
  BY DEF EpochShift
<1> QED BY <1>1, <1>2 DEF Emit

\* ... and to the video.
LEMMA VideoEmitted ==
  ASSUME TypeOK, NEW p \in Packet, NEW chosen, chosen.pkt \in Packet, NEW epoch \in BOOLEAN,
         Emit(Video, p, chosen, epoch)
  PROVE  /\ offset' \in Nat /\ offset <= offset'
         /\ lastOut'[Video].dts = p.dts + offset'
         /\ lastOut'[Video].pts = p.dts + offset' + chosen.pkt.cto
         /\ lastOut'[Video].via = chosen.via
         /\ Carries(lastOut'[Video], chosen.pkt)
         /\ maxPts' = IF lastOut'[Video].pts > maxPts THEN lastOut'[Video].pts ELSE maxPts
         /\ peakPts' = IF lastOut'[Video].pts > peakPts THEN lastOut'[Video].pts ELSE peakPts
         /\ epoch /\ maxPts # NoDts => lastOut'[Video].pts > maxPts
         /\ \A m \in Lanes : m # Video => lastOut'[m] = lastOut[m]
<1> DEFINE base  == p.dts + offset
           shift == IF epoch THEN EpochShift(Video, base, chosen.pkt.cto) ELSE 0
           pts   == base + shift + chosen.pkt.cto
           shown == [via |-> chosen.via, src |-> chosen.pkt.src, seq |-> chosen.pkt.seq,
                     key |-> chosen.pkt.key, age |-> p.dts - chosen.pkt.dts,
                     dts |-> base + shift, pts |-> pts]
<1>1. p.dts \in Nat /\ chosen.pkt.cto \in Nat
  BY DEF Packet
<1>2. /\ offset \in Nat /\ maxPts \in Int /\ lastOut \in [Lanes -> EmittedPacket]
      /\ Video \in Lanes
  BY LanesAreNaturals DEF TypeOK, OutOK
<1>3. base \in Nat
  BY <1>1, <1>2
<1>4. /\ shift \in Nat
      /\ epoch /\ maxPts # NoDts => base + shift + chosen.pkt.cto > maxPts
  BY <1>1, <1>2, <1>3 DEF EpochShift
<1>5. /\ offset' = offset + shift
      /\ maxPts' = IF pts > maxPts THEN pts ELSE maxPts
      /\ peakPts' = IF pts > peakPts THEN pts ELSE peakPts
      /\ lastOut' = [lastOut EXCEPT ![Video] = shown]
  BY DEF Emit
<1>6. lastOut'[Video] = shown /\ \A m \in Lanes : m # Video => lastOut'[m] = lastOut[m]
  <2> HIDE DEF shown
  <2> QED BY <1>2, <1>5
<1>7. /\ shown.via = chosen.via /\ shown.src = chosen.pkt.src /\ shown.seq = chosen.pkt.seq
      /\ shown.key = chosen.pkt.key /\ shown.dts = base + shift /\ shown.pts = pts
  OBVIOUS
<1>8. base + shift = p.dts + offset' /\ pts = p.dts + offset' + chosen.pkt.cto
      /\ pts - (base + shift) = chosen.pkt.cto /\ offset <= offset' /\ offset' \in Nat
  <2> HIDE DEF shift
  <2> QED BY <1>1, <1>2, <1>3, <1>4, <1>5
<1>9. epoch /\ maxPts # NoDts => pts > maxPts
  BY <1>4
<1> HIDE DEF base, shift, pts, shown
<1> QED BY <1>5, <1>6, <1>7, <1>8, <1>9 DEF Carries

\* The numbers of a video packet that is emitted.
LEMMA EmittedTypes ==
  ASSUME TypeOK, NEW l \in Lanes
  PROVE  /\ lastOut[l].dts \in Int /\ lastOut[l].pts \in Int /\ offset \in Nat
         /\ maxPts \in Int /\ peakPts \in Int
         /\ clock["primary"].dts[l] \in Nat /\ clock["primary"].seq[l] \in Nat
         /\ clock["primary"].left \in Nat
<1>1. lastOut[l] \in EmittedPacket /\ offset \in Nat /\ maxPts \in Int /\ peakPts \in Int
  BY DEF TypeOK, OutOK
<1>2. clock["primary"] \in EncoderClock
  BY DEF TypeOK
<1> QED BY <1>1, <1>2 DEF EmittedPacket, EncoderClock

\* Whichever way a video packet leaves at the output's DTS, its lane moves on, nothing was
\* presented much later, and a keyframe after no waiting P frame is presented last.
LEMMA PeakKept ==
  ASSUME TypeOK, LanesAscend, VideoTimeline,
         NEW p \in Packet, NEW c \in Packet, Shaped(c), Delivers("primary", Video),
         p.dts = clock["primary"].dts[Video], offset' \in Nat, offset <= offset',
         lastOut'[Video].dts = p.dts + offset', lastOut'[Video].pts = p.dts + offset' + c.cto,
         peakPts' = IF lastOut'[Video].pts > peakPts THEN lastOut'[Video].pts ELSE peakPts,
         \A m \in Lanes : m # Video => lastOut'[m] = lastOut[m]
  PROVE  /\ LanesAscend'
         /\ peakPts' <= lastOut'[Video].dts + Reach(lastOut'[Video])
         /\ lastOut'[Video].dts > lastOut[Video].dts
         /\ c.key /\ (lastOut[Video].pts - lastOut[Video].dts # 2 \/ peakPts = NoDts)
              => lastOut'[Video].pts > peakPts
<1> DEFINE e == lastOut[Video]
           f == lastOut'[Video]
<1>1. /\ Video \in Lanes /\ e.dts \in Int /\ e.pts \in Int /\ offset \in Nat
      /\ peakPts \in Int /\ p.dts \in Nat
  BY LanesAreNaturals, EmittedTypes DEF Packet
<1>2. /\ offset' \in Nat /\ offset <= offset'
      /\ f.dts = p.dts + offset' /\ f.pts = p.dts + offset' + c.cto
      /\ peakPts' = IF f.pts > peakPts THEN f.pts ELSE peakPts
  OBVIOUS
<1>3. \A m \in Lanes : clock'["primary"].dts[m] = IF m = Video THEN p.dts + 1 ELSE clock["primary"].dts[m]
  BY <1>1, LaneDelivered
<1>4. e.dts < p.dts + offset
  BY <1>1 DEF LanesAscend
<1>5. /\ c.cto \in 0..2 /\ (~BFrames => c.cto = 0) /\ (c.key => c.cto = IF BFrames THEN 1 ELSE 0)
      /\ BFrames \in BOOLEAN
  BY SessionAssumption DEF Shaped
<1>6. /\ f.dts \in Int /\ f.pts \in Int /\ f.pts - f.dts = c.cto
      /\ f.dts > e.dts
  <2> HIDE DEF e, f
  <2> QED BY <1>1, <1>2, <1>4, <1>5
<1>7. peakPts <= e.dts + Reach(e)
  BY DEF VideoTimeline
<1>8. /\ Reach(e) \in {0, 1, 2} /\ (~BFrames => Reach(e) = 0)
      /\ e.pts - e.dts # 2 => Reach(e) <= 1
      /\ Reach(f) = IF ~BFrames THEN 0 ELSE IF c.cto = 2 THEN 2 ELSE 1
  <2> HIDE DEF e, f
  <2> QED BY <1>6 DEF Reach
<1>9. LanesAscend'
  <2> SUFFICES ASSUME NEW m \in Lanes PROVE lastOut'[m].dts < clock'["primary"].dts[m] + offset'
    BY DEF LanesAscend
  <2>1. CASE m = Video
    BY <1>1, <1>2, <1>3, <2>1
  <2>2. CASE m # Video
    <3>1. /\ lastOut[m].dts \in Int /\ clock["primary"].dts[m] \in Nat
          /\ lastOut[m].dts < clock["primary"].dts[m] + offset
      BY EmittedTypes DEF LanesAscend
    <3> QED BY <1>1, <1>2, <1>3, <2>2, <3>1
  <2> QED BY <2>1, <2>2
<1> HIDE DEF e, f
<1>10. peakPts' <= f.dts + Reach(f)
  <2>1. CASE ~BFrames
    <3>1. f.pts = f.dts /\ Reach(f) = 0
      BY <1>5, <1>6, <1>8, <2>1
    <3>2. peakPts <= f.dts
      BY <1>1, <1>6, <1>7, <1>8, <2>1
    <3> QED BY <1>1, <1>2, <1>6, <3>1, <3>2
  <2>2. CASE BFrames
    <3>1. peakPts <= f.dts + 1
      BY <1>1, <1>6, <1>7, <1>8
    <3>2. f.pts <= f.dts + Reach(f) /\ f.dts + 1 <= f.dts + Reach(f) /\ Reach(f) \in {1, 2}
      BY <1>5, <1>6, <1>8, <2>2
    <3> QED BY <1>1, <1>2, <1>6, <3>1, <3>2
  <2> QED BY <2>1, <2>2
<1>11. ASSUME c.key, e.pts - e.dts # 2 \/ peakPts = NoDts PROVE f.pts > peakPts
  <2>1. CASE peakPts = NoDts
    <3>1. f.pts \in Nat
      BY <1>1, <1>2, <1>5
    <3> QED BY <2>1, <3>1 DEF NoDts
  <2>2. CASE e.pts - e.dts # 2 /\ BFrames
    <3>1. f.pts = f.dts + 1
      BY <1>5, <1>6, <1>11, <2>2
    <3> QED BY <1>1, <1>6, <1>7, <1>8, <2>2, <3>1
  <2>3. CASE ~BFrames
    BY <1>1, <1>5, <1>6, <1>7, <1>8, <2>3
  <2> QED BY <1>11, <2>1, <2>2, <2>3
<1> QED BY <1>6, <1>9, <1>10, <1>11 DEF e, f

\* A packet with a timeline like this keeps it, and one that begins an epoch, too, is
\* presented last.
LEMMA TimelineKept ==
  ASSUME TypeOK, LanesAscend, VideoTimeline,
         NEW p \in Packet, NEW chosen, chosen.pkt \in Packet, Shaped(chosen.pkt), NEW epoch \in BOOLEAN,
         Emit(Video, p, chosen, epoch), Delivers("primary", Video),
         p.dts = clock["primary"].dts[Video]
  PROVE  /\ LanesAscend'
         /\ maxPts' <= peakPts'
         /\ peakPts' <= lastOut'[Video].dts + Reach(lastOut'[Video])
         /\ maxPts = peakPts => maxPts' = peakPts'
         /\ lastOut'[Video].dts > lastOut[Video].dts
         /\ chosen.pkt.key /\ \/ lastOut[Video].pts - lastOut[Video].dts # 2
                              \/ peakPts = NoDts
                              \/ epoch /\ maxPts = peakPts
              => lastOut'[Video].pts > peakPts /\ maxPts' = peakPts'
<1> DEFINE e == lastOut[Video]
           f == lastOut'[Video]
           c == chosen.pkt
<1>1. /\ offset' \in Nat /\ offset <= offset'
      /\ f.dts = p.dts + offset' /\ f.pts = p.dts + offset' + c.cto
      /\ maxPts' = IF f.pts > maxPts THEN f.pts ELSE maxPts
      /\ peakPts' = IF f.pts > peakPts THEN f.pts ELSE peakPts
      /\ epoch /\ maxPts # NoDts => f.pts > maxPts
      /\ \A m \in Lanes : m # Video => lastOut'[m] = lastOut[m]
  BY VideoEmitted
<1>2. /\ LanesAscend' /\ peakPts' <= f.dts + Reach(f) /\ f.dts > e.dts
      /\ c.key /\ (e.pts - e.dts # 2 \/ peakPts = NoDts) => f.pts > peakPts
  BY <1>1, PeakKept
<1>3. /\ maxPts \in Int /\ peakPts \in Int /\ p.dts \in Nat /\ c.cto \in Nat /\ f.pts \in Nat
      /\ maxPts <= peakPts
  <2>1. maxPts \in Int /\ peakPts \in Int
    BY EmittedTypes, LanesAreNaturals
  <2>2. p.dts \in Nat /\ c.cto \in Nat
    BY DEF Packet
  <2>3. f.pts \in Nat
    <3> HIDE DEF c, f
    <3> QED BY <1>1, <2>2
  <2> QED BY <2>1, <2>2, <2>3 DEF VideoTimeline
<1> HIDE DEF e, f, c
<1>4. maxPts' <= peakPts' /\ (maxPts = peakPts => maxPts' = peakPts')
  BY <1>1, <1>3
<1>5. ASSUME c.key, e.pts - e.dts # 2 \/ peakPts = NoDts \/ (epoch /\ maxPts = peakPts)
      PROVE  f.pts > peakPts /\ maxPts' = peakPts'
  <2>1. f.pts > peakPts
    <3>1. CASE epoch /\ maxPts = peakPts /\ peakPts # NoDts
      BY <1>1, <3>1
    <3> QED BY <1>2, <1>5, <3>1
  <2> QED BY <1>1, <1>3, <2>1
<1> QED BY <1>2, <1>4, <1>5 DEF e, f, c

----------------------------------------------------------------------------
(* The inductive invariant of the splices: what the video queues hold in   *)
(* each state, relative to what is shown and to the encoders.              *)

\* Every packet is one the encoders make; what stands in for missing packets is a keyframe.
AllShaped(q) == \A i \in 1..Len(q) : Shaped(q[i])

KeyOnly(fallback) == fallback # <<>> => Shaped(Head(fallback)) /\ Head(fallback).key

Shapes ==
  /\ AllShaped(primaryQueues[Video]) /\ OneSource(primaryQueues[Video], "primary")
  /\ AllShaped(holdQueues[Video]) /\ OneSource(holdQueues[Video], "hold")
  /\ KeyOnly(primaryFallback[Video]) /\ KeyOnly(holdFallback[Video])

\* Live video goes on; after a reconnection it begins with a keyframe.
InLive ==
  state \in LiveStates \cup {"Preparing"} =>
    \/ ShownLast("primary", lastOut[Video], clock["primary"])
    \/ clock["primary"].left = 0 /\ peakPts = NoDts

InPreparing ==
  state = "Preparing" =>
    /\ primaryQueues[Video] = <<>>
    /\ holdReady => /\ Linked(holdQueues[Video]) /\ EndsAt(holdQueues[Video], clock["hold"])
                    /\ holdFallback[Video] # <<>>

\* While filling, the hold encoder is shown and the output's own packets queue up.
InFilling ==
  state = "Filling" =>
    /\ Supplied(holdQueues[Video], "hold", lastOut[Video], clock["hold"])
    /\ holdFallback[Video] # <<>> /\ mismatch = {}
    /\ Linked(primaryQueues[Video]) /\ EndsAt(primaryQueues[Video], clock["primary"])
    /\ Rising(primaryQueues[Video], clock["primary"].dts[Video])

InDelayed ==
  state = "Delayed" =>
    /\ Supplied(primaryQueues[Video], "primary", lastOut[Video], clock["primary"])
    /\ Rising(primaryQueues[Video], clock["primary"].dts[Video])
    /\ primaryFallback[Video] # <<>>

\* On the way back there is always a packet to repeat; without an error the delayed video
\* goes on, and as long as it is fed, without an end.
InReturn ==
  state = "ReturningLive" =>
    IF returnFromFilling
    THEN holdFallback[Video] # <<>> /\ mismatch = {}
    ELSE /\ primaryFallback[Video] # <<>>
         /\ ~errorReturnPending =>
              /\ Linked(primaryQueues[Video]) /\ ShownBefore(primaryQueues[Video], lastOut[Video])
              /\ ~drainPrimaryOnReturn =>
                   Supplied(primaryQueues[Video], "primary", lastOut[Video], clock["primary"])

VideoInv == Shapes /\ InLive /\ InPreparing /\ InFilling /\ InDelayed /\ InReturn

\* How the state moves without a video packet of the output.
ControlMoves ==
  \/ UNCHANGED controlVars
  \/ state \in LiveStates \cup {"Preparing"} /\ state' \in LiveStates
  \/ state = "Filling" /\ state' = "Filling"
  \/ state \in {"Filling", "ReturningLive"} /\ state' = "ReturningLive" /\ returnFromFilling'
     /\ (state = "ReturningLive" => returnFromFilling)
  \/ state = "Delayed" /\ state' = "Delayed"
  \/ state = "Delayed" /\ state' = "ReturningLive" /\ ~returnFromFilling'
  \/ /\ state = "ReturningLive" /\ state' = "ReturningLive"
     /\ ~returnFromFilling /\ ~returnFromFilling'
     /\ errorReturnPending => errorReturnPending'
     /\ drainPrimaryOnReturn => drainPrimaryOnReturn'

\* A step that concerns no video.
VideoUnchanged ==
  /\ primaryQueues'[Video] = primaryQueues[Video] /\ holdQueues'[Video] = holdQueues[Video]
  /\ primaryFallback'[Video] = primaryFallback[Video] /\ holdFallback'[Video] = holdFallback[Video]
  /\ lastOut'[Video] = lastOut[Video] /\ peakPts' = peakPts
  /\ mismatch' = mismatch
  /\ state' = "Preparing" => holdReady' = holdReady
  /\ \A src \in {"primary", "hold"} :
       /\ clock'[src].seq[Video] = clock[src].seq[Video]
       /\ clock'[src].left = clock[src].left
  /\ clock["primary"].dts[Video] <= clock'["primary"].dts[Video]

\* What is queued and what is shown stays in line when nothing is done to it.
LEMMA VideoKept ==
  ASSUME TypeOK, TypeOK', VideoInv, ControlMoves, VideoUnchanged
  PROVE  VideoInv'
<1>1. Shapes'
  BY DEF VideoInv, Shapes, VideoUnchanged
<1>2. /\ ShownLast("primary", lastOut[Video], clock["primary"])
           => ShownLast("primary", lastOut'[Video], clock'["primary"])
      /\ \A q : EndsAt(q, clock["primary"]) => EndsAt(q, clock'["primary"])
      /\ \A q : EndsAt(q, clock["hold"]) => EndsAt(q, clock'["hold"])
      /\ \A q : Supplied(q, "primary", lastOut[Video], clock["primary"])
                  => Supplied(q, "primary", lastOut'[Video], clock'["primary"])
      /\ \A q : Supplied(q, "hold", lastOut[Video], clock["hold"])
                  => Supplied(q, "hold", lastOut'[Video], clock'["hold"])
  BY DEF VideoUnchanged, Supplied, ShownLast, EndsAt
<1>3. Rising(primaryQueues[Video], clock["primary"].dts[Video])
        => Rising(primaryQueues[Video], clock'["primary"].dts[Video])
  <2>1. primaryQueues[Video] \in Seq(Packet)
    BY LanesAreNaturals DEF TypeOK, PrimaryOK, LaneQueues
  <2>2. clock["primary"].dts[Video] \in Nat /\ clock'["primary"].dts[Video] \in Nat
    <3>1. clock["primary"] \in EncoderClock /\ clock'["primary"] \in EncoderClock
      BY DEF TypeOK
    <3> QED BY <3>1, LanesAreNaturals DEF EncoderClock
  <2> QED BY <2>1, <2>2, RisingLater DEF VideoUnchanged
<1>4. /\ returnFromFilling \in BOOLEAN /\ returnFromFilling' \in BOOLEAN
      /\ errorReturnPending \in BOOLEAN /\ errorReturnPending' \in BOOLEAN
      /\ drainPrimaryOnReturn \in BOOLEAN /\ drainPrimaryOnReturn' \in BOOLEAN
  BY DEF TypeOK, ControlOK
<1>5. InLive'
  BY <1>2 DEF VideoInv, InLive, VideoUnchanged, ControlMoves, controlVars, LiveStates
<1>6. InPreparing'
  BY <1>2 DEF VideoInv, InPreparing, VideoUnchanged, ControlMoves, controlVars, LiveStates
<1>7. InFilling'
  BY <1>2, <1>3 DEF VideoInv, InFilling, VideoUnchanged, ControlMoves, controlVars, LiveStates
<1>8. InDelayed'
  BY <1>2, <1>3 DEF VideoInv, InDelayed, VideoUnchanged, ControlMoves, controlVars, LiveStates
<1>9. InReturn'
  <2> SUFFICES ASSUME state' = "ReturningLive" PROVE InReturn'
    BY DEF InReturn
  <2>1. CASE returnFromFilling'
    <3>1. holdFallback[Video] # <<>> /\ mismatch = {}
      BY <1>4, <2>1 DEF VideoInv, InFilling, InReturn, ControlMoves, controlVars, LiveStates
    <3> QED BY <2>1, <3>1 DEF InReturn, VideoUnchanged
  <2>2. CASE ~returnFromFilling'
    <3>1. /\ primaryFallback[Video] # <<>>
          /\ ~errorReturnPending' =>
               /\ Linked(primaryQueues[Video]) /\ ShownBefore(primaryQueues[Video], lastOut[Video])
               /\ ~drainPrimaryOnReturn' =>
                    Supplied(primaryQueues[Video], "primary", lastOut[Video], clock["primary"])
      <4>1. CASE state = "Delayed"
        BY <4>1 DEF VideoInv, InDelayed, Supplied
      <4>2. CASE state # "Delayed"
        <5>1. /\ state = "ReturningLive" /\ ~returnFromFilling
              /\ errorReturnPending => errorReturnPending'
              /\ drainPrimaryOnReturn => drainPrimaryOnReturn'
          BY <1>4, <2>2, <4>2 DEF ControlMoves, controlVars, LiveStates
        <5> QED BY <5>1 DEF VideoInv, InReturn
      <4> QED BY <4>1, <4>2
    <3> QED BY <1>2, <2>2, <3>1 DEF InReturn, VideoUnchanged
  <2> QED BY <2>1, <2>2
<1> QED BY <1>1, <1>5, <1>6, <1>7, <1>8, <1>9 DEF VideoInv

\* The encoder's next packet is shaped as the queue's, and so is what a packet leaves behind.
LEMMA ShapedAppend ==
  ASSUME NEW q \in Seq(Packet), NEW src, AllShaped(q), OneSource(q, src),
         NEW p, NEW enc, NEW enc2, NextOf(p, src, enc, enc2)
  PROVE  AllShaped(Append(q, p)) /\ OneSource(Append(q, p), src)
<1>1. /\ Len(Append(q, p)) = Len(q) + 1 /\ Len(q) \in Nat
      /\ \A i \in 1..Len(q) : Append(q, p)[i] = q[i]
      /\ Append(q, p)[Len(q) + 1] = p /\ p.src = src /\ Shaped(p)
  BY DEF NextOf
<1>2. \A i \in 1..(Len(q) + 1) : i \in 1..Len(q) \/ i = Len(q) + 1
  BY <1>1
<1> QED BY <1>1, <1>2 DEF AllShaped, OneSource

\* The head and the tail of a queue of well-formed packets are well-formed.
LEMMA ShapedTail ==
  ASSUME NEW q \in Seq(Packet), q # <<>>, AllShaped(q)
  PROVE  AllShaped(Tail(q)) /\ Shaped(Head(q))
<1>1. /\ \A i \in 1..Len(Tail(q)) : i + 1 \in 1..Len(q) /\ Tail(q)[i] = q[i + 1]
      /\ 1 \in 1..Len(q) /\ Head(q) = q[1]
  OBVIOUS
<1> QED BY <1>1 DEF AllShaped

\* The video queues are sequences of packets.
LEMMA VideoQueueTypes ==
  ASSUME TypeOK
  PROVE  /\ Video \in Lanes
         /\ primaryQueues[Video] \in Seq(Packet) /\ holdQueues[Video] \in Seq(Packet)
         /\ primaryFallback[Video] \in Seq(Packet) /\ holdFallback[Video] \in Seq(Packet)
BY LanesAreNaturals DEF TypeOK, PrimaryOK, HoldOK, LaneQueues

\* The inductive invariant of the timestamps.
TimelineInv == LanesAscend /\ VideoTimeline

\* A step without a packet of the output leaves the timeline as it is.
LEMMA TimelineSame ==
  ASSUME TypeOK, TypeOK', TimelineInv, UNCHANGED <<offset, maxPts, peakPts, lastOut>>,
         state' \in {"Filling", "Delayed", "ReturningLive"}
           => state \in {"Filling", "Delayed", "ReturningLive"},
         \A m \in Lanes : clock["primary"].dts[m] <= clock'["primary"].dts[m]
  PROVE  TimelineInv'
<1>1. VideoTimeline'
  BY DEF TimelineInv, VideoTimeline, Reach
<1>2. ASSUME NEW m \in Lanes PROVE lastOut'[m].dts < clock'["primary"].dts[m] + offset'
  <2>1. /\ lastOut[m].dts \in Int /\ clock["primary"].dts[m] \in Nat /\ offset \in Nat
        /\ clock'["primary"].dts[m] \in Nat
    BY EmittedTypes DEF TypeOK, EncoderClock
  <2>2. lastOut[m].dts < clock["primary"].dts[m] + offset
    BY DEF TimelineInv, LanesAscend
  <2> QED BY <2>1, <2>2
<1> QED BY <1>1, <1>2 DEF TimelineInv, LanesAscend

\* A packet of the hold encoder.
LEMMA HoldPacketSplice ==
  ASSUME TypeOK, TypeOK', VideoInv, TimelineInv, NEW l \in Lanes, HoldPacket(l)
  PROVE  VideoInv' /\ TimelineInv'
<1>0. PICK size \in PacketSizes(l), compatible \in BOOLEAN :
        LET h == Encoded("hold", l, size)
        IN  HoldLimit(l, h) \/ RejectHold(l, h, compatible) \/ KeepHold(l, h, compatible)
  BY DEF HoldPacket
<1> DEFINE h == Encoded("hold", l, size)
           trimmed == GopTrimmed(l, h)
<1>1. /\ Delivers("hold", l) /\ UNCHANGED <<primaryVars, outVars, mismatch>>
      /\ state \in {"Preparing", "Filling", "ReturningLive"}
      /\ state = "ReturningLive" => returnFromFilling
  BY DEF HoldPacket, HoldAccepted, frontVars
<1>2. HoldLimit(l, h) \/ RejectHold(l, h, compatible) \/ KeepHold(l, h, compatible)
  BY <1>0
<1>3. h \in Packet /\ clock'["primary"] = clock["primary"]
  BY <1>1, EncodedType, LaneDelivered
<1> HIDE DEF h
<1>4. /\ UNCHANGED <<drainPrimaryOnReturn, errorReturnPending>>
      /\ holdFallback' = IF h.key THEN [holdFallback EXCEPT ![l] = <<h>>] ELSE holdFallback
  BY <1>2 DEF HoldLimit, RejectHold, KeepHold, NoteHold
<1>5. \/ /\ HoldLimit(l, h) /\ state = "Preparing" /\ state' = "Error"
      \/ /\ HoldLimit(l, h) /\ state # "Preparing" /\ state' = "ReturningLive" /\ returnFromFilling'
      \/ /\ RejectHold(l, h, compatible) /\ state = "Preparing" /\ state' = "Error"
      \/ /\ KeepHold(l, h, compatible) /\ UNCHANGED <<state, returnFromFilling>>
  BY <1>1, <1>2 DEF HoldLimit, RejectHold, KeepHold, SetError, StartsHoldGop
<1>6. TimelineInv'
  <2>1. UNCHANGED <<offset, maxPts, peakPts, lastOut>>
    BY <1>1 DEF outVars
  <2>2. \A m \in Lanes : clock["primary"].dts[m] <= clock'["primary"].dts[m]
    BY <1>3, EmittedTypes
  <2> QED BY <1>1, <1>5, <2>1, <2>2, TimelineSame
<1>7. CASE l # Video
  <2>1. trimmed = holdQueues
    BY <1>7 DEF GopTrimmed, StartsHoldGop
  <2> HIDE DEF trimmed
  <2>2. holdQueues'[Video] = holdQueues[Video]
    <3>1. Video \in Lanes /\ DOMAIN holdQueues = Lanes
      BY LanesAreNaturals DEF TypeOK, HoldOK, LaneQueues
    <3> QED BY <1>2, <1>7, <2>1, <3>1 DEF HoldLimit, RejectHold, KeepHold, trimmed
  <2>3. holdFallback'[Video] = holdFallback[Video]
    BY <1>4, <1>7, LanesAreNaturals DEF TypeOK, HoldOK, LaneQueues
  <2>4. state' = "Preparing" => holdReady' = holdReady
    BY <1>2, <1>7 DEF HoldLimit, RejectHold, KeepHold, StartsHoldGop, TypeOK, HoldOK
  <2>5. ControlMoves
    BY <1>1, <1>4, <1>5 DEF ControlMoves, controlVars, LiveStates
  <2>6. VideoUnchanged
    <3>1. /\ clock'["hold"].seq[Video] = clock["hold"].seq[Video]
          /\ clock'["hold"].left = clock["hold"].left
      BY <1>1, <1>7, AudioDelivered
    <3>2. clock["primary"].dts[Video] <= clock'["primary"].dts[Video]
      BY <1>3, EmittedTypes, LanesAreNaturals
    <3> QED BY <1>1, <1>3, <2>2, <2>3, <2>4, <3>1, <3>2 DEF VideoUnchanged, primaryVars, outVars
  <2> QED BY <1>6, <2>5, <2>6, VideoKept
<1>8. CASE l = Video
  <2> DEFINE q == trimmed[Video]
  <2>1. NextOf(h, "hold", clock["hold"], clock'["hold"])
    BY <1>1, <1>8, VideoDelivered DEF h
  <2>2. /\ Video \in Lanes /\ DOMAIN trimmed = Lanes /\ DOMAIN holdFallback = Lanes
        /\ q = IF StartsHoldGop(l, h) THEN <<>> ELSE holdQueues[Video]
    BY LanesAreNaturals DEF GopTrimmed, TypeOK, HoldOK, LaneQueues
  <2> HIDE DEF trimmed
  <2>3. holdFallback'[Video] = IF h.key THEN <<h>> ELSE holdFallback[Video]
    BY <1>4, <1>8, <2>2
  <2>4. \/ HoldLimit(l, h) /\ holdQueues'[Video] = q
        \/ ~HoldLimit(l, h) /\ holdQueues'[Video] = Append(q, h)
    <3>1. CASE HoldLimit(l, h)
      BY <3>1 DEF HoldLimit, trimmed
    <3>2. CASE ~HoldLimit(l, h) /\ RejectHold(l, h, compatible)
      <4>1. holdQueues' = [trimmed EXCEPT ![Video] = Append(@, h)]
        BY <1>8, <3>2 DEF RejectHold, trimmed
      <4> QED BY <2>2, <3>2, <4>1
    <3>3. CASE ~HoldLimit(l, h) /\ KeepHold(l, h, compatible)
      <4>1. holdQueues' = [trimmed EXCEPT ![Video] = Append(@, h)]
        BY <1>8, <3>3 DEF KeepHold, trimmed
      <4> QED BY <2>2, <3>3, <4>1
    <3> QED BY <1>2, <3>1, <3>2, <3>3
  <2>5. /\ q \in Seq(Packet) /\ AllShaped(q) /\ OneSource(q, "hold")
    BY <2>2, VideoQueueTypes DEF VideoInv, Shapes, AllShaped, OneSource
  <2>6. AllShaped(Append(q, h)) /\ OneSource(Append(q, h), "hold")
    <3> HIDE DEF q
    <3> QED BY <2>1, <2>5, ShapedAppend
  <2>7. Shapes'
    <3>1. KeyOnly(holdFallback'[Video])
      BY <2>1, <2>3 DEF VideoInv, Shapes, KeyOnly, NextOf
    <3>2. AllShaped(holdQueues'[Video]) /\ OneSource(holdQueues'[Video], "hold")
      <4> HIDE DEF q
      <4> QED BY <2>4, <2>5, <2>6
    <3> QED BY <1>1, <3>1, <3>2 DEF VideoInv, Shapes, primaryVars
  <2>8. holdFallback[Video] # <<>> => holdFallback'[Video] # <<>>
    BY <2>3
  <2>9. InLive'
    BY <1>1, <1>3, <1>5 DEF VideoInv, InLive, LiveStates, outVars
  <2>10. CASE state' = "Preparing"
    <3>1. state = "Preparing" /\ KeepHold(l, h, compatible) /\ holdReady' = (holdReady \/ StartsHoldGop(l, h))
      BY <1>5, <2>10 DEF KeepHold
    <3>2. ~HoldLimit(l, h)
      BY <3>1 DEF HoldLimit, KeepHold
    <3>3. holdQueues'[Video] = Append(q, h)
      BY <2>4, <3>2
    <3>4. ASSUME holdReady' PROVE Linked(q) /\ EndsAt(q, clock["hold"]) /\ holdFallback'[Video] # <<>>
      <4>1. CASE StartsHoldGop(l, h)
        <5>1. q = <<>> /\ h.key
          BY <2>2, <4>1 DEF StartsHoldGop
        <5> QED BY <2>3, <5>1 DEF Linked, EndsAt
      <4>2. CASE ~StartsHoldGop(l, h)
        <5>1. q = holdQueues[Video] /\ holdReady
          BY <2>2, <3>1, <3>4, <4>2 DEF TypeOK, HoldOK
        <5> HIDE DEF q
        <5> QED BY <2>8, <3>1, <5>1 DEF VideoInv, InPreparing
      <4> QED BY <4>1, <4>2
    <3>5. holdReady' => /\ Linked(holdQueues'[Video]) /\ EndsAt(holdQueues'[Video], clock'["hold"])
                        /\ holdFallback'[Video] # <<>>
      <4> HIDE DEF q
      <4> QED BY <2>1, <2>5, <3>3, <3>4, AppendContinues
    <3>6. InPreparing'
      BY <1>1, <3>1, <3>5 DEF VideoInv, InPreparing, primaryVars
    <3>7. InFilling' /\ InDelayed' /\ InReturn'
      BY <2>10 DEF InFilling, InDelayed, InReturn
    <3> QED BY <1>6, <2>7, <2>9, <3>6, <3>7 DEF VideoInv
  <2>11. CASE state' = "Filling"
    <3>1. state = "Filling" /\ ~StartsHoldGop(l, h) /\ ~HoldLimit(l, h)
      BY <1>5, <2>11 DEF StartsHoldGop, KeepHold, HoldLimit
    <3>2. q = holdQueues[Video] /\ holdQueues'[Video] = Append(q, h)
      BY <2>2, <2>4, <3>1
    <3>3. Supplied(q, "hold", lastOut[Video], clock["hold"])
      BY <3>1, <3>2 DEF VideoInv, InFilling
    <3> HIDE DEF q
    <3>4. Supplied(Append(q, h), "hold", lastOut[Video], clock'["hold"])
      <4>1. /\ Linked(Append(q, h)) /\ EndsAt(Append(q, h), clock'["hold"]) /\ Append(q, h) # <<>>
            /\ ShownBefore(Append(q, h), lastOut[Video])
        BY <2>1, <2>5, <3>3, AppendContinues, AppendSupplies DEF Supplied
      <4> QED BY <4>1 DEF Supplied
    <3>5. InFilling'
      BY <1>1, <1>3, <2>8, <3>1, <3>2, <3>4 DEF VideoInv, InFilling, primaryVars, outVars
    <3>6. InPreparing' /\ InDelayed' /\ InReturn'
      BY <2>11 DEF InPreparing, InDelayed, InReturn
    <3> QED BY <1>6, <2>7, <2>9, <3>5, <3>6 DEF VideoInv
  <2>12. CASE state' \notin {"Preparing", "Filling"}
    <3>1. state' # "Delayed"
      BY <1>1, <1>5
    <3>2. ASSUME state' = "ReturningLive"
          PROVE  returnFromFilling' /\ holdFallback[Video] # <<>> /\ mismatch' = {}
      <4>1. state \in {"Filling", "ReturningLive"} /\ returnFromFilling'
        BY <1>1, <1>5, <3>2
      <4> QED BY <1>1, <4>1 DEF VideoInv, InFilling, InReturn
    <3>3. InReturn'
      BY <2>8, <3>2 DEF InReturn
    <3>4. InPreparing' /\ InFilling' /\ InDelayed'
      BY <2>12, <3>1 DEF InPreparing, InFilling, InDelayed
    <3> QED BY <1>6, <2>7, <2>9, <3>3, <3>4 DEF VideoInv
  <2> QED BY <2>10, <2>11, <2>12
<1> QED BY <1>7, <1>8

\* A step of another thread that neither touches the queues nor the timeline.
LEMMA QuietSplice ==
  ASSUME TypeOK, TypeOK', VideoInv, TimelineInv, ControlMoves,
         UNCHANGED <<primaryQueues, primaryFallback, holdQueues, holdFallback, outVars, mismatch, clock>>,
         state' = "Preparing" => holdReady' = holdReady
  PROVE  VideoInv' /\ TimelineInv'
<1>1. VideoUnchanged
  <2>1. clock["primary"].dts[Video] \in Nat
    BY EmittedTypes, LanesAreNaturals
  <2> QED BY <2>1 DEF VideoUnchanged, outVars
<1>2. \A m \in Lanes : clock["primary"].dts[m] <= clock'["primary"].dts[m]
  BY EmittedTypes
<1>3. state' \in {"Filling", "Delayed", "ReturningLive"}
        => state \in {"Filling", "Delayed", "ReturningLive"}
  BY DEF ControlMoves, controlVars, LiveStates
<1> QED BY <1>1, <1>2, <1>3, VideoKept, TimelineSame DEF outVars

\* Queues that are emptied or kept are shaped as they were.
LEMMA ClearedShapes ==
  ASSUME TypeOK, Shapes,
         \/ UNCHANGED <<primaryQueues, primaryFallback>>
         \/ primaryQueues' = NoPackets /\ primaryFallback' = NoPackets,
         \/ UNCHANGED <<holdQueues, holdFallback>>
         \/ holdQueues' = NoPackets /\ holdFallback' = NoPackets
  PROVE  Shapes'
<1>1. NoPackets[Video] = <<>>
  BY LanesAreNaturals DEF NoPackets
<1>2. AllShaped(<<>>) /\ KeyOnly(<<>>) /\ \A src : OneSource(<<>>, src)
  BY DEF AllShaped, KeyOnly, OneSource
<1> QED BY <1>1, <1>2 DEF Shapes

\* Leaving Preparing or Error for Bypass empties the queues and leaves the video as it is.
LEMMA BypassSplice ==
  ASSUME TypeOK, TypeOK', VideoInv, TimelineInv, Bypassed, UNCHANGED <<outVars, mismatch, clock, holdReady>>
  PROVE  VideoInv' /\ TimelineInv'
<1>1. CASE state \in {"Preparing", "Error"}
  <2>1. state' = "Bypass" /\ Clear
    BY <1>1 DEF Bypassed
  <2>2. Shapes'
    BY <2>1, ClearedShapes DEF VideoInv, Clear
  <2>3. InLive'
    BY <1>1, <2>1 DEF VideoInv, InLive, LiveStates, outVars
  <2>4. TimelineInv'
    <3>1. \A m \in Lanes : clock["primary"].dts[m] <= clock'["primary"].dts[m]
      BY EmittedTypes
    <3> QED BY <2>1, <3>1, TimelineSame DEF outVars
  <2> QED BY <2>1, <2>2, <2>3, <2>4 DEF VideoInv, InPreparing, InFilling, InDelayed, InReturn
<1>2. CASE state \in {"Filling", "Delayed"}
  <2>1. /\ state' = "ReturningLive" /\ returnFromFilling' = (state = "Filling")
        /\ UNCHANGED <<primaryQueues, primaryFallback, holdQueues, holdFallback>>
    BY <1>2 DEF Bypassed
  <2>2. ControlMoves
    BY <1>2, <2>1 DEF ControlMoves
  <2> QED BY <2>1, <2>2, QuietSplice
<1> QED BY <1>1, <1>2 DEF Bypassed

\* A new generation starts from empty queues.
LEMMA PublishSplice ==
  ASSUME TypeOK, TypeOK', VideoInv, TimelineInv, PublishDelay
  PROVE  VideoInv' /\ TimelineInv'
<1>1. /\ state \in LiveStates /\ state' = "Preparing" /\ ~holdReady'
      /\ primaryQueues' = NoPackets /\ primaryFallback' = NoPackets
      /\ holdQueues' = NoPackets /\ holdFallback' = NoPackets
      /\ UNCHANGED <<outVars, clock>>
  BY DEF PublishDelay
<1>2. NoPackets[Video] = <<>>
  BY LanesAreNaturals DEF NoPackets
<1>3. Shapes'
  BY <1>1, ClearedShapes DEF VideoInv
<1>4. InLive'
  BY <1>1 DEF VideoInv, InLive, outVars
<1>5. InPreparing'
  BY <1>1, <1>2 DEF InPreparing
<1>6. TimelineInv'
  <2>1. \A m \in Lanes : clock["primary"].dts[m] <= clock'["primary"].dts[m]
    BY <1>1, EmittedTypes
  <2> QED BY <1>1, <2>1, TimelineSame DEF outVars
<1> QED BY <1>1, <1>3, <1>4, <1>5, <1>6 DEF VideoInv, InFilling, InDelayed, InReturn

\* The stream of the new collector starts before anything of it is queued.
LEMMA StartSplice ==
  ASSUME TypeOK, TypeOK', PrerollInv, ReturnInv, VideoInv, TimelineInv, StartPipeline
  PROVE  VideoInv' /\ TimelineInv'
<1>1. /\ state \in LiveStates \cup {"Preparing"}
      /\ state = "Preparing" => ~holdReady
  BY DEF StartPipeline, ReturnInv, PrerollInv, GopBegun
<1>2. UNCHANGED <<controlVars, primaryVars, holdVars, outVars>>
  BY DEF StartPipeline
<1>3. clock'["primary"] = clock["primary"]
  <2>1. PICK fresh : clock' = [clock EXCEPT !["hold"] = fresh]
    BY DEF StartPipeline
  <2>2. clock \in [{"primary", "hold"} -> EncoderClock]
    BY DEF TypeOK
  <2> QED BY <2>1, <2>2
<1>4. Shapes'
  BY <1>2 DEF VideoInv, Shapes, primaryVars, holdVars
<1>5. InLive'
  BY <1>2, <1>3 DEF VideoInv, InLive, outVars, controlVars
<1>6. InPreparing'
  BY <1>1, <1>2 DEF VideoInv, InPreparing, primaryVars, holdVars, controlVars
<1>7. TimelineInv'
  <2>1. \A m \in Lanes : clock["primary"].dts[m] <= clock'["primary"].dts[m]
    BY <1>3, EmittedTypes
  <2> QED BY <1>2, <2>1, TimelineSame DEF outVars, controlVars
<1>8. state' \in LiveStates \cup {"Preparing"}
  BY <1>1, <1>2 DEF controlVars
<1> QED BY <1>4, <1>5, <1>6, <1>7, <1>8 DEF VideoInv, InFilling, InDelayed, InReturn, LiveStates

\* Maintenance frees only what the state no longer needs.
LEMMA RetireSplice ==
  ASSUME TypeOK, TypeOK', VideoInv, TimelineInv, MaintenanceRetire
  PROVE  VideoInv' /\ TimelineInv'
<1>1. UNCHANGED <<controlVars, holdReady, outVars, clock, mismatch>>
  BY DEF MaintenanceRetire
<1>2. CASE state \in LiveStates \cup {"Delayed"}
  <2>1. Shapes'
    <3>1. /\ \/ UNCHANGED <<primaryQueues, primaryFallback>>
             \/ primaryQueues' = NoPackets /\ primaryFallback' = NoPackets
          /\ \/ UNCHANGED <<holdQueues, holdFallback>>
             \/ holdQueues' = NoPackets /\ holdFallback' = NoPackets
      BY DEF MaintenanceRetire
    <3> QED BY <3>1, ClearedShapes DEF VideoInv
  <2>2. InLive'
    BY <1>1 DEF VideoInv, InLive, outVars, controlVars
  <2>3. InDelayed'
    <3>1. state = "Delayed" => UNCHANGED <<primaryQueues, primaryFallback>>
      BY DEF MaintenanceRetire, LiveStates
    <3> QED BY <1>1, <3>1 DEF VideoInv, InDelayed, outVars, controlVars
  <2>4. InPreparing' /\ InFilling' /\ InReturn'
    BY <1>1, <1>2 DEF InPreparing, InFilling, InReturn, controlVars, LiveStates
  <2>5. TimelineInv'
    <3>1. \A m \in Lanes : clock["primary"].dts[m] <= clock'["primary"].dts[m]
      BY <1>1, EmittedTypes
    <3> QED BY <1>1, <3>1, TimelineSame DEF outVars, controlVars
  <2> QED BY <2>1, <2>2, <2>3, <2>4, <2>5 DEF VideoInv
<1>3. CASE state \notin LiveStates \cup {"Delayed"}
  <2>1. UNCHANGED <<primaryQueues, primaryFallback, holdQueues, holdFallback>>
    BY <1>3 DEF MaintenanceRetire
  <2>2. ControlMoves
    BY <1>1 DEF ControlMoves
  <2> QED BY <1>1, <2>1, <2>2, QuietSplice
<1> QED BY <1>2, <1>3

\* What the frontend does to the video ...
LEMMA FrontendSplice ==
  ASSUME TypeOK, TypeOK', PrerollInv, ReturnInv, VideoInv, TimelineInv, Frontend
  PROVE  VideoInv' /\ TimelineInv'
<1>1. CASE TakeOldPipeline \/ RetireOldPipeline \/ MaintenanceTake \/ MaintenanceStop \/ TakeRearmRequest
  <2>1. UNCHANGED <<controlVars, primaryVars, holdVars, outVars, clock, mismatch>>
    BY <1>1 DEF TakeOldPipeline, RetireOldPipeline, MaintenanceTake, MaintenanceStop,
                TakeRearmRequest, frontVars
  <2>2. ControlMoves
    BY <2>1 DEF ControlMoves
  <2> QED BY <2>1, <2>2, QuietSplice DEF primaryVars, holdVars
<1>2. CASE StartPipelineFails
  <2>1. /\ state' = "Error" /\ state \in LiveStates \cup {"Preparing"}
        /\ UNCHANGED <<primaryVars, holdVars, outVars, clock, mismatch>>
    BY <1>2 DEF StartPipelineFails, SetError, ReturnInv
  <2>2. ControlMoves
    BY <2>1 DEF ControlMoves, LiveStates
  <2> QED BY <2>1, <2>2, QuietSplice DEF primaryVars, holdVars
<1>3. CASE RequestBypass
  BY <1>3, BypassSplice DEF RequestBypass, frontVars
<1> QED BY <1>1, <1>2, <1>3, PublishSplice, StartSplice, RetireSplice DEF Frontend

\* ... a reconnection ...
LEMMA ReconnectSplice ==
  ASSUME TypeOK, TypeOK', VideoInv, TimelineInv, Reconnect
  PROVE  VideoInv' /\ TimelineInv'
<1>1. UNCHANGED <<outVars, mismatch, clock, holdReady>>
  BY DEF Reconnect, frontVars
<1>2. CASE Bypassed
  BY <1>1, <1>2, BypassSplice
<1>3. CASE ~Bypassed
  <2>1. UNCHANGED <<controlVars, primaryQueues, primaryFallback, holdQueues, holdFallback>>
    BY <1>3 DEF Reconnect
  <2>2. ControlMoves
    BY <2>1 DEF ControlMoves
  <2> QED BY <1>1, <2>1, <2>2, QuietSplice
<1> QED BY <1>2, <1>3

\* ... the start of data capture, with a new timeline and a keyframe ahead ...
LEMMA ActivateSplice ==
  ASSUME TypeOK, TypeOK', VideoInv, TimelineInv, Activate
  PROVE  VideoInv' /\ TimelineInv'
<1>1. /\ state' = "Bypass" /\ offset' = 0 /\ maxPts' = NoDts /\ peakPts' = NoDts
      /\ clock' = [clock EXCEPT !["primary"].left = 0]
      /\ lastOut' = [l \in Lanes |-> [lastOut[l] EXCEPT !.dts = NoDts, !.via = "reset"]]
      /\ UNCHANGED <<primaryQueues, primaryFallback, holdQueues, holdFallback>>
  BY DEF Activate
<1>2. /\ clock'["primary"].left = 0
      /\ \A m \in Lanes : clock'["primary"].dts[m] \in Nat
  <2>1. clock \in [{"primary", "hold"} -> EncoderClock] /\ clock["primary"] \in EncoderClock
    BY DEF TypeOK
  <2>2. clock'["primary"].left = 0 /\ clock'["primary"].dts = clock["primary"].dts
    BY <1>1, <2>1 DEF EncoderClock
  <2> QED BY <2>2, EmittedTypes
<1>3. \A m \in Lanes : lastOut'[m].dts = NoDts
  <2>1. \A e \in EmittedPacket : [e EXCEPT !.dts = NoDts, !.via = "reset"].dts = NoDts
    BY DEF EmittedPacket
  <2>2. \A m \in Lanes : lastOut[m] \in EmittedPacket
    BY DEF TypeOK, OutOK
  <2> QED BY <1>1, <2>1, <2>2
<1>4. VideoInv'
  <2>1. Shapes'
    BY <1>1 DEF VideoInv, Shapes
  <2>2. InLive'
    BY <1>1, <1>2 DEF InLive
  <2>3. InPreparing' /\ InFilling' /\ InDelayed' /\ InReturn'
    BY <1>1 DEF InPreparing, InFilling, InDelayed, InReturn
  <2> QED BY <2>1, <2>2, <2>3 DEF VideoInv
<1>5. LanesAscend'
  <2> SUFFICES ASSUME NEW m \in Lanes PROVE lastOut'[m].dts < clock'["primary"].dts[m] + offset'
    BY DEF LanesAscend
  <2>1. lastOut'[m].dts = -1 /\ clock'["primary"].dts[m] \in Nat /\ offset' = 0
    BY <1>1, <1>2, <1>3 DEF NoDts
  <2> QED BY <2>1
<1>6. VideoTimeline'
  <2>1. Reach(lastOut'[Video]) \in {0, 1, 2}
    BY DEF Reach
  <2>2. lastOut'[Video].dts = -1 /\ maxPts' = -1 /\ peakPts' = -1 /\ state' = "Bypass"
    BY <1>1, <1>3, LanesAreNaturals DEF NoDts
  <2>3. maxPts' <= peakPts' /\ peakPts' <= lastOut'[Video].dts + Reach(lastOut'[Video])
    BY <2>1, <2>2
  <2> QED BY <2>2, <2>3 DEF VideoTimeline
<1> QED BY <1>4, <1>5, <1>6 DEF TimelineInv

\* ... and a hole of the encoder.
LEMMA EncoderHoleSplice ==
  ASSUME TypeOK, TypeOK', VideoInv, TimelineInv, NEW l \in Lanes, EncoderHole(l)
  PROVE  VideoInv' /\ TimelineInv'
<1>1. /\ clock' = [clock EXCEPT !["primary"].dts[l] = @ + HoleTicks]
      /\ UNCHANGED <<controlVars, primaryVars, holdVars, outVars, mismatch>>
  BY DEF EncoderHole, frontVars
<1>2. /\ clock'["primary"].seq = clock["primary"].seq /\ clock'["primary"].left = clock["primary"].left
      /\ clock'["hold"] = clock["hold"]
      /\ \A m \in Lanes : clock["primary"].dts[m] <= clock'["primary"].dts[m]
  <2>1. clock \in [{"primary", "hold"} -> EncoderClock] /\ clock["primary"] \in EncoderClock
    BY DEF TypeOK
  <2>2. clock["primary"].dts \in [Lanes -> Nat] /\ HoleTicks \in Nat
    BY <2>1, SessionAssumption DEF EncoderClock
  <2> QED BY <1>1, <2>1, <2>2
<1>3. ControlMoves
  BY <1>1 DEF ControlMoves
<1>4. VideoUnchanged
  BY <1>1, <1>2, LanesAreNaturals DEF VideoUnchanged, primaryVars, holdVars, outVars
<1>5. VideoInv'
  BY <1>3, <1>4, VideoKept
<1>6. TimelineInv'
  BY <1>1, <1>2, TimelineSame DEF outVars, controlVars
<1> QED BY <1>5, <1>6

----------------------------------------------------------------------------
(* The audio packets of the output leave the video alone.                  *)

\* An audio packet is sent: only its lane moves on.
AudioShown(l, p) ==
  /\ offset' = offset /\ maxPts' = maxPts /\ peakPts' = peakPts
  /\ lastOut'[l].dts = p.dts + offset
  /\ \A m \in Lanes : m # l => lastOut'[m] = lastOut[m]

\* What a step of an audio lane leaves of the video queues.
VideoQueuesSame ==
  /\ primaryQueues'[Video] = primaryQueues[Video] /\ holdQueues'[Video] = holdQueues[Video]
  /\ primaryFallback'[Video] = primaryFallback[Video] /\ holdFallback'[Video] = holdFallback[Video]
  /\ holdReady' = holdReady

\* Taking the head of another lane's queue leaves the video queue alone.
LEMMA TakeHeadElsewhere ==
  ASSUME NEW queues \in LaneQueues, NEW l \in Lanes, l # Video, NEW chosen
  PROVE  TakeHead(queues, l, chosen)[Video] = queues[Video]
BY LanesAreNaturals DEF TakeHead, LaneQueues

\* An audio carrier replaced by a hold packet ...
LEMMA AudioFromHold ==
  ASSUME TypeOK, NEW l \in Lanes, l # Video, NEW p \in Packet,
         NEW epoch \in BOOLEAN, NEW strict \in BOOLEAN, NEW next, EmitHold(l, p, epoch, strict, next)
  PROVE  /\ AudioShown(l, p)
         /\ holdQueues'[Video] = holdQueues[Video]
         /\ UNCHANGED <<drainPrimaryOnReturn, holdFallback, holdReady>>
         /\ \/ state' = "ReturningLive" /\ returnFromFilling' = TRUE
            \/ /\ state' = next /\ errorReturnPending' = errorReturnPending
               /\ returnFromFilling' = (returnFromFilling \/ next = "ReturningLive")
<1> DEFINE chosen == Choose(holdQueues, holdFallback, l \notin mismatch, l, p)
<1>1. /\ holdQueues' = TakeHead(holdQueues, l, chosen)
      /\ Emit(l, p, chosen, epoch \/ (strict /\ chosen.via = "fallback"))
      /\ IF chosen.via = "live" \/ (strict /\ chosen.via = "fallback")
         THEN ReturnLiveWithError(TRUE)
         ELSE /\ state' = next
              /\ returnFromFilling' = (returnFromFilling \/ next = "ReturningLive")
              /\ UNCHANGED errorReturnPending
      /\ UNCHANGED <<drainPrimaryOnReturn, holdFallback, holdReady>>
  BY DEF EmitHold
<1> HIDE DEF chosen
<1>2. holdQueues'[Video] = holdQueues[Video]
  BY <1>1, TakeHeadElsewhere DEF TypeOK, HoldOK
<1>3. AudioShown(l, p)
  BY <1>1, AudioEmitted DEF AudioShown
<1> QED BY <1>1, <1>2, <1>3 DEF ReturnLiveWithError

\* ... or by an older packet of its own lane.
LEMMA AudioFromPrimary ==
  ASSUME TypeOK, NEW l \in Lanes, l # Video, NEW p \in Packet, NEW found \in Found, NEW next,
         found.queues[Video] = primaryQueues[Video], found.fallback[Video] = primaryFallback[Video],
         EmitPrimary(l, p, found, next)
  PROVE  /\ AudioShown(l, p) /\ VideoQueuesSame
         /\ state' \in {next, "ReturningLive"}
         /\ errorReturnPending => errorReturnPending'
         /\ state' # "Delayed" \/ next # "Delayed" => ~returnFromFilling'
<1> DEFINE chosen == Choose(found.queues, found.fallback, TRUE, l, p)
<1>1. /\ TakePrimary(l, chosen, found.queues, found.fallback, found.sources, found.pending)
      /\ Emit(l, p, chosen, found.cut \/ chosen.via = "fallback")
      /\ state' = IF chosen.via = "queue" THEN next ELSE "ReturningLive"
      /\ errorReturnPending' = (errorReturnPending \/ ~(chosen.via = "queue"))
      /\ returnFromFilling' = (returnFromFilling /\ chosen.via = "queue" /\ next = "Delayed")
      /\ UNCHANGED <<holdVars, fillStart>>
  BY DEF EmitPrimary
<1> HIDE DEF chosen
<1>2. found.queues \in LaneQueues /\ found.fallback \in LaneQueues
  BY FoundFields
<1>3. primaryQueues'[Video] = primaryQueues[Video]
  BY <1>1, <1>2, TakeHeadElsewhere DEF TakePrimary
<1>4. primaryFallback'[Video] = primaryFallback[Video]
  BY <1>1, <1>2, LanesAreNaturals DEF TakePrimary, LaneQueues
<1>5. AudioShown(l, p)
  BY <1>1, AudioEmitted DEF AudioShown
<1>6. state' # "Delayed" \/ next # "Delayed" => ~returnFromFilling'
  <2>1. ASSUME state' # "Delayed" \/ next # "Delayed" PROVE ~(chosen.via = "queue" /\ next = "Delayed")
    BY <1>1, <2>1
  <2> QED BY <1>1, <2>1
<1> QED BY <1>1, <1>3, <1>4, <1>5, <1>6 DEF VideoQueuesSame, holdVars

\* Queueing an audio packet leaves the video queue alone.
LEMMA BufferedElsewhere ==
  ASSUME TypeOK, NEW l \in Lanes, l # Video, NEW p \in Packet
  PROVE  Buffered(l, p)[Video] = primaryQueues[Video]
BY LanesAreNaturals DEF Buffered, TypeOK, PrimaryOK, LaneQueues

\* What an audio packet of the output does to the session.
LEMMA AudioMoves ==
  ASSUME TypeOK, NEW l \in Lanes, l # Video, NEW p \in Packet,
         \/ PassUntouched(l, p) \/ PassLive(l, p) \/ RestoreLive(l, p) \/ Fill(l, p)
         \/ StartDelayed(l, p) \/ Delay(l, p) \/ DelayLimitLive(l, p) \/ DelayLimitDrain(l, p)
         \/ ReturnOnFallback(l, p) \/ ReturnFromFilling(l, p) \/ ReturnFromDelayed(l, p)
  PROVE  AudioShown(l, p) /\ VideoQueuesSame /\ ControlMoves
<1>1. CASE PassUntouched(l, p)
  <2>1. /\ offset = 0 /\ UNCHANGED <<controlVars, primaryVars, holdVars, offset, maxPts>>
        /\ peakPts' = peakPts
        /\ lastOut' = [lastOut EXCEPT ![l] =
             [via |-> "live", src |-> p.src, seq |-> p.seq, key |-> p.key, age |-> 0,
              dts |-> p.dts, pts |-> p.dts + p.cto]]
    BY <1>1 DEF PassUntouched
  <2>2. AudioShown(l, p)
    <3>1. lastOut \in [Lanes -> EmittedPacket] /\ p.dts \in Nat
      BY DEF TypeOK, OutOK, Packet
    <3> QED BY <2>1, <3>1 DEF AudioShown
  <2> QED BY <2>1, <2>2 DEF VideoQueuesSame, ControlMoves, primaryVars, holdVars
<1>2. CASE PassLive(l, p)
  <2>1. AudioShown(l, p)
    BY <1>2, AudioEmitted DEF PassLive, AudioShown
  <2> QED BY <1>2, <2>1 DEF PassLive, VideoQueuesSame, ControlMoves, primaryVars, holdVars
<1>3. CASE ReturnOnFallback(l, p)
  <2>1. AudioShown(l, p)
    BY <1>3, AudioEmitted DEF ReturnOnFallback, AudioShown
  <2> QED BY <1>3, <2>1 DEF ReturnOnFallback, VideoQueuesSame, ControlMoves, primaryVars, holdVars
<1>4. CASE Fill(l, p)
  <2>1. state = "Filling"
    BY <1>4 DEF Fill, StartsFilling
  <2>2. /\ UNCHANGED <<primaryFallback>>
        /\ primaryQueues'[Video] = primaryQueues[Video]
        /\ \/ EmitHold(l, p, FALSE, TRUE, "Filling")
           \/ EmitHold(l, p, FALSE, FALSE, "ReturningLive")
    <3>1. (state = "Preparing") = FALSE
      BY <2>1
    <3> QED BY <1>4, <3>1, BufferedElsewhere DEF Fill
  <2>3. /\ AudioShown(l, p)
        /\ holdQueues'[Video] = holdQueues[Video]
        /\ UNCHANGED <<drainPrimaryOnReturn, holdFallback, holdReady>>
        /\ \/ state' = "ReturningLive" /\ returnFromFilling' = TRUE
           \/ state' = "Filling"
    BY <2>2, AudioFromHold
  <2>4. ControlMoves
    BY <2>1, <2>3 DEF ControlMoves
  <2> QED BY <2>2, <2>3, <2>4 DEF VideoQueuesSame
<1>5. CASE Delay(l, p)
  <2>1. /\ state = "Delayed"
        /\ EmitPrimary(l, p, Realigned(Buffered(l, p), l, p), "Delayed")
        /\ UNCHANGED drainPrimaryOnReturn
    BY <1>5 DEF Delay
  <2>2. /\ Realigned(Buffered(l, p), l, p) \in Found
        /\ Realigned(Buffered(l, p), l, p).queues[Video] = primaryQueues[Video]
        /\ Realigned(Buffered(l, p), l, p).fallback[Video] = primaryFallback[Video]
    BY BufferedType, BufferedElsewhere, RealignedType DEF Realigned
  <2>3. /\ AudioShown(l, p) /\ VideoQueuesSame
        /\ state' \in {"Delayed", "ReturningLive"}
        /\ state' # "Delayed" => ~returnFromFilling'
    BY <2>1, <2>2, AudioFromPrimary
  <2>4. ControlMoves
    BY <2>1, <2>3 DEF ControlMoves
  <2> QED BY <2>3, <2>4
<1>6. CASE DelayLimitDrain(l, p)
  <2>1. /\ state = "Delayed"
        /\ EmitPrimary(l, p, NotRealigned(primaryQueues, l, p), "ReturningLive")
    BY <1>6 DEF DelayLimitDrain
  <2>2. /\ NotRealigned(primaryQueues, l, p) \in Found
        /\ NotRealigned(primaryQueues, l, p).queues[Video] = primaryQueues[Video]
        /\ NotRealigned(primaryQueues, l, p).fallback[Video] = primaryFallback[Video]
    BY NotRealignedType DEF NotRealigned, TypeOK, PrimaryOK
  <2> DEFINE found == NotRealigned(primaryQueues, l, p)
  <2> HIDE DEF found
  <2>3. /\ AudioShown(l, p) /\ VideoQueuesSame
        /\ state' = "ReturningLive" /\ ~returnFromFilling'
    <3>1. /\ found \in Found /\ found.queues[Video] = primaryQueues[Video]
          /\ found.fallback[Video] = primaryFallback[Video]
          /\ EmitPrimary(l, p, found, "ReturningLive")
      BY <2>1, <2>2 DEF found
    <3> QED BY <3>1, AudioFromPrimary
  <2>4. ControlMoves
    BY <2>1, <2>3 DEF ControlMoves
  <2> QED BY <2>3, <2>4
<1>7. CASE ReturnFromFilling(l, p)
  <2>1. /\ state = "ReturningLive" /\ returnFromFilling
        /\ EmitHold(l, p, FALSE, FALSE, "ReturningLive")
        /\ UNCHANGED primaryVars
    BY <1>7 DEF ReturnFromFilling
  <2>2. /\ AudioShown(l, p)
        /\ holdQueues'[Video] = holdQueues[Video]
        /\ UNCHANGED <<holdFallback, holdReady>>
        /\ state' = "ReturningLive" /\ returnFromFilling'
    BY <2>1, AudioFromHold
  <2>3. ControlMoves
    BY <2>1, <2>2 DEF ControlMoves
  <2> QED BY <2>1, <2>2, <2>3 DEF VideoQueuesSame, primaryVars
<1>8. CASE ReturnFromDelayed(l, p)
  <2> DEFINE feeds == ~drainPrimaryOnReturn /\ Fits(primaryQueues, p, MaxPrimary)
             queues == IF feeds THEN Buffered(l, p) ELSE primaryQueues
  <2>1. /\ state = "ReturningLive" /\ ~errorReturnPending /\ ~returnFromFilling
        /\ drainPrimaryOnReturn' = ~feeds
        /\ EmitPrimary(l, p, NotRealigned(queues, l, p), "ReturningLive")
    BY <1>8 DEF ReturnFromDelayed
  <2>2. queues \in LaneQueues /\ queues[Video] = primaryQueues[Video]
    BY BufferedType, BufferedElsewhere DEF TypeOK, PrimaryOK
  <2>3. drainPrimaryOnReturn => drainPrimaryOnReturn'
    BY <2>1
  <2> HIDE DEF queues
  <2>4. /\ NotRealigned(queues, l, p) \in Found
        /\ NotRealigned(queues, l, p).queues[Video] = primaryQueues[Video]
        /\ NotRealigned(queues, l, p).fallback[Video] = primaryFallback[Video]
    BY <2>2, NotRealignedType DEF NotRealigned
  <2>5. /\ AudioShown(l, p) /\ VideoQueuesSame
        /\ state' = "ReturningLive" /\ ~returnFromFilling'
    BY <2>1, <2>4, AudioFromPrimary
  <2>6. ControlMoves
    BY <2>1, <2>3, <2>5 DEF ControlMoves
  <2> QED BY <2>5, <2>6
<1>9. ~RestoreLive(l, p) /\ ~StartDelayed(l, p) /\ ~DelayLimitLive(l, p)
  BY DEF RestoreLive, StartDelayed, DurationReady, DelayLimitLive
<1> QED BY <1>1, <1>2, <1>3, <1>4, <1>5, <1>6, <1>7, <1>8, <1>9

\* An audio packet of the output.
LEMMA PrimaryAudioSplice ==
  ASSUME TypeOK, TypeOK', VideoInv, TimelineInv, NEW l \in Lanes, l # Video, PrimaryPacket(l)
  PROVE  VideoInv' /\ TimelineInv' /\ lastOut'[l].dts > lastOut[l].dts
<1>1. Delivers("primary", l) /\ mismatch' = mismatch
  BY DEF PrimaryPacket, Carrier, frontVars
<1>2. PICK size \in PacketSizes(l) :
        LET p == Encoded("primary", l, size)
        IN  \/ PassUntouched(l, p) \/ PassLive(l, p) \/ RestoreLive(l, p) \/ Fill(l, p)
            \/ StartDelayed(l, p) \/ Delay(l, p) \/ DelayLimitLive(l, p) \/ DelayLimitDrain(l, p)
            \/ ReturnOnFallback(l, p) \/ ReturnFromFilling(l, p) \/ ReturnFromDelayed(l, p)
  BY DEF PrimaryPacket
<1> DEFINE p == Encoded("primary", l, size)
<1>3. p \in Packet /\ p.dts = clock["primary"].dts[l]
  BY EncodedType DEF Encoded
<1>4. AudioShown(l, p) /\ VideoQueuesSame /\ ControlMoves
  <2>1. \/ PassUntouched(l, p) \/ PassLive(l, p) \/ RestoreLive(l, p) \/ Fill(l, p)
        \/ StartDelayed(l, p) \/ Delay(l, p) \/ DelayLimitLive(l, p) \/ DelayLimitDrain(l, p)
        \/ ReturnOnFallback(l, p) \/ ReturnFromFilling(l, p) \/ ReturnFromDelayed(l, p)
    BY <1>2
  <2> HIDE DEF p
  <2> QED BY <1>3, <2>1, AudioMoves
<1> HIDE DEF p
<1>5. /\ clock'["primary"].seq[Video] = clock["primary"].seq[Video]
      /\ clock'["primary"].dts[Video] = clock["primary"].dts[Video]
      /\ clock'["primary"].left = clock["primary"].left
      /\ clock'["hold"] = clock["hold"]
  BY <1>1, AudioDelivered, LaneDelivered
<1>6. VideoUnchanged
  <2>1. clock["primary"].dts[Video] \in Nat /\ Video \in Lanes
    BY EmittedTypes, LanesAreNaturals
  <2> QED BY <1>1, <1>4, <1>5, <2>1 DEF VideoUnchanged, VideoQueuesSame, AudioShown
<1>7. VideoInv'
  BY <1>4, <1>6, VideoKept
<1>8. \A m \in Lanes :
        clock'["primary"].dts[m] = IF m = l THEN p.dts + 1 ELSE clock["primary"].dts[m]
  BY <1>1, <1>3, LaneDelivered
<1>9. LanesAscend'
  <2> SUFFICES ASSUME NEW m \in Lanes PROVE lastOut'[m].dts < clock'["primary"].dts[m] + offset'
    BY DEF LanesAscend
  <2>1. lastOut[m].dts < clock["primary"].dts[m] + offset /\ lastOut[m].dts \in Int
        /\ offset \in Nat /\ p.dts \in Nat
    BY <1>3, EmittedTypes DEF TimelineInv, LanesAscend, Packet
  <2>2. lastOut'[m].dts = IF m = l THEN p.dts + offset ELSE lastOut[m].dts
    BY <1>4 DEF AudioShown
  <2> QED BY <1>4, <1>8, <2>1, <2>2 DEF AudioShown
<1>10. VideoTimeline'
  <2>1. lastOut'[Video] = lastOut[Video] /\ maxPts' = maxPts /\ peakPts' = peakPts
    BY <1>4, LanesAreNaturals DEF AudioShown
  <2>2. state' \in {"Filling", "Delayed", "ReturningLive"}
          => state \in {"Filling", "Delayed", "ReturningLive"}
    BY <1>4 DEF ControlMoves, controlVars, LiveStates
  <2> QED BY <2>1, <2>2 DEF TimelineInv, VideoTimeline, Reach
<1>11. lastOut'[l].dts > lastOut[l].dts
  <2>1. lastOut[l].dts < p.dts + offset /\ lastOut[l].dts \in Int /\ offset \in Nat /\ p.dts \in Nat
    BY <1>3, EmittedTypes DEF TimelineInv, LanesAscend, Packet
  <2> QED BY <1>4, <2>1 DEF AudioShown
<1> QED BY <1>7, <1>9, <1>10, <1>11 DEF TimelineInv

----------------------------------------------------------------------------
(* The video packets of the output, one lemma per way of sending them.     *)

\* p is the video carrier that arrives.
VideoCarrier(p) ==
  /\ NextOf(p, "primary", clock["primary"], clock'["primary"])
  /\ Delivers("primary", Video)
  /\ clock'["hold"] = clock["hold"] /\ mismatch' = mismatch

\* What a step of the output's video must show.
Spliced == \/ LeavingFilling
           \/ lastOut'[Video].key
           \/ Follows(lastOut[Video], lastOut'[Video])

\* A keyframe that is no stand-in is presented after everything before it.
Presented == lastOut'[Video].key /\ ~LeavingFilling /\ ~ShowsFallback
               => lastOut'[Video].pts > peakPts

VideoStep == Spliced /\ Presented /\ lastOut'[Video].dts > lastOut[Video].dts

\* The states in which packets pass through the queues.
Delaying == {"Filling", "Delayed", "ReturningLive"}

\* Where a keyframe may go without an epoch.
NoneWaits == lastOut[Video].pts - lastOut[Video].dts # 2 \/ peakPts = NoDts

\* What an emission does to the timeline, in any of the ways.
LEMMA VideoSent ==
  ASSUME TypeOK, TimelineInv, NEW p, VideoCarrier(p),
         NEW chosen, chosen.pkt \in Packet, Shaped(chosen.pkt), NEW epoch \in BOOLEAN,
         Emit(Video, p, chosen, epoch),
         state' \in Delaying => state \in Delaying \/ (chosen.pkt.key /\ NoneWaits)
  PROVE  /\ TimelineInv'
         /\ lastOut'[Video].dts > lastOut[Video].dts
         /\ Carries(lastOut'[Video], chosen.pkt) /\ lastOut'[Video].via = chosen.via
         /\ chosen.pkt.key /\ (NoneWaits \/ (epoch /\ state \in Delaying))
              => lastOut'[Video].pts > peakPts
<1>1. p \in Packet /\ p.dts = clock["primary"].dts[Video] /\ Delivers("primary", Video)
  BY DEF VideoCarrier, NextOf
<1>2. LanesAscend /\ VideoTimeline /\ (state \in Delaying => maxPts = peakPts)
  BY DEF TimelineInv, VideoTimeline, Delaying
<1>3. /\ LanesAscend'
      /\ maxPts' <= peakPts'
      /\ peakPts' <= lastOut'[Video].dts + Reach(lastOut'[Video])
      /\ maxPts = peakPts => maxPts' = peakPts'
      /\ lastOut'[Video].dts > lastOut[Video].dts
      /\ chosen.pkt.key /\ (NoneWaits \/ (epoch /\ maxPts = peakPts))
           => lastOut'[Video].pts > peakPts /\ maxPts' = peakPts'
  BY <1>1, <1>2, TimelineKept DEF NoneWaits
<1>4. Carries(lastOut'[Video], chosen.pkt) /\ lastOut'[Video].via = chosen.via
  BY <1>1, VideoEmitted
<1>5. state' \in Delaying => maxPts' = peakPts'
  BY <1>2, <1>3
<1>6. VideoTimeline'
  BY <1>3, <1>5 DEF VideoTimeline, Delaying
<1> QED BY <1>2, <1>3, <1>4, <1>6 DEF TimelineInv

\* The carrier itself is shown: live video goes on.
LEMMA LiveContinues ==
  ASSUME VideoInv, NEW p, VideoCarrier(p), Carries(lastOut'[Video], p),
         UNCHANGED <<primaryQueues, primaryFallback, holdQueues, holdFallback, holdReady>>,
         state' \in LiveStates \/ (state = "Preparing" /\ state' = "Preparing")
  PROVE  VideoInv'
<1>1. Shapes'
  BY DEF VideoInv, Shapes
<1>2. InLive'
  BY LiveShown DEF InLive, VideoCarrier
<1>3. InPreparing'
  BY DEF VideoInv, InPreparing, LiveStates, VideoCarrier
<1> QED BY <1>1, <1>2, <1>3 DEF VideoInv, InFilling, InDelayed, InReturn, LiveStates

\* While live, the carrier follows what is shown, and a keyframe waits for nothing.
LEMMA LiveFollows ==
  ASSUME VideoInv, state \in LiveStates \cup {"Preparing"}, NEW p, VideoCarrier(p), NEW e, Carries(e, p)
  PROVE  (p.key => NoneWaits) /\ (e.key \/ Follows(lastOut[Video], e))
<1>1. \/ ShownLast("primary", lastOut[Video], clock["primary"])
      \/ clock["primary"].left = 0 /\ peakPts = NoDts
  BY DEF VideoInv, InLive
<1>2. /\ p.src = "primary" /\ p.seq = clock["primary"].seq[Video]
      /\ p.key <=> clock["primary"].left = 0
  BY DEF VideoCarrier, NextOf
<1>3. e.src = p.src /\ e.seq = p.seq /\ e.key = p.key
  BY DEF Carries
<1>4. p.key => NoneWaits
  BY <1>1, <1>2 DEF ShownLast, NoneWaits
<1>5. p.key \/ Follows(lastOut[Video], e)
  BY <1>1, <1>2, <1>3 DEF ShownLast, Follows
<1> QED BY <1>3, <1>4, <1>5

\* The carrier passes untouched ...
LEMMA PassUntouchedSplice ==
  ASSUME TypeOK, VideoInv, TimelineInv, NEW p, VideoCarrier(p), PassUntouched(Video, p)
  PROVE  VideoInv' /\ TimelineInv' /\ VideoStep
<1>1. /\ state \in LiveStates /\ offset = 0
      /\ lastOut' = [lastOut EXCEPT ![Video] =
           [via |-> "live", src |-> p.src, seq |-> p.seq, key |-> p.key, age |-> 0,
            dts |-> p.dts, pts |-> p.dts + p.cto]]
      /\ peakPts' = IF p.dts + p.cto > peakPts THEN p.dts + p.cto ELSE peakPts
      /\ UNCHANGED <<controlVars, primaryVars, holdVars, offset, maxPts>>
  BY DEF PassUntouched
<1>2. /\ p \in Packet /\ p.dts = clock["primary"].dts[Video] /\ Delivers("primary", Video) /\ Shaped(p)
  BY DEF VideoCarrier, NextOf
<1>3. /\ p.dts \in Nat /\ p.cto \in Nat /\ offset' = 0 /\ maxPts' \in Int /\ peakPts \in Int
      /\ maxPts' = maxPts /\ maxPts <= peakPts
  BY <1>1, <1>2, EmittedTypes, LanesAreNaturals DEF Packet, TimelineInv, VideoTimeline
<1>4. /\ lastOut'[Video].dts = p.dts /\ lastOut'[Video].pts = p.dts + p.cto
      /\ lastOut'[Video].src = p.src /\ lastOut'[Video].seq = p.seq /\ lastOut'[Video].key = p.key
      /\ \A m \in Lanes : m # Video => lastOut'[m] = lastOut[m]
  <2>1. lastOut \in [Lanes -> EmittedPacket] /\ Video \in Lanes
    BY LanesAreNaturals DEF TypeOK, OutOK
  <2> QED BY <1>1, <2>1
<1>5. Carries(lastOut'[Video], p)
  BY <1>3, <1>4 DEF Carries
<1>6. /\ LanesAscend'
      /\ peakPts' <= lastOut'[Video].dts + Reach(lastOut'[Video])
      /\ lastOut'[Video].dts > lastOut[Video].dts
      /\ p.key /\ NoneWaits => lastOut'[Video].pts > peakPts
  <2>1. /\ offset' \in Nat /\ offset <= offset'
        /\ lastOut'[Video].dts = p.dts + offset' /\ lastOut'[Video].pts = p.dts + offset' + p.cto
        /\ peakPts' = IF lastOut'[Video].pts > peakPts THEN lastOut'[Video].pts ELSE peakPts
    BY <1>1, <1>3, <1>4
  <2> QED BY <1>2, <1>4, <2>1, PeakKept DEF TimelineInv, NoneWaits
<1>7. maxPts' <= peakPts' /\ state' \in LiveStates
  BY <1>1, <1>3 DEF controlVars
<1>8. TimelineInv'
  BY <1>6, <1>7 DEF TimelineInv, VideoTimeline, LiveStates
<1>9. VideoInv'
  BY <1>1, <1>5, <1>7, LiveContinues DEF primaryVars, holdVars
<1>10. (p.key => NoneWaits) /\ (lastOut'[Video].key \/ Follows(lastOut[Video], lastOut'[Video]))
  BY <1>1, <1>5, LiveFollows
<1> QED BY <1>4, <1>6, <1>8, <1>9, <1>10 DEF VideoStep, Spliced, Presented

\* ... or with its timestamps moved ...
LEMMA PassLiveSplice ==
  ASSUME TypeOK, VideoInv, TimelineInv, NEW p, VideoCarrier(p), PassLive(Video, p)
  PROVE  VideoInv' /\ TimelineInv' /\ VideoStep
<1>1. /\ state \in LiveStates \cup {"Preparing"}
      /\ Emit(Video, p, LivePacket(p), FALSE)
      /\ UNCHANGED <<controlVars, primaryVars, holdVars>>
  BY DEF PassLive
<1>2. LivePacket(p).pkt = p /\ p \in Packet /\ Shaped(p)
  BY DEF LivePacket, VideoCarrier, NextOf
<1>3. /\ TimelineInv'
      /\ lastOut'[Video].dts > lastOut[Video].dts
      /\ Carries(lastOut'[Video], p)
      /\ p.key /\ NoneWaits => lastOut'[Video].pts > peakPts
  <2>1. state' \in Delaying => state \in Delaying
    BY <1>1 DEF controlVars
  <2> QED BY <1>1, <1>2, <2>1, VideoSent
<1>4. VideoInv'
  BY <1>1, <1>3, LiveContinues DEF primaryVars, holdVars, controlVars
<1>5. (p.key => NoneWaits) /\ (lastOut'[Video].key \/ Follows(lastOut[Video], lastOut'[Video]))
  BY <1>1, <1>3, LiveFollows
<1>6. lastOut'[Video].key = p.key
  BY <1>3 DEF Carries
<1> QED BY <1>3, <1>4, <1>5, <1>6 DEF VideoStep, Spliced, Presented

\* ... or, as a keyframe that begins an epoch, ends the delay.
LEMMA RestoreSplice ==
  ASSUME TypeOK, VideoInv, TimelineInv, NEW p, VideoCarrier(p),
         RestoreLive(Video, p) \/ DelayLimitLive(Video, p)
  PROVE  VideoInv' /\ TimelineInv' /\ VideoStep
<1>1. /\ state \in Delaying /\ state' \in LiveStates /\ p.key
      /\ Emit(Video, p, LivePacket(p), TRUE)
      /\ UNCHANGED <<primaryVars, holdVars>>
  BY DEF RestoreLive, DelayLimitLive, Delaying, LiveStates
<1>2. LivePacket(p).pkt = p /\ p \in Packet /\ Shaped(p)
  BY DEF LivePacket, VideoCarrier, NextOf
<1>3. /\ TimelineInv'
      /\ lastOut'[Video].dts > lastOut[Video].dts
      /\ Carries(lastOut'[Video], p)
      /\ p.key => lastOut'[Video].pts > peakPts
  BY <1>1, <1>2, VideoSent
<1>4. VideoInv'
  BY <1>1, <1>3, LiveContinues DEF primaryVars, holdVars
<1>5. lastOut'[Video].key
  BY <1>1, <1>3 DEF Carries
<1> QED BY <1>1, <1>3, <1>4, <1>5 DEF VideoStep, Spliced, Presented

\* The packet chosen from the queue q, of which rest is left, or repeated.
ChosenFrom(q, rest, chosen) ==
  /\ chosen.pkt \in Packet /\ Shaped(chosen.pkt)
  /\ \/ /\ chosen.via = "queue" /\ q # <<>>
        /\ chosen.pkt = Head(q) /\ rest = Tail(q)
     \/ /\ chosen.via = "fallback" /\ q = <<>>
        /\ chosen.pkt.key /\ rest = q

\* The choice of a packet when there is one to choose.
LEMMA ChosenVideo ==
  ASSUME NEW queues \in LaneQueues, NEW fallback \in LaneQueues,
         AllShaped(queues[Video]), KeyOnly(fallback[Video]),
         queues[Video] # <<>> \/ fallback[Video] # <<>>, NEW p
  PROVE  LET chosen == Choose(queues, fallback, TRUE, Video, p)
         IN  ChosenFrom(queues[Video], TakeHead(queues, Video, chosen)[Video], chosen)
<1> DEFINE chosen == Choose(queues, fallback, TRUE, Video, p)
           rest   == TakeHead(queues, Video, chosen)[Video]
           q      == queues[Video]
<1>1. Video \in Lanes /\ q \in Seq(Packet) /\ fallback[Video] \in Seq(Packet)
  BY LanesAreNaturals DEF LaneQueues
<1>2. CASE q # <<>>
  <2>1. chosen = [via |-> "queue", pkt |-> Head(q)]
    BY <1>2 DEF Choose
  <2> HIDE DEF chosen, q
  <2>2. chosen.via = "queue" /\ chosen.pkt = Head(q)
    BY <2>1
  <2> USE DEF q
  <2>3. rest = Tail(q)
    BY <1>1, <2>2 DEF TakeHead, LaneQueues
  <2>4. Head(q) \in Packet /\ Shaped(Head(q))
    BY <1>1, <1>2, ShapedTail
  <2> HIDE DEF rest, q
  <2>5. /\ chosen.pkt \in Packet /\ Shaped(chosen.pkt)
        /\ chosen.via = "queue" /\ q # <<>> /\ chosen.pkt = Head(q) /\ rest = Tail(q)
    BY <1>2, <2>2, <2>3, <2>4
  <2>6. ChosenFrom(q, rest, chosen)
    BY <2>5 DEF ChosenFrom
  <2> QED BY <2>6 DEF chosen, rest, q
<1>3. CASE q = <<>>
  <2>1. fallback[Video] # <<>>
    BY <1>3
  <2>2. chosen = [via |-> "fallback", pkt |-> Head(fallback[Video])]
    BY <1>3, <2>1 DEF Choose
  <2> HIDE DEF chosen
  <2>3. chosen.via = "fallback" /\ chosen.pkt = Head(fallback[Video])
    BY <2>2
  <2>4. rest = q
    BY <2>3 DEF TakeHead
  <2>5. chosen.pkt \in Packet /\ Shaped(chosen.pkt) /\ chosen.pkt.key
    BY <1>1, <2>1, <2>3 DEF KeyOnly
  <2> HIDE DEF rest, q
  <2>6. /\ chosen.pkt \in Packet /\ Shaped(chosen.pkt)
        /\ chosen.via = "fallback" /\ q = <<>> /\ chosen.pkt.key /\ rest = q
    BY <1>3, <2>3, <2>4, <2>5
  <2>7. ChosenFrom(q, rest, chosen)
    BY <2>6 DEF ChosenFrom
  <2> QED BY <2>7 DEF chosen, rest, q
<1> QED BY <1>2, <1>3

\* A video packet of the hold encoder is sent, new or repeated.
LEMMA HoldShown ==
  ASSUME TypeOK, Shapes, TimelineInv, NEW p, VideoCarrier(p),
         mismatch = {}, holdFallback[Video] # <<>>,
         NEW epoch \in BOOLEAN, NEW strict \in BOOLEAN, NEW next, EmitHold(Video, p, epoch, strict, next),
         state \in Delaying \/ (holdQueues[Video] # <<>> /\ Head(holdQueues[Video]).key /\ NoneWaits)
  PROVE  /\ TimelineInv' /\ lastOut'[Video].dts > lastOut[Video].dts
         /\ UNCHANGED <<holdFallback, holdReady, drainPrimaryOnReturn>>
         /\ \/ /\ holdQueues[Video] # <<>> /\ holdQueues'[Video] = Tail(holdQueues[Video])
               /\ Carries(lastOut'[Video], Head(holdQueues[Video]))
               /\ Head(holdQueues[Video]).key /\ NoneWaits => lastOut'[Video].pts > peakPts
               /\ state' = next /\ errorReturnPending' = errorReturnPending
               /\ returnFromFilling' = (returnFromFilling \/ next = "ReturningLive")
            \/ /\ holdQueues[Video] = <<>> /\ holdQueues'[Video] = <<>>
               /\ lastOut'[Video].key /\ lastOut'[Video].via = "fallback"
               /\ strict => state' = "ReturningLive" /\ returnFromFilling'
               /\ ~strict => /\ state' = next /\ errorReturnPending' = errorReturnPending
                             /\ returnFromFilling' = (returnFromFilling \/ next = "ReturningLive")
<1> DEFINE chosen == Choose(holdQueues, holdFallback, TRUE, Video, p)
           first  == epoch \/ (strict /\ chosen.via = "fallback")
<1>1. Choose(holdQueues, holdFallback, Video \notin mismatch, Video, p) = chosen
  BY DEF Choose
<1>2. /\ holdQueues' = TakeHead(holdQueues, Video, chosen)
      /\ Emit(Video, p, chosen, first)
      /\ IF chosen.via = "live" \/ (strict /\ chosen.via = "fallback")
         THEN ReturnLiveWithError(TRUE)
         ELSE /\ state' = next
              /\ returnFromFilling' = (returnFromFilling \/ next = "ReturningLive")
              /\ UNCHANGED errorReturnPending
      /\ UNCHANGED <<drainPrimaryOnReturn, holdFallback, holdReady>>
  <2> HIDE DEF chosen
  <2> QED BY <1>1 DEF EmitHold
<1>3. /\ holdQueues \in LaneQueues /\ holdFallback \in LaneQueues
      /\ AllShaped(holdQueues[Video]) /\ KeyOnly(holdFallback[Video])
  BY DEF TypeOK, HoldOK, Shapes
<1>4. /\ chosen.pkt \in Packet /\ Shaped(chosen.pkt)
      /\ \/ /\ chosen.via = "queue" /\ holdQueues[Video] # <<>>
            /\ chosen.pkt = Head(holdQueues[Video])
            /\ TakeHead(holdQueues, Video, chosen)[Video] = Tail(holdQueues[Video])
         \/ /\ chosen.via = "fallback" /\ holdQueues[Video] = <<>>
            /\ chosen.pkt.key
            /\ TakeHead(holdQueues, Video, chosen)[Video] = holdQueues[Video]
  BY <1>3, ChosenVideo DEF ChosenFrom
<1> HIDE DEF chosen
<1>5. first \in BOOLEAN
  OBVIOUS
<1>6. state' \in Delaying => state \in Delaying \/ (chosen.pkt.key /\ NoneWaits)
  BY <1>4
<1> HIDE DEF first
<1>7. /\ TimelineInv' /\ lastOut'[Video].dts > lastOut[Video].dts
      /\ Carries(lastOut'[Video], chosen.pkt) /\ lastOut'[Video].via = chosen.via
      /\ chosen.pkt.key /\ NoneWaits => lastOut'[Video].pts > peakPts
  BY <1>2, <1>4, <1>5, <1>6, VideoSent
<1>8. CASE chosen.via = "queue"
  <2>1. /\ state' = next /\ errorReturnPending' = errorReturnPending
        /\ returnFromFilling' = (returnFromFilling \/ next = "ReturningLive")
    BY <1>2, <1>8
  <2> QED BY <1>2, <1>4, <1>7, <1>8, <2>1
<1>9. CASE chosen.via = "fallback"
  <2>1. strict => state' = "ReturningLive" /\ returnFromFilling'
    BY <1>2, <1>9 DEF ReturnLiveWithError
  <2>2. ~strict => /\ state' = next /\ errorReturnPending' = errorReturnPending
                   /\ returnFromFilling' = (returnFromFilling \/ next = "ReturningLive")
    BY <1>2, <1>9
  <2>3. lastOut'[Video].key /\ lastOut'[Video].via = "fallback" /\ holdQueues[Video] = <<>>
    BY <1>4, <1>7, <1>9 DEF Carries
  <2>4. holdQueues'[Video] = <<>>
    BY <1>2, <1>4, <1>9, <2>3
  <2> QED BY <1>2, <1>7, <2>1, <2>2, <2>3, <2>4
<1> QED BY <1>4, <1>8, <1>9

\* The carrier is queued behind those before it.
LEMMA BufferedVideo ==
  ASSUME TypeOK, Shapes, NEW p, VideoCarrier(p)
  PROVE  LET q == Buffered(Video, p)[Video]
         IN  /\ q = Append(primaryQueues[Video], p) /\ q \in Seq(Packet) /\ q # <<>>
             /\ AllShaped(q) /\ OneSource(q, "primary")
             /\ Linked(primaryQueues[Video]) /\ EndsAt(primaryQueues[Video], clock["primary"])
                  => Linked(q) /\ EndsAt(q, clock'["primary"])
             /\ Rising(primaryQueues[Video], clock["primary"].dts[Video])
                  => Rising(q, clock'["primary"].dts[Video])
<1> DEFINE q == Buffered(Video, p)[Video]
<1>1. /\ p \in Packet /\ NextOf(p, "primary", clock["primary"], clock'["primary"])
      /\ p.dts = clock["primary"].dts[Video] /\ clock'["primary"].dts[Video] = p.dts + 1
  BY DEF VideoCarrier, NextOf
<1>2. q = Append(primaryQueues[Video], p) /\ primaryQueues[Video] \in Seq(Packet)
  BY VideoQueueTypes DEF Buffered, TypeOK, PrimaryOK, LaneQueues
<1> HIDE DEF q
<1>3. q \in Seq(Packet) /\ q # <<>>
  BY <1>1, <1>2
<1>4. AllShaped(q) /\ OneSource(q, "primary")
  BY <1>1, <1>2, ShapedAppend DEF Shapes
<1>5. Linked(primaryQueues[Video]) /\ EndsAt(primaryQueues[Video], clock["primary"])
        => Linked(q) /\ EndsAt(q, clock'["primary"])
  BY <1>1, <1>2, AppendContinues
<1>6. Rising(primaryQueues[Video], clock["primary"].dts[Video])
        => Rising(q, clock'["primary"].dts[Video])
  BY <1>1, <1>2, RisingAppend
<1> QED BY <1>2, <1>3, <1>4, <1>5, <1>6 DEF q

\* The hold encoder's packets are shown in the order of its GOPs, and kept in shape.
LEMMA HoldTakenShapes ==
  ASSUME TypeOK, Shapes, UNCHANGED <<primaryFallback, holdFallback>>,
         \/ holdQueues[Video] # <<>> /\ holdQueues'[Video] = Tail(holdQueues[Video])
         \/ holdQueues'[Video] = <<>>,
         AllShaped(primaryQueues'[Video]) /\ OneSource(primaryQueues'[Video], "primary")
  PROVE  Shapes'
<1>1. holdQueues[Video] \in Seq(Packet)
  BY VideoQueueTypes
<1>2. AllShaped(holdQueues'[Video]) /\ OneSource(holdQueues'[Video], "hold")
  <2>1. CASE holdQueues[Video] # <<>> /\ holdQueues'[Video] = Tail(holdQueues[Video])
    <3>1. AllShaped(Tail(holdQueues[Video]))
      BY <1>1, <2>1, ShapedTail DEF Shapes
    <3>2. \A i \in 1..Len(Tail(holdQueues[Video])) :
            i + 1 \in 1..Len(holdQueues[Video]) /\ Tail(holdQueues[Video])[i] = holdQueues[Video][i + 1]
      BY <1>1, <2>1
    <3> QED BY <2>1, <3>1, <3>2 DEF Shapes, OneSource
  <2>2. CASE holdQueues'[Video] = <<>>
    BY <2>2 DEF AllShaped, OneSource
  <2> QED BY <2>1, <2>2
<1> QED BY <1>2 DEF Shapes

\* Filling: the hold GOP goes on, or begins with its keyframe.
LEMMA FillSplice ==
  ASSUME TypeOK, TypeOK', ReturnInv, VideoInv, TimelineInv, NEW p, VideoCarrier(p), Fill(Video, p)
  PROVE  VideoInv' /\ TimelineInv' /\ VideoStep
<1> DEFINE q == holdQueues[Video]
<1>1. /\ mismatch = {} /\ holdFallback[Video] # <<>>
      /\ Linked(q) /\ EndsAt(q, clock["hold"])
      /\ Linked(primaryQueues[Video]) /\ EndsAt(primaryQueues[Video], clock["primary"])
      /\ Rising(primaryQueues[Video], clock["primary"].dts[Video])
      /\ \/ state = "Filling" /\ Supplied(q, "hold", lastOut[Video], clock["hold"])
         \/ state = "Preparing" /\ q # <<>> /\ Head(q).key /\ NoneWaits
  <2>1. CASE state = "Filling"
    BY <2>1 DEF VideoInv, InFilling, Supplied
  <2>2. CASE state # "Filling"
    <3>1. state = "Preparing" /\ p.key /\ HoldPrerollReady(primaryFormats \cup {Video})
      BY <2>2 DEF Fill, StartsFilling
    <3>2. holdReady /\ q # <<>> /\ Head(q).key /\ mismatch = {}
      BY <3>1, LanesAreNaturals DEF HoldPrerollReady, FormatsReady
    <3>3. /\ Linked(q) /\ EndsAt(q, clock["hold"]) /\ holdFallback[Video] # <<>>
          /\ primaryQueues[Video] = <<>>
      BY <3>1, <3>2 DEF VideoInv, InPreparing
    <3>4. NoneWaits
      <4>1. clock["primary"].left = 0
        BY <3>1 DEF VideoCarrier, NextOf
      <4> QED BY <3>1, <4>1 DEF VideoInv, InLive, ShownLast, NoneWaits
    <3>5. Linked(<<>>) /\ EndsAt(<<>>, clock["primary"]) /\ Rising(<<>>, clock["primary"].dts[Video])
      BY DEF Linked, EndsAt, Rising
    <3> QED BY <3>1, <3>2, <3>3, <3>4, <3>5
  <2> QED BY <2>1, <2>2
<1>2. /\ UNCHANGED <<primaryFallback, lastSource>>
      /\ \/ /\ primaryQueues' = Buffered(Video, p)
            /\ EmitHold(Video, p, state = "Preparing", TRUE, "Filling")
         \/ /\ UNCHANGED primaryQueues
            /\ EmitHold(Video, p, state = "Preparing", FALSE, "ReturningLive")
  BY DEF Fill
<1>3. (state = "Preparing") \in BOOLEAN /\ Shapes /\ q \in Seq(Packet) /\ OneSource(q, "hold")
  BY VideoQueueTypes DEF VideoInv, Shapes
<1>4. state \in Delaying \/ (q # <<>> /\ Head(q).key /\ NoneWaits)
  BY <1>1 DEF Delaying
<1>5. AllShaped(primaryQueues'[Video]) /\ OneSource(primaryQueues'[Video], "primary")
  BY <1>2, <1>3, BufferedVideo DEF Shapes
<1>6. CASE /\ primaryQueues' = Buffered(Video, p)
           /\ EmitHold(Video, p, state = "Preparing", TRUE, "Filling")
  <2>1. /\ TimelineInv' /\ lastOut'[Video].dts > lastOut[Video].dts
        /\ UNCHANGED <<holdFallback, holdReady>>
        /\ \/ /\ q # <<>> /\ holdQueues'[Video] = Tail(q)
              /\ Carries(lastOut'[Video], Head(q))
              /\ Head(q).key /\ NoneWaits => lastOut'[Video].pts > peakPts
              /\ state' = "Filling"
           \/ /\ q = <<>> /\ holdQueues'[Video] = <<>>
              /\ lastOut'[Video].key /\ lastOut'[Video].via = "fallback"
              /\ state' = "ReturningLive" /\ returnFromFilling'
    BY <1>1, <1>3, <1>4, <1>6, HoldShown
  <2>2. Shapes'
    BY <1>2, <1>3, <1>5, <2>1, HoldTakenShapes
  <2>3. CASE q # <<>>
    <3>1. /\ holdQueues'[Video] = Tail(q) /\ Carries(lastOut'[Video], Head(q)) /\ state' = "Filling"
      BY <2>1, <2>3
    <3>2. Supplied(Tail(q), "hold", lastOut'[Video], clock'["hold"])
      <4>1. clock'["hold"] = clock["hold"]
        BY DEF VideoCarrier
      <4> HIDE DEF q
      <4> QED BY <1>1, <1>3, <2>3, <3>1, <4>1, TakeSupplies
    <3>3. /\ Linked(primaryQueues'[Video]) /\ EndsAt(primaryQueues'[Video], clock'["primary"])
          /\ Rising(primaryQueues'[Video], clock'["primary"].dts[Video])
      BY <1>1, <1>3, <1>6, BufferedVideo
    <3>4. InFilling'
      BY <1>1, <2>1, <3>1, <3>2, <3>3 DEF InFilling, VideoCarrier
    <3>5. VideoInv'
      BY <2>2, <3>1, <3>4 DEF VideoInv, InLive, InPreparing, InDelayed, InReturn, LiveStates
    <3>6. Head(q).key => NoneWaits
      BY <1>1, <2>3 DEF Supplied, ShownBefore, NoneWaits
    <3>7. Head(q).key \/ Follows(lastOut[Video], lastOut'[Video])
      BY <1>1, <2>3, <3>1 DEF Supplied, ShownBefore, Carries, Follows
    <3>8. lastOut'[Video].key = Head(q).key
      BY <3>1 DEF Carries
    <3>9. lastOut'[Video].key => lastOut'[Video].pts > peakPts
      BY <2>1, <2>3, <3>6, <3>8
    <3> QED BY <2>1, <3>5, <3>7, <3>8, <3>9 DEF VideoStep, Spliced, Presented
  <2>4. CASE q = <<>>
    <3>1. /\ lastOut'[Video].key /\ lastOut'[Video].via = "fallback"
          /\ state' = "ReturningLive" /\ returnFromFilling'
      BY <2>1, <2>4
    <3>2. InReturn'
      BY <1>1, <2>1, <3>1 DEF InReturn, VideoCarrier
    <3>3. VideoInv'
      BY <2>2, <3>1, <3>2 DEF VideoInv, InLive, InPreparing, InFilling, InDelayed, LiveStates
    <3> QED BY <2>1, <3>1, <3>3 DEF VideoStep, Spliced, Presented, ShowsFallback
  <2> QED BY <2>3, <2>4
<1>7. CASE /\ UNCHANGED primaryQueues
           /\ EmitHold(Video, p, state = "Preparing", FALSE, "ReturningLive")
  <2>1. /\ TimelineInv' /\ lastOut'[Video].dts > lastOut[Video].dts
        /\ UNCHANGED <<holdFallback, holdReady>>
        /\ \/ q # <<>> /\ holdQueues'[Video] = Tail(q)
           \/ holdQueues'[Video] = <<>>
        /\ state' = "ReturningLive" /\ errorReturnPending' = errorReturnPending /\ returnFromFilling'
    BY <1>1, <1>3, <1>4, <1>7, HoldShown
  <2>2. Shapes'
    BY <1>2, <1>3, <1>5, <2>1, HoldTakenShapes
  <2>3. InReturn'
    BY <1>1, <2>1 DEF InReturn, VideoCarrier
  <2>4. VideoInv'
    BY <2>1, <2>2, <2>3 DEF VideoInv, InLive, InPreparing, InFilling, InDelayed, LiveStates
  <2>5. LeavingFilling
    BY <1>1, <2>1 DEF LeavingFilling, ReturnInv
  <2> QED BY <2>1, <2>4, <2>5 DEF VideoStep, Spliced, Presented
<1> QED BY <1>2, <1>6, <1>7

\* A cancelled Filling shows the hold encoder until the return.
LEMMA ReturnFromFillingSplice ==
  ASSUME TypeOK, TypeOK', VideoInv, TimelineInv, NEW p, VideoCarrier(p), ReturnFromFilling(Video, p)
  PROVE  VideoInv' /\ TimelineInv' /\ VideoStep
<1>1. /\ state = "ReturningLive" /\ ~errorReturnPending /\ returnFromFilling
      /\ EmitHold(Video, p, FALSE, FALSE, "ReturningLive")
      /\ UNCHANGED primaryVars
  BY DEF ReturnFromFilling
<1>2. mismatch = {} /\ holdFallback[Video] # <<>> /\ Shapes /\ state \in Delaying
  BY <1>1 DEF VideoInv, InReturn, Delaying
<1>3. /\ TimelineInv' /\ lastOut'[Video].dts > lastOut[Video].dts
      /\ UNCHANGED <<holdFallback, holdReady>>
      /\ \/ holdQueues[Video] # <<>> /\ holdQueues'[Video] = Tail(holdQueues[Video])
         \/ holdQueues'[Video] = <<>>
      /\ state' = "ReturningLive" /\ errorReturnPending' = errorReturnPending /\ returnFromFilling'
  BY <1>1, <1>2, HoldShown
<1>4. Shapes'
  BY <1>1, <1>2, <1>3, HoldTakenShapes DEF Shapes, primaryVars
<1>5. InReturn'
  BY <1>2, <1>3 DEF InReturn, VideoCarrier
<1>6. VideoInv'
  BY <1>3, <1>4, <1>5 DEF VideoInv, InLive, InPreparing, InFilling, InDelayed, LiveStates
<1>7. LeavingFilling
  BY <1>1, <1>3 DEF LeavingFilling
<1> QED BY <1>3, <1>6, <1>7 DEF VideoStep, Spliced, Presented

\* An older video packet of the output is sent: what it found is the queue from which it
\* is taken, in line with what is shown or cut to begin with a keyframe.
LEMMA PrimaryShown ==
  ASSUME TypeOK, TypeOK', Shapes, TimelineInv, state \in Delaying, NEW p, VideoCarrier(p),
         NEW found \in Found, NEW next \in {"Delayed", "ReturningLive"},
         NEW q, q = found.queues[Video], Linked(q), AllShaped(q), OneSource(q, "primary"),
         KeyOnly(found.fallback[Video]),
         found.cut => q # <<>> /\ Head(q).key,
         ~found.cut => found.fallback[Video] # <<>> /\ ShownBefore(q, lastOut[Video]),
         next = "Delayed" => Rising(q, clock'["primary"].dts[Video]),
         next = "Delayed" \/ ~drainPrimaryOnReturn' => EndsAt(q, clock'["primary"]),
         EmitPrimary(Video, p, found, next)
  PROVE  VideoInv' /\ TimelineInv' /\ VideoStep
<1> DEFINE chosen == Choose(found.queues, found.fallback, TRUE, Video, p)
           epoch  == found.cut \/ chosen.via = "fallback"
<1>1. /\ TakePrimary(Video, chosen, found.queues, found.fallback, found.sources, found.pending)
      /\ Emit(Video, p, chosen, epoch)
      /\ state' = IF chosen.via = "queue" THEN next ELSE "ReturningLive"
      /\ errorReturnPending' = (errorReturnPending \/ ~(chosen.via = "queue"))
      /\ returnFromFilling' = (returnFromFilling /\ chosen.via = "queue" /\ next = "Delayed")
      /\ UNCHANGED <<holdVars, fillStart>>
  BY DEF EmitPrimary
<1>2. /\ found.queues \in LaneQueues /\ found.fallback \in LaneQueues /\ found.cut \in BOOLEAN
      /\ q \in Seq(Packet) /\ found.fallback[Video] \in Seq(Packet) /\ Video \in Lanes
  BY FoundFields, LanesAreNaturals DEF LaneQueues
<1>3. /\ chosen.pkt \in Packet /\ Shaped(chosen.pkt)
      /\ \/ /\ chosen.via = "queue" /\ q # <<>> /\ chosen.pkt = Head(q)
            /\ TakeHead(found.queues, Video, chosen)[Video] = Tail(q)
         \/ /\ chosen.via = "fallback" /\ q = <<>> /\ chosen.pkt.key
            /\ TakeHead(found.queues, Video, chosen)[Video] = q
  <2> DEFINE queues == found.queues
             fallback == found.fallback
             shown == Choose(queues, fallback, TRUE, Video, p)
  <2>1. /\ queues \in LaneQueues /\ fallback \in LaneQueues /\ q = queues[Video]
        /\ AllShaped(queues[Video]) /\ KeyOnly(fallback[Video])
        /\ queues[Video] # <<>> \/ fallback[Video] # <<>>
    BY <1>2
  <2> HIDE DEF queues, fallback
  <2>2. ChosenFrom(queues[Video], TakeHead(queues, Video, shown)[Video], shown)
    BY <2>1, ChosenVideo
  <2>3. shown = chosen
    BY DEF queues, fallback
  <2> HIDE DEF chosen, shown
  <2> QED BY <2>1, <2>2, <2>3 DEF queues, ChosenFrom
<1> HIDE DEF chosen
<1>4. epoch \in BOOLEAN
  OBVIOUS
<1> HIDE DEF epoch
<1>5. /\ TimelineInv' /\ lastOut'[Video].dts > lastOut[Video].dts
      /\ Carries(lastOut'[Video], chosen.pkt) /\ lastOut'[Video].via = chosen.via
      /\ chosen.pkt.key /\ (NoneWaits \/ epoch) => lastOut'[Video].pts > peakPts
  BY <1>1, <1>3, <1>4, VideoSent
<1>6. /\ primaryQueues'[Video] = IF chosen.via = "queue" THEN Tail(q) ELSE q
      /\ primaryFallback'[Video] =
           IF chosen.via = "queue" /\ chosen.pkt.key THEN <<chosen.pkt>> ELSE found.fallback[Video]
      /\ UNCHANGED <<holdQueues, holdFallback, holdReady>>
  <2>1. primaryQueues'[Video] = TakeHead(found.queues, Video, chosen)[Video]
    BY <1>1 DEF TakePrimary
  <2>2. primaryFallback'[Video] =
           IF chosen.via = "queue" /\ chosen.pkt.key THEN <<chosen.pkt>> ELSE found.fallback[Video]
    BY <1>1, <1>2 DEF TakePrimary, LaneQueues
  <2>3. UNCHANGED <<holdQueues, holdFallback, holdReady>>
    BY <1>1 DEF holdVars
  <2> QED BY <1>3, <2>1, <2>2, <2>3
<1>7. KeyOnly(primaryFallback'[Video])
  <2>1. CASE chosen.via = "queue" /\ chosen.pkt.key
    <3>1. primaryFallback'[Video] = <<chosen.pkt>>
      BY <1>6, <2>1
    <3>2. Head(primaryFallback'[Video]) = chosen.pkt
      BY <3>1
    <3> QED BY <1>3, <2>1, <3>2 DEF KeyOnly
  <2>2. CASE ~(chosen.via = "queue" /\ chosen.pkt.key)
    BY <1>6, <2>2
  <2> QED BY <2>1, <2>2
<1>8. primaryFallback'[Video] # <<>>
  <2>1. CASE found.cut
    <3>1. chosen.via = "queue" /\ chosen.pkt.key
      BY <1>3, <2>1
    <3>2. primaryFallback'[Video] = <<chosen.pkt>>
      BY <1>6, <3>1
    <3> QED BY <3>2
  <2>2. CASE ~found.cut
    <3>1. \/ primaryFallback'[Video] = <<chosen.pkt>>
          \/ primaryFallback'[Video] = found.fallback[Video]
      BY <1>6
    <3> QED BY <2>2, <3>1
  <2> QED BY <1>2, <2>1, <2>2
<1>9. CASE chosen.via = "queue"
  <2>1. /\ q # <<>> /\ chosen.pkt = Head(q) /\ primaryQueues'[Video] = Tail(q) /\ state' = next
        /\ returnFromFilling' = (returnFromFilling /\ next = "Delayed")
    BY <1>1, <1>3, <1>6, <1>9
  <2>2. Carries(lastOut'[Video], Head(q))
    BY <1>5, <2>1
  <2>3. /\ OneSource(Tail(q), "primary") /\ Linked(Tail(q)) /\ ShownBefore(Tail(q), lastOut'[Video])
    BY <1>2, <2>1, <2>2, TakeContinues
  <2>4. AllShaped(Tail(q))
    BY <1>2, <2>1, ShapedTail
  <2>5. Shapes'
    BY <1>6, <1>7, <2>1, <2>3, <2>4 DEF Shapes
  <2>6. next = "Delayed" \/ ~drainPrimaryOnReturn'
          => Supplied(Tail(q), "primary", lastOut'[Video], clock'["primary"])
    BY <1>2, <2>1, <2>2, TakeSupplies
  <2>7. InDelayed'
    <3>1. next = "Delayed" => Rising(Tail(q), clock'["primary"].dts[Video])
      BY <1>2, <2>1, RisingTail
    <3> QED BY <1>8, <2>1, <2>6, <3>1 DEF InDelayed
  <2>8. InReturn'
    <3>1. state' = "ReturningLive" => next = "ReturningLive" /\ ~returnFromFilling'
      BY <2>1
    <3> QED BY <1>8, <2>1, <2>3, <2>6, <3>1 DEF InReturn
  <2>9. VideoInv'
    <3>1. state' \in {"Delayed", "ReturningLive"}
      BY <2>1
    <3>2. InLive' /\ InPreparing' /\ InFilling'
      BY <3>1 DEF InLive, InPreparing, InFilling, LiveStates
    <3> QED BY <2>5, <2>7, <2>8, <3>2 DEF VideoInv
  <2>10. lastOut'[Video].key = Head(q).key
    BY <2>2 DEF Carries
  <2>11. ~Head(q).key => Follows(lastOut[Video], lastOut'[Video])
    BY <2>1, <2>2 DEF ShownBefore, Carries, Follows
  <2>12. Head(q).key => NoneWaits \/ epoch
    BY <2>1 DEF ShownBefore, NoneWaits, epoch
  <2> QED BY <1>5, <2>1, <2>9, <2>10, <2>11, <2>12 DEF VideoStep, Spliced, Presented
<1>10. CASE chosen.via = "fallback"
  <2>1. /\ q = <<>> /\ chosen.pkt.key /\ primaryQueues'[Video] = <<>>
        /\ state' = "ReturningLive" /\ errorReturnPending'
        /\ returnFromFilling' = FALSE
    <3>1. state' = "ReturningLive"
      BY <1>1, <1>10
    <3>2. errorReturnPending'
      BY <1>1, <1>10
    <3>3. returnFromFilling' = FALSE
      BY <1>1, <1>10
    <3>4. q = <<>> /\ chosen.pkt.key /\ primaryQueues'[Video] = <<>>
      BY <1>3, <1>6, <1>10
    <3> QED BY <3>1, <3>2, <3>3, <3>4
  <2>2. ~returnFromFilling'
    BY <2>1, Zenon
  <2>3. Shapes'
    <3>1. AllShaped(<<>>) /\ OneSource(<<>>, "primary")
      BY DEF AllShaped, OneSource
    <3> QED BY <1>6, <1>7, <2>1, <3>1 DEF Shapes
  <2>4. InReturn'
    BY <1>8, <2>1, <2>2 DEF InReturn
  <2>5. VideoInv'
    <3>1. InLive' /\ InPreparing' /\ InFilling' /\ InDelayed'
      BY <2>1 DEF InLive, InPreparing, InFilling, InDelayed, LiveStates
    <3> QED BY <2>3, <2>4, <3>1 DEF VideoInv
  <2>6. lastOut'[Video].key /\ ShowsFallback
    BY <1>5, <1>10, <2>1 DEF Carries, ShowsFallback
  <2> QED BY <1>5, <2>5, <2>6 DEF VideoStep, Spliced, Presented
<1> QED BY <1>3, <1>9, <1>10

\* Delayed starts with a keyframe of the queue, and with an epoch.
LEMMA StartDelayedSplice ==
  ASSUME TypeOK, TypeOK', VideoInv, TimelineInv, NEW p, VideoCarrier(p), StartDelayed(Video, p)
  PROVE  VideoInv' /\ TimelineInv' /\ VideoStep
<1> DEFINE q == Buffered(Video, p)[Video]
           found == [NotRealigned(Buffered(Video, p), Video, p)
                       EXCEPT !.sources = [m \in Lanes |-> NoDts], !.cut = TRUE]
<1>1. state = "Filling" /\ Head(q).key /\ EmitPrimary(Video, p, found, "Delayed")
  BY DEF StartDelayed, DurationReady
<1>2. p \in Packet /\ Shapes /\ state \in Delaying
  BY <1>1 DEF VideoInv, VideoCarrier, NextOf, Delaying
<1>3. /\ found \in Found /\ found.queues[Video] = q /\ found.cut
      /\ found.fallback[Video] = primaryFallback[Video]
  <2>1. NotRealigned(Buffered(Video, p), Video, p) \in Found
    BY <1>2, BufferedType, NotRealignedType, LanesAreNaturals
  <2>2. [m \in Lanes |-> NoDts] \in [Lanes -> Int]
    BY DEF NoDts
  <2>3. /\ NotRealigned(Buffered(Video, p), Video, p).queues[Video] = q
        /\ NotRealigned(Buffered(Video, p), Video, p).fallback = primaryFallback
    BY DEF NotRealigned
  <2> HIDE DEF q
  <2>4. \A x \in Found : \A s \in [Lanes -> Int] :
          /\ [x EXCEPT !.sources = s, !.cut = TRUE] \in Found
          /\ [x EXCEPT !.sources = s, !.cut = TRUE].queues = x.queues
          /\ [x EXCEPT !.sources = s, !.cut = TRUE].fallback = x.fallback
          /\ [x EXCEPT !.sources = s, !.cut = TRUE].cut
    BY DEF Found
  <2> QED BY <2>1, <2>2, <2>3, <2>4
<1> HIDE DEF found
<1>4. /\ q # <<>> /\ AllShaped(q) /\ OneSource(q, "primary")
      /\ Linked(q) /\ EndsAt(q, clock'["primary"]) /\ Rising(q, clock'["primary"].dts[Video])
  BY <1>1, <1>2, BufferedVideo DEF VideoInv, InFilling
<1>5. KeyOnly(found.fallback[Video])
  BY <1>2, <1>3 DEF Shapes
<1> HIDE DEF q
<1> QED BY <1>1, <1>2, <1>3, <1>4, <1>5, PrimaryShown

\* What a video packet finds after a realignment: the queue, or the queue cut at a keyframe.
LEMMA RealignedVideo ==
  ASSUME NEW queues \in LaneQueues, NEW p \in Packet, NEW dts \in Nat, Rising(queues[Video], dts)
  PROVE  LET found == Realigned(queues, Video, p)
             q     == queues[Video]
         IN  \/ /\ ~found.cut /\ found.queues[Video] = q
                /\ found.fallback[Video] = primaryFallback[Video]
             \/ /\ found.cut /\ found.fallback[Video] = <<>>
                /\ \E j \in 1..Len(q) : q[j].key /\ found.queues[Video] = DropBefore(q, q[j].dts)
<1> DEFINE q == queues[Video]
           origins == RealignOrigins(queues)
           origin  == RealignOrigin(origins, p.dts - Target)
           cut == [queues |-> [m \in Lanes |-> DropBefore(queues[m], origin)],
                   fallback |-> [m \in Lanes |-> <<>>],
                   sources |-> [m \in Lanes |-> NoDts],
                   pending |-> FALSE, cut |-> TRUE]
<1>1. \/ \E pending \in {TRUE, FALSE} :
           Realigned(queues, Video, p) = [queues |-> queues, fallback |-> primaryFallback,
                                          sources |-> lastSource, pending |-> pending, cut |-> FALSE]
      \/ origins # {} /\ Realigned(queues, Video, p) = cut
  BY DEF Realigned
<1>2. CASE \E pending \in {TRUE, FALSE} :
             Realigned(queues, Video, p) = [queues |-> queues, fallback |-> primaryFallback,
                                            sources |-> lastSource, pending |-> pending, cut |-> FALSE]
  <2> DEFINE found == Realigned(queues, Video, p)
  <2> HIDE DEF found
  <2>1. ~found.cut /\ found.queues = queues /\ found.fallback = primaryFallback
    BY <1>2 DEF found
  <2> QED BY <2>1 DEF found
<1>3. CASE origins # {} /\ Realigned(queues, Video, p) = cut
  <2>1. q \in Seq(Packet) /\ Video \in Lanes
    BY LanesAreNaturals DEF LaneQueues
  <2>2. \A i \in 1..Len(q) : q[i].dts \in Nat /\ q[i].dts <= dts
    <3>1. \A i \in 1..Len(q) : q[i] \in Packet
      BY <2>1
    <3> QED BY <3>1 DEF Rising, Packet
  <2>3. \A d \in origins : \E j \in 1..Len(q) : q[j].key /\ d = q[j].dts
    BY DEF RealignOrigins
  <2> HIDE DEF origins, q
  <2>4. origins \in SUBSET Nat /\ \A d \in origins : d <= dts
    BY <2>2, <2>3
  <2>5. p.dts - Target \in Int
    BY SessionAssumption DEF Packet
  <2>6. origin \in origins
    BY <1>3, <2>4, <2>5, OriginIsCandidate
  <2>7. PICK j \in 1..Len(q) : q[j].key /\ origin = q[j].dts
    BY <2>3, <2>6
  <2> HIDE DEF origin
  <2>8. /\ cut.cut /\ cut.fallback[Video] = <<>>
        /\ cut.queues[Video] = DropBefore(queues[Video], origin)
    BY <2>1
  <2> HIDE DEF cut
  <2>9. /\ Realigned(queues, Video, p).cut /\ Realigned(queues, Video, p).fallback[Video] = <<>>
        /\ Realigned(queues, Video, p).queues[Video] = DropBefore(q, q[j].dts)
    BY <1>3, <2>7, <2>8 DEF q
  <2> QED BY <2>7, <2>9 DEF q
<1> QED BY <1>1, <1>2, <1>3

\* Delayed: the queue goes on, or is cut at a keyframe, with an epoch.
LEMMA DelaySplice ==
  ASSUME TypeOK, TypeOK', VideoInv, TimelineInv, NEW p, VideoCarrier(p), Delay(Video, p)
  PROVE  VideoInv' /\ TimelineInv' /\ VideoStep
<1> DEFINE q == Buffered(Video, p)[Video]
           found == Realigned(Buffered(Video, p), Video, p)
<1>1. state = "Delayed" /\ EmitPrimary(Video, p, found, "Delayed")
  BY DEF Delay
<1>2. p \in Packet /\ Shapes /\ state \in Delaying /\ Video \in Lanes
  BY <1>1, LanesAreNaturals DEF VideoInv, VideoCarrier, NextOf, Delaying
<1>3. /\ Buffered(Video, p) \in LaneQueues /\ found \in Found
  BY <1>2, BufferedType, RealignedType
<1>4. /\ Supplied(primaryQueues[Video], "primary", lastOut[Video], clock["primary"])
      /\ primaryFallback[Video] # <<>>
  BY <1>1 DEF VideoInv, InDelayed
<1>5. /\ q # <<>> /\ q \in Seq(Packet) /\ AllShaped(q) /\ OneSource(q, "primary")
      /\ Linked(q) /\ EndsAt(q, clock'["primary"]) /\ Rising(q, clock'["primary"].dts[Video])
  BY <1>1, <1>2, BufferedVideo DEF VideoInv, InDelayed, Supplied
<1>6. ShownBefore(q, lastOut[Video])
  <2>1. q = Append(primaryQueues[Video], p)
    BY <1>2, BufferedVideo
  <2>2. NextOf(p, "primary", clock["primary"], clock'["primary"])
    BY DEF VideoCarrier
  <2> HIDE DEF q
  <2> QED BY <1>4, <2>1, <2>2, AppendSupplies, VideoQueueTypes
<1>7. clock'["primary"].dts[Video] \in Nat
  BY <1>2 DEF VideoCarrier, NextOf, Packet
<1>8. \/ /\ ~found.cut /\ found.queues[Video] = q
         /\ found.fallback[Video] = primaryFallback[Video]
      \/ /\ found.cut /\ found.fallback[Video] = <<>>
         /\ \E j \in 1..Len(q) : q[j].key /\ found.queues[Video] = DropBefore(q, q[j].dts)
  BY <1>2, <1>3, <1>5, <1>7, RealignedVideo
<1> HIDE DEF q, found
<1>9. CASE /\ ~found.cut /\ found.queues[Video] = q
           /\ found.fallback[Video] = primaryFallback[Video]
  <2>1. KeyOnly(found.fallback[Video])
    BY <1>2, <1>9 DEF Shapes
  <2> QED BY <1>1, <1>2, <1>3, <1>4, <1>5, <1>6, <1>9, <2>1, PrimaryShown
<1>10. CASE /\ found.cut /\ found.fallback[Video] = <<>>
            /\ \E j \in 1..Len(q) : q[j].key /\ found.queues[Video] = DropBefore(q, q[j].dts)
  <2>1. PICK j \in 1..Len(q) : q[j].key /\ found.queues[Video] = DropBefore(q, q[j].dts)
    BY <1>10
  <2> DEFINE cut == DropBefore(q, q[j].dts)
  <2>2. /\ cut \in Seq(Packet) /\ cut # <<>> /\ Head(cut) = q[j]
        /\ Rising(cut, clock'["primary"].dts[Video])
        /\ OneSource(cut, "primary") /\ Linked(cut) /\ EndsAt(cut, clock'["primary"])
        /\ \A i \in 1..Len(cut) : \E k \in 1..Len(q) : cut[i] = q[k]
    BY <1>5, <1>7, CutAtOrigin
  <2>3. cut = found.queues[Video] /\ Head(cut).key
    BY <2>1, <2>2
  <2> HIDE DEF cut
  <2>4. AllShaped(cut)
    BY <1>5, <2>2 DEF AllShaped
  <2>5. KeyOnly(found.fallback[Video])
    BY <1>10 DEF KeyOnly
  <2> QED BY <1>1, <1>2, <1>3, <1>10, <2>2, <2>3, <2>4, <2>5, PrimaryShown
<1> QED BY <1>8, <1>9, <1>10

\* What is left of the queue is shown, without and with new packets behind.
LEMMA DrainSplice ==
  ASSUME TypeOK, TypeOK', VideoInv, TimelineInv, NEW p, VideoCarrier(p),
         NEW queues \in LaneQueues, state \in Delaying, primaryFallback[Video] # <<>>,
         EmitPrimary(Video, p, NotRealigned(queues, Video, p), "ReturningLive"),
         NEW q, q = queues[Video], Linked(q), AllShaped(q), OneSource(q, "primary"),
         ShownBefore(q, lastOut[Video]), ~drainPrimaryOnReturn' => EndsAt(q, clock'["primary"])
  PROVE  VideoInv' /\ TimelineInv' /\ VideoStep
<1> DEFINE found == NotRealigned(queues, Video, p)
<1>1. found \in Found
  BY NotRealignedType, LanesAreNaturals DEF VideoCarrier, NextOf
<1>2. /\ found.queues[Video] = q /\ ~found.cut
      /\ found.fallback[Video] = primaryFallback[Video]
  BY DEF NotRealigned
<1>3. Shapes /\ KeyOnly(found.fallback[Video])
  BY <1>2 DEF VideoInv, Shapes
<1> HIDE DEF found
<1>4. EmitPrimary(Video, p, found, "ReturningLive")
  BY DEF found
<1> QED BY <1>1, <1>2, <1>3, <1>4, PrimaryShown

\* The RAM limit drains the queue ...
LEMMA LimitDrainSplice ==
  ASSUME TypeOK, TypeOK', VideoInv, TimelineInv, NEW p, VideoCarrier(p), DelayLimitDrain(Video, p)
  PROVE  VideoInv' /\ TimelineInv' /\ VideoStep
<1>1. /\ state = "Delayed" /\ drainPrimaryOnReturn'
      /\ EmitPrimary(Video, p, NotRealigned(primaryQueues, Video, p), "ReturningLive")
  BY DEF DelayLimitDrain
<1>2. /\ state \in Delaying /\ primaryQueues \in LaneQueues /\ primaryFallback[Video] # <<>>
      /\ Linked(primaryQueues[Video]) /\ ShownBefore(primaryQueues[Video], lastOut[Video])
      /\ AllShaped(primaryQueues[Video]) /\ OneSource(primaryQueues[Video], "primary")
  BY <1>1 DEF Delaying, VideoInv, InDelayed, Supplied, Shapes, TypeOK, PrimaryOK
<1> QED BY <1>1, <1>2, DrainSplice

\* ... and a cancelled Delayed goes on with it.
LEMMA ReturnFromDelayedSplice ==
  ASSUME TypeOK, TypeOK', VideoInv, TimelineInv, NEW p, VideoCarrier(p), ReturnFromDelayed(Video, p)
  PROVE  VideoInv' /\ TimelineInv' /\ VideoStep
<1> DEFINE feeds == ~drainPrimaryOnReturn /\ Fits(primaryQueues, p, MaxPrimary)
<1>1. /\ state = "ReturningLive" /\ ~errorReturnPending /\ ~returnFromFilling
      /\ drainPrimaryOnReturn' = ~feeds
      /\ EmitPrimary(Video, p, NotRealigned(IF feeds THEN Buffered(Video, p) ELSE primaryQueues, Video, p),
                     "ReturningLive")
  BY DEF ReturnFromDelayed
<1>2. /\ state \in Delaying /\ primaryQueues \in LaneQueues /\ primaryFallback[Video] # <<>>
      /\ Linked(primaryQueues[Video]) /\ ShownBefore(primaryQueues[Video], lastOut[Video])
      /\ AllShaped(primaryQueues[Video]) /\ OneSource(primaryQueues[Video], "primary")
      /\ ~drainPrimaryOnReturn =>
           Supplied(primaryQueues[Video], "primary", lastOut[Video], clock["primary"])
  BY <1>1 DEF Delaying, VideoInv, InReturn, Shapes, TypeOK, PrimaryOK
<1>3. CASE ~feeds
  <2>1. EmitPrimary(Video, p, NotRealigned(primaryQueues, Video, p), "ReturningLive")
    BY <1>1, <1>3
  <2>2. drainPrimaryOnReturn'
    BY <1>1, <1>3
  <2> QED BY <1>2, <2>1, <2>2, DrainSplice
<1>4. CASE feeds
  <2> DEFINE q == Buffered(Video, p)[Video]
  <2>1. EmitPrimary(Video, p, NotRealigned(Buffered(Video, p), Video, p), "ReturningLive")
    BY <1>1, <1>4
  <2>2. Supplied(primaryQueues[Video], "primary", lastOut[Video], clock["primary"])
    BY <1>2, <1>4
  <2>3. /\ q = Append(primaryQueues[Video], p) /\ AllShaped(q) /\ OneSource(q, "primary")
        /\ Linked(q) /\ EndsAt(q, clock'["primary"])
    BY <2>2, BufferedVideo DEF Supplied, VideoInv
  <2>4. Buffered(Video, p) \in LaneQueues
    BY BufferedType, LanesAreNaturals DEF VideoCarrier, NextOf
  <2>5. ShownBefore(q, lastOut[Video])
    <3>1. NextOf(p, "primary", clock["primary"], clock'["primary"])
      BY DEF VideoCarrier
    <3> HIDE DEF q
    <3> QED BY <2>2, <2>3, <3>1, AppendSupplies, VideoQueueTypes
  <2> HIDE DEF feeds
  <2> QED BY <1>2, <2>1, <2>3, <2>4, <2>5, DrainSplice
<1> QED BY <1>3, <1>4

\* After an error the safe packet, a keyframe, is repeated.
LEMMA ReturnOnFallbackSplice ==
  ASSUME TypeOK, TypeOK', VideoInv, TimelineInv, NEW p, VideoCarrier(p), ReturnOnFallback(Video, p)
  PROVE  VideoInv' /\ TimelineInv' /\ VideoStep
<1> DEFINE nothing == [m \in Lanes |-> <<>>]
           fallback == IF returnFromFilling THEN holdFallback ELSE primaryFallback
           chosen == Choose(nothing, fallback, TRUE, Video, p)
<1>1. /\ state = "ReturningLive" /\ errorReturnPending
      /\ Emit(Video, p, IF returnFromFilling THEN Choose(nothing, holdFallback, Video \notin mismatch, Video, p)
                        ELSE Choose(nothing, primaryFallback, TRUE, Video, p), FALSE)
      /\ UNCHANGED <<controlVars, primaryVars, holdVars>>
  BY DEF ReturnOnFallback
<1>2. /\ fallback \in LaneQueues /\ fallback[Video] # <<>> /\ KeyOnly(fallback[Video])
      /\ returnFromFilling => mismatch = {}
  BY <1>1 DEF VideoInv, InReturn, Shapes, TypeOK, PrimaryOK, HoldOK
<1>3. Emit(Video, p, chosen, FALSE)
  <2>1. CASE returnFromFilling
    <3>1. Choose(nothing, holdFallback, Video \notin mismatch, Video, p) = chosen
      BY <1>2, <2>1 DEF Choose
    <3> QED BY <1>1, <2>1, <3>1
  <2>2. CASE ~returnFromFilling
    BY <1>1, <2>2
  <2> QED BY <2>1, <2>2
<1>4. nothing \in LaneQueues /\ nothing[Video] = <<>> /\ AllShaped(nothing[Video])
  BY LanesAreNaturals DEF LaneQueues, AllShaped
<1> HIDE DEF nothing, fallback
<1>5. /\ chosen.pkt \in Packet /\ Shaped(chosen.pkt)
      /\ chosen.via = "fallback" /\ chosen.pkt.key
  BY <1>2, <1>4, ChosenVideo DEF ChosenFrom
<1> HIDE DEF chosen
<1>6. state \in Delaying /\ state' = "ReturningLive" /\ errorReturnPending'
  BY <1>1 DEF Delaying, controlVars
<1>7. /\ TimelineInv' /\ lastOut'[Video].dts > lastOut[Video].dts
      /\ Carries(lastOut'[Video], chosen.pkt) /\ lastOut'[Video].via = "fallback"
  BY <1>3, <1>5, <1>6, VideoSent
<1>8. VideoInv'
  <2>1. Shapes'
    BY <1>1 DEF VideoInv, Shapes, primaryVars, holdVars
  <2>2. InReturn'
    BY <1>1, <1>6 DEF VideoInv, InReturn, primaryVars, holdVars, controlVars, VideoCarrier
  <2> QED BY <1>6, <2>1, <2>2 DEF VideoInv, InLive, InPreparing, InFilling, InDelayed, LiveStates
<1> QED BY <1>5, <1>6, <1>7, <1>8 DEF VideoStep, Spliced, Presented, ShowsFallback, Carries

\* A video packet of the output.
LEMMA PrimaryVideoSplice ==
  ASSUME TypeOK, TypeOK', ReturnInv, VideoInv, TimelineInv, PrimaryPacket(Video)
  PROVE  VideoInv' /\ TimelineInv' /\ VideoStep
<1>1. Delivers("primary", Video) /\ mismatch' = mismatch
  BY DEF PrimaryPacket, Carrier, frontVars
<1>2. PICK size \in PacketSizes(Video) :
        LET p == Encoded("primary", Video, size)
        IN  \/ PassUntouched(Video, p) \/ PassLive(Video, p) \/ RestoreLive(Video, p) \/ Fill(Video, p)
            \/ StartDelayed(Video, p) \/ Delay(Video, p) \/ DelayLimitLive(Video, p)
            \/ DelayLimitDrain(Video, p) \/ ReturnOnFallback(Video, p)
            \/ ReturnFromFilling(Video, p) \/ ReturnFromDelayed(Video, p)
  BY DEF PrimaryPacket
<1> DEFINE p == Encoded("primary", Video, size)
<1>3. \/ PassUntouched(Video, p) \/ PassLive(Video, p) \/ RestoreLive(Video, p) \/ Fill(Video, p)
      \/ StartDelayed(Video, p) \/ Delay(Video, p) \/ DelayLimitLive(Video, p)
      \/ DelayLimitDrain(Video, p) \/ ReturnOnFallback(Video, p)
      \/ ReturnFromFilling(Video, p) \/ ReturnFromDelayed(Video, p)
  BY <1>2
<1>4. NextOf(p, "primary", clock["primary"], clock'["primary"])
  BY <1>1, VideoDelivered
<1>5. clock'["hold"] = clock["hold"]
  BY <1>1, LaneDelivered, LanesAreNaturals
<1> HIDE DEF p
<1>6. VideoCarrier(p)
  BY <1>1, <1>4, <1>5 DEF VideoCarrier
<1> QED BY <1>3, <1>6, PassUntouchedSplice, PassLiveSplice, RestoreSplice, FillSplice,
           StartDelayedSplice, DelaySplice, LimitDrainSplice, ReturnOnFallbackSplice,
           ReturnFromFillingSplice, ReturnFromDelayedSplice

\* No other step sends anything.
LEMMA OthersSendNothing ==
  ASSUME TypeOK, NEW l \in Lanes,
         \/ \E m \in Lanes : HoldPacket(m) \/ EncoderHole(m)
         \/ \E m \in Lanes : m # l /\ PrimaryPacket(m)
         \/ Frontend \/ Reconnect \/ Activate \/ UNCHANGED vars
  PROVE  ~Emits(l)
<1>1. clock \in [{"primary", "hold"} -> EncoderClock] /\ clock["primary"] \in EncoderClock
  BY DEF TypeOK
<1>2. clock["primary"].seq \in [Lanes -> Nat] /\ clock["primary"].dts \in [Lanes -> Nat]
  BY <1>1 DEF EncoderClock
<1>3. ASSUME NEW m \in Lanes, HoldPacket(m) PROVE ~Emits(l)
  BY <1>3, LaneDelivered DEF HoldPacket, Emits
<1>4. ASSUME NEW m \in Lanes, EncoderHole(m) PROVE ~Emits(l)
  BY <1>1, <1>2, <1>4 DEF EncoderHole, Emits
<1>5. ASSUME NEW m \in Lanes, m # l, PrimaryPacket(m) PROVE ~Emits(l)
  <2>1. PICK left : clock' = [clock EXCEPT !["primary"].dts[m] = @ + 1, !["primary"].seq[m] = @ + 1,
                                           !["primary"].left = left]
    BY <1>5 DEF PrimaryPacket, Carrier, Delivers
  <2> QED BY <1>1, <1>2, <1>5, <2>1 DEF Emits
<1>6. CASE Frontend
  <2>1. clock'["primary"] = clock["primary"]
    <3>1. CASE StartPipeline
      <4>1. PICK fresh : clock' = [clock EXCEPT !["hold"] = fresh]
        BY <3>1 DEF StartPipeline
      <4> QED BY <1>1, <4>1
    <3>2. CASE ~StartPipeline
      BY <1>6, <3>2 DEF Frontend, TakeOldPipeline, RetireOldPipeline, PublishDelay, StartPipelineFails,
         RequestBypass, MaintenanceTake, MaintenanceStop, MaintenanceRetire, TakeRearmRequest
    <3> QED BY <3>1, <3>2
  <2> QED BY <2>1 DEF Emits
<1>7. CASE Reconnect
  BY <1>7 DEF Reconnect, Emits
<1>8. CASE Activate
  BY <1>1, <1>8 DEF Activate, EncoderClock, Emits
<1>9. CASE UNCHANGED vars
  BY <1>9 DEF vars, Emits
<1> QED BY <1>3, <1>4, <1>5, <1>6, <1>7, <1>8, <1>9

\* The three demands on a step, one lane or all of them: the splices, the DTS, the PTS.
SplicedStep == (Emits(Video) /\ ~LeavingFilling) =>
                 lastOut'[Video].key \/ Follows(lastOut[Video], lastOut'[Video])

AscendingStep == \A l \in Lanes : Emits(l) => lastOut'[l].dts > lastOut[l].dts

PresentedStep == (Emits(Video) /\ lastOut'[Video].key /\ ~LeavingFilling /\ ~ShowsFallback)
                   => lastOut'[Video].pts > peakPts

StepsOrdered == SplicedStep /\ AscendingStep /\ PresentedStep

\* Every step keeps the queues in line with what is shown, and shows no more than that.
LEMMA SplicesInductive ==
  TypeOK /\ TypeOK' /\ PrerollInv /\ ReturnInv /\ VideoInv /\ TimelineInv /\ [Next]_vars
    => VideoInv' /\ TimelineInv' /\ StepsOrdered
<1> SUFFICES ASSUME TypeOK, TypeOK', PrerollInv, ReturnInv, VideoInv, TimelineInv, [Next]_vars
             PROVE  VideoInv' /\ TimelineInv' /\ StepsOrdered
  OBVIOUS
<1>0. Video \in Lanes
  BY LanesAreNaturals
<1>1. ASSUME NEW m \in Lanes, PrimaryPacket(m) PROVE VideoInv' /\ TimelineInv' /\ StepsOrdered
  <2>1. \A l \in Lanes : l # m => ~Emits(l)
    BY <1>1, OthersSendNothing
  <2>2. CASE m = Video
    <3>1. VideoInv' /\ TimelineInv' /\ VideoStep
      BY <1>1, <2>2, PrimaryVideoSplice
    <3> QED BY <2>1, <2>2, <3>1 DEF StepsOrdered, SplicedStep, AscendingStep, PresentedStep,
                                    VideoStep, Spliced, Presented
  <2>3. CASE m # Video
    <3>1. VideoInv' /\ TimelineInv' /\ lastOut'[m].dts > lastOut[m].dts
      BY <1>1, <2>3, PrimaryAudioSplice
    <3> QED BY <1>0, <2>1, <2>3, <3>1 DEF StepsOrdered, SplicedStep, AscendingStep, PresentedStep
  <2> QED BY <2>2, <2>3
<1>2. ASSUME VideoInv', TimelineInv', \A l \in Lanes : ~Emits(l)
      PROVE  VideoInv' /\ TimelineInv' /\ StepsOrdered
  BY <1>0, <1>2 DEF StepsOrdered, SplicedStep, AscendingStep, PresentedStep
<1>3. ASSUME NEW m \in Lanes, HoldPacket(m) PROVE VideoInv' /\ TimelineInv' /\ StepsOrdered
  BY <1>2, <1>3, HoldPacketSplice, OthersSendNothing
<1>4. CASE Frontend
  BY <1>2, <1>4, FrontendSplice, OthersSendNothing
<1>5. CASE Reconnect
  BY <1>2, <1>5, ReconnectSplice, OthersSendNothing
<1>6. CASE Activate
  BY <1>2, <1>6, ActivateSplice, OthersSendNothing
<1>7. ASSUME NEW m \in Lanes, EncoderHole(m) PROVE VideoInv' /\ TimelineInv' /\ StepsOrdered
  BY <1>2, <1>7, EncoderHoleSplice, OthersSendNothing
<1>8. CASE UNCHANGED vars
  <2>1. VideoInv' /\ TimelineInv'
    <3>1. ControlMoves
      BY <1>8 DEF vars, ControlMoves, controlVars
    <3> QED BY <1>8, <3>1, QuietSplice DEF vars, primaryVars, holdVars, frontVars
  <2> QED BY <1>2, <1>8, <2>1, OthersSendNothing
<1> QED BY <1>1, <1>3, <1>4, <1>5, <1>6, <1>7, <1>8 DEF Next

\* At the start nothing is queued and nothing was sent.
LEMMA InitSplices == Init => VideoInv /\ TimelineInv
<1> SUFFICES ASSUME Init PROVE VideoInv /\ TimelineInv
  OBVIOUS
<1>1. /\ state = "Bypass" /\ offset = 0 /\ maxPts = -1 /\ peakPts = -1
      /\ Video \in Lanes
      /\ \A q \in {primaryQueues[Video], holdQueues[Video], primaryFallback[Video], holdFallback[Video]} :
           q = <<>>
      /\ clock["primary"].left = 0 /\ \A l \in Lanes : clock["primary"].dts[l] = 0
      /\ \A l \in Lanes : lastOut[l].dts = -1
  BY LanesAreNaturals DEF Init, NoPackets, NoDts, StartOfEncoder
<1>2. VideoInv
  <2>1. Shapes
    <3>1. AllShaped(<<>>) /\ KeyOnly(<<>>) /\ \A src : OneSource(<<>>, src)
      BY DEF AllShaped, KeyOnly, OneSource
    <3> QED BY <1>1, <3>1 DEF Shapes
  <2>2. InLive
    BY <1>1 DEF InLive, NoDts
  <2>3. InPreparing /\ InFilling /\ InDelayed /\ InReturn
    BY <1>1 DEF InPreparing, InFilling, InDelayed, InReturn
  <2> QED BY <2>1, <2>2, <2>3 DEF VideoInv
<1>3. TimelineInv
  <2>1. LanesAscend
    BY <1>1 DEF LanesAscend
  <2>2. Reach(lastOut[Video]) \in {0, 1, 2}
    BY DEF Reach
  <2>3. VideoTimeline
    BY <1>1, <2>2 DEF VideoTimeline
  <2> QED BY <2>1, <2>3 DEF TimelineInv
<1> QED BY <1>2, <1>3

\* While no return is under way, no error is pending, and a generation that starts is live
\* or preparing.
LEMMA ReturnInvariant == Spec => []ReturnInv
<1>1. Init => ReturnInv
  BY DEF Init, ReturnInv
<1>2. TypeOK /\ IControl /\ PrerollInv /\ ReturnInv /\ [Next]_vars => ReturnInv'
  BY StepsSeen
<1> QED BY <1>1, <1>2, TypeCorrect, ControlInvariant, PrerollInvariant, PTL DEF Spec

\* In every behaviour the steps are ordered.
LEMMA SplicesInvariant == Spec => [](VideoInv /\ TimelineInv) /\ [][StepsOrdered]_vars
BY InitSplices, SplicesInductive, TypeCorrect, PrerollInvariant, ReturnInvariant, PTL DEF Spec

\* Video is spliced on keyframes only, but for the one exception the code makes: through
\* every overflow, hole, reconnection and cancelled delay, a P or B frame is sent right
\* after the frame that precedes it in its GOP.
THEOREM SplicesDecodable == Spec => SplicesOnKeyframesOtherwise
<1>1. StepsOrdered => SplicedStep
  BY DEF StepsOrdered
<1> QED BY <1>1, SplicesInvariant, PTL DEF SplicesOnKeyframesOtherwise, SplicedStep

\* The timestamps of every lane ascend through every splice, and a keyframe is presented
\* after all that was sent before it.
THEOREM TimestampsInOrder == Spec => TimestampsAscend
<1>1. StepsOrdered => AscendingStep /\ PresentedStep
  BY DEF StepsOrdered
<1> QED BY <1>1, SplicesInvariant, PTL DEF TimestampsAscend, IncreasingDts, KeyframesPresentedLast,
           AscendingStep, PresentedStep

----------------------------------------------------------------------------
(* Encoders without holes.  The queues then are a delay line: between two  *)
(* packets of an encoder no time is lost, the lanes keep in step, and what *)
(* is queued is exactly what the encoder delivered last.                   *)

\* q holds the last n packets of a lane whose encoder is at this DTS and number.
LastOf(q, dts, seq, n) ==
  /\ Len(q) = n
  /\ \A i \in 1..Len(q) : q[i].dts = dts - n + i - 1 /\ q[i].seq = seq - n + i - 1

\* By how much the video encoder is ahead of a lane.
Behind(l) == clock["primary"].dts[Video] - clock["primary"].dts[l]

\* The encoders take turns.
Interleaved == \A a \in AudioTracks : Behind(a) \in {0, 1}

AudioQueued ==
  \A a \in AudioTracks : \A i \in 1..Len(primaryQueues[a]) :
    primaryQueues[a][i].key /\ primaryQueues[a][i].src = "primary"

\* What stands in for the audio as long as the hold encoder is shown.
HoldStandsIn ==
  \A a \in AudioTracks :
    /\ OneSource(holdQueues[a], "hold")
    /\ holdQueues[a] # <<>> => holdFallback[a] # <<>>
    /\ state = "Filling" \/ (state = "ReturningLive" /\ returnFromFilling) => holdFallback[a] # <<>>

NoHoleSeen ==
  state \in {"Preparing", "Filling", "Delayed"} =>
    /\ ~realignmentPending
    /\ \A l \in Lanes : lastPrimary[l] \in {NoDts, clock["primary"].dts[l] - 1}

NothingPrepared == state = "Preparing" => \A l \in Lanes : primaryQueues[l] = <<>>

\* While filling, all since the beginning is queued, for no longer than the target.
FillingSteadily ==
  state = "Filling" =>
    /\ fillStart < clock["primary"].dts[Video] /\ clock["primary"].dts[Video] <= fillStart + Target
    /\ Head(primaryQueues[Video]).key
    /\ \A l \in Lanes :
         /\ fillStart <= clock["primary"].dts[l]
         /\ LastOf(primaryQueues[l], clock["primary"].dts[l], clock["primary"].seq[l],
                   clock["primary"].dts[l] - fillStart)
    /\ \A a \in AudioTracks : primaryQueues[a] # <<>> => lastOut[a].src = "hold"

\* While delayed, exactly the target is queued, and what was sent last precedes it.
DelayedSteadily ==
  state = "Delayed" =>
    \A l \in Lanes :
      /\ LastOf(primaryQueues[l], clock["primary"].dts[l], clock["primary"].seq[l], Target)
      /\ lastSource[l] \in {NoDts, clock["primary"].dts[l] - Target - 1}
      /\ lastOut[l].src = "primary" /\ lastOut[l].via = "queue"
           => lastOut[l].seq + 1 = clock["primary"].seq[l] - Target

\* Audio has a packet to repeat once it had its turn in the delayed branch; as long as one
\* lane waits for that, the others have packets too.
FirstRound ==
  state = "Delayed" \/ (state = "ReturningLive" /\ ~returnFromFilling) =>
    \A b \in AudioTracks :
      primaryFallback[b] = <<>> =>
        /\ ~errorReturnPending /\ Behind(b) = 1
        /\ \A a \in AudioTracks : Behind(a) = 1 => primaryQueues[a] # <<>>

Steady ==
  /\ Interleaved /\ AudioQueued /\ HoldStandsIn /\ NoHoleSeen /\ NothingPrepared
  /\ FillingSteadily /\ DelayedSteadily /\ FirstRound

\* A packet behind them, and one taken from them.
LEMMA LastAppend ==
  ASSUME NEW q \in Seq(Packet), NEW p \in Packet, NEW n \in Nat, LastOf(q, p.dts, p.seq, n)
  PROVE  /\ LastOf(Append(q, p), p.dts + 1, p.seq + 1, n + 1)
         /\ Append(q, p) \in Seq(Packet) /\ Append(q, p) # <<>>
<1> DEFINE r == Append(q, p)
<1>1. /\ r \in Seq(Packet) /\ Len(r) = Len(q) + 1 /\ Len(q) \in Nat /\ r # <<>>
      /\ r[Len(q) + 1] = p /\ \A i \in 1..Len(q) : r[i] = q[i]
  OBVIOUS
<1>2. p.dts \in Nat /\ p.seq \in Nat /\ Len(q) = n
  BY DEF Packet, LastOf
<1>3. ASSUME NEW i \in 1..Len(r)
      PROVE  /\ r[i].dts = (p.dts + 1) - (n + 1) + i - 1
             /\ r[i].seq = (p.seq + 1) - (n + 1) + i - 1
  <2>1. CASE i = Len(q) + 1
    BY <1>1, <1>2, <2>1
  <2>2. CASE i \in 1..Len(q)
    <3>1. q[i].dts = p.dts - n + i - 1 /\ q[i].seq = p.seq - n + i - 1
      BY <2>2 DEF LastOf
    <3> QED BY <1>1, <1>2, <2>2, <3>1
  <2> QED BY <1>1, <2>1, <2>2
<1> HIDE DEF r
<1>4. Len(r) = n + 1
  BY <1>1, <1>2
<1>5. LastOf(r, p.dts + 1, p.seq + 1, n + 1)
  BY <1>3, <1>4 DEF LastOf
<1> QED BY <1>1, <1>5 DEF r

\* The oldest of them is taken.
LEMMA LastTail ==
  ASSUME NEW q \in Seq(Packet), NEW dts \in Nat, NEW seq \in Nat, NEW n \in Nat \ {0},
         LastOf(q, dts, seq, n)
  PROVE  /\ q # <<>> /\ Tail(q) \in Seq(Packet)
         /\ LastOf(Tail(q), dts, seq, n - 1)
         /\ Head(q).dts = dts - n /\ Head(q).seq = seq - n
<1>1. Len(q) = n /\ q # <<>>
  BY DEF LastOf
<1>2. /\ Tail(q) \in Seq(Packet) /\ Len(Tail(q)) = n - 1 /\ Head(q) = q[1]
      /\ \A i \in 1..Len(Tail(q)) : i + 1 \in 1..Len(q) /\ Tail(q)[i] = q[i + 1]
  BY <1>1
<1>3. \A i \in 1..Len(q) : q[i].dts = dts - n + i - 1 /\ q[i].seq = seq - n + i - 1
  BY DEF LastOf
<1>4. ASSUME NEW i \in 1..Len(Tail(q))
      PROVE  Tail(q)[i].dts = dts - (n - 1) + i - 1 /\ Tail(q)[i].seq = seq - (n - 1) + i - 1
  BY <1>2, <1>3
<1>5. q[1].dts = dts - n /\ q[1].seq = seq - n
  BY <1>1, <1>3
<1> QED BY <1>1, <1>2, <1>4, <1>5 DEF LastOf

\* What a lane gets when it is its turn.
Arrives(l, p) ==
  /\ p \in Packet /\ p.src = "primary" /\ (l # Video => p.key)
  /\ p.seq = clock["primary"].seq[l] /\ p.dts = clock["primary"].dts[l]
  /\ \A m \in Lanes :
       /\ clock'["primary"].dts[m] = IF m = l THEN p.dts + 1 ELSE clock["primary"].dts[m]
       /\ clock'["primary"].seq[m] = IF m = l THEN p.seq + 1 ELSE clock["primary"].seq[m]
  /\ IF l = Video THEN \A a \in AudioTracks : Behind(a) = 0 ELSE Behind(l) = 1

\* The types of the lanes.
LEMMA LaneTypes ==
  ASSUME TypeOK, NEW l \in Lanes
  PROVE  /\ clock["primary"].dts[l] \in Nat /\ clock["primary"].seq[l] \in Nat
         /\ primaryQueues[l] \in Seq(Packet) /\ holdQueues[l] \in Seq(Packet)
         /\ primaryFallback[l] \in Seq(Packet) /\ holdFallback[l] \in Seq(Packet)
         /\ lastOut[l] \in EmittedPacket /\ lastSource[l] \in Int /\ lastPrimary[l] \in Int
BY EmittedTypes DEF TypeOK, PrimaryOK, HoldOK, OutOK, CadenceOK, LaneQueues

\* Audio is behind the video when it has its turn, and up to it when the video has.
LEMMA TurnsTaken ==
  ASSUME TypeOK, Interleaved, NEW l \in Lanes, NEW size \in PacketSizes(l), Delivers("primary", l)
  PROVE  Arrives(l, Encoded("primary", l, size)) /\ Interleaved'
<1> DEFINE p == Encoded("primary", l, size)
<1>1. clock \in [{"primary", "hold"} -> EncoderClock] /\ clock["primary"] \in EncoderClock
  BY DEF TypeOK
<1>2. clock["primary"].seq \in [Lanes -> Nat] /\ clock["primary"].dts \in [Lanes -> Nat]
  BY <1>1 DEF EncoderClock
<1>3. PICK left : clock' = [clock EXCEPT !["primary"].dts[l] = @ + 1, !["primary"].seq[l] = @ + 1,
                                         !["primary"].left = left]
  BY DEF Delivers
<1>4. /\ p.src = "primary" /\ (l # Video => p.key)
      /\ p.seq = clock["primary"].seq[l] /\ p.dts = clock["primary"].dts[l]
  BY DEF Encoded
<1>5. p \in Packet
  BY EncodedType
<1> HIDE DEF p
<1>6. \A m \in Lanes :
       /\ clock'["primary"].dts[m] = IF m = l THEN p.dts + 1 ELSE clock["primary"].dts[m]
       /\ clock'["primary"].seq[m] = IF m = l THEN p.seq + 1 ELSE clock["primary"].seq[m]
  BY <1>1, <1>2, <1>3, <1>4
<1>7. \A m \in Lanes : LET ahead == clock["primary"].dts[m] - clock["primary"].dts[l]
                       IN  ahead > 0 \/ (ahead = 0 /\ l <= m)
  BY DEF Delivers
<1>8. Video \in Lanes /\ AudioTracks \subseteq Lanes /\ l \in Nat
      /\ \A a \in AudioTracks : a \in Nat /\ a # Video
  BY LanesAreNaturals, SessionAssumption DEF Lanes, Video
<1>9. IF l = Video THEN \A a \in AudioTracks : Behind(a) = 0 ELSE Behind(l) = 1
  <2>1. CASE l = Video
    <3>1. ASSUME NEW a \in AudioTracks PROVE Behind(a) = 0
      <4>1. clock["primary"].dts[a] >= clock["primary"].dts[Video]
        BY <1>2, <1>7, <1>8, <2>1
      <4> QED BY <1>2, <1>8, <4>1 DEF Interleaved, Behind
    <3> QED BY <2>1, <3>1
  <2>2. CASE l # Video
    <3>1. l \in AudioTracks /\ ~(l <= Video)
      BY <1>8, <2>2 DEF Lanes, Video
    <3>2. clock["primary"].dts[Video] > clock["primary"].dts[l]
      BY <1>2, <1>7, <1>8, <3>1
    <3> QED BY <1>2, <1>8, <2>2, <3>1, <3>2 DEF Interleaved, Behind
  <2> QED BY <2>1, <2>2
<1>10. ASSUME NEW a \in AudioTracks PROVE Behind(a)' \in {0, 1}
  <2>1. /\ clock["primary"].dts[a] \in Nat /\ clock["primary"].dts[Video] \in Nat
        /\ Behind(a) \in {0, 1}
    BY <1>2, <1>8 DEF Interleaved
  <2>2. CASE l = Video
    BY <1>4, <1>6, <1>8, <1>9, <2>1, <2>2 DEF Behind
  <2>3. CASE l # Video
    <3>1. CASE a = l
      BY <1>4, <1>6, <1>8, <1>9, <2>1, <2>3, <3>1 DEF Behind
    <3>2. CASE a # l
      BY <1>6, <1>8, <2>1, <2>3, <3>2 DEF Behind
    <3> QED BY <3>1, <3>2
  <2> QED BY <2>2, <2>3
<1> QED BY <1>4, <1>5, <1>6, <1>9, <1>10 DEF Arrives, Interleaved, p

\* What leaves a lane is what was chosen for it.
LEMMA SentAs ==
  ASSUME TypeOK, NEW l \in Lanes, NEW p, NEW chosen, NEW epoch, Emit(l, p, chosen, epoch)
  PROVE  /\ lastOut'[l].via = chosen.via /\ lastOut'[l].src = chosen.pkt.src
         /\ lastOut'[l].seq = chosen.pkt.seq /\ lastOut'[l].age = p.dts - chosen.pkt.dts
         /\ \A m \in Lanes : m # l => lastOut'[m] = lastOut[m]
<1>1. lastOut \in [Lanes -> EmittedPacket]
  BY DEF TypeOK, OutOK
<1> QED BY <1>1 DEF Emit

\* As long as it has a packet to repeat, the hold encoder is shown.
LEMMA HoldSent ==
  ASSUME TypeOK, NEW l \in Lanes, NEW p \in Packet, NEW epoch \in BOOLEAN, NEW strict \in BOOLEAN,
         NEW next, EmitHold(l, p, epoch, strict, next), l \notin mismatch, holdFallback[l] # <<>>
  PROVE  /\ lastOut'[l].via \in {"queue", "fallback"}
         /\ lastOut'[l].via = "queue" =>
              holdQueues[l] # <<>> /\ lastOut'[l].src = Head(holdQueues[l]).src
         /\ \A m \in Lanes :
              /\ m # l => lastOut'[m] = lastOut[m]
              /\ \/ holdQueues'[m] = holdQueues[m]
                 \/ holdQueues[m] # <<>> /\ holdQueues'[m] = Tail(holdQueues[m])
         /\ holdFallback' = holdFallback
         /\ \/ /\ state' = next /\ (strict => lastOut'[l].via = "queue")
               /\ returnFromFilling' = (returnFromFilling \/ next = "ReturningLive")
               /\ errorReturnPending' = errorReturnPending
            \/ state' = "ReturningLive" /\ returnFromFilling'
<1> DEFINE chosen == Choose(holdQueues, holdFallback, l \notin mismatch, l, p)
<1>1. /\ chosen.via \in {"queue", "fallback"}
      /\ chosen.via = "queue" => holdQueues[l] # <<>> /\ chosen.pkt = Head(holdQueues[l])
  BY DEF Choose
<1>2. /\ holdQueues' = TakeHead(holdQueues, l, chosen)
      /\ Emit(l, p, chosen, epoch \/ (strict /\ chosen.via = "fallback"))
      /\ IF chosen.via = "live" \/ (strict /\ chosen.via = "fallback")
         THEN ReturnLiveWithError(TRUE)
         ELSE /\ state' = next
              /\ returnFromFilling' = (returnFromFilling \/ next = "ReturningLive")
              /\ UNCHANGED errorReturnPending
      /\ UNCHANGED holdFallback
  BY DEF EmitHold
<1> HIDE DEF chosen
<1>3. /\ lastOut'[l].via = chosen.via /\ lastOut'[l].src = chosen.pkt.src
      /\ \A m \in Lanes : m # l => lastOut'[m] = lastOut[m]
  BY <1>2, SentAs
<1>4. ASSUME NEW m \in Lanes
      PROVE  \/ holdQueues'[m] = holdQueues[m]
             \/ holdQueues[m] # <<>> /\ holdQueues'[m] = Tail(holdQueues[m])
  <2>1. holdQueues \in [Lanes -> Seq(Packet)]
    BY DEF TypeOK, HoldOK, LaneQueues
  <2> QED BY <1>1, <1>2, <2>1 DEF TakeHead
<1>5. \/ /\ state' = next /\ (strict => chosen.via = "queue")
         /\ returnFromFilling' = (returnFromFilling \/ next = "ReturningLive")
         /\ errorReturnPending' = errorReturnPending
      \/ state' = "ReturningLive" /\ returnFromFilling'
  BY <1>1, <1>2 DEF ReturnLiveWithError
<1> QED BY <1>1, <1>2, <1>3, <1>4, <1>5

\* The primary queue is shown as long as it has packets, and then the packet to repeat.
LEMMA PrimarySent ==
  ASSUME TypeOK, NEW l \in Lanes, NEW p \in Packet, NEW found \in Found, NEW next,
         EmitPrimary(l, p, found, next), found.queues[l] # <<>> \/ found.fallback[l] # <<>>
  PROVE  /\ \A m \in Lanes : m # l =>
              /\ lastOut'[m] = lastOut[m] /\ primaryQueues'[m] = found.queues[m]
              /\ primaryFallback'[m] = found.fallback[m] /\ lastSource'[m] = found.sources[m]
         /\ found.queues[l] # <<>> =>
              /\ lastOut'[l].via = "queue" /\ lastOut'[l].src = Head(found.queues[l]).src
              /\ lastOut'[l].seq = Head(found.queues[l]).seq
              /\ lastOut'[l].age = p.dts - Head(found.queues[l]).dts
              /\ primaryQueues'[l] = Tail(found.queues[l])
              /\ Head(found.queues[l]).key => primaryFallback'[l] # <<>>
              /\ lastSource'[l] = Head(found.queues[l]).dts
              /\ realignmentPending'
                   = (found.pending \/ Hole(found.sources[l], Head(found.queues[l]).dts))
              /\ state' = next /\ errorReturnPending' = errorReturnPending
         /\ found.queues[l] = <<>> =>
              /\ lastOut'[l].via = "fallback"
              /\ primaryQueues'[l] = <<>> /\ primaryFallback'[l] = found.fallback[l]
              /\ state' = "ReturningLive"
         /\ state' = "ReturningLive" /\ next # "Delayed" => ~returnFromFilling'
         /\ UNCHANGED <<holdVars, fillStart>>
<1> DEFINE chosen == Choose(found.queues, found.fallback, TRUE, l, p)
<1>0. /\ found.queues \in [Lanes -> Seq(Packet)] /\ found.fallback \in [Lanes -> Seq(Packet)]
      /\ found.sources \in [Lanes -> Int]
  BY FoundFields DEF LaneQueues
<1>1. /\ found.queues[l] # <<>> => chosen.via = "queue" /\ chosen.pkt = Head(found.queues[l])
      /\ found.queues[l] = <<>> => chosen.via = "fallback"
  BY DEF Choose
<1>2. /\ TakePrimary(l, chosen, found.queues, found.fallback, found.sources, found.pending)
      /\ Emit(l, p, chosen, found.cut \/ chosen.via = "fallback")
      /\ state' = IF chosen.via = "queue" THEN next ELSE "ReturningLive"
      /\ errorReturnPending' = (errorReturnPending \/ ~(chosen.via = "queue"))
      /\ returnFromFilling' = (returnFromFilling /\ chosen.via = "queue" /\ next = "Delayed")
      /\ UNCHANGED <<holdVars, fillStart>>
  BY DEF EmitPrimary
<1> HIDE DEF chosen
<1>3. /\ lastOut'[l].via = chosen.via /\ lastOut'[l].src = chosen.pkt.src
      /\ lastOut'[l].seq = chosen.pkt.seq /\ lastOut'[l].age = p.dts - chosen.pkt.dts
      /\ \A m \in Lanes : m # l => lastOut'[m] = lastOut[m]
  BY <1>2, SentAs
<1>4. /\ primaryQueues' = TakeHead(found.queues, l, chosen)
      /\ primaryFallback' = IF chosen.via = "queue" /\ chosen.pkt.key
                            THEN [found.fallback EXCEPT ![l] = <<chosen.pkt>>] ELSE found.fallback
      /\ lastSource' = [found.sources EXCEPT ![l] = chosen.pkt.dts]
      /\ realignmentPending' = (found.pending \/ Hole(found.sources[l], chosen.pkt.dts))
  BY <1>1, <1>2 DEF TakePrimary
<1>5. /\ \A m \in Lanes : m # l => primaryQueues'[m] = found.queues[m]
      /\ chosen.via = "queue" => primaryQueues'[l] = Tail(found.queues[l])
      /\ chosen.via # "queue" => primaryQueues'[l] = found.queues[l]
  BY <1>0, <1>4 DEF TakeHead
<1>6. /\ \A m \in Lanes : m # l => primaryFallback'[m] = found.fallback[m]
      /\ chosen.via = "queue" /\ chosen.pkt.key => primaryFallback'[l] # <<>>
      /\ chosen.via # "queue" => primaryFallback'[l] = found.fallback[l]
  BY <1>0, <1>4
<1>7. /\ \A m \in Lanes : m # l => lastSource'[m] = found.sources[m]
      /\ lastSource'[l] = chosen.pkt.dts
  BY <1>0, <1>4
<1>8. errorReturnPending \in BOOLEAN /\ returnFromFilling \in BOOLEAN
  BY DEF TypeOK, ControlOK
<1> QED BY <1>1, <1>2, <1>3, <1>4, <1>5, <1>6, <1>7, <1>8

\* What a lane sends: never the present once the delay has begun, from then on what the
\* target asks for, and nothing twice or left out.
SteadySends(l) ==
  /\ state' \in Delaying => lastOut'[l].via # "live"
  /\ state' = "Delayed" => lastOut'[l].age - Target \in IF l = Video THEN {0} ELSE -1..1
  /\ (state = "Delayed" /\ lastOut[l].src = "primary" /\ lastOut[l].via = "queue"
      /\ lastOut'[l].via = "queue") => Follows(lastOut[l], lastOut'[l])

\* A session that is live needs no more than what other threads left in its queues.
LEMMA SteadyLive ==
  ASSUME state' \in LiveStates, Interleaved', AudioQueued', HoldStandsIn'
  PROVE  Steady'
BY DEF Steady, LiveStates, NoHoleSeen, NothingPrepared, FillingSteadily, DelayedSteadily, FirstRound

\* The queues of the other encoder, and the lanes' own, do not move.
LEMMA QueuesSame ==
  ASSUME AudioQueued, HoldStandsIn
  PROVE  /\ UNCHANGED primaryVars => AudioQueued'
         /\ UNCHANGED <<holdQueues, holdFallback>> /\ state' \notin {"Filling", "ReturningLive"}
              => HoldStandsIn'
BY DEF AudioQueued, HoldStandsIn, primaryVars

\* Packets that follow each other without a hole show none.
LEMMA CadenceKept ==
  ASSUME TypeOK, Steady, state \in {"Preparing", "Filling", "Delayed"},
         NEW l \in Lanes, NEW p, Arrives(l, p), Observed(l, p)
  PROVE  /\ ~HoleSeen(l, p)
         /\ \A m \in Lanes : lastPrimary'[m] \in {NoDts, clock'["primary"].dts[m] - 1}
<1>1. /\ ~realignmentPending
      /\ \A m \in Lanes : lastPrimary[m] \in {NoDts, clock["primary"].dts[m] - 1}
  BY DEF Steady, NoHoleSeen
<1>2. /\ p.dts = clock["primary"].dts[l] /\ p.dts \in Nat
      /\ \A m \in Lanes :
           clock'["primary"].dts[m] = IF m = l THEN p.dts + 1 ELSE clock["primary"].dts[m]
  BY DEF Arrives, Packet
<1>3. ~HoleSeen(l, p)
  BY <1>1, <1>2 DEF HoleSeen, Hole
<1>4. lastPrimary' = [lastPrimary EXCEPT ![l] = p.dts] /\ lastPrimary \in [Lanes -> Int]
  BY DEF Observed, TypeOK, CadenceOK
<1>5. ASSUME NEW m \in Lanes
      PROVE  lastPrimary'[m] \in {NoDts, clock'["primary"].dts[m] - 1}
  BY <1>1, <1>2, <1>4
<1> QED BY <1>3, <1>5

\* Packets that pass, and those that end the delay at once.
LEMMA LivePacketSteady ==
  ASSUME TypeOK, TypeOK', Steady, NEW l \in Lanes, NEW p \in Packet, Arrives(l, p), Interleaved',
         PassUntouched(l, p) \/ RestoreLive(l, p) \/ DelayLimitLive(l, p)
  PROVE  Steady' /\ SteadySends(l)
<1>1. /\ state' \in LiveStates
      /\ UNCHANGED primaryVars /\ UNCHANGED <<holdQueues, holdFallback>>
      /\ state = "Delayed" => lastOut'[l].via = "live"
  <2>1. CASE PassUntouched(l, p)
    BY <2>1 DEF PassUntouched, controlVars, holdVars, LiveStates
  <2>2. CASE RestoreLive(l, p)
    BY <2>2 DEF RestoreLive, holdVars, LiveStates
  <2>3. CASE DelayLimitLive(l, p)
    <3>1. Emit(l, p, LivePacket(p), TRUE) /\ LivePacket(p).via = "live"
      BY <2>3 DEF DelayLimitLive, LivePacket
    <3> QED BY <2>3, <3>1, SentAs DEF DelayLimitLive, holdVars, LiveStates
  <2> QED BY <2>1, <2>2, <2>3
<1>2. AudioQueued' /\ HoldStandsIn'
  BY <1>1, QueuesSame DEF Steady, LiveStates
<1>3. Steady'
  BY <1>1, <1>2, SteadyLive
<1>4. SteadySends(l)
  BY <1>1 DEF SteadySends, Delaying, LiveStates
<1> QED BY <1>3, <1>4

\* So it is until the delay begins.
LEMMA PassLiveSteady ==
  ASSUME TypeOK, TypeOK', Steady, NEW l \in Lanes, NEW p \in Packet, Arrives(l, p), Interleaved',
         PassLive(l, p)
  PROVE  Steady' /\ SteadySends(l)
<1>1. /\ state' = state /\ state \in LiveStates \cup {"Preparing"}
      /\ UNCHANGED primaryVars /\ UNCHANGED <<holdQueues, holdFallback>>
      /\ Observed(l, p) /\ realignmentPending' = HoleSeen(l, p)
  BY DEF PassLive, controlVars, holdVars
<1>2. AudioQueued' /\ HoldStandsIn'
  BY <1>1, QueuesSame DEF Steady, LiveStates
<1>3. SteadySends(l)
  BY <1>1 DEF SteadySends, Delaying, LiveStates
<1>4. CASE state \in LiveStates
  BY <1>1, <1>2, <1>3, <1>4, SteadyLive
<1>5. CASE state = "Preparing"
  <2>1. NoHoleSeen'
    BY <1>1, <1>5, CadenceKept DEF NoHoleSeen
  <2>2. NothingPrepared'
    BY <1>1, <1>5 DEF Steady, NothingPrepared, primaryVars
  <2> QED BY <1>1, <1>2, <1>3, <1>5, <2>1, <2>2
          DEF Steady, FillingSteadily, DelayedSteadily, FirstRound
<1> QED BY <1>1, <1>4, <1>5

\* What was taken from the hold queues is no longer there; what it can be replaced by is.
LEMMA StandsInKept ==
  ASSUME TypeOK, HoldStandsIn, UNCHANGED holdFallback,
         \A m \in Lanes : \/ holdQueues'[m] = holdQueues[m]
                          \/ holdQueues[m] # <<>> /\ holdQueues'[m] = Tail(holdQueues[m]),
         state' = "Filling" \/ (state' = "ReturningLive" /\ returnFromFilling')
           => \A a \in AudioTracks : holdFallback[a] # <<>>
  PROVE  HoldStandsIn'
<1> SUFFICES ASSUME NEW a \in AudioTracks
             PROVE  OneSource(holdQueues'[a], "hold") /\ (holdQueues'[a] # <<>> => holdFallback[a] # <<>>)
  BY DEF HoldStandsIn
<1>1. /\ OneSource(holdQueues[a], "hold") /\ (holdQueues[a] # <<>> => holdFallback[a] # <<>>)
      /\ holdQueues[a] \in Seq(Packet) /\ a \in Lanes
  BY HoldQueueTypes DEF HoldStandsIn, Lanes
<1>2. CASE holdQueues'[a] = holdQueues[a]
  BY <1>1, <1>2
<1>3. CASE holdQueues[a] # <<>> /\ holdQueues'[a] = Tail(holdQueues[a])
  <2>1. OneSource(Tail(holdQueues[a]), "hold")
    BY <1>1, <1>3 DEF OneSource
  <2> QED BY <1>1, <1>3, <2>1
<1> QED BY <1>1, <1>2, <1>3

\* On an error, the packet that is repeated is there.
LEMMA ReturnOnFallbackSteady ==
  ASSUME TypeOK, TypeOK', VideoInv, Steady, NEW l \in Lanes, NEW p \in Packet, Arrives(l, p),
         Interleaved', ReturnOnFallback(l, p)
  PROVE  Steady' /\ SteadySends(l)
<1> DEFINE nothing == [m \in Lanes |-> <<>>]
           chosen == IF returnFromFilling THEN Choose(nothing, holdFallback, l \notin mismatch, l, p)
                     ELSE Choose(nothing, primaryFallback, TRUE, l, p)
<1>1. /\ state = "ReturningLive" /\ errorReturnPending /\ Emit(l, p, chosen, FALSE)
      /\ UNCHANGED <<state, returnFromFilling, errorReturnPending>> /\ UNCHANGED primaryVars
      /\ UNCHANGED <<primaryQueues, primaryFallback, holdQueues, holdFallback>>
  BY DEF ReturnOnFallback, controlVars, primaryVars, holdVars
<1>2. nothing[l] = <<>>
  OBVIOUS
<1>3. l = Video \/ l \in AudioTracks
  BY DEF Lanes
<1>4. ~returnFromFilling => \A b \in AudioTracks : primaryFallback[b] # <<>>
  BY <1>1 DEF Steady, FirstRound
<1>5. chosen.via = "fallback"
  <2>1. CASE returnFromFilling
    <3>1. holdFallback[l] # <<>> /\ mismatch = {}
      BY <1>1, <1>3, <2>1 DEF VideoInv, InReturn, Steady, HoldStandsIn
    <3> QED BY <1>2, <2>1, <3>1 DEF Choose
  <2>2. CASE ~returnFromFilling
    <3>1. primaryFallback[l] # <<>>
      BY <1>1, <1>3, <1>4, <2>2 DEF VideoInv, InReturn
    <3> QED BY <1>2, <2>2, <3>1 DEF Choose
  <2> QED BY <2>1, <2>2
<1> HIDE DEF chosen
<1>6. lastOut'[l].via = "fallback"
  BY <1>1, <1>5, SentAs
<1>7. SteadySends(l)
  BY <1>1, <1>6 DEF SteadySends
<1>8. AudioQueued' /\ HoldStandsIn'
  BY <1>1 DEF Steady, AudioQueued, HoldStandsIn
<1>9. FirstRound'
  BY <1>1, <1>4 DEF FirstRound
<1> QED BY <1>1, <1>7, <1>8, <1>9
        DEF Steady, NoHoleSeen, NothingPrepared, FillingSteadily, DelayedSteadily

\* A filling that was cancelled goes on showing the hold encoder.
LEMMA ReturnFromFillingSteady ==
  ASSUME TypeOK, TypeOK', VideoInv, Steady, NEW l \in Lanes, NEW p \in Packet, Arrives(l, p),
         Interleaved', ReturnFromFilling(l, p)
  PROVE  Steady' /\ SteadySends(l)
<1>1. /\ state = "ReturningLive" /\ returnFromFilling
      /\ EmitHold(l, p, FALSE, FALSE, "ReturningLive") /\ UNCHANGED primaryVars
  BY DEF ReturnFromFilling
<1>2. l = Video \/ l \in AudioTracks
  BY DEF Lanes
<1>3. mismatch = {} /\ \A m \in Lanes : holdFallback[m] # <<>>
  BY <1>1 DEF VideoInv, InReturn, Steady, HoldStandsIn, Lanes
<1>4. /\ lastOut'[l].via \in {"queue", "fallback"}
      /\ \A m \in Lanes : \/ holdQueues'[m] = holdQueues[m]
                          \/ holdQueues[m] # <<>> /\ holdQueues'[m] = Tail(holdQueues[m])
      /\ holdFallback' = holdFallback
      /\ state' = "ReturningLive" /\ returnFromFilling'
  BY <1>1, <1>3, HoldSent DEF TypeOK, ControlOK
<1>5. SteadySends(l)
  BY <1>1, <1>4 DEF SteadySends
<1>6. AudioQueued'
  BY <1>1, QueuesSame DEF Steady
<1>7. HoldStandsIn'
  BY <1>3, <1>4, StandsInKept DEF Steady, Lanes
<1> QED BY <1>4, <1>5, <1>6, <1>7
        DEF Steady, NoHoleSeen, NothingPrepared, FillingSteadily, DelayedSteadily, FirstRound

\* Audio stays what it is when a packet is queued.
LEMMA AudioBuffered ==
  ASSUME TypeOK, AudioQueued, NEW l \in Lanes, NEW p \in Packet, Arrives(l, p)
  PROVE  /\ \A m \in Lanes : Buffered(l, p)[m]
                               = IF m = l THEN Append(primaryQueues[m], p) ELSE primaryQueues[m]
         /\ \A a \in AudioTracks : \A i \in 1..Len(Buffered(l, p)[a]) :
              Buffered(l, p)[a][i].key /\ Buffered(l, p)[a][i].src = "primary"
<1>1. primaryQueues \in [Lanes -> Seq(Packet)]
  BY DEF TypeOK, PrimaryOK, LaneQueues
<1>2. \A m \in Lanes : Buffered(l, p)[m]
                         = IF m = l THEN Append(primaryQueues[m], p) ELSE primaryQueues[m]
  BY <1>1 DEF Buffered
<1>3. ASSUME NEW a \in AudioTracks, NEW i \in 1..Len(Buffered(l, p)[a])
      PROVE  Buffered(l, p)[a][i].key /\ Buffered(l, p)[a][i].src = "primary"
  <2>1. a \in Lanes /\ a # Video /\ primaryQueues[a] \in Seq(Packet)
    BY <1>1, SessionAssumption DEF Lanes, Video
  <2>2. \A j \in 1..Len(primaryQueues[a]) : primaryQueues[a][j].key /\ primaryQueues[a][j].src = "primary"
    BY DEF AudioQueued
  <2>3. CASE a = l
    <3>1. Buffered(l, p)[a] = Append(primaryQueues[a], p) /\ p.key /\ p.src = "primary"
      BY <1>2, <2>1, <2>3 DEF Arrives
    <3> QED BY <2>1, <2>2, <3>1
  <2>4. CASE a # l
    BY <1>2, <2>1, <2>2, <2>4
  <2> QED BY <2>3, <2>4
<1> QED BY <1>2, <1>3

\* When the hold encoder is to be shown, it has a packet for every lane.
LEMMA HoldThere ==
  ASSUME TypeOK, VideoInv, Steady, NEW l \in Lanes, NEW p,
         state = "Filling" \/ StartsFilling(l, p)
  PROVE  mismatch = {} /\ \A m \in Lanes : holdFallback[m] # <<>>
<1>1. CASE state = "Filling"
  BY <1>1 DEF VideoInv, InFilling, Steady, HoldStandsIn, Lanes
<1>2. CASE StartsFilling(l, p)
  <2>1. /\ state = "Preparing" /\ holdReady /\ mismatch = {}
        /\ \A m \in Lanes : holdQueues[m] # <<>>
    BY <1>2 DEF StartsFilling, HoldPrerollReady, FormatsReady
  <2> QED BY <2>1 DEF VideoInv, InPreparing, Steady, HoldStandsIn, Lanes
<1> QED BY <1>1, <1>2

\* What a filling that goes on, or starts, has queued.
LEMMA FillsSince ==
  ASSUME TypeOK, TypeOK', Steady, NEW l \in Lanes, NEW p \in Packet, Arrives(l, p), Fill(l, p),
         Fits(primaryQueues, p, MaxPrimary)
  PROVE  /\ fillStart' < clock'["primary"].dts[Video]
         /\ clock'["primary"].dts[Video] <= fillStart' + Target
         /\ Head(Buffered(l, p)[Video]).key
         /\ \A m \in Lanes :
              /\ fillStart' <= clock["primary"].dts[m]
              /\ LastOf(primaryQueues[m], clock["primary"].dts[m], clock["primary"].seq[m],
                        clock["primary"].dts[m] - fillStart')
         /\ \A a \in AudioTracks : primaryQueues[a] # <<>> => lastOut[a].src = "hold"
<1>1. /\ p.dts = clock["primary"].dts[l] /\ p.dts \in Nat
      /\ clock'["primary"].dts[Video] = IF l = Video THEN p.dts + 1 ELSE clock["primary"].dts[Video]
  BY LanesAreNaturals DEF Arrives, Packet
<1>2. /\ Target \in Nat /\ Target >= 1 /\ fillStart \in Nat /\ Video \in Lanes
      /\ AudioTracks \subseteq Lanes /\ Video \notin AudioTracks
      /\ \A m \in Lanes : clock["primary"].dts[m] \in Nat /\ primaryQueues[m] \in Seq(Packet)
  <2>1. /\ Target \in Nat /\ Target >= 1 /\ Video \in Lanes
        /\ AudioTracks \subseteq Lanes /\ Video \notin AudioTracks
    BY SessionAssumption DEF Lanes, Video
  <2>2. fillStart \in Nat
    BY DEF TypeOK
  <2> QED BY <2>1, <2>2, LaneTypes
<1>3. Buffered(l, p)[Video]
        = IF Video = l THEN Append(primaryQueues[Video], p) ELSE primaryQueues[Video]
  BY <1>2, AudioBuffered DEF Steady
<1>4. CASE state = "Filling"
  <2>1. /\ fillStart < clock["primary"].dts[Video] /\ clock["primary"].dts[Video] <= fillStart + Target
        /\ Head(primaryQueues[Video]).key
        /\ \A m \in Lanes :
             /\ fillStart <= clock["primary"].dts[m]
             /\ LastOf(primaryQueues[m], clock["primary"].dts[m], clock["primary"].seq[m],
                       clock["primary"].dts[m] - fillStart)
        /\ \A a \in AudioTracks : primaryQueues[a] # <<>> => lastOut[a].src = "hold"
    BY <1>4 DEF Steady, FillingSteadily
  <2>2. fillStart' = fillStart
    BY <1>4 DEF Fill
  <2>3. primaryQueues[Video] # <<>>
    <3>1. Len(primaryQueues[Video]) = clock["primary"].dts[Video] - fillStart
      BY <1>2, <2>1 DEF LastOf
    <3> QED BY <1>2, <2>1, <3>1
  <2>4. Head(Buffered(l, p)[Video]).key
    <3>1. Head(Append(primaryQueues[Video], p)) = Head(primaryQueues[Video])
      BY <1>2, <2>3
    <3> QED BY <1>3, <2>1, <3>1
  <2>5. fillStart < clock'["primary"].dts[Video] /\ clock'["primary"].dts[Video] <= fillStart + Target
    <3>1. CASE l = Video
      <4>1. ~(p.dts - fillStart >= Target)
        BY <1>4, <2>4, <3>1 DEF Fill, DurationReady
      <4> QED BY <1>1, <1>2, <2>1, <3>1, <4>1
    <3>2. CASE l # Video
      BY <1>1, <2>1, <3>2
    <3> QED BY <3>1, <3>2
  <2> QED BY <2>1, <2>2, <2>4, <2>5
<1>5. CASE state # "Filling"
  <2>1. state = "Preparing" /\ l = Video /\ p.key /\ fillStart' = p.dts
    BY <1>5 DEF Fill, StartsFilling
  <2>2. \A m \in Lanes : primaryQueues[m] = <<>>
    BY <2>1 DEF Steady, NothingPrepared
  <2>3. ASSUME NEW m \in Lanes
        PROVE  clock["primary"].dts[m] = p.dts
    <3>1. CASE m = Video
      BY <1>1, <2>1, <3>1
    <3>2. CASE m # Video
      <4>1. m \in AudioTracks
        BY <3>2 DEF Lanes
      <4>2. Behind(m) = 0
        BY <2>1, <4>1 DEF Arrives
      <4> QED BY <1>1, <1>2, <2>1, <4>2 DEF Behind
    <3> QED BY <3>1, <3>2
  <2>4. ASSUME NEW m \in Lanes
        PROVE  LastOf(primaryQueues[m], clock["primary"].dts[m], clock["primary"].seq[m],
                      clock["primary"].dts[m] - p.dts)
    <3>1. clock["primary"].dts[m] - p.dts = 0
      BY <1>1, <2>3
    <3> QED BY <2>2, <3>1 DEF LastOf
  <2>5. Head(Buffered(l, p)[Video]).key
    BY <1>2, <1>3, <2>1, <2>2
  <2> QED BY <1>1, <1>2, <2>1, <2>2, <2>3, <2>4, <2>5
<1> QED BY <1>4, <1>5

\* A filling queues what arrives and shows the hold encoder, also when it is given up.
LEMMA FillSteady ==
  ASSUME TypeOK, TypeOK', VideoInv, Steady, NEW l \in Lanes, NEW p \in Packet, Arrives(l, p),
         Interleaved', Fill(l, p)
  PROVE  Steady' /\ SteadySends(l)
<1> DEFINE fits == Fits(primaryQueues, p, MaxPrimary)
<1>1. /\ state = "Filling" \/ StartsFilling(l, p)
      /\ Observed(l, p) /\ realignmentPending' = HoleSeen(l, p)
      /\ primaryQueues' = IF fits THEN Buffered(l, p) ELSE primaryQueues
      /\ fits => EmitHold(l, p, state = "Preparing", TRUE, "Filling")
      /\ ~fits => EmitHold(l, p, state = "Preparing", FALSE, "ReturningLive")
  BY DEF Fill
<1> HIDE DEF fits
<1>2. mismatch = {} /\ \A m \in Lanes : holdFallback[m] # <<>>
  BY <1>1, HoldThere
<1>3. /\ lastOut'[l].via \in {"queue", "fallback"}
      /\ lastOut'[l].via = "queue" =>
           holdQueues[l] # <<>> /\ lastOut'[l].src = Head(holdQueues[l]).src
      /\ \A m \in Lanes :
           /\ m # l => lastOut'[m] = lastOut[m]
           /\ \/ holdQueues'[m] = holdQueues[m]
              \/ holdQueues[m] # <<>> /\ holdQueues'[m] = Tail(holdQueues[m])
      /\ holdFallback' = holdFallback
      /\ \/ fits /\ state' = "Filling" /\ lastOut'[l].via = "queue"
         \/ state' = "ReturningLive" /\ returnFromFilling'
  <2>1. (state = "Preparing") \in BOOLEAN /\ l \notin mismatch /\ holdFallback[l] # <<>>
    BY <1>2
  <2>2. CASE fits
    <3>1. EmitHold(l, p, state = "Preparing", TRUE, "Filling")
      BY <1>1, <2>2
    <3>2. \/ state' = "Filling" /\ lastOut'[l].via = "queue"
          \/ state' = "ReturningLive" /\ returnFromFilling'
      BY <2>1, <3>1, HoldSent
    <3>3. /\ lastOut'[l].via \in {"queue", "fallback"}
          /\ lastOut'[l].via = "queue" =>
               holdQueues[l] # <<>> /\ lastOut'[l].src = Head(holdQueues[l]).src
          /\ \A m \in Lanes :
               /\ m # l => lastOut'[m] = lastOut[m]
               /\ \/ holdQueues'[m] = holdQueues[m]
                  \/ holdQueues[m] # <<>> /\ holdQueues'[m] = Tail(holdQueues[m])
          /\ holdFallback' = holdFallback
      BY <2>1, <3>1, HoldSent
    <3> QED BY <2>2, <3>2, <3>3
  <2>3. CASE ~fits
    <3>1. EmitHold(l, p, state = "Preparing", FALSE, "ReturningLive")
      BY <1>1, <2>3
    <3>2. returnFromFilling \in BOOLEAN /\ returnFromFilling' \in BOOLEAN
      BY DEF TypeOK, ControlOK
    <3> QED BY <2>1, <3>1, <3>2, HoldSent
  <2> QED BY <2>2, <2>3
<1>4. HoldStandsIn'
  BY <1>2, <1>3, StandsInKept DEF Steady, Lanes
<1>5. AudioQueued'
  BY <1>1, AudioBuffered DEF Steady, AudioQueued
<1>6. SteadySends(l)
  BY <1>1, <1>3 DEF SteadySends, StartsFilling
<1>7. CASE state' = "ReturningLive"
  BY <1>3, <1>4, <1>5, <1>6, <1>7
     DEF Steady, NoHoleSeen, NothingPrepared, FillingSteadily, DelayedSteadily, FirstRound
<1>8. CASE state' # "ReturningLive"
  <2>1. fits /\ state' = "Filling" /\ lastOut'[l].via = "queue"
    BY <1>3, <1>8
  <2>2. NoHoleSeen'
    BY <1>1, <2>1, CadenceKept DEF NoHoleSeen, StartsFilling
  <2>3. /\ fillStart' < clock'["primary"].dts[Video]
        /\ clock'["primary"].dts[Video] <= fillStart' + Target
        /\ Head(Buffered(l, p)[Video]).key
        /\ \A m \in Lanes :
             /\ fillStart' <= clock["primary"].dts[m]
             /\ LastOf(primaryQueues[m], clock["primary"].dts[m], clock["primary"].seq[m],
                       clock["primary"].dts[m] - fillStart')
        /\ \A a \in AudioTracks : primaryQueues[a] # <<>> => lastOut[a].src = "hold"
    BY <2>1, FillsSince DEF fits
  <2>4. \A m \in Lanes : primaryQueues'[m]
                           = IF m = l THEN Append(primaryQueues[m], p) ELSE primaryQueues[m]
    BY <1>1, <2>1, AudioBuffered DEF Steady
  <2>5. ASSUME NEW m \in Lanes
        PROVE  /\ fillStart' <= clock'["primary"].dts[m]
               /\ LastOf(primaryQueues'[m], clock'["primary"].dts[m], clock'["primary"].seq[m],
                         clock'["primary"].dts[m] - fillStart')
    <3>1. /\ clock["primary"].dts[m] \in Nat /\ fillStart' \in Nat /\ primaryQueues[m] \in Seq(Packet)
      BY LaneTypes DEF TypeOK
    <3>2. CASE m # l
      <4>1. /\ clock'["primary"].dts[m] = clock["primary"].dts[m]
            /\ clock'["primary"].seq[m] = clock["primary"].seq[m]
        BY <3>2 DEF Arrives
      <4> QED BY <2>3, <2>4, <3>2, <4>1
    <3>3. CASE m = l
      <4>1. /\ p.dts = clock["primary"].dts[m] /\ p.seq = clock["primary"].seq[m]
            /\ clock'["primary"].dts[m] = p.dts + 1 /\ clock'["primary"].seq[m] = p.seq + 1
        BY <3>3 DEF Arrives
      <4>2. p.dts - fillStart' \in Nat /\ p.dts + 1 - fillStart' = (p.dts - fillStart') + 1
            /\ fillStart' <= p.dts + 1
        BY <2>3, <3>1, <4>1
      <4>3. LastOf(Append(primaryQueues[m], p), p.dts + 1, p.seq + 1, (p.dts - fillStart') + 1)
        BY <2>3, <3>1, <4>1, <4>2, LastAppend
      <4>4. primaryQueues'[m] = Append(primaryQueues[m], p)
        BY <2>4, <3>3
      <4>5. clock'["primary"].dts[m] - fillStart' = (p.dts - fillStart') + 1
        BY <3>1, <4>1
      <4> QED BY <4>1, <4>2, <4>3, <4>4, <4>5
    <3> QED BY <3>2, <3>3
  <2>6. ASSUME NEW a \in AudioTracks, primaryQueues'[a] # <<>> PROVE lastOut'[a].src = "hold"
    <3>1. a \in Lanes
      BY DEF Lanes
    <3>2. CASE a = l
      <4>1. OneSource(holdQueues[a], "hold") /\ holdQueues[a] # <<>> /\ holdQueues[a] \in Seq(Packet)
        BY <1>3, <2>1, <3>1, <3>2, HoldQueueTypes DEF Steady, HoldStandsIn
      <4>2. Head(holdQueues[a]).src = "hold"
        BY <4>1 DEF OneSource
      <4> QED BY <1>3, <2>1, <3>2, <4>2
    <3>3. CASE a # l
      BY <1>3, <2>3, <2>4, <2>6, <3>1, <3>3
    <3> QED BY <3>2, <3>3
  <2>7. Head(primaryQueues'[Video]).key
    BY <1>1, <2>1, <2>3
  <2>8. FillingSteadily'
    BY <2>3, <2>5, <2>6, <2>7 DEF FillingSteadily
  <2> QED BY <1>4, <1>5, <1>6, <2>1, <2>2, <2>8
          DEF Steady, NothingPrepared, DelayedSteadily, FirstRound
<1> QED BY <1>7, <1>8

\* What a packet finds when the delay has come to the target: one packet more than the target
\* in its own lane, and in the others the target.
DelayedFinds(l, found) ==
  /\ ~found.pending
  /\ \A m \in Lanes :
       /\ LastOf(found.queues[m], clock'["primary"].dts[m], clock'["primary"].seq[m],
                 IF m = l THEN Target + 1 ELSE Target)
       /\ found.sources[m] \in {NoDts, clock["primary"].dts[m] - Target - 1}
       /\ m # l /\ lastOut[m].src = "primary" /\ lastOut[m].via = "queue"
            => lastOut[m].seq + 1 = clock["primary"].seq[m] - Target
  /\ \A a \in AudioTracks :
       /\ \A i \in 1..Len(found.queues[a]) :
            found.queues[a][i].key /\ found.queues[a][i].src = "primary"
       /\ l # Video /\ found.fallback[a] = <<>> => Behind(a) = 1
  /\ OneSource(found.queues[Video], "primary")

\* It takes the packet that is as old as the target.
LEMMA DelayedTakes ==
  ASSUME TypeOK, TypeOK', ReturnInv, Steady, state \in {"Filling", "Delayed"},
         NEW l \in Lanes, NEW p \in Packet, Arrives(l, p), Interleaved',
         NEW found \in Found, DelayedFinds(l, found), Observed(l, p),
         EmitPrimary(l, p, found, "Delayed")
  PROVE  /\ Steady'
         /\ lastOut'[l].via = "queue" /\ lastOut'[l].src = "primary"
         /\ lastOut'[l].seq = p.seq - Target /\ lastOut'[l].age = Target
<1>1. Target \in Nat /\ Target >= 1 /\ Video \in Lanes /\ AudioTracks \subseteq Lanes
      /\ Video \notin AudioTracks
  BY SessionAssumption DEF Lanes, Video
<1>2. /\ p.dts \in Nat /\ p.seq \in Nat /\ p.dts = clock["primary"].dts[l]
      /\ p.seq = clock["primary"].seq[l]
      /\ \A m \in Lanes :
           /\ clock'["primary"].dts[m] = IF m = l THEN p.dts + 1 ELSE clock["primary"].dts[m]
           /\ clock'["primary"].seq[m] = IF m = l THEN p.seq + 1 ELSE clock["primary"].seq[m]
  BY DEF Arrives, Packet
<1>3. \A m \in Lanes : found.queues[m] \in Seq(Packet)
  BY FoundFields DEF LaneQueues
<1> DEFINE h == Head(found.queues[l])
<1>4. /\ found.queues[l] # <<>> /\ Tail(found.queues[l]) \in Seq(Packet)
      /\ LastOf(Tail(found.queues[l]), p.dts + 1, p.seq + 1, Target)
      /\ h.dts = p.dts - Target /\ h.seq = p.seq - Target
  <2> DEFINE d == p.dts + 1
             n == p.seq + 1
             k == Target + 1
             q == found.queues[l]
  <2>1. LastOf(q, d, n, k)
    BY <1>2 DEF DelayedFinds
  <2>2. d \in Nat /\ n \in Nat /\ q \in Seq(Packet)
    BY <1>2, <1>3
  <2>3. /\ d - k = p.dts - Target /\ n - k = p.seq - Target
        /\ k \in Nat \ {0} /\ k - 1 = Target
    BY <1>1, <1>2
  <2> HIDE DEF d, n, k, q
  <2>4. /\ q # <<>> /\ Tail(q) \in Seq(Packet) /\ LastOf(Tail(q), d, n, k - 1)
        /\ Head(q).dts = d - k /\ Head(q).seq = n - k
    BY <2>1, <2>2, <2>3, LastTail
  <2>5. LastOf(Tail(q), p.dts + 1, p.seq + 1, Target)
    BY <2>3, <2>4 DEF d, n
  <2>6. Head(q).dts = p.dts - Target /\ Head(q).seq = p.seq - Target
    BY <2>3, <2>4
  <2> QED BY <2>4, <2>5, <2>6 DEF q
<1>5. h.src = "primary" /\ (l # Video => h.key)
  <2>1. h = found.queues[l][1] /\ 1 \in 1..Len(found.queues[l])
    BY <1>3, <1>4
  <2> QED BY <2>1 DEF DelayedFinds, OneSource, Lanes
<1>6. /\ \A m \in Lanes : m # l =>
           /\ lastOut'[m] = lastOut[m] /\ primaryQueues'[m] = found.queues[m]
           /\ primaryFallback'[m] = found.fallback[m] /\ lastSource'[m] = found.sources[m]
      /\ lastOut'[l].via = "queue" /\ lastOut'[l].src = h.src
      /\ lastOut'[l].seq = h.seq /\ lastOut'[l].age = p.dts - h.dts
      /\ primaryQueues'[l] = Tail(found.queues[l])
      /\ h.key => primaryFallback'[l] # <<>>
      /\ lastSource'[l] = h.dts
      /\ realignmentPending' = (found.pending \/ Hole(found.sources[l], h.dts))
      /\ state' = "Delayed" /\ errorReturnPending' = errorReturnPending
      /\ UNCHANGED <<holdVars, fillStart>>
  BY <1>4, PrimarySent
<1> HIDE DEF h
<1>7. /\ lastOut'[l].via = "queue" /\ lastOut'[l].src = "primary"
      /\ lastOut'[l].seq = p.seq - Target /\ lastOut'[l].age = Target
  BY <1>1, <1>2, <1>4, <1>5, <1>6
<1>8. ~realignmentPending'
  <2>1. found.sources[l] \in {NoDts, p.dts - Target - 1} /\ ~found.pending
    BY <1>2 DEF DelayedFinds
  <2>2. ~Hole(found.sources[l], h.dts)
    BY <1>1, <1>2, <1>4, <2>1 DEF Hole
  <2> QED BY <1>6, <2>1, <2>2
<1>9. NoHoleSeen'
  BY <1>8, CadenceKept DEF NoHoleSeen
<1>10. ASSUME NEW m \in Lanes
       PROVE  /\ LastOf(primaryQueues'[m], clock'["primary"].dts[m], clock'["primary"].seq[m], Target)
              /\ lastSource'[m] \in {NoDts, clock'["primary"].dts[m] - Target - 1}
              /\ lastOut'[m].src = "primary" /\ lastOut'[m].via = "queue"
                   => lastOut'[m].seq + 1 = clock'["primary"].seq[m] - Target
  <2>1. CASE m = l
    <3>1. clock'["primary"].dts[l] = p.dts + 1 /\ clock'["primary"].seq[l] = p.seq + 1
      BY <1>2
    <3>2. /\ lastSource'[l] = clock'["primary"].dts[l] - Target - 1
          /\ lastOut'[l].seq + 1 = clock'["primary"].seq[l] - Target
      <4>1. /\ (p.dts + 1) - Target - 1 = p.dts - Target
            /\ (p.seq - Target) + 1 = (p.seq + 1) - Target
        BY <1>1, <1>2
      <4>2. lastSource'[l] = p.dts - Target /\ lastOut'[l].seq = p.seq - Target
        BY <1>4, <1>6, <1>7
      <4> QED BY <3>1, <4>1, <4>2
    <3>3. LastOf(primaryQueues'[l], clock'["primary"].dts[l], clock'["primary"].seq[l], Target)
      BY <1>4, <1>6, <3>1
    <3> QED BY <2>1, <3>2, <3>3
  <2>2. CASE m # l
    BY <1>2, <1>6, <2>2 DEF DelayedFinds
  <2> QED BY <2>1, <2>2
<1>11. AudioQueued'
  <2> SUFFICES ASSUME NEW a \in AudioTracks, NEW i \in 1..Len(primaryQueues'[a])
               PROVE  primaryQueues'[a][i].key /\ primaryQueues'[a][i].src = "primary"
    BY DEF AudioQueued
  <2>1. \A j \in 1..Len(found.queues[a]) :
          found.queues[a][j].key /\ found.queues[a][j].src = "primary"
    BY DEF DelayedFinds
  <2>2. CASE a = l
    <3>1. found.queues[a] \in Seq(Packet) /\ found.queues[a] # <<>>
          /\ primaryQueues'[a] = Tail(found.queues[a])
      BY <1>3, <1>4, <1>6, <2>2
    <3>2. i + 1 \in 1..Len(found.queues[a]) /\ primaryQueues'[a][i] = found.queues[a][i + 1]
      BY <3>1
    <3> QED BY <2>1, <3>2
  <2>3. CASE a # l
    BY <1>1, <1>6, <2>1, <2>3
  <2> QED BY <2>2, <2>3
<1>12. HoldStandsIn'
  BY <1>6, QueuesSame DEF Steady, holdVars
<1>13. FirstRound'
  <2>1. ~errorReturnPending'
    BY <1>6 DEF ReturnInv
  <2>2. ASSUME NEW a \in AudioTracks PROVE primaryQueues'[a] # <<>>
    <3>1. Len(primaryQueues'[a]) = Target
      BY <1>1, <1>10 DEF LastOf
    <3> QED BY <1>1, <3>1
  <2>3. ASSUME NEW b \in AudioTracks, primaryFallback'[b] = <<>> PROVE Behind(b)' = 1
    <3>1. b \in Lanes /\ b # Video /\ clock["primary"].dts[b] \in Nat
          /\ clock["primary"].dts[Video] \in Nat
      BY <1>1, LaneTypes
    <3>2. b # l
      BY <1>5, <1>6, <2>3, <3>1
    <3>3. CASE l = Video
      BY <1>1, <1>2, <3>1, <3>3 DEF Arrives, Behind
    <3>4. CASE l # Video
      <4>1. Behind(b) = 1
        BY <1>6, <2>3, <3>1, <3>2, <3>4 DEF DelayedFinds
      <4> QED BY <1>1, <1>2, <3>1, <3>2, <3>4, <4>1 DEF Behind
    <3> QED BY <3>3, <3>4
  <2> QED BY <2>1, <2>2, <2>3 DEF FirstRound
<1>14. DelayedSteadily'
  BY <1>10 DEF DelayedSteadily
<1> QED BY <1>6, <1>7, <1>9, <1>11, <1>12, <1>13, <1>14
        DEF Steady, NothingPrepared, FillingSteadily

\* When the target is queued, a packet behind it makes one more.
LEMMA TargetBuffered ==
  ASSUME TypeOK, VideoInv, Steady, NEW l \in Lanes, NEW p \in Packet, Arrives(l, p),
         \A m \in Lanes :
           LastOf(primaryQueues[m], clock["primary"].dts[m], clock["primary"].seq[m], Target)
  PROVE  /\ \A m \in Lanes :
              LastOf(Buffered(l, p)[m], clock'["primary"].dts[m], clock'["primary"].seq[m],
                     IF m = l THEN Target + 1 ELSE Target)
         /\ \A a \in AudioTracks : \A i \in 1..Len(Buffered(l, p)[a]) :
              Buffered(l, p)[a][i].key /\ Buffered(l, p)[a][i].src = "primary"
         /\ OneSource(Buffered(l, p)[Video], "primary")
         /\ Head(Buffered(l, p)[l]).dts = p.dts - Target
<1>1. Target \in Nat /\ Video \in Lanes
  BY SessionAssumption DEF Lanes
<1>2. /\ p.dts \in Nat /\ p.seq \in Nat /\ p.src = "primary"
      /\ p.dts = clock["primary"].dts[l] /\ p.seq = clock["primary"].seq[l]
      /\ \A m \in Lanes :
           /\ clock'["primary"].dts[m] = IF m = l THEN p.dts + 1 ELSE clock["primary"].dts[m]
           /\ clock'["primary"].seq[m] = IF m = l THEN p.seq + 1 ELSE clock["primary"].seq[m]
  BY DEF Arrives, Packet
<1>3. /\ \A m \in Lanes : Buffered(l, p)[m]
                            = IF m = l THEN Append(primaryQueues[m], p) ELSE primaryQueues[m]
      /\ \A a \in AudioTracks : \A i \in 1..Len(Buffered(l, p)[a]) :
           Buffered(l, p)[a][i].key /\ Buffered(l, p)[a][i].src = "primary"
  BY AudioBuffered DEF Steady
<1>4. \A m \in Lanes : primaryQueues[m] \in Seq(Packet)
  BY LaneTypes
<1>5. /\ LastOf(Append(primaryQueues[l], p), p.dts + 1, p.seq + 1, Target + 1)
      /\ Append(primaryQueues[l], p) \in Seq(Packet)
  BY <1>1, <1>2, <1>4, LastAppend
<1>6. Head(Append(primaryQueues[l], p)).dts = p.dts - Target
  <2> DEFINE q == Append(primaryQueues[l], p)
             d == p.dts + 1
             n == p.seq + 1
             k == Target + 1
  <2>1. LastOf(q, d, n, k) /\ q \in Seq(Packet)
    BY <1>5
  <2>2. d \in Nat /\ n \in Nat /\ k \in Nat \ {0} /\ d - k = p.dts - Target
    BY <1>1, <1>2
  <2> HIDE DEF d, n, k, q
  <2>3. Head(q).dts = d - k
    BY <2>1, <2>2, LastTail
  <2>4. Head(q).dts = p.dts - Target
    BY <2>2, <2>3
  <2> QED BY <2>4 DEF q
<1>7. OneSource(Buffered(l, p)[Video], "primary")
  <2>1. OneSource(primaryQueues[Video], "primary") /\ primaryQueues[Video] \in Seq(Packet)
    BY <1>1, <1>4 DEF VideoInv, Shapes
  <2>2. OneSource(Append(primaryQueues[Video], p), "primary")
    BY <1>2, <2>1 DEF OneSource
  <2> QED BY <1>1, <1>3, <2>1, <2>2
<1>8. ASSUME NEW m \in Lanes
      PROVE  LastOf(Buffered(l, p)[m], clock'["primary"].dts[m], clock'["primary"].seq[m],
                    IF m = l THEN Target + 1 ELSE Target)
  <2>1. CASE m = l
    <3>1. clock'["primary"].dts[m] = p.dts + 1 /\ clock'["primary"].seq[m] = p.seq + 1
          /\ Buffered(l, p)[m] = Append(primaryQueues[l], p)
      BY <1>2, <1>3, <2>1
    <3> QED BY <1>5, <2>1, <3>1
  <2>2. CASE m # l
    <3>1. /\ clock'["primary"].dts[m] = clock["primary"].dts[m]
          /\ clock'["primary"].seq[m] = clock["primary"].seq[m]
          /\ Buffered(l, p)[m] = primaryQueues[m]
      BY <1>2, <1>3, <2>2
    <3> QED BY <2>2, <3>1
  <2> QED BY <2>1, <2>2
<1> QED BY <1>3, <1>6, <1>7, <1>8

\* The delay begins with the packet the filling began with.
LEMMA StartDelayedSteady ==
  ASSUME TypeOK, TypeOK', ReturnInv, VideoInv, Steady, NEW l \in Lanes, NEW p \in Packet,
         Arrives(l, p), Interleaved', StartDelayed(l, p)
  PROVE  Steady' /\ SteadySends(l)
<1> DEFINE found == [NotRealigned(Buffered(l, p), l, p)
                       EXCEPT !.sources = [m \in Lanes |-> NoDts], !.cut = TRUE]
<1>1. /\ state = "Filling" /\ l = Video /\ p.dts - fillStart >= Target
      /\ Observed(l, p) /\ EmitPrimary(l, p, found, "Delayed")
  BY DEF StartDelayed, DurationReady
<1>2. /\ found.queues = Buffered(l, p) /\ found.pending = HoleSeen(l, p)
      /\ found.sources = [m \in Lanes |-> NoDts]
  BY DEF NotRealigned
<1>3. found \in Found
  <2>1. NotRealigned(Buffered(l, p), l, p) \in Found
    BY BufferedType, NotRealignedType
  <2>2. [m \in Lanes |-> NoDts] \in [Lanes -> Int]
    BY DEF NoDts
  <2> QED BY <2>1, <2>2 DEF Found
<1> HIDE DEF found
<1>4. ~HoleSeen(l, p)
  BY <1>1, CadenceKept
<1>5. /\ clock["primary"].dts[Video] <= fillStart + Target
      /\ \A m \in Lanes :
           LastOf(primaryQueues[m], clock["primary"].dts[m], clock["primary"].seq[m],
                  clock["primary"].dts[m] - fillStart)
      /\ \A a \in AudioTracks : primaryQueues[a] # <<>> => lastOut[a].src = "hold"
  BY <1>1 DEF Steady, FillingSteadily
<1>6. /\ Target \in Nat /\ Target >= 1 /\ fillStart \in Nat /\ AudioTracks \subseteq Lanes
      /\ Video \in Lanes
  <2>1. fillStart \in Nat
    BY DEF TypeOK
  <2> QED BY <2>1, SessionAssumption DEF Lanes
<1>7. ASSUME NEW m \in Lanes PROVE clock["primary"].dts[m] - fillStart = Target
  <2>1. p.dts = clock["primary"].dts[Video] /\ p.dts \in Nat
    BY <1>1 DEF Arrives, Packet
  <2>2. clock["primary"].dts[m] \in Nat /\ clock["primary"].dts[Video] \in Nat
    BY <1>6, LaneTypes
  <2>3. clock["primary"].dts[m] = clock["primary"].dts[Video]
    <3>1. CASE m = Video
      BY <3>1
    <3>2. CASE m # Video
      <4>1. Behind(m) = 0
        BY <1>1, <3>2 DEF Arrives, Lanes
      <4> QED BY <2>2, <4>1 DEF Behind
    <3> QED BY <3>1, <3>2
  <2> QED BY <1>1, <1>5, <1>6, <2>1, <2>2, <2>3
<1>8. \A m \in Lanes :
        LastOf(primaryQueues[m], clock["primary"].dts[m], clock["primary"].seq[m], Target)
  BY <1>5, <1>7
<1>9. DelayedFinds(l, found)
  <2>1. /\ \A m \in Lanes :
             LastOf(found.queues[m], clock'["primary"].dts[m], clock'["primary"].seq[m],
                    IF m = l THEN Target + 1 ELSE Target)
        /\ \A a \in AudioTracks : \A i \in 1..Len(found.queues[a]) :
             found.queues[a][i].key /\ found.queues[a][i].src = "primary"
        /\ OneSource(found.queues[Video], "primary")
    BY <1>2, <1>8, TargetBuffered
  <2>2. ASSUME NEW m \in Lanes, m # l PROVE lastOut[m].src = "hold"
    <3>1. m \in AudioTracks /\ Len(primaryQueues[m]) = Target
      BY <1>1, <1>8, <2>2 DEF Lanes, LastOf
    <3>2. primaryQueues[m] # <<>>
      BY <1>6, <3>1
    <3> QED BY <1>5, <3>1, <3>2
  <2>3. \A m \in Lanes : found.sources[m] = NoDts
    BY <1>2
  <2> QED BY <1>1, <1>2, <1>4, <2>1, <2>2, <2>3 DEF DelayedFinds
<1>10. /\ Steady'
       /\ lastOut'[l].via = "queue" /\ lastOut'[l].age = Target
  BY <1>1, <1>3, <1>9, DelayedTakes
<1>11. SteadySends(l)
  BY <1>1, <1>6, <1>10 DEF SteadySends
<1> QED BY <1>10, <1>11

\* A delay without holes is never realigned; each packet that arrives pushes out the one that
\* is due.
LEMMA DelaySteady ==
  ASSUME TypeOK, TypeOK', ReturnInv, VideoInv, Steady, NEW l \in Lanes, NEW p \in Packet,
         Arrives(l, p), Interleaved', Delay(l, p)
  PROVE  Steady' /\ SteadySends(l)
<1> DEFINE q == Buffered(l, p)
           found == Realigned(q, l, p)
<1>1. state = "Delayed" /\ Observed(l, p) /\ EmitPrimary(l, p, found, "Delayed")
  BY DEF Delay
<1>2. found \in Found
  BY BufferedType, RealignedType
<1>3. ~HoleSeen(l, p)
  BY <1>1, CadenceKept
<1>4. \A m \in Lanes :
        /\ LastOf(primaryQueues[m], clock["primary"].dts[m], clock["primary"].seq[m], Target)
        /\ lastSource[m] \in {NoDts, clock["primary"].dts[m] - Target - 1}
        /\ lastOut[m].src = "primary" /\ lastOut[m].via = "queue"
             => lastOut[m].seq + 1 = clock["primary"].seq[m] - Target
  BY <1>1 DEF Steady, DelayedSteadily
<1>5. /\ \A m \in Lanes :
           LastOf(q[m], clock'["primary"].dts[m], clock'["primary"].seq[m],
                  IF m = l THEN Target + 1 ELSE Target)
      /\ \A a \in AudioTracks : \A i \in 1..Len(q[a]) : q[a][i].key /\ q[a][i].src = "primary"
      /\ OneSource(q[Video], "primary") /\ Head(q[l]).dts = p.dts - Target
  BY <1>4, TargetBuffered
<1>6. /\ Target \in Nat /\ p.dts \in Nat /\ p.seq \in Nat
      /\ p.dts = clock["primary"].dts[l] /\ p.seq = clock["primary"].seq[l]
  BY SessionAssumption DEF Arrives, Packet
<1> HIDE DEF q
<1>7. found = [queues |-> q, fallback |-> primaryFallback, sources |-> lastSource,
               pending |-> FALSE, cut |-> FALSE]
  <2>1. CASE l # Video
    <3>1. HoleSeen(l, p) = FALSE
      BY <1>3, HoleSeenType
    <3>2. found = [queues |-> q, fallback |-> primaryFallback, sources |-> lastSource,
                   pending |-> HoleSeen(l, p), cut |-> FALSE]
      BY <2>1, Zenon DEF Realigned
    <3> QED BY <3>1, <3>2
  <2>2. CASE l = Video
    <3>1. lastSource[Video] \in {NoDts, p.dts - Target - 1} /\ Head(q[Video]).dts = p.dts - Target
      BY <1>4, <1>5, <1>6, <2>2
    <3>2. ~Hole(lastSource[Video], Head(q[Video]).dts)
      <4>1. (p.dts - Target) - (p.dts - Target - 1) = 1
        BY <1>6
      <4> QED BY <3>1, <4>1 DEF Hole
    <3>3. ~RealignPending(q, p)
      BY <1>3, <2>2, <3>2 DEF RealignPending
    <3> QED BY <2>2, <3>3 DEF Realigned
  <2> QED BY <2>1, <2>2
<1>8. /\ found.queues = q /\ found.fallback = primaryFallback /\ found.sources = lastSource
      /\ found.pending = FALSE
  BY <1>7
<1> HIDE DEF found
<1>9. DelayedFinds(l, found)
  <2>1. \A b \in AudioTracks : primaryFallback[b] = <<>> => Behind(b) = 1
    BY <1>1 DEF Steady, FirstRound
  <2> QED BY <1>4, <1>5, <1>8, <2>1 DEF DelayedFinds
<1>10. /\ Steady'
       /\ lastOut'[l].via = "queue" /\ lastOut'[l].src = "primary"
       /\ lastOut'[l].seq = p.seq - Target /\ lastOut'[l].age = Target
  BY <1>1, <1>2, <1>9, DelayedTakes
<1>11. SteadySends(l)
  <2>1. lastOut[l].src = "primary" /\ lastOut[l].via = "queue"
          => Follows(lastOut[l], lastOut'[l])
    <3> SUFFICES ASSUME lastOut[l].src = "primary", lastOut[l].via = "queue"
                 PROVE  lastOut'[l].seq = lastOut[l].seq + 1
      BY <1>10 DEF Follows
    <3>1. lastOut[l].seq + 1 = p.seq - Target
      BY <1>4, <1>6
    <3> QED BY <1>10, <3>1
  <2> QED BY <1>6, <1>10, <2>1 DEF SteadySends
<1> QED BY <1>10, <1>11

\* On the way back from a delay there is something to show on every lane: what is queued, and
\* then a packet to repeat.
LEMMA ReturnTakes ==
  ASSUME TypeOK, TypeOK', ReturnInv, VideoInv, Steady,
         state = "Delayed" \/ (state = "ReturningLive" /\ ~returnFromFilling), ~errorReturnPending,
         NEW l \in Lanes, NEW p \in Packet, Arrives(l, p), Interleaved',
         NEW queues \in LaneQueues, queues = Buffered(l, p) \/ queues = primaryQueues,
         EmitPrimary(l, p, NotRealigned(queues, l, p), "ReturningLive")
  PROVE  Steady' /\ state' = "ReturningLive" /\ lastOut'[l].via # "live"
         /\ (primaryQueues[l] # <<>> =>
               /\ lastOut'[l].via = "queue" /\ lastOut'[l].seq = Head(primaryQueues[l]).seq
               /\ lastOut'[l].src = Head(primaryQueues[l]).src)
<1> DEFINE found == NotRealigned(queues, l, p)
<1>1. found \in Found /\ found.queues = queues /\ found.fallback = primaryFallback
  BY NotRealignedType DEF NotRealigned
<1> HIDE DEF found
<1>2. /\ Video \in Lanes /\ AudioTracks \subseteq Lanes /\ Video \notin AudioTracks
      /\ \A m \in Lanes : m = Video \/ m \in AudioTracks
      /\ \A m \in Lanes : queues[m] \in Seq(Packet) /\ primaryQueues[m] \in Seq(Packet)
                          /\ clock["primary"].dts[m] \in Nat
  <2>1. /\ Video \in Lanes /\ AudioTracks \subseteq Lanes /\ Video \notin AudioTracks
        /\ \A m \in Lanes : m = Video \/ m \in AudioTracks
    BY SessionAssumption DEF Lanes, Video
  <2>2. \A m \in Lanes : queues[m] \in Seq(Packet)
    BY DEF LaneQueues
  <2> QED BY <2>1, <2>2, LaneTypes
<1>3. /\ \A m \in Lanes : \/ queues[m] = primaryQueues[m]
                          \/ m = l /\ queues[m] = Append(primaryQueues[m], p)
      /\ \A a \in AudioTracks : \A i \in 1..Len(queues[a]) :
           queues[a][i].key /\ queues[a][i].src = "primary"
  <2>1. CASE queues = Buffered(l, p)
    <3>1. \A m \in Lanes : queues[m] = IF m = l THEN Append(primaryQueues[m], p) ELSE primaryQueues[m]
      BY <2>1, AudioBuffered DEF Steady
    <3>2. \A a \in AudioTracks : \A i \in 1..Len(queues[a]) :
            queues[a][i].key /\ queues[a][i].src = "primary"
      BY <2>1, AudioBuffered DEF Steady
    <3> QED BY <3>1, <3>2
  <2>2. CASE queues = primaryQueues
    BY <2>2 DEF Steady, AudioQueued
  <2> QED BY <2>1, <2>2
<1>4. \A m \in Lanes : primaryQueues[m] # <<>>
        => queues[m] # <<>> /\ Head(queues[m]) = Head(primaryQueues[m])
  BY <1>2, <1>3
<1>5. /\ primaryFallback[Video] # <<>>
      /\ \A b \in AudioTracks :
           primaryFallback[b] = <<>> =>
             /\ Behind(b) = 1
             /\ \A a \in AudioTracks : Behind(a) = 1 => primaryQueues[a] # <<>>
  BY DEF VideoInv, InDelayed, InReturn, Steady, FirstRound
<1>6. queues[l] # <<>> \/ primaryFallback[l] # <<>>
  BY <1>2, <1>4, <1>5
<1>7. /\ \A m \in Lanes : m # l =>
           /\ lastOut'[m] = lastOut[m] /\ primaryQueues'[m] = queues[m]
           /\ primaryFallback'[m] = primaryFallback[m]
      /\ queues[l] # <<>> =>
           /\ lastOut'[l].via = "queue" /\ lastOut'[l].src = Head(queues[l]).src
           /\ lastOut'[l].seq = Head(queues[l]).seq
           /\ primaryQueues'[l] = Tail(queues[l])
           /\ Head(queues[l]).key => primaryFallback'[l] # <<>>
           /\ state' = "ReturningLive" /\ errorReturnPending' = errorReturnPending
      /\ queues[l] = <<>> =>
           /\ lastOut'[l].via = "fallback"
           /\ primaryQueues'[l] = <<>> /\ primaryFallback'[l] = primaryFallback[l]
           /\ state' = "ReturningLive"
      /\ state' = "ReturningLive" => ~returnFromFilling'
      /\ UNCHANGED <<holdVars, fillStart>>
  BY <1>1, <1>6, PrimarySent DEF found
<1>8. state' = "ReturningLive" /\ ~returnFromFilling' /\ lastOut'[l].via # "live"
  BY <1>7
<1>9. AudioQueued'
  <2> SUFFICES ASSUME NEW a \in AudioTracks, NEW i \in 1..Len(primaryQueues'[a])
               PROVE  primaryQueues'[a][i].key /\ primaryQueues'[a][i].src = "primary"
    BY DEF AudioQueued
  <2>1. CASE primaryQueues'[a] = queues[a]
    BY <1>3, <2>1
  <2>2. CASE queues[a] # <<>> /\ primaryQueues'[a] = Tail(queues[a])
    <3>1. i + 1 \in 1..Len(queues[a]) /\ primaryQueues'[a][i] = queues[a][i + 1]
      BY <1>2, <2>2
    <3> QED BY <1>3, <3>1
  <2> QED BY <1>2, <1>7, <2>1, <2>2
<1>10. HoldStandsIn'
  BY <1>7, <1>8 DEF Steady, HoldStandsIn, holdVars
<1>11. FirstRound'
  <2> SUFFICES ASSUME NEW b \in AudioTracks, primaryFallback'[b] = <<>>
               PROVE  /\ ~errorReturnPending' /\ Behind(b)' = 1
                      /\ \A a \in AudioTracks : Behind(a)' = 1 => primaryQueues'[a] # <<>>
    BY DEF FirstRound
  <2>1. b \in Lanes /\ b # Video /\ (l # Video => l \in AudioTracks)
    BY <1>2
  <2>2. ASSUME l # Video, queues[l] # <<>> PROVE Head(queues[l]).key
    <3>1. Head(queues[l]) = queues[l][1] /\ 1 \in 1..Len(queues[l])
      BY <1>2, <2>2
    <3> QED BY <1>3, <2>1, <2>2, <3>1
  <2>3. primaryFallback[b] = <<>>
    BY <1>7, <2>1, <2>2
  <2>4. /\ Behind(b) = 1
        /\ \A a \in AudioTracks : Behind(a) = 1 => primaryQueues[a] # <<>>
    BY <1>5, <2>3
  <2>5. l # Video /\ Behind(l) = 1
    BY <2>4 DEF Arrives
  <2>6. queues[l] # <<>> /\ b # l
    BY <1>4, <1>7, <2>1, <2>2, <2>4, <2>5
  <2>7. ~errorReturnPending'
    BY <1>7, <2>6
  <2>8. ASSUME NEW a \in AudioTracks
        PROVE  Behind(a)' = IF a = l THEN 0 ELSE Behind(a)
    <3>1. /\ p.dts = clock["primary"].dts[l] /\ p.dts \in Nat
          /\ clock'["primary"].dts[Video] = clock["primary"].dts[Video]
          /\ clock'["primary"].dts[a] = IF a = l THEN p.dts + 1 ELSE clock["primary"].dts[a]
      BY <1>2, <2>5 DEF Arrives, Packet
    <3>2. clock["primary"].dts[Video] \in Nat /\ clock["primary"].dts[l] \in Nat
      BY <1>2
    <3>3. CASE a = l
      <4>1. clock["primary"].dts[Video] - clock["primary"].dts[l] = 1
        BY <2>5 DEF Behind
      <4> QED BY <3>1, <3>2, <3>3, <4>1 DEF Behind
    <3>4. CASE a # l
      BY <3>1, <3>4 DEF Behind
    <3> QED BY <3>3, <3>4
  <2>9. ASSUME NEW a \in AudioTracks, Behind(a)' = 1 PROVE primaryQueues'[a] # <<>>
    <3>1. a # l /\ Behind(a) = 1
      BY <2>8, <2>9
    <3> QED BY <1>2, <1>4, <1>7, <2>4, <3>1
  <2> QED BY <2>4, <2>6, <2>7, <2>8, <2>9
<1>12. Steady'
  BY <1>8, <1>9, <1>10, <1>11
     DEF Steady, NoHoleSeen, NothingPrepared, FillingSteadily, DelayedSteadily
<1> QED BY <1>4, <1>7, <1>8, <1>12

\* At the memory limit a delayed output goes back, packet by packet.
LEMMA DelayLimitDrainSteady ==
  ASSUME TypeOK, TypeOK', ReturnInv, VideoInv, Steady, NEW l \in Lanes, NEW p \in Packet,
         Arrives(l, p), Interleaved', DelayLimitDrain(l, p)
  PROVE  Steady' /\ SteadySends(l)
<1>1. /\ state = "Delayed" /\ ~errorReturnPending
      /\ EmitPrimary(l, p, NotRealigned(primaryQueues, l, p), "ReturningLive")
  BY DEF DelayLimitDrain, ReturnInv
<1>2. primaryQueues \in LaneQueues
  BY DEF TypeOK, PrimaryOK
<1>3. /\ Steady' /\ state' = "ReturningLive" /\ lastOut'[l].via # "live"
      /\ (primaryQueues[l] # <<>> =>
            /\ lastOut'[l].via = "queue" /\ lastOut'[l].seq = Head(primaryQueues[l]).seq
            /\ lastOut'[l].src = Head(primaryQueues[l]).src)
  BY <1>1, <1>2, ReturnTakes
<1>4. /\ Target \in Nat \ {0} /\ primaryQueues[l] \in Seq(Packet)
      /\ LastOf(primaryQueues[l], clock["primary"].dts[l], clock["primary"].seq[l], Target)
      /\ lastOut[l].src = "primary" /\ lastOut[l].via = "queue"
           => lastOut[l].seq + 1 = clock["primary"].seq[l] - Target
      /\ clock["primary"].dts[l] \in Nat /\ clock["primary"].seq[l] \in Nat
  <2>1. primaryQueues[l] \in Seq(Packet) /\ clock["primary"].dts[l] \in Nat
        /\ clock["primary"].seq[l] \in Nat
    BY LaneTypes
  <2> QED BY <1>1, <2>1, SessionAssumption DEF Steady, DelayedSteadily
<1>5. primaryQueues[l] # <<>> /\ Head(primaryQueues[l]).seq = clock["primary"].seq[l] - Target
  BY <1>4, LastTail
<1>6. Head(primaryQueues[l]).src = "primary"
  <2>1. Head(primaryQueues[l]) = primaryQueues[l][1] /\ 1 \in 1..Len(primaryQueues[l])
    BY <1>4, <1>5
  <2> QED BY <2>1 DEF Steady, AudioQueued, VideoInv, Shapes, OneSource, Lanes
<1>7. lastOut[l].src = "primary" /\ lastOut[l].via = "queue" => Follows(lastOut[l], lastOut'[l])
  BY <1>3, <1>4, <1>5, <1>6 DEF Follows
<1>8. SteadySends(l)
  BY <1>3, <1>7 DEF SteadySends
<1> QED BY <1>3, <1>8

\* So does one whose delay is ended on request.
LEMMA ReturnFromDelayedSteady ==
  ASSUME TypeOK, TypeOK', ReturnInv, VideoInv, Steady, NEW l \in Lanes, NEW p \in Packet,
         Arrives(l, p), Interleaved', ReturnFromDelayed(l, p)
  PROVE  Steady' /\ SteadySends(l)
<1> DEFINE feeds == ~drainPrimaryOnReturn /\ Fits(primaryQueues, p, MaxPrimary)
           queues == IF feeds THEN Buffered(l, p) ELSE primaryQueues
<1>1. /\ state = "ReturningLive" /\ ~errorReturnPending /\ ~returnFromFilling
      /\ EmitPrimary(l, p, NotRealigned(queues, l, p), "ReturningLive")
  BY DEF ReturnFromDelayed
<1>2. /\ queues = Buffered(l, p) \/ queues = primaryQueues
      /\ queues \in LaneQueues
  BY BufferedType DEF TypeOK, PrimaryOK
<1> HIDE DEF queues
<1>3. Steady' /\ state' = "ReturningLive" /\ lastOut'[l].via # "live"
  BY <1>1, <1>2, ReturnTakes
<1>4. SteadySends(l)
  BY <1>1, <1>3 DEF SteadySends
<1> QED BY <1>3, <1>4

\* A packet of the output, on any lane.
LEMMA PrimaryPacketSteady ==
  ASSUME TypeOK, TypeOK', ReturnInv, VideoInv, Steady, NEW l \in Lanes, PrimaryPacket(l)
  PROVE  Steady' /\ SteadySends(l)
<1>1. PICK size \in PacketSizes(l) :
        LET p == Encoded("primary", l, size)
        IN  \/ PassUntouched(l, p) \/ PassLive(l, p) \/ RestoreLive(l, p) \/ Fill(l, p)
            \/ StartDelayed(l, p) \/ Delay(l, p) \/ DelayLimitLive(l, p) \/ DelayLimitDrain(l, p)
            \/ ReturnOnFallback(l, p) \/ ReturnFromFilling(l, p) \/ ReturnFromDelayed(l, p)
  BY DEF PrimaryPacket
<1> DEFINE p == Encoded("primary", l, size)
<1>2. \/ PassUntouched(l, p) \/ PassLive(l, p) \/ RestoreLive(l, p) \/ Fill(l, p)
      \/ StartDelayed(l, p) \/ Delay(l, p) \/ DelayLimitLive(l, p) \/ DelayLimitDrain(l, p)
      \/ ReturnOnFallback(l, p) \/ ReturnFromFilling(l, p) \/ ReturnFromDelayed(l, p)
  BY <1>1
<1>3. Arrives(l, p) /\ Interleaved'
  BY TurnsTaken DEF PrimaryPacket, Carrier, Steady
<1>4. p \in Packet
  BY <1>3 DEF Arrives
<1> HIDE DEF p
<1> QED BY <1>2, <1>3, <1>4, LivePacketSteady, PassLiveSteady, FillSteady, StartDelayedSteady,
           DelaySteady, DelayLimitDrainSteady, ReturnOnFallbackSteady, ReturnFromFillingSteady,
           ReturnFromDelayedSteady

\* A step that leaves the lanes alone.
LEMMA SteadyQuiet ==
  ASSUME Steady, HoldStandsIn',
         UNCHANGED <<primaryQueues, primaryFallback, lastSource, lastPrimary, realignmentPending,
                     fillStart, lastOut, errorReturnPending>>,
         clock'["primary"].dts = clock["primary"].dts, clock'["primary"].seq = clock["primary"].seq,
         \/ state' = state /\ (state' = "ReturningLive" => returnFromFilling' = returnFromFilling)
         \/ state' \in LiveStates
         \/ state' = "ReturningLive" /\ returnFromFilling'
         \/ state = "Delayed" /\ state' = "ReturningLive" /\ ~returnFromFilling'
  PROVE  Steady'
<1>1. Interleaved' /\ AudioQueued'
  BY DEF Steady, Interleaved, Behind, AudioQueued
<1>2. \A a \in AudioTracks : Behind(a)' = Behind(a)
  BY DEF Behind
<1>3. CASE state' \in LiveStates
  BY <1>1, <1>3, SteadyLive
<1>4. CASE state' = "ReturningLive"
  <2>1. FirstRound'
    BY <1>2, <1>4 DEF Steady, FirstRound, LiveStates
  <2> QED BY <1>1, <1>4, <2>1 DEF Steady, NoHoleSeen, NothingPrepared, FillingSteadily, DelayedSteadily
<1>5. CASE state' = state
  <2>1. NoHoleSeen' /\ NothingPrepared'
    BY <1>5 DEF Steady, NoHoleSeen, NothingPrepared
  <2>2. FillingSteadily'
    BY <1>5 DEF Steady, FillingSteadily
  <2>3. DelayedSteadily'
    BY <1>5 DEF Steady, DelayedSteadily
  <2>4. CASE state' # "ReturningLive"
    <3>1. FirstRound'
      BY <1>2, <1>5, <2>4 DEF Steady, FirstRound
    <3> QED BY <1>1, <2>1, <2>2, <2>3, <3>1 DEF Steady
  <2> QED BY <1>4, <2>4
<1> QED BY <1>3, <1>4, <1>5

\* What a queue of the hold encoder keeps when it is cut or loses its head, and what it gets,
\* comes from that encoder.
LEMMA HoldPacketSteady ==
  ASSUME TypeOK, TypeOK', PrerollInv, Steady, NEW l \in Lanes, HoldPacket(l)
  PROVE  Steady'
<1>0. PICK size \in PacketSizes(l), compatible \in BOOLEAN :
        LET h == Encoded("hold", l, size)
        IN  HoldLimit(l, h) \/ RejectHold(l, h, compatible) \/ KeepHold(l, h, compatible)
  BY DEF HoldPacket
<1> DEFINE h == Encoded("hold", l, size)
           trimmed == GopTrimmed(l, h)
           added   == Append(trimmed[l], h)
<1>1. /\ Delivers("hold", l) /\ UNCHANGED <<primaryVars, cadenceVars, outVars, fillStart>>
      /\ state \in {"Preparing", "Filling", "ReturningLive"}
      /\ state = "ReturningLive" => returnFromFilling
  BY DEF HoldPacket, HoldAccepted
<1>2. HoldLimit(l, h) \/ RejectHold(l, h, compatible) \/ KeepHold(l, h, compatible)
  BY <1>0
<1>3. /\ h \in Packet /\ clock'["primary"] = clock["primary"]
      /\ h.src = "hold" /\ (l # Video => h.key)
  BY <1>1, EncodedType, LaneDelivered DEF Encoded
<1> HIDE DEF h
<1>4. /\ errorReturnPending' = errorReturnPending
      /\ holdFallback' = IF h.key THEN [holdFallback EXCEPT ![l] = <<h>>] ELSE holdFallback
  BY <1>2 DEF HoldLimit, RejectHold, KeepHold, NoteHold
<1>5. \/ state = "Preparing" /\ state' = "Error"
      \/ state # "Preparing" /\ state' = "ReturningLive" /\ returnFromFilling'
      \/ state' = state /\ returnFromFilling' = returnFromFilling
  <2>1. returnFromFilling \in BOOLEAN /\ returnFromFilling' \in BOOLEAN
    BY DEF TypeOK, ControlOK
  <2>2. CASE HoldLimit(l, h)
    BY <2>1, <2>2 DEF HoldLimit
  <2>3. CASE RejectHold(l, h, compatible)
    BY <2>3 DEF RejectHold, SetError, StartsHoldGop
  <2>4. CASE KeepHold(l, h, compatible)
    BY <2>4 DEF KeepHold
  <2> QED BY <1>2, <2>2, <2>3, <2>4
<1>6. \A m \in Lanes : holdQueues'[m] = trimmed[m] \/ (m = l /\ holdQueues'[m] \in {added, Tail(added)})
  <2>1. DOMAIN trimmed = Lanes
    BY DEF GopTrimmed, TypeOK, HoldOK, LaneQueues
  <2>2. \/ holdQueues' = trimmed
        \/ holdQueues' = [trimmed EXCEPT ![l] = added]
        \/ holdQueues' = [trimmed EXCEPT ![l] = Tail(added)]
    <3>1. [trimmed EXCEPT ![l] = Append(@, h)] = [trimmed EXCEPT ![l] = added]
      OBVIOUS
    <3> DEFINE queues == [trimmed EXCEPT ![l] = added]
    <3>2. [queues EXCEPT ![l] = Tail(@)] = [trimmed EXCEPT ![l] = Tail(added)]
      BY <2>1
    <3> HIDE DEF added
    <3>3. CASE HoldLimit(l, h)
      BY <3>3 DEF HoldLimit
    <3>4. CASE RejectHold(l, h, compatible)
      BY <3>1, <3>4 DEF RejectHold
    <3>5. CASE KeepHold(l, h, compatible)
      <4>1. holdQueues' = queues \/ holdQueues' = [queues EXCEPT ![l] = Tail(@)]
        BY <3>1, <3>5 DEF KeepHold
      <4> QED BY <3>2, <4>1
    <3> QED BY <1>2, <3>3, <3>4, <3>5
  <2> HIDE DEF trimmed, added
  <2> QED BY <2>1, <2>2
<1>7. ASSUME NEW a \in AudioTracks
      PROVE  /\ trimmed[a] \in Seq(Packet) /\ OneSource(trimmed[a], "hold")
             /\ trimmed[a] # <<>> => holdFallback[a] # <<>>
  <2> DEFINE q == holdQueues[a]
  <2>1. /\ a \in Lanes /\ a # Video /\ q \in Seq(Packet) /\ OneSource(q, "hold") /\ Ascending(q)
        /\ q # <<>> => holdFallback[a] # <<>>
    BY HoldQueueTypes, SessionAssumption
       DEF Steady, HoldStandsIn, PrerollInv, HoldInOrder, Lanes, Video
  <2>2. CASE ~StartsHoldGop(l, h)
    BY <2>1, <2>2 DEF GopTrimmed
  <2>3. CASE StartsHoldGop(l, h)
    <3> DEFINE kept == DropBefore(q, h.dts)
    <3>1. trimmed[a] = kept
      BY <2>1, <2>3 DEF GopTrimmed
    <3>2. h.dts \in Nat
      BY <1>3 DEF Packet
    <3>3. kept \in Seq(Packet)
      BY <2>1, <3>2, DropBeforeCuts
    <3>4. PICK dropped \in 0..Len(q) :
            /\ Len(kept) = Len(q) - dropped
            /\ \A i \in 1..(Len(q) - dropped) : kept[i] = q[i + dropped]
      BY <2>1, <3>2, DropBeforeCuts
    <3> HIDE DEF kept, q
    <3>5. Len(q) \in Nat /\ \A i \in 1..Len(kept) : i + dropped \in 1..Len(q) /\ kept[i] = q[i + dropped]
      BY <2>1, <3>4
    <3>6. OneSource(kept, "hold")
      BY <2>1, <3>5 DEF OneSource
    <3>7. q = <<>> => kept = <<>>
      BY <3>3, <3>4
    <3> QED BY <2>1, <3>1, <3>3, <3>6, <3>7
  <2> QED BY <2>2, <2>3
<1>8. \A m \in Lanes : holdFallback[m] # <<>> => holdFallback'[m] # <<>>
  <2>1. holdFallback \in [Lanes -> Seq(Packet)]
    BY DEF TypeOK, HoldOK, LaneQueues
  <2> QED BY <1>4, <2>1
<1>9. HoldStandsIn'
  <2> SUFFICES ASSUME NEW a \in AudioTracks
               PROVE  /\ OneSource(holdQueues'[a], "hold")
                      /\ holdQueues'[a] # <<>> => holdFallback'[a] # <<>>
                      /\ state' = "Filling" \/ (state' = "ReturningLive" /\ returnFromFilling')
                           => holdFallback'[a] # <<>>
    BY DEF HoldStandsIn
  <2>1. a \in Lanes /\ a # Video
    BY SessionAssumption DEF Lanes, Video
  <2>2. state' = "Filling" \/ (state' = "ReturningLive" /\ returnFromFilling')
          => holdFallback[a] # <<>>
    BY <1>1, <1>5 DEF Steady, HoldStandsIn
  <2>3. CASE holdQueues'[a] = trimmed[a]
    BY <1>7, <1>8, <2>1, <2>2, <2>3
  <2>4. CASE a = l /\ holdQueues'[a] \in {added, Tail(added)}
    <3>1. holdFallback'[a] # <<>>
      <4>1. holdFallback \in [Lanes -> Seq(Packet)]
        BY DEF TypeOK, HoldOK, LaneQueues
      <4> QED BY <1>3, <1>4, <2>1, <2>4, <4>1
    <3>2. /\ added \in Seq(Packet) /\ OneSource(added, "hold") /\ added # <<>>
      BY <1>3, <1>7, <2>4 DEF OneSource
    <3> HIDE DEF added
    <3>3. OneSource(Tail(added), "hold")
      BY <3>2 DEF OneSource
    <3> QED BY <2>4, <3>1, <3>2, <3>3
  <2> QED BY <1>6, <2>1, <2>3, <2>4
<1> QED BY <1>1, <1>3, <1>4, <1>5, <1>9, SteadyQuiet
        DEF primaryVars, cadenceVars, outVars, LiveStates

\* Empty queues are those of an encoder that has sent nothing.
LEMMA ClearedSteady ==
  ASSUME primaryQueues' = NoPackets, holdQueues' = NoPackets,
         state' \notin {"Filling", "ReturningLive"}
  PROVE  AudioQueued' /\ HoldStandsIn'
<1>1. \A m \in Lanes : primaryQueues'[m] = <<>> /\ holdQueues'[m] = <<>>
  BY DEF NoPackets
<1> QED BY <1>1 DEF AudioQueued, HoldStandsIn, OneSource, Lanes

\* The end of the delay on request, or by a reconnection.
LEMMA BypassedSteady ==
  ASSUME TypeOK, TypeOK', ReturnInv, Steady, Bypassed,
         UNCHANGED <<lastSource, cadenceVars, outVars, fillStart, clock>>
  PROVE  Steady'
<1>1. Interleaved'
  BY DEF Steady, Interleaved, Behind
<1>2. CASE state' = "Bypass"
  <2>1. primaryQueues' = NoPackets /\ holdQueues' = NoPackets
    BY <1>2 DEF Bypassed, Clear
  <2> QED BY <1>1, <1>2, <2>1, ClearedSteady, SteadyLive DEF LiveStates
<1>3. CASE state' # "Bypass"
  <2>1. /\ state \in {"Filling", "Delayed"} /\ state' = "ReturningLive"
        /\ returnFromFilling' = (state = "Filling")
        /\ UNCHANGED <<errorReturnPending, primaryQueues, primaryFallback, holdQueues, holdFallback>>
    BY <1>3 DEF Bypassed
  <2>2. HoldStandsIn'
    BY <2>1 DEF Steady, HoldStandsIn
  <2> QED BY <2>1, <2>2, SteadyQuiet DEF cadenceVars, outVars
<1> QED BY <1>2, <1>3

\* A new generation begins with empty queues.
LEMMA PublishSteady ==
  ASSUME Steady, PublishDelay
  PROVE  Steady'
<1>1. /\ state' = "Preparing" /\ ~realignmentPending' /\ lastPrimary' = NoTimes
      /\ primaryQueues' = NoPackets /\ holdQueues' = NoPackets /\ UNCHANGED clock
  BY DEF PublishDelay
<1>2. Interleaved' /\ AudioQueued' /\ HoldStandsIn'
  BY <1>1, ClearedSteady DEF Steady, Interleaved, Behind
<1>3. NoHoleSeen' /\ NothingPrepared'
  BY <1>1 DEF NoHoleSeen, NothingPrepared, NoTimes, NoPackets
<1> QED BY <1>1, <1>2, <1>3 DEF Steady, FillingSteadily, DelayedSteadily, FirstRound

\* What the state does not need is freed.
LEMMA RetireSteady ==
  ASSUME Steady, MaintenanceRetire
  PROVE  Steady'
<1>1. /\ UNCHANGED <<state, returnFromFilling, errorReturnPending, lastSource, lastPrimary,
                     realignmentPending, fillStart, lastOut, clock>>
      /\ IF state \in LiveStates
         THEN primaryQueues' = NoPackets /\ primaryFallback' = NoPackets
         ELSE UNCHANGED <<primaryQueues, primaryFallback>>
      /\ \/ UNCHANGED <<holdQueues, holdFallback>>
         \/ holdQueues' = NoPackets /\ state \in LiveStates \cup {"Delayed"}
  BY DEF MaintenanceRetire, controlVars, cadenceVars, outVars
<1>2. HoldStandsIn'
  <2>1. CASE UNCHANGED <<holdQueues, holdFallback>>
    BY <1>1, <2>1 DEF Steady, HoldStandsIn
  <2>2. CASE holdQueues' = NoPackets /\ state \in LiveStates \cup {"Delayed"}
    BY <1>1, <2>2 DEF HoldStandsIn, NoPackets, OneSource, Lanes, LiveStates
  <2> QED BY <1>1, <2>1, <2>2
<1>3. CASE state \in LiveStates
  <2>1. Interleaved' /\ AudioQueued'
    BY <1>1, <1>3 DEF Steady, Interleaved, Behind, AudioQueued, NoPackets, Lanes
  <2> QED BY <1>1, <1>2, <1>3, <2>1, SteadyLive
<1>4. CASE state \notin LiveStates
  BY <1>1, <1>2, <1>4, SteadyQuiet
<1> QED BY <1>3, <1>4

\* The frontend thread.
LEMMA FrontendSteady ==
  ASSUME TypeOK, TypeOK', ReturnInv, Steady, Frontend
  PROVE  Steady'
<1>1. CASE \/ TakeOldPipeline \/ RetireOldPipeline \/ StartPipelineFails \/ StartPipeline
           \/ MaintenanceTake \/ MaintenanceStop \/ TakeRearmRequest
  <2>1. /\ UNCHANGED <<primaryVars, cadenceVars, holdVars, outVars, fillStart, errorReturnPending,
                       returnFromFilling>>
        /\ state' = state \/ state' = "Error"
    BY <1>1 DEF TakeOldPipeline, RetireOldPipeline, StartPipeline, StartPipelineFails, SetError,
                MaintenanceTake, MaintenanceStop, TakeRearmRequest, controlVars
  <2>2. clock'["primary"] = clock["primary"]
    <3>1. CASE StartPipeline
      <4>1. clock \in [{"primary", "hold"} -> EncoderClock]
        BY DEF TypeOK
      <4>2. PICK fresh : clock' = [clock EXCEPT !["hold"] = fresh]
        BY <3>1 DEF StartPipeline
      <4> QED BY <4>1, <4>2
    <3>2. CASE ~StartPipeline
      BY <1>1, <3>2 DEF TakeOldPipeline, RetireOldPipeline, StartPipelineFails,
                        MaintenanceTake, MaintenanceStop, TakeRearmRequest
    <3> QED BY <3>1, <3>2
  <2>3. HoldStandsIn'
    BY <2>1 DEF Steady, HoldStandsIn, holdVars
  <2> QED BY <2>1, <2>2, <2>3, SteadyQuiet
          DEF primaryVars, cadenceVars, outVars, LiveStates
<1>2. CASE RequestBypass
  BY <1>2, BypassedSteady DEF RequestBypass
<1> QED BY <1>1, <1>2, PublishSteady, RetireSteady DEF Frontend

\* A reconnection, and the start of data capture after it.
LEMMA SignalSteady ==
  ASSUME TypeOK, TypeOK', ReturnInv, Steady, Reconnect \/ Activate
  PROVE  Steady'
<1>1. CASE Reconnect
  <2>1. UNCHANGED <<lastSource, cadenceVars, outVars, fillStart, clock>>
    BY <1>1 DEF Reconnect
  <2>2. CASE Bypassed
    BY <2>1, <2>2, BypassedSteady
  <2>3. CASE ~Bypassed
    <3>1. UNCHANGED <<state, returnFromFilling, errorReturnPending, primaryQueues, primaryFallback,
                      holdQueues, holdFallback>>
      BY <1>1, <2>3 DEF Reconnect, controlVars
    <3>2. HoldStandsIn'
      BY <3>1 DEF Steady, HoldStandsIn
    <3> QED BY <2>1, <3>1, <3>2, SteadyQuiet DEF cadenceVars, outVars
  <2> QED BY <2>2, <2>3
<1>2. CASE Activate
  <2>1. /\ state' = "Bypass" /\ clock' = [clock EXCEPT !["primary"].left = 0]
        /\ UNCHANGED <<primaryQueues, primaryFallback, holdQueues, holdFallback>>
    BY <1>2 DEF Activate
  <2>2. clock'["primary"].dts = clock["primary"].dts
    <3>1. clock \in [{"primary", "hold"} -> EncoderClock] /\ clock["primary"] \in EncoderClock
      BY DEF TypeOK
    <3> QED BY <2>1, <3>1 DEF EncoderClock
  <2>3. Interleaved' /\ AudioQueued' /\ HoldStandsIn'
    BY <2>1, <2>2 DEF Steady, Interleaved, Behind, AudioQueued, HoldStandsIn
  <2> QED BY <2>1, <2>3, SteadyLive DEF LiveStates
<1> QED BY <1>1, <1>2

\* What the lanes send.
StepsSteady == \A l \in Lanes : Emits(l) => SteadySends(l)

\* Every step of a session whose encoders leave no hole keeps the queues steady.
LEMMA SteadyInductive ==
  ASSUME MaxHoles = 0
  PROVE  TypeOK /\ TypeOK' /\ PrerollInv /\ ReturnInv /\ VideoInv /\ Steady /\ [Next]_vars
           => Steady' /\ StepsSteady
<1> SUFFICES ASSUME TypeOK, TypeOK', PrerollInv, ReturnInv, VideoInv, Steady, [Next]_vars
             PROVE  Steady' /\ StepsSteady
  OBVIOUS
<1>1. ASSUME NEW m \in Lanes, PrimaryPacket(m) PROVE Steady' /\ StepsSteady
  <2>1. \A l \in Lanes : l # m => ~Emits(l)
    BY <1>1, OthersSendNothing
  <2>2. Steady' /\ SteadySends(m)
    BY <1>1, PrimaryPacketSteady
  <2> QED BY <2>1, <2>2 DEF StepsSteady
<1>2. ASSUME NEW m \in Lanes, HoldPacket(m) PROVE Steady' /\ StepsSteady
  BY <1>2, HoldPacketSteady, OthersSendNothing DEF StepsSteady
<1>3. CASE Frontend
  BY <1>3, FrontendSteady, OthersSendNothing DEF StepsSteady
<1>4. CASE Reconnect \/ Activate
  BY <1>4, SignalSteady, OthersSendNothing DEF StepsSteady
<1>5. ASSUME NEW m \in Lanes PROVE ~EncoderHole(m)
  <2>1. spent.holes \in Nat
    BY DEF TypeOK
  <2> QED BY <2>1 DEF EncoderHole
<1>6. CASE UNCHANGED vars
  <2>1. Steady'
    <3>1. HoldStandsIn'
      BY <1>6 DEF vars, holdVars, controlVars, Steady, HoldStandsIn
    <3> QED BY <1>6, <3>1, SteadyQuiet DEF vars, primaryVars, cadenceVars, outVars, controlVars
  <2> QED BY <1>6, <2>1, OthersSendNothing DEF StepsSteady
<1> QED BY <1>1, <1>2, <1>3, <1>4, <1>5, <1>6 DEF Next

\* At the start all encoders are at the same point.
LEMMA InitSteady == Init => Steady
<1> SUFFICES ASSUME Init PROVE Steady
  OBVIOUS
<1>1. /\ state = "Bypass" /\ \A l \in Lanes : primaryQueues[l] = <<>> /\ holdQueues[l] = <<>>
      /\ \A l \in Lanes : clock["primary"].dts[l] = 0
  BY DEF Init, NoPackets, StartOfEncoder
<1>2. Interleaved
  BY <1>1 DEF Interleaved, Behind, Lanes
<1>3. AudioQueued /\ HoldStandsIn
  BY <1>1 DEF AudioQueued, HoldStandsIn, OneSource, Lanes
<1> QED BY <1>1, <1>2, <1>3
        DEF Steady, NoHoleSeen, NothingPrepared, FillingSteadily, DelayedSteadily, FirstRound

\* In every behaviour without holes the queues are steady, and so is what is sent.
LEMMA SteadyInvariant == ASSUME MaxHoles = 0 PROVE Spec => []Steady /\ [][StepsSteady]_vars
<1>1. TypeOK /\ TypeOK' /\ PrerollInv /\ ReturnInv /\ VideoInv /\ Steady /\ [Next]_vars
        => Steady' /\ StepsSteady
  BY SteadyInductive
<1>2. Spec => []VideoInv
  BY SplicesInvariant, PTL
<1> QED BY <1>1, <1>2, InitSteady, TypeCorrect, PrerollInvariant, ReturnInvariant, PTL DEF Spec

\* From the switch to the hold picture until the return, no lane shows the present: when its
\* queue is empty, there is a packet to repeat.
THEOREM NothingShownEarly == ASSUME MaxHoles = 0 PROVE Spec => NoLiveLeak
<1>1. StepsSteady => \A l \in Lanes : (Emits(l) /\ state' \in {"Filling", "Delayed", "ReturningLive"})
                       => lastOut'[l].via # "live"
  BY DEF StepsSteady, SteadySends, Delaying
<1> QED BY <1>1, SteadyInvariant, PTL DEF NoLiveLeak

\* A delayed output is as late as was asked for, the audio within the tick that separates
\* the lanes.
THEOREM DelayedByTarget == ASSUME MaxHoles = 0 PROVE Spec => AgeIsTarget
<1>1. StepsSteady => \A l \in Lanes : (Emits(l) /\ state' = "Delayed")
                       => lastOut'[l].age - Target \in IF l = Video THEN {0} ELSE -1..1
  BY DEF StepsSteady, SteadySends
<1> QED BY <1>1, SteadyInvariant, PTL DEF AgeIsTarget

\* While an output is delayed, each packet of a lane is sent once and in its turn.
THEOREM DelayIsLossless == ASSUME MaxHoles = 0 PROVE Spec => NothingLostWhileDelayed
<1>1. StepsSteady =>
        \A l \in Lanes : (Emits(l) /\ state = "Delayed" /\ lastOut[l].src = "primary"
                          /\ lastOut[l].via = "queue" /\ lastOut'[l].via = "queue")
          => Follows(lastOut[l], lastOut'[l])
  BY DEF StepsSteady, SteadySends
<1> QED BY <1>1, SteadyInvariant, PTL DEF NothingLostWhileDelayed

----------------------------------------------------------------------------
(* Lanes in step, holes included.  Every time that a lane misses is seen,  *)
(* by the cadence of what arrives or by that of what is sent, and from     *)
(* then on a realignment is pending until the ages have been compared.     *)
(* What is queued of a lane without a hole in front of it is then as old   *)
(* when it is sent as the video, within the tolerance.                     *)

\* The DTS of the packet that the lane's encoder delivers next.
Now(l) == clock["primary"].dts[l]

\* The DTS of the packet that a lane with this queue sends next, its encoder being at now.
DueNext(q, now) == IF q = <<>> THEN now ELSE Head(q).dts

QueuesRise == \A l \in Lanes : Rising(primaryQueues[l], Now(l))

\* What has been seen of a lane lies before its encoder, and audio before the video encoder too.
CadenceSeen ==
  \A l \in Lanes :
    /\ NoDts <= lastPrimary[l] /\ lastPrimary[l] < Now(l)
    /\ l # Video => lastPrimary[l] < Now(Video)
    /\ l \in primaryFormats => lastPrimary[l] # NoDts

\* While filling, the queues begin together, unless a hole was seen.
FillingInStep ==
  state = "Filling" =>
    /\ primaryQueues[Video] # <<>> /\ Head(primaryQueues[Video]).dts = fillStart
    /\ \A l \in Lanes : lastPrimary[l] # NoDts
    /\ \A a \in AudioTracks :
         /\ fillStart <= Now(a)
         /\ ~realignmentPending => IF primaryQueues[a] = <<>> THEN lastPrimary[a] < fillStart
                                   ELSE Head(primaryQueues[a]).dts = fillStart

\* While delayed, what a lane has sent lies before what it has queued.
SourcesBefore(queues, sources) ==
  \A l \in Lanes :
    /\ sources[l] < Now(l)
    /\ \A i \in 1..Len(queues[l]) : sources[l] < queues[l][i].dts

\* The queue of an audio track, whose last packets seen and sent are last and source, is in
\* step with video of this age, unless a hole is in front of what it sends next, or of what
\* arrives next.
TrackInStep(now, last, q, source, age) ==
  now = last + 1 /\ ~Hole(source, DueNext(q, now)) => age - (now - DueNext(q, now)) \in -2..2

AudioInStep(age) ==
  \A a \in AudioTracks : TrackInStep(Now(a), lastPrimary[a], primaryQueues[a], lastSource[a], age)

DelayedInStep ==
  state = "Delayed" =>
    /\ \A l \in Lanes : lastPrimary[l] # NoDts
    /\ SourcesBefore(primaryQueues, lastSource)
    /\ lastSource[Video] # NoDts
    /\ lastOut[Video].age = lastPrimary[Video] - lastSource[Video]
    /\ ~realignmentPending => AudioInStep(lastOut[Video].age)

InStep == QueuesRise /\ CadenceSeen /\ NothingPrepared /\ FillingInStep /\ DelayedInStep

\* What a lane gets when it is its turn, also when lanes have missed theirs.
Comes(l, p) ==
  /\ p \in Packet /\ p.dts = Now(l)
  /\ \A m \in Lanes : Now(m)' = IF m = l THEN p.dts + 1 ELSE Now(m)
  /\ IF l = Video THEN \A m \in Lanes : p.dts <= Now(m) ELSE p.dts < Now(Video)

\* The interleaver delivers the earliest packet, of equal ones the video.
LEMMA EarliestComes ==
  ASSUME TypeOK, NEW l \in Lanes, NEW size \in PacketSizes(l), Delivers("primary", l)
  PROVE  Comes(l, Encoded("primary", l, size))
<1> DEFINE p == Encoded("primary", l, size)
<1>1. p \in Packet /\ p.dts = Now(l)
  BY EncodedType DEF Encoded, Now
<1> HIDE DEF p
<1>2. \A m \in Lanes : Now(m) \in Nat
  BY LaneTypes DEF Now
<1>3. \A m \in Lanes : Now(m)' = IF m = l THEN Now(l) + 1 ELSE Now(m)
  BY LaneDelivered DEF Now
<1>4. \A m \in Lanes : LET ahead == Now(m) - Now(l) IN ahead > 0 \/ (ahead = 0 /\ l <= m)
  BY DEF Delivers, Now
<1>5. l \in Nat /\ Video \in Lanes /\ (l # Video => ~(l <= Video))
  BY LanesAreNaturals DEF Video
<1>6. IF l = Video THEN \A m \in Lanes : Now(l) <= Now(m) ELSE Now(l) < Now(Video)
  BY <1>2, <1>4, <1>5
<1> QED BY <1>1, <1>3, <1>6 DEF Comes, p

\* What is seen of a packet that arrives.
LEMMA PacketSeenInOrder ==
  ASSUME TypeOK, CadenceSeen, NEW l \in Lanes, NEW p, Comes(l, p),
         Observed(l, p) \/ UNCHANGED <<lastPrimary, primaryFormats>>
  PROVE  CadenceSeen'
<1>1. /\ p.dts \in Nat /\ p.dts = Now(l) /\ Video \in Lanes
      /\ \A m \in Lanes : Now(m)' = IF m = l THEN p.dts + 1 ELSE Now(m)
      /\ l # Video => p.dts < Now(Video)
  BY LanesAreNaturals DEF Comes, Packet
<1>2. \A m \in Lanes : Now(m) \in Nat /\ lastPrimary[m] \in Int
  BY LaneTypes DEF Now
<1>3. \A m \in Lanes :
        \/ lastPrimary'[m] = lastPrimary[m] /\ (m \in primaryFormats' => m \in primaryFormats)
        \/ m = l /\ lastPrimary'[m] = p.dts
  BY DEF Observed, TypeOK, CadenceOK
<1>4. ASSUME NEW m \in Lanes
      PROVE  /\ NoDts <= lastPrimary'[m] /\ lastPrimary'[m] < Now(m)'
             /\ m # Video => lastPrimary'[m] < Now(Video)'
             /\ m \in primaryFormats' => lastPrimary'[m] # NoDts
  <2>1. /\ NoDts <= lastPrimary[m] /\ lastPrimary[m] < Now(m)
        /\ m # Video => lastPrimary[m] < Now(Video)
        /\ m \in primaryFormats => lastPrimary[m] # NoDts
    BY DEF CadenceSeen
  <2>2. /\ Now(m) \in Nat /\ Now(Video) \in Nat /\ Now(m) <= Now(m)' /\ Now(Video) <= Now(Video)'
        /\ Now(m)' \in Nat /\ Now(Video)' \in Nat
    BY <1>1, <1>2
  <2>3. CASE lastPrimary'[m] = lastPrimary[m] /\ (m \in primaryFormats' => m \in primaryFormats)
    BY <1>2, <2>1, <2>2, <2>3
  <2>4. CASE m = l /\ lastPrimary'[m] = p.dts
    BY <1>1, <2>2, <2>4 DEF NoDts
  <2> QED BY <1>3, <2>3, <2>4
<1> QED BY <1>4 DEF CadenceSeen

\* A packet that arrives without a hole is the one after the last.
LEMMA NextSeen ==
  ASSUME TypeOK, CadenceSeen, NEW l \in Lanes, NEW p, Comes(l, p), ~HoleSeen(l, p),
         lastPrimary[l] # NoDts
  PROVE  p.dts = lastPrimary[l] + 1 /\ ~realignmentPending
<1>1. p.dts \in Nat /\ p.dts = Now(l) /\ lastPrimary[l] \in Int /\ lastPrimary[l] < Now(l)
  BY LaneTypes DEF Comes, Packet, CadenceSeen
<1> QED BY <1>1 DEF HoleSeen, Hole

\* What a lane's queue is with the packet behind it.
LEMMA BufferedRises ==
  ASSUME TypeOK, QueuesRise, NEW l \in Lanes, NEW p, Comes(l, p)
  PROVE  /\ Buffered(l, p) \in LaneQueues
         /\ \A m \in Lanes :
              /\ Buffered(l, p)[m] = IF m = l THEN Append(primaryQueues[m], p) ELSE primaryQueues[m]
              /\ Buffered(l, p)[m] \in Seq(Packet) /\ primaryQueues[m] \in Seq(Packet)
              /\ Rising(Buffered(l, p)[m], Now(m)') /\ Rising(primaryQueues[m], Now(m)')
<1>1. p \in Packet /\ p.dts \in Nat
  BY DEF Comes, Packet
<1>2. Buffered(l, p) \in LaneQueues
  BY <1>1, BufferedType
<1>3. ASSUME NEW m \in Lanes
      PROVE  /\ Buffered(l, p)[m] = IF m = l THEN Append(primaryQueues[m], p) ELSE primaryQueues[m]
             /\ Rising(Buffered(l, p)[m], Now(m)') /\ Rising(primaryQueues[m], Now(m)')
  <2>1. primaryQueues \in [Lanes -> Seq(Packet)]
    BY DEF TypeOK, PrimaryOK, LaneQueues
  <2>2. Buffered(l, p)[m] = IF m = l THEN Append(primaryQueues[m], p) ELSE primaryQueues[m]
    BY <2>1 DEF Buffered
  <2>3. Rising(primaryQueues[m], Now(m)) /\ Now(m) \in Nat /\ primaryQueues[m] \in Seq(Packet)
    BY LaneTypes DEF QueuesRise, Now
  <2>4. CASE m = l
    <3>1. Now(m) = p.dts /\ Now(m)' = p.dts + 1
      BY <2>4 DEF Comes
    <3>2. Rising(Append(primaryQueues[m], p), p.dts + 1)
      BY <1>1, <2>3, <3>1, RisingAppend
    <3>3. Rising(primaryQueues[m], p.dts + 1)
      <4>1. p.dts + 1 \in Nat /\ p.dts <= p.dts + 1
        BY <1>1
      <4> QED BY <2>3, <3>1, <4>1, RisingLater
    <3> QED BY <2>2, <2>4, <3>1, <3>2, <3>3
  <2>5. CASE m # l
    <3>1. Now(m)' = Now(m)
      BY <2>5 DEF Comes
    <3> QED BY <2>2, <2>3, <2>5, <3>1
  <2> QED BY <2>2, <2>4, <2>5
<1> QED BY <1>2, <1>3 DEF LaneQueues, TypeOK, PrimaryOK

\* A queue that rises still does when its beginning is dropped.
LEMMA RisingCut ==
  ASSUME NEW q \in Seq(Packet), NEW dts, Rising(q, dts), NEW origin \in Nat
  PROVE  LET cut == DropBefore(q, origin)
         IN  /\ cut \in Seq(Packet) /\ Rising(cut, dts)
             /\ \A i \in 1..Len(cut) : cut[i].dts \in Nat /\ cut[i].dts >= origin
             /\ \A i \in 1..Len(cut) : \E k \in 1..Len(q) : cut[i] = q[k]
<1> DEFINE cut == DropBefore(q, origin)
<1>1. \A i \in 1..Len(q) : q[i].dts \in Nat
  <2>1. \A i \in 1..Len(q) : q[i] \in Packet
    OBVIOUS
  <2> QED BY <2>1 DEF Packet
<1>2. Ascending(q)
  BY <1>1 DEF Ascending, Rising
<1>3. PICK dropped \in 0..Len(q) :
        /\ cut \in Seq(Packet) /\ Len(cut) = Len(q) - dropped
        /\ \A i \in 1..(Len(q) - dropped) : cut[i] = q[i + dropped] /\ q[i + dropped].dts >= origin
  BY <1>2, DropBeforeCuts
<1> HIDE DEF cut
<1>4. \A i \in 1..Len(cut) : /\ i + dropped \in 1..Len(q) /\ cut[i] = q[i + dropped]
                             /\ q[i + dropped].dts >= origin
  BY <1>3
<1>5. \A i, k \in 1..Len(cut) : i < k => i + dropped < k + dropped
  BY <1>3
<1>6. Rising(cut, dts)
  BY <1>4, <1>5 DEF Rising
<1>7. \A i \in 1..Len(cut) : cut[i].dts \in Nat /\ cut[i].dts >= origin
  BY <1>1, <1>4
<1>8. \A i \in 1..Len(cut) : \E k \in 1..Len(q) : cut[i] = q[k]
  BY <1>4
<1> QED BY <1>3, <1>6, <1>7, <1>8 DEF cut

\* What a lane sends from its queue, and what that leaves.
LEMMA PrimaryTaken ==
  ASSUME TypeOK, NEW l \in Lanes, NEW p \in Packet, NEW found \in Found, NEW next,
         EmitPrimary(l, p, found, next)
  PROVE  /\ state' \in {next, "ReturningLive"}
         /\ \A m \in Lanes :
              primaryQueues'[m] = IF m = l /\ found.queues[l] # <<>> THEN Tail(found.queues[l])
                                  ELSE found.queues[m]
         /\ found.queues[l] = <<>> => state' = "ReturningLive"
         /\ found.queues[l] # <<>> =>
              /\ lastOut'[l].age = p.dts - Head(found.queues[l]).dts
              /\ \A m \in Lanes : m # l => lastOut'[m] = lastOut[m]
              /\ \A m \in Lanes :
                   lastSource'[m] = IF m = l THEN Head(found.queues[l]).dts ELSE found.sources[m]
              /\ realignmentPending'
                   = (found.pending \/ Hole(found.sources[l], Head(found.queues[l]).dts))
<1>1. CASE found.queues[l] # <<>>
  BY <1>1, PrimarySent
<1>2. CASE found.queues[l] = <<>>
  <2> DEFINE chosen == Choose(found.queues, found.fallback, TRUE, l, p)
  <2>1. chosen.via # "queue"
    BY <1>2 DEF Choose
  <2>2. /\ TakePrimary(l, chosen, found.queues, found.fallback, found.sources, found.pending)
        /\ state' = IF chosen.via = "queue" THEN next ELSE "ReturningLive"
    BY DEF EmitPrimary
  <2> HIDE DEF chosen
  <2> QED BY <1>2, <2>1, <2>2 DEF TakePrimary, TakeHead
<1> QED BY <1>1, <1>2

\* What is left of a rising queue rises, and lies behind its head.
LEMMA RisingBehindHead ==
  ASSUME NEW q \in Seq(Packet), q # <<>>, NEW dts \in Nat, Rising(q, dts)
  PROVE  /\ Tail(q) \in Seq(Packet) /\ Rising(Tail(q), dts)
         /\ Head(q) \in Packet /\ Head(q).dts \in Nat /\ Head(q).dts < dts
         /\ \A i \in 1..Len(Tail(q)) : Head(q).dts < Tail(q)[i].dts /\ Tail(q)[i].dts \in Nat
         /\ \A i \in 1..Len(q) : Head(q).dts <= q[i].dts
         /\ Tail(q) # <<>> => Head(Tail(q)) = Tail(q)[1] /\ 1 \in 1..Len(Tail(q))
<1>1. /\ Tail(q) \in Seq(Packet) /\ Head(q) = q[1] /\ 1 \in 1..Len(q) /\ Len(q) \in Nat
      /\ \A i \in 1..Len(Tail(q)) : i + 1 \in 1..Len(q) /\ 1 < i + 1 /\ Tail(q)[i] = q[i + 1]
      /\ \A i \in 1..Len(q) : q[i] \in Packet
  OBVIOUS
<1>2. \A i \in 1..Len(q) : q[i].dts \in Nat
  BY <1>1 DEF Packet
<1>3. Rising(Tail(q), dts)
  BY RisingTail
<1>4. Head(q) \in Packet /\ Head(q).dts \in Nat /\ Head(q).dts < dts
  BY <1>1, <1>2 DEF Rising
<1>5. \A i \in 1..Len(Tail(q)) : Head(q).dts < Tail(q)[i].dts /\ Tail(q)[i].dts \in Nat
  BY <1>1, <1>2 DEF Rising
<1>6. ASSUME NEW i \in 1..Len(q) PROVE Head(q).dts <= q[i].dts
  <2>1. i = 1 \/ 1 < i
    BY <1>1
  <2>2. 1 < i => q[1].dts < q[i].dts
    BY <1>1 DEF Rising
  <2> QED BY <1>1, <1>2, <2>1, <2>2
<1>7. Tail(q) # <<>> => Head(Tail(q)) = Tail(q)[1] /\ 1 \in 1..Len(Tail(q))
  BY <1>1
<1> QED BY <1>1, <1>3, <1>4, <1>5, <1>6, <1>7

\* Sending from a queue keeps it in order, and what was sent before what is queued.
LEMMA TakenInOrder ==
  ASSUME TypeOK, TypeOK', NEW l \in Lanes, NEW p, Comes(l, p), NEW found \in Found, NEW next,
         \A m \in Lanes : Rising(found.queues[m], Now(m)'),
         EmitPrimary(l, p, found, next)
  PROVE  /\ QueuesRise'
         /\ found.queues[l] # <<>> /\ SourcesBefore(found.queues, found.sources)
              => SourcesBefore(primaryQueues, lastSource)'
<1>0. p \in Packet
  BY DEF Comes
<1>1. /\ \A m \in Lanes :
           primaryQueues'[m] = IF m = l /\ found.queues[l] # <<>> THEN Tail(found.queues[l])
                               ELSE found.queues[m]
      /\ found.queues[l] # <<>> =>
           \A m \in Lanes :
             lastSource'[m] = IF m = l THEN Head(found.queues[l]).dts ELSE found.sources[m]
  BY <1>0, PrimaryTaken
<1>2. \A m \in Lanes : /\ Now(m)' \in Nat /\ found.queues[m] \in Seq(Packet)
                       /\ Now(m) \in Nat /\ found.sources[m] \in Int
                       /\ Now(m) <= Now(m)'
  <2>1. \A m \in Lanes : Now(m) \in Nat /\ found.queues[m] \in Seq(Packet) /\ found.sources[m] \in Int
    BY FoundFields, LaneTypes DEF Now, LaneQueues
  <2>2. p.dts \in Nat /\ p.dts = Now(l) /\ \A m \in Lanes : Now(m)' = IF m = l THEN p.dts + 1 ELSE Now(m)
    BY DEF Comes, Packet
  <2> QED BY <2>1, <2>2
<1>3. QueuesRise'
  <2> SUFFICES ASSUME NEW m \in Lanes PROVE Rising(primaryQueues'[m], Now(m)')
    BY DEF QueuesRise
  <2>1. CASE m = l /\ found.queues[l] # <<>>
    BY <1>1, <1>2, <2>1, RisingBehindHead
  <2>2. CASE ~(m = l /\ found.queues[l] # <<>>)
    BY <1>1, <2>2
  <2> QED BY <2>1, <2>2
<1>4. ASSUME found.queues[l] # <<>>, SourcesBefore(found.queues, found.sources)
      PROVE  SourcesBefore(primaryQueues, lastSource)'
  <2> SUFFICES ASSUME NEW m \in Lanes
               PROVE  /\ lastSource'[m] < Now(m)'
                      /\ \A i \in 1..Len(primaryQueues'[m]) : lastSource'[m] < primaryQueues'[m][i].dts
    BY DEF SourcesBefore
  <2>1. CASE m = l
    <3>1. primaryQueues'[m] = Tail(found.queues[l]) /\ lastSource'[m] = Head(found.queues[l]).dts
      BY <1>1, <1>4, <2>1
    <3> QED BY <1>2, <1>4, <2>1, <3>1, RisingBehindHead
  <2>2. CASE m # l
    <3>1. primaryQueues'[m] = found.queues[m] /\ lastSource'[m] = found.sources[m]
      BY <1>1, <1>4, <2>2
    <3>2. /\ found.sources[m] < Now(m)
          /\ \A i \in 1..Len(found.queues[m]) : found.sources[m] < found.queues[m][i].dts
      BY <1>4 DEF SourcesBefore
    <3> QED BY <1>2, <3>1, <3>2
  <2> QED BY <2>1, <2>2
<1> QED BY <1>3, <1>4

\* A lane's queue with the packet behind it begins with what was due, and what is sent
\* before that is sent before all of it.
LEMMA BufferedDue ==
  ASSUME TypeOK, QueuesRise, NEW l \in Lanes, NEW p, Comes(l, p)
  PROVE  /\ Buffered(l, p)[l] # <<>> /\ Head(Buffered(l, p)[l]).dts = DueNext(primaryQueues[l], Now(l))
         /\ SourcesBefore(primaryQueues, lastSource) => SourcesBefore(Buffered(l, p), lastSource)
<1>1. p \in Packet /\ p.dts = Now(l)
  BY DEF Comes
<1>2. \A m \in Lanes :
        /\ Buffered(l, p)[m] = IF m = l THEN Append(primaryQueues[m], p) ELSE primaryQueues[m]
        /\ primaryQueues[m] \in Seq(Packet)
  BY BufferedRises
<1> DEFINE q == primaryQueues[l]
<1>3. /\ q \in Seq(Packet) /\ Append(q, p) # <<>> /\ q = <<>> => Head(Append(q, p)) = p
      /\ q # <<>> => Head(Append(q, p)) = Head(q)
      /\ \A i \in 1..Len(Append(q, p)) :
           \/ i \in 1..Len(q) /\ Append(q, p)[i] = q[i]
           \/ Append(q, p)[i] = p
  BY <1>1, <1>2
<1>4. Buffered(l, p)[l] # <<>> /\ Head(Buffered(l, p)[l]).dts = DueNext(primaryQueues[l], Now(l))
  <2> HIDE DEF q
  <2>1. Buffered(l, p)[l] = Append(q, p)
    BY <1>2 DEF q
  <2> QED BY <1>1, <1>3, <2>1 DEF DueNext, q
<1>5. ASSUME SourcesBefore(primaryQueues, lastSource) PROVE SourcesBefore(Buffered(l, p), lastSource)
  <2> SUFFICES ASSUME NEW m \in Lanes
               PROVE  /\ lastSource[m] < Now(m)
                      /\ \A i \in 1..Len(Buffered(l, p)[m]) : lastSource[m] < Buffered(l, p)[m][i].dts
    BY DEF SourcesBefore
  <2>1. /\ lastSource[m] < Now(m)
        /\ \A i \in 1..Len(primaryQueues[m]) : lastSource[m] < primaryQueues[m][i].dts
    BY <1>5 DEF SourcesBefore
  <2>2. CASE m # l
    BY <1>2, <2>1, <2>2
  <2>3. CASE m = l
    <3>1. Buffered(l, p)[m] = Append(q, p)
      BY <1>2, <2>3
    <3>2. lastSource[m] < p.dts /\ \A i \in 1..Len(q) : lastSource[m] < q[i].dts
      BY <1>1, <2>1, <2>3
    <3> HIDE DEF q
    <3> QED BY <1>3, <2>1, <3>1, <3>2
  <2> QED BY <2>2, <2>3
<1> QED BY <1>4, <1>5

\* A track that sends what is due stays where it was.
LEMMA TrackMovesOn ==
  ASSUME NEW dts \in Nat, NEW last, NEW q \in Seq(Packet), NEW rest \in Seq(Packet),
         NEW age \in Int, NEW due \in Nat, NEW source, dts = last + 1,
         TrackInStep(dts, last, q, source, age), DueNext(q, dts) = due, ~Hole(source, due),
         \A i \in 1..Len(rest) : due < rest[i].dts, due <= dts
  PROVE  age - (dts - due) \in -2..2 /\ TrackInStep(dts + 1, dts, rest, due, age)
<1>1. age - (dts - due) \in -2..2
  BY DEF TrackInStep
<1> DEFINE next == DueNext(rest, dts + 1)
<1>2. next \in Nat /\ due < next
  <2>1. CASE rest # <<>>
    <3>1. Head(rest) = rest[1] /\ 1 \in 1..Len(rest) /\ rest[1] \in Packet
      BY <2>1
    <3>2. Head(rest).dts \in Nat /\ due < Head(rest).dts
      BY <3>1 DEF Packet
    <3> QED BY <2>1, <3>2 DEF DueNext
  <2>2. CASE rest = <<>>
    BY <2>2 DEF DueNext
  <2> QED BY <2>1, <2>2
<1>3. ~Hole(due, next) => next = due + 1
  BY <1>2 DEF Hole, NoDts
<1> HIDE DEF next
<1>4. ~Hole(due, next) => age - ((dts + 1) - next) \in -2..2
  BY <1>1, <1>2, <1>3
<1> QED BY <1>1, <1>4 DEF TrackInStep, next

\* What the audio of a delayed session sends is in step with the video, and stays so.
LEMMA AudioDelayInStep ==
  ASSUME TypeOK, TypeOK', InStep, NEW l \in AudioTracks, NEW p, Comes(l, p), Delay(l, p)
  PROVE  /\ QueuesRise' /\ DelayedInStep'
         /\ state' = "Delayed" /\ ~realignmentPending'
              => lastOut'[l].age - lastOut[Video].age \in -2..2
<1> DEFINE queues == Buffered(l, p)
           found  == Realigned(queues, l, p)
<1>0. /\ l \in Lanes /\ Video \in Lanes /\ l # Video /\ p \in Packet /\ p.dts \in Nat
      /\ p.dts = Now(l) /\ \A m \in Lanes : Now(m)' = IF m = l THEN p.dts + 1 ELSE Now(m)
  BY LanesAreNaturals, SessionAssumption DEF Lanes, Video, Comes, Packet
<1>1. /\ state = "Delayed" /\ Observed(l, p) /\ EmitPrimary(l, p, found, "Delayed")
  BY DEF Delay
<1>2. /\ \A m \in Lanes : lastPrimary[m] # NoDts
      /\ SourcesBefore(primaryQueues, lastSource) /\ lastSource[Video] # NoDts
      /\ lastOut[Video].age = lastPrimary[Video] - lastSource[Video]
      /\ ~realignmentPending => AudioInStep(lastOut[Video].age)
  BY <1>1 DEF InStep, DelayedInStep
<1>3. /\ queues \in LaneQueues
      /\ \A m \in Lanes : /\ m # l => queues[m] = primaryQueues[m]
                          /\ queues[m] \in Seq(Packet) /\ Rising(queues[m], Now(m)')
      /\ queues[l] # <<>> /\ Head(queues[l]).dts = DueNext(primaryQueues[l], Now(l))
      /\ SourcesBefore(queues, lastSource) /\ primaryQueues[l] \in Seq(Packet)
  BY <1>0, <1>2, BufferedRises, BufferedDue DEF InStep
<1> HIDE DEF queues
<1>4. found \in Found
  BY <1>0, <1>3, RealignedType
<1>5. /\ found.queues = queues /\ found.sources = lastSource /\ found.pending = HoleSeen(l, p)
  BY <1>0 DEF Realigned
<1> HIDE DEF found
<1>6. /\ \A m \in Lanes : primaryQueues'[m] = IF m = l THEN Tail(queues[l]) ELSE queues[m]
      /\ lastOut'[l].age = p.dts - Head(queues[l]).dts
      /\ \A m \in Lanes : m # l => lastOut'[m] = lastOut[m]
      /\ \A m \in Lanes : lastSource'[m] = IF m = l THEN Head(queues[l]).dts ELSE lastSource[m]
      /\ realignmentPending' = (HoleSeen(l, p) \/ Hole(lastSource[l], Head(queues[l]).dts))
  BY <1>0, <1>1, <1>3, <1>4, <1>5, PrimaryTaken
<1>7. QueuesRise' /\ SourcesBefore(primaryQueues, lastSource)'
  BY <1>0, <1>1, <1>3, <1>4, <1>5, TakenInOrder
<1>8. \A m \in Lanes : lastPrimary'[m] = IF m = l THEN p.dts ELSE lastPrimary[m]
  BY <1>1 DEF Observed, TypeOK, CadenceOK
<1>9. ASSUME ~realignmentPending'
      PROVE  lastOut'[l].age - lastOut[Video].age \in -2..2 /\ AudioInStep(lastOut[Video].age)'
  <2> DEFINE due == Head(queues[l]).dts
             age == lastOut[Video].age
             rest == Tail(queues[l])
  <2>1. /\ ~HoleSeen(l, p) /\ ~Hole(lastSource[l], due) /\ ~realignmentPending
    BY <1>6, <1>9 DEF HoleSeen
  <2>2. due \in Nat /\ due <= p.dts /\ rest \in Seq(Packet)
        /\ \A i \in 1..Len(rest) : due < rest[i].dts
    <3>1. p.dts + 1 \in Nat /\ Rising(queues[l], p.dts + 1)
      BY <1>0, <1>3
    <3>2. due < p.dts + 1 /\ due \in Nat
      BY <1>0, <1>3, <3>1, RisingBehindHead
    <3> QED BY <1>0, <1>3, <3>1, <3>2, RisingBehindHead
  <2>3. age \in Int
    BY <1>0, LaneTypes DEF EmittedPacket
  <2>4. p.dts = lastPrimary[l] + 1
    BY <1>0, <1>2, <2>1, NextSeen DEF InStep
  <2>5. TrackInStep(p.dts, lastPrimary[l], primaryQueues[l], lastSource[l], age)
        /\ DueNext(primaryQueues[l], p.dts) = due
    BY <1>0, <1>2, <1>3, <2>1 DEF AudioInStep
  <2> HIDE DEF due, age, rest
  <2>6. age - (p.dts - due) \in -2..2 /\ TrackInStep(p.dts + 1, p.dts, rest, due, age)
    BY <1>0, <1>3, <2>1, <2>2, <2>3, <2>4, <2>5, TrackMovesOn
  <2>7. lastOut'[l].age - lastOut[Video].age \in -2..2
    BY <1>0, <1>6, <2>2, <2>3, <2>6, SMTT(30) DEF due, age
  <2>8. ASSUME NEW a \in AudioTracks
        PROVE  TrackInStep(Now(a)', lastPrimary'[a], primaryQueues'[a], lastSource'[a], lastOut'[Video].age)
    <3>1. lastOut'[Video].age = age /\ a \in Lanes
      BY <1>0, <1>6 DEF age, Lanes
    <3>2. CASE a = l
      <4>1. primaryQueues'[a] = rest /\ lastSource'[a] = due /\ Now(a)' = p.dts + 1 /\ lastPrimary'[a] = p.dts
        BY <1>0, <1>6, <1>8, <3>2 DEF rest, due
      <4> QED BY <2>6, <3>1, <4>1
    <3>3. CASE a # l
      <4>1. /\ primaryQueues'[a] = primaryQueues[a] /\ lastSource'[a] = lastSource[a]
            /\ Now(a)' = Now(a) /\ lastPrimary'[a] = lastPrimary[a]
        BY <1>0, <1>3, <1>6, <1>8, <3>1, <3>3
      <4>2. TrackInStep(Now(a), lastPrimary[a], primaryQueues[a], lastSource[a], age)
        BY <1>2, <2>1 DEF age, AudioInStep
      <4> QED BY <3>1, <4>1, <4>2
    <3> QED BY <3>2, <3>3
  <2> QED BY <2>7, <2>8 DEF AudioInStep
<1>10. /\ \A m \in Lanes : lastPrimary'[m] # NoDts
       /\ lastSource'[Video] # NoDts /\ lastOut'[Video].age = lastPrimary'[Video] - lastSource'[Video]
  BY <1>0, <1>2, <1>6, <1>8 DEF NoDts
<1> QED BY <1>7, <1>9, <1>10 DEF DelayedInStep

\* A rising queue that is cut at one of its packets begins with it.
LEMMA CutBegins ==
  ASSUME NEW q \in Seq(Packet), NEW dts, Rising(q, dts), NEW j \in 1..Len(q)
  PROVE  LET cut == DropBefore(q, q[j].dts)
         IN  cut # <<>> => Head(cut).dts = q[j].dts
<1> DEFINE origin == q[j].dts
           cut == DropBefore(q, origin)
<1>1. (\A i \in 1..Len(q) : q[i].dts \in Nat) /\ origin \in Nat /\ Len(q) \in Nat
  <2>1. \A i \in 1..Len(q) : q[i] \in Packet
    OBVIOUS
  <2> QED BY <2>1 DEF Packet
<1>2. Ascending(q)
  BY <1>1 DEF Ascending, Rising
<1>3. PICK dropped \in 0..Len(q) :
        /\ cut \in Seq(Packet) /\ Len(cut) = Len(q) - dropped
        /\ \A i \in 1..(Len(q) - dropped) : cut[i] = q[i + dropped] /\ q[i + dropped].dts >= origin
        /\ \A i \in 1..dropped : q[i].dts < origin
  <2> HIDE DEF origin
  <2> QED BY <1>1, <1>2, DropBeforeCuts
<1> HIDE DEF cut
<1>4. dropped < j
  BY <1>1, <1>3
<1>5. /\ 1 \in 1..(Len(q) - dropped) /\ 1 + dropped \in 1..Len(q) /\ 1 + dropped <= j
      /\ cut # <<>> => Head(cut) = cut[1]
  BY <1>1, <1>3, <1>4
<1>6. q[1 + dropped].dts >= origin /\ cut[1] = q[1 + dropped]
  BY <1>3, <1>5
<1>7. q[1 + dropped].dts <= origin
  <2>1. 1 + dropped = j \/ 1 + dropped < j
    BY <1>1, <1>5
  <2> QED BY <1>1, <1>5, <2>1 DEF Rising
<1> QED BY <1>1, <1>5, <1>6, <1>7 DEF cut

\* Audio that has been seen up to its encoder is up to the video packet that arrives.
LEMMA AudioUpToVideo ==
  ASSUME TypeOK, CadenceSeen, NEW p, Comes(Video, p), NEW a \in AudioTracks,
         Now(a) = lastPrimary[a] + 1
  PROVE  Now(a) = p.dts
<1>1. a \in Lanes /\ Video \in Lanes /\ a # Video
  BY LanesAreNaturals, SessionAssumption DEF Lanes, Video
<1>2. p.dts \in Nat /\ p.dts <= Now(a) /\ p.dts = Now(Video) /\ Now(a) \in Nat /\ lastPrimary[a] \in Int
  BY <1>1, LaneTypes DEF Comes, Packet, Now
<1>3. lastPrimary[a] < Now(Video)
  BY <1>1 DEF CadenceSeen
<1> QED BY <1>2, <1>3

\* What a video packet finds when the lanes are in step.
VideoFinds(found, p) ==
  /\ \A m \in Lanes : Rising(found.queues[m], Now(m)')
  /\ SourcesBefore(found.queues, found.sources)
  /\ ~found.pending /\ found.queues[Video] # <<>>
     /\ ~Hole(found.sources[Video], Head(found.queues[Video]).dts) =>
       \A a \in AudioTracks :
         TrackInStep(Now(a), lastPrimary[a], found.queues[a], found.sources[a],
                     p.dts - Head(found.queues[Video]).dts)

\* A video packet of a delayed session leaves the lanes in step if it finds them so.
LEMMA VideoSentInStep ==
  ASSUME TypeOK, TypeOK', NEW p, Comes(Video, p), Observed(Video, p), NEW found \in Found,
         EmitPrimary(Video, p, found, "Delayed"), VideoFinds(found, p),
         \A m \in Lanes : lastPrimary[m] # NoDts
  PROVE  QueuesRise' /\ DelayedInStep'
<1> DEFINE v == Head(found.queues[Video]).dts
<1>0. Video \in Lanes /\ p \in Packet /\ p.dts \in Nat /\ p.dts = Now(Video)
      /\ \A m \in Lanes : Now(m)' = IF m = Video THEN p.dts + 1 ELSE Now(m)
  BY LanesAreNaturals DEF Comes, Packet
<1>1. QueuesRise' /\ (found.queues[Video] # <<>> => SourcesBefore(primaryQueues, lastSource)')
  BY <1>0, TakenInOrder DEF VideoFinds
<1>2. /\ \A m \in Lanes :
           primaryQueues'[m] = IF m = Video /\ found.queues[Video] # <<>>
                               THEN Tail(found.queues[Video]) ELSE found.queues[m]
      /\ found.queues[Video] = <<>> => state' = "ReturningLive"
      /\ found.queues[Video] # <<>> =>
           /\ lastOut'[Video].age = p.dts - v
           /\ \A m \in Lanes : lastSource'[m] = IF m = Video THEN v ELSE found.sources[m]
           /\ realignmentPending' = (found.pending \/ Hole(found.sources[Video], v))
  BY <1>0, PrimaryTaken
<1>3. \A m \in Lanes : lastPrimary'[m] = IF m = Video THEN p.dts ELSE lastPrimary[m]
  BY <1>0 DEF Observed, TypeOK, CadenceOK
<1>4. ASSUME state' = "Delayed" PROVE DelayedInStep'
  <2>1. found.queues[Video] # <<>>
    BY <1>2, <1>4
  <2>2. v \in Nat
    <3>1. found.queues[Video] \in Seq(Packet) /\ Rising(found.queues[Video], p.dts + 1)
          /\ p.dts + 1 \in Nat
      BY <1>0, FoundFields DEF LaneQueues, VideoFinds
    <3> QED BY <2>1, <3>1, RisingBehindHead
  <2> HIDE DEF v
  <2>3. /\ lastOut'[Video].age = p.dts - v /\ lastSource'[Video] = v /\ lastPrimary'[Video] = p.dts
        /\ realignmentPending' = (found.pending \/ Hole(found.sources[Video], v))
    BY <1>0, <1>2, <1>3, <2>1
  <2>4. ASSUME ~realignmentPending' PROVE AudioInStep(lastOut[Video].age)'
    <3>1. ~found.pending /\ ~Hole(found.sources[Video], v)
      BY <2>3, <2>4
    <3>2. ASSUME NEW a \in AudioTracks
          PROVE  TrackInStep(Now(a)', lastPrimary'[a], primaryQueues'[a], lastSource'[a],
                             lastOut'[Video].age)
      <4>1. a \in Lanes /\ a # Video
        BY SessionAssumption DEF Lanes, Video
      <4>2. TrackInStep(Now(a), lastPrimary[a], found.queues[a], found.sources[a], p.dts - v)
        BY <2>1, <3>1 DEF v, VideoFinds
      <4>3. /\ Now(a)' = Now(a) /\ lastPrimary'[a] = lastPrimary[a]
            /\ primaryQueues'[a] = found.queues[a] /\ lastSource'[a] = found.sources[a]
        BY <1>0, <1>2, <1>3, <2>1, <4>1
      <4> QED BY <2>3, <4>2, <4>3
    <3> QED BY <3>2 DEF AudioInStep
  <2>5. /\ \A m \in Lanes : lastPrimary'[m] # NoDts
        /\ lastSource'[Video] # NoDts
        /\ lastOut'[Video].age = lastPrimary'[Video] - lastSource'[Video]
    BY <1>0, <1>3, <2>2, <2>3 DEF NoDts
  <2> QED BY <1>1, <2>1, <2>4, <2>5 DEF DelayedInStep
<1>5. state' # "Delayed" => DelayedInStep'
  BY DEF DelayedInStep
<1> QED BY <1>1, <1>4, <1>5

\* What a video packet of a delayed session finds: what was queued, when no hole was seen or
\* when the ages differ no more than is tolerated; or every lane cut at one frame.
LEMMA RealignedInStep ==
  ASSUME TypeOK, InStep, state = "Delayed", NEW p, Comes(Video, p)
  PROVE  LET found == Realigned(Buffered(Video, p), Video, p)
         IN  found \in Found /\ VideoFinds(found, p)
<1> DEFINE queues == Buffered(Video, p)
           v == Head(queues[Video]).dts
           origins == RealignOrigins(queues)
           origin  == RealignOrigin(origins, p.dts - Target)
           asIs(pending) == [queues |-> queues, fallback |-> primaryFallback, sources |-> lastSource,
                             pending |-> pending, cut |-> FALSE]
           cut == [queues |-> [m \in Lanes |-> DropBefore(queues[m], origin)],
                   fallback |-> [m \in Lanes |-> <<>>],
                   sources |-> [m \in Lanes |-> NoDts],
                   pending |-> FALSE, cut |-> TRUE]
           found == Realigned(queues, Video, p)
<1>0. /\ Video \in Lanes /\ p \in Packet /\ p.dts \in Nat /\ p.dts = Now(Video)
      /\ \A a \in AudioTracks : a \in Lanes /\ a # Video
      /\ \A m \in Lanes : Now(m)' \in Nat /\ Now(m) \in Nat
  <2>1. Video \in Lanes /\ p \in Packet /\ p.dts \in Nat /\ p.dts = Now(Video)
        /\ \A a \in AudioTracks : a \in Lanes /\ a # Video
    BY LanesAreNaturals, SessionAssumption DEF Comes, Packet, Lanes, Video
  <2>2. \A m \in Lanes : Now(m)' = IF m = Video THEN p.dts + 1 ELSE Now(m)
    BY DEF Comes
  <2>3. \A m \in Lanes : Now(m) \in Nat
    BY LaneTypes DEF Now
  <2> QED BY <2>1, <2>2, <2>3
<1>1. /\ SourcesBefore(primaryQueues, lastSource) /\ lastSource[Video] # NoDts
      /\ lastOut[Video].age = lastPrimary[Video] - lastSource[Video]
      /\ \A m \in Lanes : lastPrimary[m] # NoDts
      /\ ~realignmentPending => AudioInStep(lastOut[Video].age)
  BY DEF InStep, DelayedInStep
<1>2. /\ queues \in LaneQueues
      /\ \A m \in Lanes : /\ m # Video => queues[m] = primaryQueues[m]
                          /\ queues[m] \in Seq(Packet) /\ Rising(queues[m], Now(m)')
      /\ queues[Video] # <<>> /\ SourcesBefore(queues, lastSource)
  BY <1>0, <1>1, BufferedRises, BufferedDue DEF InStep
<1>3. found \in Found
  <2> HIDE DEF queues
  <2> QED BY <1>0, <1>2, RealignedType
<1>4. \/ ~RealignPending(queues, p) /\ found = asIs(FALSE)
      \/ found = asIs(TRUE)
      \/ /\ \A a \in AudioTracks : queues[a] # <<>>
         /\ ~Skewed(queues, p) /\ found = asIs(FALSE)
      \/ origins # {} /\ found = cut
  <2> HIDE DEF queues
  <2> QED BY <1>0 DEF Realigned
<1> SUFFICES VideoFinds(found, p)
  BY <1>3
<1> HIDE DEF queues, found
<1>5. \A pending : /\ asIs(pending).queues = queues /\ asIs(pending).sources = lastSource
                   /\ asIs(pending).pending = pending
  OBVIOUS
<1> HIDE DEF asIs
<1>6. ASSUME NEW pending,
             ~pending => \A a \in AudioTracks :
                           TrackInStep(Now(a), lastPrimary[a], queues[a], lastSource[a], p.dts - v)
      PROVE  VideoFinds(asIs(pending), p)
  BY <1>2, <1>5, <1>6 DEF VideoFinds
<1>7. CASE found = asIs(TRUE)
  BY <1>6, <1>7
<1>8. CASE ~RealignPending(queues, p) /\ found = asIs(FALSE)
  <2>1. ~HoleSeen(Video, p) /\ ~Hole(lastSource[Video], v)
    BY <1>8 DEF RealignPending
  <2>2. p.dts = lastPrimary[Video] + 1 /\ ~realignmentPending
    BY <1>0, <1>1, <2>1, NextSeen DEF InStep
  <2>3. v \in Nat /\ lastSource[Video] < v
    <3>1. Head(queues[Video]) = queues[Video][1] /\ 1 \in 1..Len(queues[Video])
          /\ queues[Video][1] \in Packet
      BY <1>0, <1>2
    <3> QED BY <1>0, <1>2, <3>1 DEF SourcesBefore, Packet
  <2>4. lastSource[Video] \in Int /\ lastPrimary[Video] \in Int
    BY <1>0, LaneTypes
  <2> HIDE DEF v
  <2>5. v = lastSource[Video] + 1
    BY <1>1, <2>1, <2>3, <2>4 DEF Hole
  <2>6. p.dts - v = lastOut[Video].age
    BY <1>1, <2>2, <2>3, <2>4, <2>5
  <2>7. \A a \in AudioTracks :
          TrackInStep(Now(a), lastPrimary[a], queues[a], lastSource[a], p.dts - v)
    BY <1>0, <1>1, <1>2, <2>2, <2>6 DEF AudioInStep
  <2> QED BY <1>6, <1>8, <2>7
<1>9. CASE (\A a \in AudioTracks : queues[a] # <<>>) /\ ~Skewed(queues, p) /\ found = asIs(FALSE)
  <2>1. ASSUME NEW a \in AudioTracks
        PROVE  TrackInStep(Now(a), lastPrimary[a], queues[a], lastSource[a], p.dts - v)
    <3> DEFINE age == lastPrimary[a] + 1 - Head(queues[a]).dts
               difference == (p.dts - v) - age
    <3>1. ~(difference > 2) /\ ~(-difference > 2)
      BY <1>9 DEF Skewed, AudioAges, RealignTolerance
    <3>2. v \in Nat /\ Head(queues[a]).dts \in Nat /\ lastPrimary[a] \in Int
      <4>1. \A m \in Lanes : queues[m] # <<>> => Head(queues[m]) \in Packet
        BY <1>2
      <4> QED BY <1>0, <1>2, <1>9, <4>1, LaneTypes DEF Packet
    <3>3. difference \in -2..2
      <4>1. difference \in Int
        BY <1>0, <3>2
      <4> HIDE DEF difference
      <4> QED BY <3>1, <4>1
    <3>4. DueNext(queues[a], Now(a)) = Head(queues[a]).dts
      BY <1>9 DEF DueNext
    <3> HIDE DEF v
    <3>5. Now(a) = lastPrimary[a] + 1 => (p.dts - v) - (Now(a) - Head(queues[a]).dts) = difference
      BY <1>0, <3>2
    <3> HIDE DEF difference
    <3> QED BY <3>3, <3>4, <3>5 DEF TrackInStep
  <2> QED BY <1>6, <1>9, <2>1
<1>10. CASE origins # {} /\ found = cut
  <2> DEFINE vq == queues[Video]
  <2>1. vq \in Seq(Packet) /\ \A i \in 1..Len(vq) : vq[i].dts \in Nat /\ vq[i].dts <= Now(Video)'
    <3>1. vq \in Seq(Packet) /\ Rising(vq, Now(Video)') /\ Now(Video)' \in Nat
      BY <1>0, <1>2
    <3> HIDE DEF vq
    <3>2. \A i \in 1..Len(vq) : vq[i] \in Packet
      BY <3>1
    <3> QED BY <3>1, <3>2 DEF Rising, Packet
  <2>2. /\ \A d \in origins : \E j \in 1..Len(vq) : d = vq[j].dts
        /\ \A d \in origins : AudioAligned(queues, d)
    BY DEF RealignOrigins
  <2> HIDE DEF origins, vq
  <2>3. origins \in SUBSET Nat /\ \A d \in origins : d <= Now(Video)'
    BY <2>1, <2>2
  <2>4. p.dts - Target \in Int
    BY <1>0, SessionAssumption
  <2>5. origin \in origins
    BY <1>0, <1>10, <2>3, <2>4, OriginIsCandidate
  <2>6. PICK j \in 1..Len(vq) : origin = vq[j].dts
    BY <2>2, <2>5
  <2>7. AudioAligned(queues, origin) /\ origin \in Nat
    BY <2>2, <2>3, <2>5
  <2>8. /\ \A m \in Lanes : cut.queues[m] = DropBefore(queues[m], origin) /\ cut.sources[m] = NoDts
        /\ cut.pending = FALSE
    OBVIOUS
  <2> HIDE DEF origin, cut
  <2>9. \A m \in Lanes :
          /\ Rising(cut.queues[m], Now(m)') /\ cut.queues[m] \in Seq(Packet)
          /\ \A i \in 1..Len(cut.queues[m]) : /\ cut.queues[m][i].dts \in Nat
                                              /\ cut.queues[m][i].dts >= origin
    BY <1>2, <2>7, <2>8, RisingCut
  <2>10. SourcesBefore(cut.queues, cut.sources)
    BY <1>0, <2>8, <2>9 DEF SourcesBefore, NoDts
  <2>11. cut.queues[Video] # <<>> => Head(cut.queues[Video]).dts = origin
    <3>1. cut.queues[Video] = DropBefore(vq, vq[j].dts)
      BY <1>0, <2>6, <2>8 DEF vq
    <3>2. Rising(vq, Now(Video)')
      BY <1>0, <1>2 DEF vq
    <3>3. DropBefore(vq, vq[j].dts) # <<>> => Head(DropBefore(vq, vq[j].dts)).dts = vq[j].dts
      BY <2>1, <3>2, CutBegins
    <3> QED BY <2>6, <3>1, <3>3
  <2>12. ASSUME NEW a \in AudioTracks
         PROVE  TrackInStep(Now(a), lastPrimary[a], cut.queues[a], cut.sources[a], p.dts - origin)
    <3> DEFINE kept == DropBefore(queues[a], origin)
    <3>1. cut.queues[a] = kept /\ kept # <<>> /\ Head(kept).dts - origin <= 1
      BY <1>0, <2>7, <2>8 DEF AudioAligned
    <3>2. Head(kept).dts \in Nat /\ Head(kept).dts >= origin
      <4>1. kept \in Seq(Packet)
        BY <1>0, <2>9, <3>1
      <4> HIDE DEF kept
      <4>2. Head(kept) = kept[1] /\ 1 \in 1..Len(kept)
        BY <3>1, <4>1
      <4> QED BY <1>0, <2>9, <3>1, <4>2
    <3> HIDE DEF kept
    <3>3. ASSUME Now(a) = lastPrimary[a] + 1
          PROVE  (p.dts - origin) - (Now(a) - Head(kept).dts) \in -2..2
      <4>1. Now(a) = p.dts
        BY <3>3, AudioUpToVideo DEF InStep
      <4>2. (p.dts - origin) - (p.dts - Head(kept).dts) = Head(kept).dts - origin
            /\ Head(kept).dts - origin \in 0..1
        BY <1>0, <2>7, <3>1, <3>2
      <4> QED BY <2>7, <3>2, <4>1, <4>2
    <3> QED BY <3>1, <3>3 DEF TrackInStep, DueNext
  <2>13. VideoFinds(cut, p)
    BY <2>8, <2>9, <2>10, <2>11, <2>12 DEF VideoFinds
  <2> QED BY <1>10, <2>13
<1> QED BY <1>4, <1>7, <1>8, <1>9, <1>10

\* So a delayed session is in step whatever lane has its turn.
LEMMA DelayInStep ==
  ASSUME TypeOK, TypeOK', InStep, NEW l \in Lanes, NEW p, Comes(l, p), Delay(l, p)
  PROVE  /\ QueuesRise' /\ DelayedInStep'
         /\ l # Video /\ state' = "Delayed" /\ ~realignmentPending'
              => lastOut'[l].age - lastOut[Video].age \in -2..2
<1>1. CASE l = Video
  <2> DEFINE found == Realigned(Buffered(Video, p), Video, p)
  <2>1. state = "Delayed" /\ Observed(Video, p) /\ EmitPrimary(Video, p, found, "Delayed")
    BY <1>1 DEF Delay
  <2>2. Comes(Video, p) /\ \A m \in Lanes : lastPrimary[m] # NoDts
    BY <1>1, <2>1 DEF InStep, DelayedInStep
  <2>3. found \in Found /\ VideoFinds(found, p)
    BY <2>1, <2>2, RealignedInStep
  <2> HIDE DEF found
  <2> QED BY <1>1, <2>1, <2>2, <2>3, VideoSentInStep
<1>2. CASE l # Video
  <2>1. l \in AudioTracks
    BY <1>2 DEF Lanes
  <2> QED BY <2>1, AudioDelayInStep
<1> QED BY <1>1, <1>2

\* The delay begins with queues that begin together.
LEMMA StartDelayedInStep ==
  ASSUME TypeOK, TypeOK', InStep, NEW l \in Lanes, NEW p, Comes(l, p), StartDelayed(l, p)
  PROVE  QueuesRise' /\ DelayedInStep'
<1> DEFINE queues == Buffered(Video, p)
           none == [m \in Lanes |-> NoDts]
           found == [NotRealigned(queues, Video, p) EXCEPT !.sources = none, !.cut = TRUE]
<1>1. /\ state = "Filling" /\ l = Video /\ p.dts - fillStart >= Target
      /\ Observed(Video, p) /\ EmitPrimary(Video, p, found, "Delayed")
  BY DEF StartDelayed, DurationReady
<1>0. /\ Video \in Lanes /\ p \in Packet /\ p.dts \in Nat /\ p.dts = Now(Video)
      /\ \A a \in AudioTracks : a \in Lanes /\ a # Video
      /\ \A m \in Lanes : Now(m) \in Nat /\ lastPrimary[m] \in Int
      /\ Comes(Video, p)
  BY <1>1, LanesAreNaturals, LaneTypes, SessionAssumption DEF Comes, Packet, Lanes, Video, Now
<1>2. /\ primaryQueues[Video] # <<>> /\ Head(primaryQueues[Video]).dts = fillStart
      /\ \A m \in Lanes : lastPrimary[m] # NoDts
      /\ \A a \in AudioTracks :
           ~realignmentPending => IF primaryQueues[a] = <<>> THEN lastPrimary[a] < fillStart
                                  ELSE Head(primaryQueues[a]).dts = fillStart
  BY <1>1 DEF InStep, FillingInStep
<1>3. /\ queues \in LaneQueues
      /\ \A m \in Lanes : /\ m # Video => queues[m] = primaryQueues[m]
                          /\ queues[m] \in Seq(Packet) /\ Rising(queues[m], Now(m)')
      /\ queues[Video] # <<>> /\ Head(queues[Video]).dts = fillStart
  BY <1>0, <1>2, BufferedRises, BufferedDue DEF InStep, DueNext
<1> HIDE DEF queues
<1>4. /\ found \in Found /\ found.queues = queues /\ found.sources = none
      /\ found.pending = HoleSeen(Video, p)
  <2>1. NotRealigned(queues, Video, p) \in Found
    BY <1>0, <1>3, NotRealignedType
  <2>2. none \in [Lanes -> Int]
    BY DEF NoDts
  <2> HIDE DEF none
  <2>3. \A x \in Found : \A s \in [Lanes -> Int] :
          /\ [x EXCEPT !.sources = s, !.cut = TRUE] \in Found
          /\ [x EXCEPT !.sources = s, !.cut = TRUE].queues = x.queues
          /\ [x EXCEPT !.sources = s, !.cut = TRUE].sources = s
          /\ [x EXCEPT !.sources = s, !.cut = TRUE].pending = x.pending
    BY DEF Found
  <2>4. /\ NotRealigned(queues, Video, p).queues = queues
        /\ NotRealigned(queues, Video, p).pending = HoleSeen(Video, p)
    BY DEF NotRealigned
  <2> QED BY <2>1, <2>2, <2>3, <2>4
<1> HIDE DEF found
<1>5. SourcesBefore(queues, none)
  <2>1. ASSUME NEW m \in Lanes, NEW i \in 1..Len(queues[m]) PROVE queues[m][i].dts \in Nat
    <3>1. queues[m][i] \in Packet
      BY <1>3, <2>1
    <3> QED BY <3>1 DEF Packet
  <2> QED BY <1>0, <2>1 DEF SourcesBefore, NoDts
<1>6. ASSUME ~HoleSeen(Video, p), NEW a \in AudioTracks
      PROVE  TrackInStep(Now(a), lastPrimary[a], queues[a], none[a], p.dts - fillStart)
  <2>1. IF queues[a] = <<>> THEN lastPrimary[a] < fillStart ELSE Head(queues[a]).dts = fillStart
    BY <1>0, <1>2, <1>3, <1>6 DEF HoleSeen
  <2>2. fillStart \in Nat /\ fillStart < p.dts
    <3>1. fillStart \in Nat /\ Target \in Nat \ {0}
      BY SessionAssumption DEF TypeOK
    <3> QED BY <1>0, <1>1, <3>1
  <2>3. ASSUME Now(a) = lastPrimary[a] + 1
        PROVE  (p.dts - fillStart) - (Now(a) - DueNext(queues[a], Now(a))) = 0
    <3>1. Now(a) = p.dts
      BY <1>0, <2>3, AudioUpToVideo DEF InStep
    <3>2. queues[a] # <<>>
      BY <1>0, <2>1, <2>2, <2>3, <3>1
    <3>3. DueNext(queues[a], Now(a)) = fillStart
      BY <2>1, <3>2 DEF DueNext
    <3> QED BY <1>0, <2>2, <3>1, <3>3
  <2>4. 0 \in -2..2
    OBVIOUS
  <2> QED BY <2>3, <2>4 DEF TrackInStep
<1>7. VideoFinds(found, p)
  BY <1>0, <1>3, <1>4, <1>5, <1>6 DEF VideoFinds
<1> QED BY <1>0, <1>1, <1>2, <1>4, <1>7, VideoSentInStep

\* A filling begins when all lanes have been seen, with the video packet that no lane is past.
LEMMA FillStartsInStep ==
  ASSUME TypeOK, InStep, NEW l \in Lanes, NEW p, Comes(l, p), StartsFilling(l, p), Observed(l, p)
  PROVE  /\ l = Video /\ \A m \in Lanes : primaryQueues[m] = <<>> /\ lastPrimary'[m] # NoDts
         /\ \A a \in AudioTracks :
              a \in Lanes /\ a # Video /\ lastPrimary'[a] < p.dts /\ p.dts <= Now(a)
<1>1. state = "Preparing" /\ l = Video /\ Lanes \subseteq primaryFormats \cup {Video}
  BY DEF StartsFilling, HoldPrerollReady, FormatsReady
<1>2. \A m \in Lanes : primaryQueues[m] = <<>>
  BY <1>1 DEF InStep, NothingPrepared
<1>3. p.dts \in Nat /\ p.dts = Now(Video) /\ \A m \in Lanes : p.dts <= Now(m)
  BY <1>1 DEF Comes, Packet
<1>4. \A m \in Lanes : lastPrimary'[m] = IF m = Video THEN p.dts ELSE lastPrimary[m]
  BY <1>1 DEF Observed, TypeOK, CadenceOK
<1>5. ASSUME NEW m \in Lanes PROVE lastPrimary'[m] # NoDts
  <2>1. CASE m = Video
    BY <1>3, <1>4, <2>1 DEF NoDts
  <2>2. CASE m # Video
    BY <1>1, <1>4, <2>2 DEF InStep, CadenceSeen
  <2> QED BY <2>1, <2>2
<1>6. ASSUME NEW a \in AudioTracks
      PROVE  a \in Lanes /\ a # Video /\ lastPrimary'[a] < p.dts /\ p.dts <= Now(a)
  <2>1. a \in Lanes /\ a # Video
    BY SessionAssumption DEF Lanes, Video
  <2> QED BY <1>3, <1>4, <2>1 DEF InStep, CadenceSeen
<1> QED BY <1>1, <1>2, <1>5, <1>6

\* While filling, the packets that come keep the beginning of the queues.
LEMMA FillInStep ==
  ASSUME TypeOK, TypeOK', InStep, NEW l \in Lanes, NEW p, Comes(l, p), Fill(l, p)
  PROVE  QueuesRise' /\ FillingInStep' /\ state' \in {"Filling", "ReturningLive"}
<1> DEFINE queues == Buffered(l, p)
<1>0. /\ Video \in Lanes /\ p \in Packet /\ p.dts \in Nat /\ p.dts = Now(l)
      /\ \A a \in AudioTracks : a \in Lanes /\ a # Video
      /\ \A m \in Lanes : Now(m) \in Nat /\ lastPrimary[m] \in Int
      /\ \A m \in Lanes : Now(m)' = IF m = l THEN p.dts + 1 ELSE Now(m)
  BY LanesAreNaturals, LaneTypes, SessionAssumption DEF Comes, Packet, Lanes, Video, Now
<1>1. /\ state = "Filling" \/ StartsFilling(l, p)
      /\ Observed(l, p) /\ realignmentPending' = HoleSeen(l, p)
      /\ fillStart' = IF state = "Preparing" THEN p.dts ELSE fillStart
      /\ \/ primaryQueues' = queues /\ state' \in {"Filling", "ReturningLive"}
         \/ primaryQueues' = primaryQueues /\ state' = "ReturningLive"
  BY DEF Fill, EmitHold, ReturnLiveWithError
<1>2. /\ \A m \in Lanes : /\ queues[m] = IF m = l THEN Append(primaryQueues[m], p) ELSE primaryQueues[m]
                          /\ Rising(queues[m], Now(m)') /\ Rising(primaryQueues[m], Now(m)')
      /\ queues[l] # <<>> /\ Head(queues[l]).dts = DueNext(primaryQueues[l], Now(l))
  BY BufferedRises, BufferedDue DEF InStep
<1> HIDE DEF queues
<1>3. QueuesRise'
  BY <1>1, <1>2 DEF QueuesRise
<1>4. \A m \in Lanes : lastPrimary'[m] = IF m = l THEN p.dts ELSE lastPrimary[m]
  BY <1>1 DEF Observed, TypeOK, CadenceOK
<1>5. CASE state' # "Filling"
  BY <1>1, <1>3, <1>5 DEF FillingInStep
<1>6. CASE state' = "Filling" /\ StartsFilling(l, p)
  <2>1. /\ l = Video /\ \A m \in Lanes : primaryQueues[m] = <<>> /\ lastPrimary'[m] # NoDts
        /\ \A a \in AudioTracks : lastPrimary'[a] < p.dts /\ p.dts <= Now(a)
    BY <1>1, <1>6, FillStartsInStep
  <2>2. fillStart' = p.dts /\ primaryQueues' = queues
    BY <1>1, <1>6 DEF StartsFilling
  <2>3. primaryQueues'[Video] # <<>> /\ Head(primaryQueues'[Video]).dts = fillStart'
    BY <1>0, <1>2, <2>1, <2>2 DEF DueNext
  <2>4. \A a \in AudioTracks : /\ primaryQueues'[a] = <<>> /\ lastPrimary'[a] < fillStart'
                               /\ fillStart' <= Now(a)'
    BY <1>0, <1>2, <2>1, <2>2
  <2> QED BY <1>3, <1>6, <2>1, <2>3, <2>4 DEF FillingInStep
<1>7. CASE state' = "Filling" /\ state = "Filling"
  <2>1. /\ primaryQueues[Video] # <<>> /\ Head(primaryQueues[Video]).dts = fillStart
        /\ \A m \in Lanes : lastPrimary[m] # NoDts
        /\ \A a \in AudioTracks :
             /\ fillStart <= Now(a)
             /\ ~realignmentPending => IF primaryQueues[a] = <<>> THEN lastPrimary[a] < fillStart
                                       ELSE Head(primaryQueues[a]).dts = fillStart
    BY <1>7 DEF InStep, FillingInStep
  <2>2. fillStart' = fillStart /\ primaryQueues' = queues /\ fillStart \in Nat
    BY <1>1, <1>7 DEF TypeOK
  <2>3. primaryQueues'[Video] # <<>> /\ Head(primaryQueues'[Video]).dts = fillStart'
    <3>1. CASE l = Video
      BY <1>0, <1>2, <2>1, <2>2, <3>1 DEF DueNext
    <3>2. CASE l # Video
      BY <1>0, <1>2, <2>1, <2>2, <3>2
    <3> QED BY <3>1, <3>2
  <2>4. \A m \in Lanes : lastPrimary'[m] # NoDts
    BY <1>0, <1>4, <2>1 DEF NoDts
  <2>5. ASSUME NEW a \in AudioTracks PROVE fillStart' <= Now(a)'
    BY <1>0, <2>1, <2>2
  <2>6. ASSUME NEW a \in AudioTracks, ~realignmentPending'
        PROVE  IF primaryQueues'[a] = <<>> THEN lastPrimary'[a] < fillStart'
               ELSE Head(primaryQueues'[a]).dts = fillStart'
    <3>1. ~HoleSeen(l, p) /\ ~realignmentPending
      BY <1>1, <2>6 DEF HoleSeen
    <3>2. IF primaryQueues[a] = <<>> THEN lastPrimary[a] < fillStart
          ELSE Head(primaryQueues[a]).dts = fillStart
      BY <2>1, <3>1
    <3>3. CASE a # l
      BY <1>0, <1>2, <1>4, <2>2, <3>2, <3>3
    <3>4. CASE a = l
      <4>1. p.dts = lastPrimary[l] + 1 /\ fillStart <= p.dts
        BY <1>0, <2>1, <3>1, <3>4, NextSeen DEF InStep
      <4>2. DueNext(primaryQueues[l], Now(l)) = fillStart
        <5>1. CASE primaryQueues[l] = <<>>
          BY <1>0, <2>2, <3>2, <3>4, <4>1, <5>1 DEF DueNext
        <5>2. CASE primaryQueues[l] # <<>>
          BY <3>2, <3>4, <5>2 DEF DueNext
        <5> QED BY <5>1, <5>2
      <4> QED BY <1>2, <2>2, <3>4, <4>2
    <3> QED BY <3>3, <3>4
  <2> QED BY <1>3, <1>7, <2>3, <2>4, <2>5, <2>6 DEF FillingInStep
<1> QED BY <1>1, <1>5, <1>6, <1>7

\* A packet that passes, or is replaced by a repeated one or by the hold encoder's, when the
\* session is not filling or delayed afterwards.
LEMMA PassedInStep ==
  ASSUME TypeOK, InStep, NEW l \in Lanes, NEW p, Comes(l, p),
         \/ PassUntouched(l, p) \/ PassLive(l, p) \/ RestoreLive(l, p) \/ DelayLimitLive(l, p)
         \/ ReturnOnFallback(l, p) \/ ReturnFromFilling(l, p)
  PROVE  /\ QueuesRise' /\ NothingPrepared' /\ state' \notin {"Filling", "Delayed"}
         /\ Observed(l, p) \/ UNCHANGED <<lastPrimary, primaryFormats>>
<1>1. /\ primaryQueues' = primaryQueues /\ state' \notin {"Filling", "Delayed"}
      /\ state' = "Preparing" => state = "Preparing"
      /\ Observed(l, p) \/ UNCHANGED <<lastPrimary, primaryFormats>>
  <2>1. CASE PassUntouched(l, p)
    BY <2>1 DEF PassUntouched, LiveStates, controlVars, primaryVars, cadenceVars
  <2>2. CASE PassLive(l, p)
    BY <2>2 DEF PassLive, LiveStates, controlVars, primaryVars
  <2>3. CASE RestoreLive(l, p)
    BY <2>3 DEF RestoreLive, primaryVars
  <2>4. CASE DelayLimitLive(l, p)
    BY <2>4 DEF DelayLimitLive, primaryVars
  <2>5. CASE ReturnOnFallback(l, p)
    BY <2>5 DEF ReturnOnFallback, controlVars, primaryVars
  <2>6. CASE ReturnFromFilling(l, p)
    BY <2>6 DEF ReturnFromFilling, EmitHold, ReturnLiveWithError, primaryVars
  <2> QED BY <2>1, <2>2, <2>3, <2>4, <2>5, <2>6
<1>2. QueuesRise'
  BY <1>1, BufferedRises DEF InStep, QueuesRise
<1> QED BY <1>1, <1>2 DEF InStep, NothingPrepared

\* A queue that drains keeps its order.
LEMMA DrainedInStep ==
  ASSUME TypeOK, TypeOK', InStep, NEW l \in Lanes, NEW p, Comes(l, p),
         DelayLimitDrain(l, p) \/ ReturnFromDelayed(l, p)
  PROVE  QueuesRise' /\ state' = "ReturningLive" /\ Observed(l, p)
<1>1. PICK queues \in {primaryQueues, Buffered(l, p)} :
        EmitPrimary(l, p, NotRealigned(queues, l, p), "ReturningLive")
  BY DEF DelayLimitDrain, ReturnFromDelayed
<1>2. Observed(l, p) /\ state' = "ReturningLive" /\ p \in Packet
  BY <1>1 DEF DelayLimitDrain, ReturnFromDelayed, EmitPrimary, Comes
<1>3. queues \in LaneQueues /\ \A m \in Lanes : Rising(queues[m], Now(m)')
  BY BufferedRises DEF InStep, TypeOK, PrimaryOK
<1>4. NotRealigned(queues, l, p) \in Found /\ NotRealigned(queues, l, p).queues = queues
  <2>1. NotRealigned(queues, l, p) \in Found
    BY <1>2, <1>3, NotRealignedType
  <2> QED BY <2>1 DEF NotRealigned
<1> DEFINE found == NotRealigned(queues, l, p)
<1> HIDE DEF found
<1>5. found \in Found /\ found.queues = queues /\ EmitPrimary(l, p, found, "ReturningLive")
  BY <1>1, <1>4 DEF found
<1>6. QueuesRise'
  BY <1>3, <1>5, TakenInOrder
<1> QED BY <1>2, <1>6

\* What a step may not send: audio that is out of step while no realignment is pending.
StepInSync ==
  \A l \in AudioTracks :
    (Emits(l) /\ state = "Delayed" /\ state' = "Delayed" /\ ~realignmentPending')
      => lastOut'[l].age - lastOut[Video].age \in -2..2

\* Packets keep the lanes in step.
LEMMA PrimaryPacketInStep ==
  ASSUME TypeOK, TypeOK', InStep, NEW l \in Lanes, PrimaryPacket(l)
  PROVE  InStep' /\ StepInSync
<1>1. PICK size \in PacketSizes(l) :
        LET p == Encoded("primary", l, size)
        IN  \/ PassUntouched(l, p) \/ PassLive(l, p) \/ RestoreLive(l, p) \/ Fill(l, p)
            \/ StartDelayed(l, p) \/ Delay(l, p) \/ DelayLimitLive(l, p) \/ DelayLimitDrain(l, p)
            \/ ReturnOnFallback(l, p) \/ ReturnFromFilling(l, p) \/ ReturnFromDelayed(l, p)
  BY DEF PrimaryPacket
<1> DEFINE p == Encoded("primary", l, size)
           passes == \/ PassUntouched(l, p) \/ PassLive(l, p) \/ RestoreLive(l, p)
                     \/ DelayLimitLive(l, p) \/ ReturnOnFallback(l, p) \/ ReturnFromFilling(l, p)
<1>2. \/ passes \/ Fill(l, p) \/ StartDelayed(l, p) \/ Delay(l, p)
      \/ DelayLimitDrain(l, p) \/ ReturnFromDelayed(l, p)
  BY <1>1
<1>3. Comes(l, p)
  BY EarliestComes DEF PrimaryPacket, Carrier
<1>4. \A m \in Lanes : m # l => ~Emits(m)
  BY OthersSendNothing
<1> HIDE DEF p
<1>5. /\ Observed(l, p) \/ UNCHANGED <<lastPrimary, primaryFormats>>
      /\ QueuesRise' /\ NothingPrepared' /\ FillingInStep' /\ DelayedInStep'
      /\ l # Video /\ state = "Delayed" /\ state' = "Delayed" /\ ~realignmentPending'
           => lastOut'[l].age - lastOut[Video].age \in -2..2
  <2>1. CASE passes
    BY <1>3, <2>1, PassedInStep DEF FillingInStep, DelayedInStep
  <2>2. CASE Fill(l, p)
    <3>1. QueuesRise' /\ FillingInStep' /\ state' \in {"Filling", "ReturningLive"} /\ Observed(l, p)
      BY <1>3, <2>2, FillInStep DEF Fill
    <3> QED BY <3>1 DEF NothingPrepared, DelayedInStep
  <2>3. CASE StartDelayed(l, p)
    <3>1. QueuesRise' /\ DelayedInStep' /\ state' \in {"Delayed", "ReturningLive"} /\ Observed(l, p)
          /\ state = "Filling"
      BY <1>3, <2>3, StartDelayedInStep DEF StartDelayed, EmitPrimary, DurationReady
    <3> QED BY <3>1 DEF NothingPrepared, FillingInStep
  <2>4. CASE Delay(l, p)
    <3>1. QueuesRise' /\ DelayedInStep' /\ state' \in {"Delayed", "ReturningLive"} /\ Observed(l, p)
      BY <1>3, <2>4, DelayInStep DEF Delay, EmitPrimary
    <3>2. l # Video /\ state' = "Delayed" /\ ~realignmentPending'
            => lastOut'[l].age - lastOut[Video].age \in -2..2
      BY <1>3, <2>4, DelayInStep
    <3> QED BY <3>1, <3>2 DEF NothingPrepared, FillingInStep
  <2>5. CASE DelayLimitDrain(l, p) \/ ReturnFromDelayed(l, p)
    BY <1>3, <2>5, DrainedInStep DEF NothingPrepared, FillingInStep, DelayedInStep
  <2> QED BY <1>2, <2>1, <2>2, <2>3, <2>4, <2>5
<1>6. CadenceSeen'
  BY <1>3, <1>5, PacketSeenInOrder DEF InStep
<1>7. StepInSync
  <2>1. \A a \in AudioTracks : a \in Lanes /\ a # Video
    BY SessionAssumption DEF Lanes, Video
  <2> QED BY <1>4, <1>5, <2>1 DEF StepInSync
<1> QED BY <1>5, <1>6, <1>7 DEF InStep

\* A session that is neither filling nor delayed needs only the order of its queues and of what
\* it has seen, which a reset does not disturb.
LEMMA OutsideInStep ==
  ASSUME InStep, \A l \in Lanes : Now(l)' = Now(l), state' \notin {"Filling", "Delayed"},
         primaryQueues' = primaryQueues \/ primaryQueues' = NoPackets,
         \/ UNCHANGED <<lastPrimary, primaryFormats>>
         \/ lastPrimary' = NoTimes /\ primaryFormats' = {},
         state' = "Preparing" => state = "Preparing" \/ primaryQueues' = NoPackets,
         \A l \in Lanes : Now(l) \in Nat
  PROVE  InStep'
<1>1. Video \in Lanes
  BY LanesAreNaturals
<1>2. QueuesRise' /\ NothingPrepared'
  <2>1. CASE primaryQueues' = primaryQueues
    BY <2>1 DEF InStep, QueuesRise, NothingPrepared, NoPackets
  <2>2. CASE primaryQueues' = NoPackets
    <3>1. \A l \in Lanes : primaryQueues'[l] = <<>>
      BY <2>2 DEF NoPackets
    <3> QED BY <3>1 DEF QueuesRise, NothingPrepared, Rising
  <2> QED BY <2>1, <2>2
<1>3. CadenceSeen'
  <2>1. CASE UNCHANGED <<lastPrimary, primaryFormats>>
    BY <1>1, <2>1 DEF InStep, CadenceSeen
  <2>2. CASE lastPrimary' = NoTimes /\ primaryFormats' = {}
    <3>1. \A l \in Lanes : lastPrimary'[l] = NoDts
      BY <2>2 DEF NoTimes
    <3> QED BY <1>1, <2>2, <3>1 DEF CadenceSeen, NoDts
  <2> QED BY <2>1, <2>2
<1> QED BY <1>2, <1>3 DEF InStep, FillingInStep, DelayedInStep

\* A step that leaves the lanes alone.
LEMMA QuietInStep ==
  ASSUME TypeOK, InStep, \A l \in Lanes : Now(l)' = Now(l),
         UNCHANGED <<primaryQueues, lastSource, lastPrimary, primaryFormats, realignmentPending,
                     fillStart, lastOut>>,
         state' = state \/ state' \in {"Bypass", "Error", "ReturningLive"}
  PROVE  InStep'
<1>1. Video \in Lanes /\ \A a \in AudioTracks : a \in Lanes
  BY LanesAreNaturals DEF Lanes
<1>2. CASE state' \in {"Filling", "Delayed"}
  <2>1. QueuesRise' /\ CadenceSeen' /\ NothingPrepared'
    BY <1>1, <1>2 DEF InStep, QueuesRise, CadenceSeen, NothingPrepared
  <2>2. FillingInStep'
    BY <1>1, <1>2 DEF InStep, FillingInStep
  <2>3. DelayedInStep'
    <3>1. SourcesBefore(primaryQueues, lastSource) => SourcesBefore(primaryQueues, lastSource)'
      BY DEF SourcesBefore
    <3>2. lastOut'[Video].age = lastOut[Video].age
      OBVIOUS
    <3>3. AudioInStep(lastOut[Video].age) => AudioInStep(lastOut[Video].age)'
      BY <1>1 DEF AudioInStep
    <3> QED BY <1>2, <3>1, <3>2, <3>3 DEF InStep, DelayedInStep
  <2> QED BY <2>1, <2>2, <2>3 DEF InStep
<1>3. CASE state' \notin {"Filling", "Delayed"}
  <2>1. \A l \in Lanes : Now(l) \in Nat
    BY LaneTypes DEF Now
  <2> QED BY <1>3, <2>1, OutsideInStep
<1> QED BY <1>2, <1>3

\* The end of the delay on request, or by a reconnection.
LEMMA BypassedInStep ==
  ASSUME TypeOK, InStep, Bypassed, UNCHANGED <<lastSource, cadenceVars, outVars, fillStart, clock>>
  PROVE  InStep'
<1>1. \A l \in Lanes : Now(l)' = Now(l) /\ Now(l) \in Nat
  BY LaneTypes DEF Now
<1>2. UNCHANGED <<lastSource, lastPrimary, primaryFormats, realignmentPending, fillStart, lastOut>>
  BY DEF cadenceVars, outVars
<1>3. \/ state' = "Bypass" /\ primaryQueues' = NoPackets
      \/ state' = "ReturningLive" /\ primaryQueues' = primaryQueues
  BY DEF Bypassed, Clear
<1> QED BY <1>1, <1>2, <1>3, OutsideInStep

\* The frontend thread.
LEMMA FrontendInStep ==
  ASSUME TypeOK, InStep, Frontend
  PROVE  InStep'
<1>1. \A l \in Lanes : Now(l) \in Nat
  BY LaneTypes DEF Now
<1>2. CASE \/ TakeOldPipeline \/ RetireOldPipeline \/ StartPipelineFails \/ StartPipeline
           \/ MaintenanceTake \/ MaintenanceStop \/ TakeRearmRequest
  <2>1. /\ UNCHANGED <<primaryQueues, lastSource, lastPrimary, primaryFormats, realignmentPending,
                       fillStart, lastOut>>
        /\ state' = state \/ state' = "Error"
    BY <1>2 DEF TakeOldPipeline, RetireOldPipeline, StartPipeline, StartPipelineFails, SetError,
                MaintenanceTake, MaintenanceStop, TakeRearmRequest, controlVars, primaryVars,
                cadenceVars, outVars
  <2>2. clock'["primary"] = clock["primary"]
    <3>1. CASE StartPipeline
      <4>1. clock \in [{"primary", "hold"} -> EncoderClock]
        BY DEF TypeOK
      <4>2. PICK fresh : clock' = [clock EXCEPT !["hold"] = fresh]
        BY <3>1 DEF StartPipeline
      <4> QED BY <4>1, <4>2
    <3>2. CASE ~StartPipeline
      BY <1>2, <3>2 DEF TakeOldPipeline, RetireOldPipeline, StartPipelineFails,
                        MaintenanceTake, MaintenanceStop, TakeRearmRequest
    <3> QED BY <3>1, <3>2
  <2>3. \A l \in Lanes : Now(l)' = Now(l)
    BY <2>2 DEF Now
  <2> QED BY <2>1, <2>3, QuietInStep
<1>3. CASE RequestBypass
  BY <1>3, BypassedInStep DEF RequestBypass
<1>4. CASE PublishDelay
  <2>1. /\ state' = "Preparing" /\ primaryQueues' = NoPackets
        /\ lastPrimary' = NoTimes /\ primaryFormats' = {} /\ UNCHANGED clock
    BY <1>4 DEF PublishDelay
  <2> QED BY <1>1, <2>1, OutsideInStep DEF Now
<1>5. CASE MaintenanceRetire
  <2>1. /\ UNCHANGED <<state, lastSource, lastPrimary, primaryFormats, realignmentPending,
                       fillStart, lastOut, clock>>
        /\ \/ primaryQueues' = primaryQueues
           \/ primaryQueues' = NoPackets /\ state \in LiveStates
    BY <1>5 DEF MaintenanceRetire, controlVars, cadenceVars, outVars
  <2>2. \A l \in Lanes : Now(l)' = Now(l)
    BY <2>1 DEF Now
  <2>3. CASE primaryQueues' = primaryQueues
    BY <2>1, <2>2, <2>3, QuietInStep
  <2>4. CASE primaryQueues' = NoPackets /\ state \in LiveStates
    BY <1>1, <2>1, <2>2, <2>4, OutsideInStep DEF LiveStates
  <2> QED BY <2>1, <2>3, <2>4
<1> QED BY <1>2, <1>3, <1>4, <1>5 DEF Frontend

\* A reconnection, and the start of data capture after it.
LEMMA SignalInStep ==
  ASSUME TypeOK, InStep, Reconnect \/ Activate
  PROVE  InStep'
<1>1. CASE Reconnect
  <2>1. UNCHANGED <<lastSource, cadenceVars, outVars, fillStart, clock>>
    BY <1>1 DEF Reconnect
  <2>2. CASE Bypassed
    BY <2>1, <2>2, BypassedInStep
  <2>3. CASE ~Bypassed
    <3>1. UNCHANGED <<state, primaryQueues>>
      BY <1>1, <2>3 DEF Reconnect, controlVars
    <3> QED BY <2>1, <3>1, QuietInStep DEF cadenceVars, outVars, Now
  <2> QED BY <2>2, <2>3
<1>2. CASE Activate
  <2>1. /\ state' = "Bypass" /\ clock' = [clock EXCEPT !["primary"].left = 0]
        /\ primaryQueues' = primaryQueues /\ lastPrimary' = NoTimes /\ primaryFormats' = {}
    BY <1>2 DEF Activate
  <2>2. clock'["primary"].dts = clock["primary"].dts
    <3>1. clock \in [{"primary", "hold"} -> EncoderClock] /\ clock["primary"] \in EncoderClock
      BY DEF TypeOK
    <3> QED BY <2>1, <3>1 DEF EncoderClock
  <2>3. \A l \in Lanes : Now(l)' = Now(l) /\ Now(l) \in Nat
    BY <2>2, LaneTypes DEF Now
  <2> QED BY <2>1, <2>3, OutsideInStep
<1> QED BY <1>1, <1>2

\* A hold packet, which moves no lane of the output.
LEMMA HoldPacketInStep ==
  ASSUME TypeOK, InStep, NEW l \in Lanes, HoldPacket(l)
  PROVE  InStep'
<1>1. /\ Delivers("hold", l)
      /\ UNCHANGED <<primaryQueues, lastSource, lastPrimary, primaryFormats, realignmentPending,
                     fillStart, lastOut>>
  BY DEF HoldPacket, primaryVars, cadenceVars, outVars
<1>2. state' = state \/ state' \in {"Error", "ReturningLive"}
  <2>1. PICK h, compatible : HoldLimit(l, h) \/ RejectHold(l, h, compatible) \/ KeepHold(l, h, compatible)
    BY DEF HoldPacket
  <2> QED BY <2>1 DEF HoldLimit, RejectHold, KeepHold, SetError
<1>3. \A m \in Lanes : Now(m)' = Now(m)
  BY <1>1, LaneDelivered DEF Now
<1> QED BY <1>1, <1>2, <1>3, QuietInStep

\* A hole is in front of what the lane's encoder delivers next.
LEMMA EncoderHoleInStep ==
  ASSUME TypeOK, InStep, NEW l \in Lanes, EncoderHole(l)
  PROVE  InStep'
<1>1. UNCHANGED <<state, primaryQueues, lastSource, lastPrimary, primaryFormats,
                  realignmentPending, fillStart, lastOut>>
  BY DEF EncoderHole, controlVars, primaryVars, cadenceVars, outVars
<1>2. Video \in Lanes /\ \A a \in AudioTracks : a \in Lanes /\ a # Video
  BY LanesAreNaturals, SessionAssumption DEF Lanes, Video
<1>3. ASSUME NEW m \in Lanes
      PROVE  /\ Now(m) \in Nat /\ Now(m)' \in Nat /\ Now(m) <= Now(m)'
             /\ Now(m)' = Now(m) \/ Now(m)' > Now(m)
             /\ lastPrimary[m] \in Int /\ lastSource[m] \in Int /\ primaryQueues[m] \in Seq(Packet)
  <2>1. /\ clock \in [{"primary", "hold"} -> EncoderClock] /\ clock["primary"] \in EncoderClock
        /\ clock' = [clock EXCEPT !["primary"].dts[l] = @ + HoleTicks]
    BY DEF TypeOK, EncoderHole
  <2>2. Now(m)' = IF m = l THEN Now(m) + HoleTicks ELSE Now(m)
    BY <2>1 DEF Now, EncoderClock
  <2>3. HoleTicks \in Nat \ {0} /\ Now(m) \in Nat
    BY LaneTypes, SessionAssumption DEF Now
  <2> QED BY <2>2, <2>3, LaneTypes
<1>4. QueuesRise'
  BY <1>1, <1>3, RisingLater DEF InStep, QueuesRise
<1>5. CadenceSeen'
  <2>1. ASSUME NEW m \in Lanes
        PROVE  /\ NoDts <= lastPrimary'[m] /\ lastPrimary'[m] < Now(m)'
               /\ m # Video => lastPrimary'[m] < Now(Video)'
               /\ m \in primaryFormats' => lastPrimary'[m] # NoDts
    <3>1. /\ NoDts <= lastPrimary[m] /\ lastPrimary[m] < Now(m)
          /\ m # Video => lastPrimary[m] < Now(Video)
          /\ m \in primaryFormats => lastPrimary[m] # NoDts
      BY DEF InStep, CadenceSeen
    <3>2. lastPrimary'[m] = lastPrimary[m] /\ primaryFormats' = primaryFormats
      BY <1>1
    <3>3. lastPrimary[m] < Now(m)' /\ (m # Video => lastPrimary[m] < Now(Video)')
      BY <1>2, <1>3, <3>1
    <3> QED BY <3>1, <3>2, <3>3
  <2> QED BY <2>1 DEF CadenceSeen
<1>6. NothingPrepared'
  BY <1>1 DEF InStep, NothingPrepared
<1>7. FillingInStep'
  <2>1. \A a \in AudioTracks : fillStart \in Nat /\ (fillStart <= Now(a) => fillStart <= Now(a)')
    <3>1. fillStart \in Nat
      BY DEF TypeOK
    <3> QED BY <1>2, <1>3, <3>1
  <2> QED BY <1>1, <2>1 DEF InStep, FillingInStep
<1>8. DelayedInStep'
  <2>1. SourcesBefore(primaryQueues, lastSource) => SourcesBefore(primaryQueues, lastSource)'
    <3>1. \A m \in Lanes : lastSource[m] < Now(m) => lastSource[m] < Now(m)'
      BY <1>3
    <3> QED BY <1>1, <3>1 DEF SourcesBefore
  <2>2. AudioInStep(lastOut[Video].age) => AudioInStep(lastOut[Video].age)'
    <3> SUFFICES ASSUME AudioInStep(lastOut[Video].age), NEW a \in AudioTracks
                 PROVE  TrackInStep(Now(a)', lastPrimary'[a], primaryQueues'[a], lastSource'[a],
                                    lastOut'[Video].age)
      BY DEF AudioInStep
    <3>1. /\ lastPrimary'[a] = lastPrimary[a] /\ primaryQueues'[a] = primaryQueues[a]
          /\ lastSource'[a] = lastSource[a] /\ lastOut'[Video].age = lastOut[Video].age
      BY <1>1
    <3>2. CASE Now(a)' = Now(a)
      BY <3>1, <3>2 DEF AudioInStep
    <3>3. CASE Now(a)' > Now(a)
      <4>1. lastPrimary[a] < Now(a)
        BY <1>2 DEF InStep, CadenceSeen
      <4>2. Now(a)' # lastPrimary[a] + 1
        BY <1>2, <1>3, <3>3, <4>1
      <4> QED BY <3>1, <4>2 DEF TrackInStep
    <3> QED BY <1>2, <1>3, <3>2, <3>3
  <2> QED BY <1>1, <2>1, <2>2 DEF InStep, DelayedInStep
<1> QED BY <1>4, <1>5, <1>6, <1>7, <1>8 DEF InStep

\* Every step keeps the lanes in step, and sends them so.
LEMMA InStepInductive == TypeOK /\ TypeOK' /\ InStep /\ [Next]_vars => InStep' /\ StepInSync
<1> SUFFICES ASSUME TypeOK, TypeOK', InStep, [Next]_vars PROVE InStep' /\ StepInSync
  OBVIOUS
<1>0. \A a \in AudioTracks : a \in Lanes
  BY DEF Lanes
<1>1. ASSUME NEW l \in Lanes, PrimaryPacket(l) PROVE InStep' /\ StepInSync
  BY <1>1, PrimaryPacketInStep
<1>2. ASSUME NEW l \in Lanes, HoldPacket(l) PROVE InStep' /\ StepInSync
  BY <1>0, <1>2, HoldPacketInStep, OthersSendNothing DEF StepInSync
<1>3. CASE Frontend
  BY <1>0, <1>3, FrontendInStep, OthersSendNothing DEF StepInSync
<1>4. CASE Reconnect \/ Activate
  BY <1>0, <1>4, SignalInStep, OthersSendNothing DEF StepInSync
<1>5. ASSUME NEW l \in Lanes, EncoderHole(l) PROVE InStep' /\ StepInSync
  BY <1>0, <1>5, EncoderHoleInStep, OthersSendNothing DEF StepInSync
<1>6. CASE UNCHANGED vars
  <2>1. InStep'
    BY <1>6, QuietInStep DEF vars, primaryVars, cadenceVars, outVars, controlVars, Now
  <2> QED BY <1>0, <1>6, <2>1, OthersSendNothing DEF StepInSync
<1> QED BY <1>1, <1>2, <1>3, <1>4, <1>5, <1>6 DEF Next

\* At the start nothing was seen and nothing is queued.
LEMMA InitInStep == Init => InStep
<1> SUFFICES ASSUME Init PROVE InStep
  OBVIOUS
<1>1. /\ state = "Bypass" /\ primaryFormats = {}
      /\ \A l \in Lanes : primaryQueues[l] = <<>> /\ lastPrimary[l] = NoDts /\ Now(l) = 0
      /\ Video \in Lanes
  BY LanesAreNaturals DEF Init, NoPackets, NoTimes, StartOfEncoder, Now
<1>2. QueuesRise
  BY <1>1 DEF QueuesRise, Rising
<1>3. CadenceSeen
  BY <1>1 DEF CadenceSeen, NoDts
<1> QED BY <1>1, <1>2, <1>3 DEF InStep, NothingPrepared, FillingInStep, DelayedInStep

\* Audio that a delayed output sends while no realignment is pending is as late as its video,
\* but for the tolerance: whatever holes the encoders leave, in whichever lanes, and whatever
\* was cut because of them.
THEOREM LanesStayInSync == Spec => LanesInSync
<1>1. StepInSync =>
        \A l \in AudioTracks :
          (Emits(l) /\ state = "Delayed" /\ state' = "Delayed" /\ ~realignmentPending')
            => LET skew == lastOut'[l].age - lastOut[Video].age IN skew \in -2..2
  BY DEF StepInSync
<1> QED BY <1>1, InitInStep, InStepInductive, TypeCorrect, PTL DEF Spec, LanesInSync

============================================================================
