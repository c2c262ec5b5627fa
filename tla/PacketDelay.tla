----------------------------- MODULE PacketDelay ----------------------------
(***************************************************************************)
(* The packet delay of src/src/core/packet_delay.cpp (class PacketDelay).  *)
(* Every public method holds mutex_ from its first to its last line, so    *)
(* that a call is one step.  The object is the record core; a method is an *)
(* operator from the object before to the object after, and what the call  *)
(* returns is the sequence out.                                            *)
(*                                                                         *)
(* Time is counted in ticks of one time base, which all streams share: the *)
(* exact comparison of two time bases is the comparison of integers here.  *)
(* An absent entry of a map and an entry with an invalid time base, which  *)
(* the code treats alike, are both absent.  A packet counts as one unit of *)
(* memory.  require_video_keyframe is on, as by default.  Left out: overflow*)
(* of timestamps and sizes, the roster of known timelines (max_streams),   *)
(* and the metrics.                                                        *)
(***************************************************************************)
EXTENDS Integers, FiniteSets, SequencesExt

CONSTANTS
  Streams,          \* StreamKeys: <<timeline, generation>>
  VideoLanes,       \* the timelines of kind Video
  Required,         \* required_streams
  Headroom,         \* retention_headroom
  StallTimeout,     \* stream_stall_timeout, 0 when off
  MaxGap,           \* max_stream_gap, 0 when off
  ReorderWindow,    \* reorder_window
  MaxBuffered,      \* max_buffered_packets
  Delays,           \* the delays that are asked for
  Encoders,         \* the encoders' lags and GOP lengths
  MaxTime, MaxPackets, MaxEvents       \* bounds of the exploration

ASSUME PacketDelayAssumption ==
  /\ IsFiniteSet(Streams) /\ \A s \in Streams : s[2] \in Nat
  /\ Required \subseteq Streams
  /\ {Headroom, StallTimeout, MaxGap, ReorderWindow} \subseteq Nat
  /\ Delays \subseteq Nat
  /\ Encoders \subseteq [lag : Nat, gop : Nat \ {0}]
  /\ {MaxBuffered, MaxTime, MaxPackets, MaxEvents} \subseteq Nat

VARIABLES
  core,         \* the object
  out,          \* what the last call returned
  last,         \* the packet pushed last on every stream, and how many there were
  spent,        \* requests, new generations and troubles so far
  shown,        \* history: on every timeline, the packet emitted last, its DTS and the
                \* largest PTS
  loose         \* history: the video lanes that may go on without a keyframe, and
                \* whether the epoch does not fit what was shown: a cover came
                \* between, a lane is new to it, or a stalled lane was overtaken

vars == <<core, out, last, spent, shown, loose>>

None == -100
Cover == -1          \* the number of a packet that the host sent itself
Timeline(s) == s[1]
Timelines == {Timeline(s) : s \in Streams}
IsVideo(s) == Timeline(s) \in VideoLanes

Least(S) == CHOOSE x \in S : \A y \in S : x <= y
Largest(S) == CHOOSE x \in S : \A y \in S : x >= y
Without(f, keys) == [k \in DOMAIN f \ keys |-> f[k]]
With(f, key, value) == [k \in DOMAIN f \cup {key} |-> IF k = key THEN value ELSE f[k]]

\* A packet: its stream, DTS and PTS, the arrival that orders it, and the packet
\* of the same stream before it.
Packet(s, seq, after, dts, lead, key, at) ==
  [stream |-> s, seq |-> seq, after |-> after, dts |-> dts, pts |-> dts + lead,
   key |-> key, at |-> at]

Shifted(p, ticks) == [p EXCEPT !.dts = @ + ticks, !.pts = @ + ticks]

----------------------------------------------------------------------------
(* The object.                                                             *)

NewCore ==
  [state |-> "Bypass", target |-> 0, pendingTarget |-> 0, previousTarget |-> 0,
   observed |-> 0,                                      \* last_observed_at_
   queues |-> [s \in Streams |-> <<>>], pending |-> <<>>, buffered |-> 0,
   active |-> {}, latest |-> <<>>, seen |-> <<>>,       \* latest_dts_, last_stream_seen_
   offsets |-> <<>>,                                    \* timestamp_offsets_
   lastDts |-> <<>>, maxPts |-> <<>>, emitted |-> {}, \* the horizons of the output, the
                                        \* last DTS of all lanes if there is one
   preparingChange |-> FALSE, fromDelayed |-> FALSE,    \* change_origin_delayed_
   returnFromDelayed |-> FALSE, committed |-> FALSE,    \* return_committed_
   returnKeys |-> <<>>, returnRequired |-> {}, requestedAt |-> None]

\* clear_delay_queues_locked
ClearQueues(c) ==
  [c EXCEPT !.queues = [s \in Streams |-> <<>>], !.pending = <<>>, !.buffered = 0,
            !.active = {}, !.latest = <<>>, !.seen = <<>>]

\* clear_all_locked, with reset_transition_locked
ClearAll(c) ==
  [ClearQueues(c) EXCEPT
     !.preparingChange = FALSE, !.fromDelayed = FALSE, !.returnFromDelayed = FALSE,
     !.committed = FALSE, !.returnKeys = <<>>, !.returnRequired = {}, !.requestedAt = None]

\* enter_error_locked: the buffer is discarded and packets pass from now on.
EnterError(c) == [ClearAll(c) EXCEPT !.state = "Error"]

Back(q) == q[Len(q)]
Queued(c) == {s \in Streams : c.queues[s] # <<>>}
Due(c, p, delay) == c.observed - p.at >= delay

\* stream_is_stalled_locked
Stalled(c, s) ==
  StallTimeout # 0 /\ s \in DOMAIN c.seen /\ c.observed - c.seen[s] > StallTimeout

\* Whether packets are queued for an output epoch that runs already.
EpochActive(c) ==
  c.state \in {"Delayed", "Returning"} \/ (c.state = "Preparing" /\ c.preparingChange)

----------------------------------------------------------------------------
(* Timestamps.                                                             *)

\* prepare_stream_locked: a new generation takes the place of the one before,
\* of which nothing may be buffered.
PrepareStream(c, s) ==
  LET replaced == {q \in Streams \ {s} : Timeline(q) = Timeline(s)}
      kept == [c EXCEPT !.active = @ \ replaced,
                        !.latest = Without(@, replaced), !.seen = Without(@, replaced),
                        !.offsets = Without(@, replaced),
                        !.returnKeys = Without(@, replaced),
                        !.returnRequired = (@ \ replaced)
                           \cup {q \in {s} : IsVideo(q) /\ @ \cap replaced # {}}]
  IN  IF replaced \cap Queued(c) # {} THEN EnterError(c) ELSE kept

NewOffset_NoPtsHorizon_Bug(c, p, base) ==
  LET t == Timeline(p.stream)
  IN  Largest({base}
        \cup {c.lastDts[q] + 1 - p.dts : q \in {t} \cap DOMAIN c.lastDts}
        \cup {e - p.dts : e \in c.emitted})

NewOffset_OwnLaneOnly_Bug(c, p, base) ==
  LET t == Timeline(p.stream)
  IN  Largest({base}
        \cup {c.lastDts[q] + 1 - p.dts : q \in {t} \cap DOMAIN c.lastDts}
        \cup {c.maxPts[q] + 1 - p.pts : q \in {t} \cap DOMAIN c.maxPts})

\* create_timestamp_offset_locked: the least offset from base on that puts the
\* packet behind the lane's last DTS and largest PTS, and not before any DTS.
NewOffset(c, p, base) ==
  LET t == Timeline(p.stream)
  IN  Largest({base}
        \cup {c.lastDts[q] + 1 - p.dts : q \in {t} \cap DOMAIN c.lastDts}
        \cup {e - p.dts : e \in c.emitted}
        \cup {c.maxPts[q] + 1 - p.pts : q \in {t} \cap DOMAIN c.maxPts})

CreateOffset(c, p, base) ==
  IF p.stream \in DOMAIN c.offsets THEN c
  ELSE [c EXCEPT !.offsets = With(@, p.stream, NewOffset(c, p, base))]

\* A new epoch that starts with the packets in fronts: one offset for all lanes,
\* unify_timestamp_offsets_locked.
NewEpoch(c, fronts, base) ==
  LET shift == Largest({NewOffset(c, p, base) : p \in fronts})
  IN  [c EXCEPT !.offsets = [s \in {p.stream : p \in fronts} |-> shift]]

\* ordering_dts_locked
OrderingDts(c, p) == p.dts + (IF p.stream \in DOMAIN c.offsets THEN c.offsets[p.stream] ELSE 0)

\* note_output_timestamp_locked, which refuses a DTS before the last one.
Regresses(c, p) == \E e \in c.emitted : p.dts < e

NoteOutput(c, p) ==
  LET t == Timeline(p.stream)
  IN  [c EXCEPT !.emitted = {p.dts},
                !.lastDts = With(@, t, p.dts),
                !.maxPts = With(@, t, IF t \in DOMAIN @ THEN Largest({@[t], p.pts}) ELSE p.pts)]

\* A packet that passes the object: retimestamp_live_locked, and what its callers
\* do when it fails. Nothing is buffered then, so that preparing does not.
PassLive(c, p) ==
  LET timed == CreateOffset(PrepareStream(c, p.stream), p, 0)
      q == Shifted(p, timed.offsets[p.stream])
  IN  [core |-> IF Regresses(timed, q) THEN EnterError(timed) ELSE NoteOutput(timed, q),
       out |-> <<q>>]

----------------------------------------------------------------------------
(* The buffer.                                                             *)

\* prune_locked: what is older than any delay needs goes, up to a packet that
\* video can start with.
Keeps_AnyFrame_Bug(s, p) == TRUE

Keeps(s, p) == ~IsVideo(s) \/ p.key

\* What prune_locked drops leaves the count as it was.
Prune_KeepsCount_Bug(c) ==
  LET starts(s) == {i \in DOMAIN c.queues[s] :
                      Due(c, c.queues[s][i], c.target + Headroom) /\ Keeps(s, c.queues[s][i])}
      from == [s \in Streams |-> IF starts(s) = {} THEN 1 ELSE Largest(starts(s))]
  IN  [c EXCEPT !.queues = [s \in Streams |-> SubSeq(@[s], from[s], Len(@[s]))]]

Prune(c) ==
  LET longest == IF c.state = "Filling" /\ c.fromDelayed
                 THEN Largest({c.target, c.previousTarget}) ELSE c.target
      starts(s) == {i \in DOMAIN c.queues[s] :
                      Due(c, c.queues[s][i], longest + Headroom) /\ Keeps(s, c.queues[s][i])}
      from == [s \in Streams |-> IF starts(s) = {} THEN 1 ELSE Largest(starts(s))]
  IN  [c EXCEPT !.queues = [s \in Streams |-> SubSeq(@[s], from[s], Len(@[s]))],
                !.buffered = @ - FoldFunction(+, 0, [s \in Streams |-> from[s] - 1])]

\* enqueue_locked
Enqueue(c, p) ==
  LET s == p.stream
      ready == PrepareStream(c, s)
      timed == IF EpochActive(ready) THEN CreateOffset(ready, p, ready.target) ELSE ready
      room == IF timed.state = "Returning" THEN timed ELSE Prune(timed)
      dts == OrderingDts(timed, p)
  IN  IF ready.state = "Error" THEN ready
      ELSE IF room.buffered >= MaxBuffered THEN EnterError(room)
      ELSE [room EXCEPT
              !.queues[s] = Append(@, p), !.buffered = @ + 1,
              !.latest = With(@, s, IF s \in DOMAIN @ THEN Largest({@[s], dts}) ELSE dts),
              !.seen = With(@, s, room.observed),
              !.active = IF EpochActive(room) THEN @ \cup {s} ELSE @]

----------------------------------------------------------------------------
(* The return to live.                                                     *)

\* start_return_locked
StartReturn(c, delayed) ==
  LET lanes == IF c.active # {} THEN c.active ELSE Queued(c)
  IN  [c EXCEPT !.state = "Returning", !.returnFromDelayed = delayed, !.committed = FALSE,
                !.requestedAt = c.observed, !.returnKeys = <<>>,
                !.returnRequired = {s \in lanes : IsVideo(s)},
                !.preparingChange = FALSE, !.fromDelayed = FALSE]

ObserveKeyframe_First_Bug(c, p) ==
  IF IsVideo(p.stream) /\ p.key /\ p.stream \notin DOMAIN c.returnKeys
  THEN [c EXCEPT !.returnKeys = With(@, p.stream, p.seq)] ELSE c

\* observe_return_keyframe_locked: the newest keyframe since the request.
ObserveKeyframe(c, p) ==
  IF IsVideo(p.stream) /\ p.key THEN [c EXCEPT !.returnKeys = With(@, p.stream, p.seq)] ELSE c

\* return_ready_locked
ReturnReady(c) ==
  c.committed \/ \A s \in c.returnRequired : s \in DOMAIN c.returnKeys \/ Stalled(c, s)

\* The arrival of the earliest keyframe chosen, from which audio goes live.
LiveCut(c) ==
  LET chosen == {p \in UNION {ToSet(c.queues[s]) : s \in DOMAIN c.returnKeys} :
                   p.seq = c.returnKeys[p.stream]}
  IN  IF chosen = {} THEN c.requestedAt ELSE Least({p.at : p \in chosen})

GoesLive(c, p) ==
  IF IsVideo(p.stream)
  THEN p.stream \in DOMAIN c.returnKeys /\ p.seq >= c.returnKeys[p.stream]
  ELSE p.at >= LiveCut(c)

\* build_return_pending_locked: what is buffered from the cut on, in a new epoch.
BuildPending(c) ==
  LET goes(s) == {i \in DOMAIN c.queues[s] : GoesLive(c, c.queues[s][i])}
      lanes == {s \in Streams : goes(s) # {}}
      epoch == IF lanes = {} THEN [c EXCEPT !.offsets = <<>>]
               ELSE NewEpoch(c, {c.queues[s][Least(goes(s))] : s \in lanes}, 0)
      before(p, q) == \/ OrderingDts(epoch, p) < OrderingDts(epoch, q)
                      \/ OrderingDts(epoch, p) = OrderingDts(epoch, q) /\ p.seq < q.seq
      all == CHOOSE q \in SetToSeqs(UNION {{c.queues[s][i] : i \in goes(s)} : s \in lanes}) :
               \A i, j \in DOMAIN q : i < j => before(q[i], q[j])
  IN  [ClearQueues(epoch) EXCEPT !.pending = all, !.buffered = Len(all)]

----------------------------------------------------------------------------
(* Draining.                                                               *)

\* What a drain has emitted so far, and whether it goes on.
Result(c, packets, more) == [core |-> c, out |-> packets, more |-> more]

\* The packet is handed out with the timestamps of its epoch; a packet without
\* an offset, or one before the last DTS, is an error.
Emit(c, p, packets) ==
  LET q == Shifted(p, c.offsets[p.stream])
  IN  IF p.stream \notin DOMAIN c.offsets \/ Regresses(c, q)
      THEN Result(EnterError(c), packets, FALSE)
      ELSE Result(NoteOutput(c, q), Append(packets, q), TRUE)

\* Lanes that send, and the DTS that all of them have reached.
LiveLanes(c) == {s \in c.active : ~Stalled(c, s)}

Overtakes(c, p) ==
  \E s \in LiveLanes(c) : OrderingDts(c, p) + ReorderWindow > c.latest[s]

\* The next packet that is due.
Candidates(c) == {c.queues[s][1] : s \in {q \in Queued(c) : Due(c, c.queues[q][1], c.target)}}

Earliest(c) ==
  CHOOSE p \in Candidates(c) : \A q \in Candidates(c) :
    \/ OrderingDts(c, p) < OrderingDts(c, q)
    \/ OrderingDts(c, p) = OrderingDts(c, q) /\ p.seq <= q.seq

\* One round of drain_ready_locked.
DrainOne(c, packets) ==
  LET p == Earliest(c)
      returning == c.state = "Returning" /\ ~c.committed
      passed == IF returning /\ IsVideo(p.stream) /\ GoesLive(c, p)
                THEN [c EXCEPT !.returnKeys = Without(@, {p.stream})] ELSE c
      taken == [passed EXCEPT !.queues[p.stream] = Tail(@), !.buffered = @ - 1]
  IN  IF ~(LiveLanes(c) \subseteq DOMAIN c.latest) \/ Candidates(c) = {}
      THEN Result(c, packets, FALSE)
      ELSE IF returning /\ ReturnReady(c) /\ GoesLive(c, p) THEN Result(c, packets, FALSE)
      ELSE IF Overtakes(passed, p) THEN Result(passed, packets, FALSE)
      ELSE Emit(taken, p, packets)

\* drain_ready_locked
DrainReady(c) ==
  FoldLeft(LAMBDA r, i : IF r.more THEN DrainOne(r.core, r.out) ELSE r,
           Result(c, <<>>, TRUE), [i \in 1..(c.buffered + 1) |-> i])

\* drain_return_pending_locked
DrainPending(c) ==
  FoldLeft(LAMBDA r, p : IF r.more
                         THEN Emit([r.core EXCEPT !.pending = Tail(@), !.buffered = @ - 1],
                                   p, r.out)
                         ELSE r,
           Result(c, <<>>, TRUE), c.pending)

----------------------------------------------------------------------------
(* The cut to the delayed branch.                                          *)

Continuous(q, i) == MaxGap = 0 \/ \A j \in i + 1..Len(q) : q[j].at - q[j - 1].at <= MaxGap

\* The packets of a lane the delayed branch can start with.
Starts(c, s) ==
  LET q == c.queues[s]
  IN  {i \in DOMAIN q :
         /\ Due(c, q[i], c.target)
         /\ IsVideo(s) => q[i].key
         /\ c.target = 0 \/ Back(q).at - q[i].at >= c.target
         /\ Continuous(q, i)
         /\ MaxGap = 0 \/ c.observed - Back(q).at <= MaxGap}

\* cut_plan_locked: the lanes of the cut; it starts each as late as it can.
Cut(c) == {s \in Queued(c) : Starts(c, s) # {}}

CutReady(c) ==
  /\ Required \subseteq Queued(c)
  /\ Cut(c) # {}
  /\ IF Required = {} THEN Queued(c) \subseteq Cut(c) ELSE Required \subseteq Cut(c)

\* apply_cut_plan_locked and begin_timestamp_epoch_locked
ApplyCut(c) ==
  LET from(s) == IF s \in Cut(c) THEN Largest(Starts(c, s)) ELSE Len(c.queues[s]) + 1
      cut == [c EXCEPT !.queues = [s \in Streams |-> SubSeq(@[s], from(s), Len(@[s]))],
                       !.buffered = FoldFunction(+, 0, [s \in Streams |->
                                                          Len(c.queues[s]) + 1 - from(s)])]
      epoch == NewEpoch(cut, {cut.queues[s][1] : s \in Cut(c)}, c.target)
  IN  [epoch EXCEPT
         !.latest = [s \in Cut(c) |-> OrderingDts(epoch, Back(cut.queues[s]))],
         !.active = Required \cup Cut(c),
         !.preparingChange = FALSE, !.fromDelayed = FALSE,
         !.pendingTarget = c.target, !.state = "Delayed"]

----------------------------------------------------------------------------
(* What a call does, with its time observed: the object and the packets     *)
(* that it returns.                                                        *)

Quiet(c) == [core |-> c, out |-> <<>>]

\* push
Pushed(c, p) ==
  LET kept == Enqueue(c, p)
      seen == ObserveKeyframe(kept, p)
      sent == DrainPending(c)
      live == PassLive(sent.core, p)
      drained == DrainReady(kept)
  IN  IF c.state \in {"Bypass", "Error"} \/ (c.state = "Preparing" /\ ~c.preparingChange)
      THEN PassLive(c, p)
      ELSE IF c.committed THEN [core |-> live.core, out |-> sent.out \o live.out]
      ELSE IF kept.state = "Error" THEN PassLive(kept, p)
      ELSE CASE c.state = "Filling" -> Quiet(Prune(kept))
             [] c.state = "Preparing" -> DrainReady(Prune(kept))
             [] c.state = "Delayed" ->
                  [drained EXCEPT !.core = IF @.state = "Delayed" THEN Prune(@) ELSE @]
             [] OTHER -> IF c.returnFromDelayed THEN DrainReady(seen) ELSE Quiet(seen)

\* poll
Polled(c) ==
  LET drained == DrainReady(c)
  IN  CASE c.state = "Preparing" /\ c.preparingChange -> drained
        [] c.state = "Filling" -> Quiet(Prune(c))
        [] c.state = "Delayed" ->
             [drained EXCEPT !.core = IF @.state = "Delayed" THEN Prune(@) ELSE @]
        [] c.committed -> DrainPending(c)
        [] c.state = "Returning" /\ ~c.committed /\ c.returnFromDelayed -> drained
        [] OTHER -> Quiet(c)

----------------------------------------------------------------------------
(* The caller: a host with one clock, encoders whose DTS increase and whose *)
(* first packet is a keyframe, and generations that count up.               *)

\* observe_time_locked: a call comes at the time of the last one or later. A call
\* that is refused only observes the time; in every state some request is.
Refused ==
  /\ core.observed < MaxTime
  /\ core' = [core EXCEPT !.observed = @ + 1]
  /\ out' = <<>>
  /\ UNCHANGED <<last, spent, shown, loose>>

\* The history after packets have been emitted; what passes in error does not
\* count for the order.
Shows(packets, state) ==
  FoldLeft(LAMBDA f, p :
             IF state = "Error" THEN [f EXCEPT ![Timeline(p.stream)].seq = p.seq]
             ELSE [f EXCEPT ![Timeline(p.stream)] =
                     [seq |-> p.seq, dts |-> {p.dts}, pts |-> {Largest(@.pts \cup {p.pts})}]],
           shown, packets)

\* The call is over.
Returns(result, free) ==
  /\ core' = result.core
  /\ out' = result.out
  /\ shown' = Shows(result.out, result.core.state)
  /\ LET started == {Timeline(p.stream) : p \in {q \in ToSet(result.out) : q.key}}
     IN  loose' = IF result.core.state = "Error" THEN [lanes |-> VideoLanes, epoch |-> TRUE]
                  ELSE [lanes |-> free.lanes \ started,
                        epoch |-> free.epoch \/ \E s \in core.active : Stalled(core, s)]

Spend == spent < MaxEvents /\ spent' = spent + 1

\* An error that is brought about counts as two.
Trouble == spent + 2 <= MaxEvents /\ spent' = spent + 2

\* A request that the object accepts emits nothing. Only those that begin
\* something new are bounded.
Accepted(c) == Returns(Quiet(c), loose) /\ UNCHANGED last
Begun(c) == Spend /\ Accepted(c)

\* One that begins an epoch; these video lanes begin it where they are.
Committed(c, lanes) ==
  /\ Returns(Quiet(c), [lanes |-> loose.lanes \cup lanes, epoch |-> FALSE])
  /\ UNCHANGED <<last, spent>>

\* The DTS of audio is behind by lag. Every gop-th frame is a keyframe; the frame
\* after it is presented later than the ones that follow, which are B-frames.
NextPacket(t, s) ==
  LET phase == last.on[s].frames % last.encoder.gop
      lead == IF ~IsVideo(s) THEN 0
              ELSE CASE phase = 0 -> 1 [] phase = 1 /\ last.encoder.gop > 2 -> 2 [] OTHER -> 0
  IN  Packet(s, last.count + 1, last.on[s].seq, t - (IF IsVideo(s) THEN 0 ELSE last.encoder.lag),
             lead, ~IsVideo(s) \/ phase = 0, t)

InOrder(p) ==
  /\ p.after # 0 => p.dts > last.on[p.stream].dts
  /\ \A s \in Streams : Timeline(s) = Timeline(p.stream) /\ last.on[s].seq # 0
                        => s[2] <= p.stream[2]

Sent(p) ==
  last' = [last EXCEPT !.count = p.seq,
                       !.on[p.stream] = [seq |-> p.seq, dts |-> p.dts, frames |-> @.frames + 1]]

Push ==
  \E s \in Streams :
    LET p == NextPacket(core.observed, s)
    IN  /\ last.count < MaxPackets
        /\ InOrder(p)
        /\ Returns(Pushed(core, p), loose)
        /\ Sent(p)
        /\ IF p.after = 0 /\ s[2] > 1 THEN Spend ELSE UNCHANGED spent

\* push with a time before the last: the packet passes, the clock is in error.
PushStale ==
  \E s \in Streams :
    LET p == NextPacket(core.observed - 1, s)
    IN  /\ last.count < MaxPackets /\ InOrder(p)
        /\ Trouble
        /\ Returns(PassLive(EnterError(core), p), loose)
        /\ Sent(p)

Poll == Returns(Polled(core), loose) /\ UNCHANGED <<last, spent>>

\* prune(), which a host may call at any time; elsewhere the calls that buffer and
\* drain do it too.
PruneNow ==
  /\ core.state = "Returning"
  /\ Returns(Quiet(Prune(core)), loose)
  /\ UNCHANGED <<last, spent>>

\* observe_external_output: a frame of the cover that the host shows while filling, behind
\* all that was sent.  The code takes one in any state; that a host shows it elsewhere is
\* left out.  A frame that regresses does what ReportError does.
ObserveExternalOutput ==
  \E s \in Streams :
    LET p == Packet(s, 0, 0, core.observed, 0, TRUE, core.observed)
        q == [Shifted(p, NewOffset(core, p, 0)) EXCEPT !.seq = Cover]
    IN  /\ core.state = "Filling"
        /\ Spend
        /\ core' = NoteOutput(core, q) /\ out' = <<>> /\ shown' = Shows(<<q>>, core.state)
        /\ UNCHANGED <<last, loose>>

----------------------------------------------------------------------------
(* Requests. One that is refused, or has no effect, changes nothing.       *)

Retarget(c, delay) == [c EXCEPT !.target = delay, !.pendingTarget = delay]

\* request_activate; request_change_delay does the same in Bypass.
RequestActivate ==
  \E delay \in Delays :
    /\ core.state = "Bypass"
    /\ Begun([Retarget(ClearAll(core), delay) EXCEPT !.previousTarget = 0, !.state = "Preparing"])

BeginFilling ==
  /\ core.state = "Preparing"
  /\ LET c == [core EXCEPT !.target = core.pendingTarget, !.state = "Filling"]
     IN  Accepted(IF core.preparingChange THEN [c EXCEPT !.preparingChange = FALSE]
                  ELSE [ClearQueues(c) EXCEPT !.fromDelayed = FALSE])
  /\ UNCHANGED spent

\* request_change_delay, of a preparation, of a filling, and of a delayed output,
\* which goes on with the old delay meanwhile.
ChangePreparation ==
  \E delay \in Delays \ {core.pendingTarget} :
    /\ core.state = "Preparing"
    /\ Begun([core EXCEPT !.pendingTarget = delay,
                          !.target = IF core.preparingChange THEN @ ELSE delay])

ChangeFilling ==
  \E delay \in Delays \ {core.target} :
    /\ core.state = "Filling"
    /\ Begun([Retarget(core, delay) EXCEPT
                !.previousTarget = IF core.fromDelayed THEN @ ELSE core.target])

ChangeDelayed ==
  \E delay \in Delays \ {core.target} :
    /\ core.state = "Delayed"
    /\ Begun([core EXCEPT !.previousTarget = core.target, !.pendingTarget = delay,
                          !.preparingChange = TRUE, !.fromDelayed = TRUE,
                          !.state = "Preparing"])

\* The video lanes of some streams.
Lanes(streams) == {Timeline(s) : s \in streams} \cap VideoLanes

\* request_cancel of a change: back to the delayed output.
Uncommitted(c) == [c EXCEPT !.preparingChange = FALSE, !.fromDelayed = FALSE, !.state = "Delayed"]

\* The lanes whose last frame was the cover.
Covered == {lane \in Timelines : shown[lane].seq = Cover}

\* The delayed output goes on in its old epoch, behind the cover if that was shown;
\* a lane that came during the filling has no place in it.
Resumed ==
  [lanes |-> loose.lanes \cup (Covered \cap VideoLanes),
   epoch |-> loose.epoch \/ Covered # {} \/ ~(Queued(core) \subseteq DOMAIN core.offsets)]

\* commit_delayed: what a lane without a place to start has buffered is dropped, and a
\* lane that sent nothing but the cover goes on wherever it is.
CommitDelayed ==
  /\ core.state = "Filling" /\ CutReady(core)
  /\ Committed(ApplyCut(core),
               (Lanes(Queued(core)) \cup (Covered \cap VideoLanes)) \ Lanes(Cut(core)))

CancelPreparedChange ==
  /\ core.state = "Preparing" /\ core.preparingChange
  /\ Begun(Uncommitted([core EXCEPT !.pendingTarget = core.target]))

CancelFillingOfChange ==
  /\ core.state = "Filling" /\ core.fromDelayed
  /\ Spend
  /\ Returns(Quiet(Uncommitted(Retarget(core, core.previousTarget))), Resumed)
  /\ UNCHANGED last

\* request_cancel of an activation
CancelActivation ==
  /\ core.state \in {"Preparing", "Filling"} /\ ~core.preparingChange /\ ~core.fromDelayed
  /\ Begun(StartReturn(core, FALSE))

RequestDeactivate ==
  /\ core.state \in {"Preparing", "Filling", "Delayed"}
  /\ Spend
  /\ Returns(Quiet(StartReturn(core, core.state = "Delayed" \/ core.preparingChange
                                       \/ core.fromDelayed)),
             IF core.fromDelayed THEN Resumed ELSE loose)
  /\ UNCHANGED last

\* commit_return: from here on the lanes without a chosen keyframe go live too.
CommitReturn ==
  /\ core.state = "Returning" /\ ~core.committed /\ ReturnReady(core)
  /\ Committed([BuildPending(core) EXCEPT !.committed = TRUE, !.returnFromDelayed = FALSE],
               Lanes(Streams) \ Lanes(DOMAIN core.returnKeys))

Idle(c) == [Retarget(ClearAll(c), 0) EXCEPT !.previousTarget = 0, !.state = "Bypass"]

FinishReturn ==
  /\ core.committed /\ core.pending = <<>>
  /\ Accepted(Idle(core)) /\ UNCHANGED spent

\* report_error, and observe_external_output of a frame that is invalid or regresses.
ReportError == Trouble /\ Accepted(EnterError(core))

Recover == core.state = "Error" /\ Accepted(Idle(core)) /\ UNCHANGED spent

----------------------------------------------------------------------------
Init ==
  /\ core = NewCore
  /\ out = <<>>
  /\ \E encoder \in Encoders :
       last = [encoder |-> encoder, count |-> 0,
               on |-> [s \in Streams |-> [seq |-> 0, dts |-> 0, frames |-> 0]]]
  /\ spent = 0
  /\ shown = [t \in Timelines |-> [seq |-> 0, dts |-> {}, pts |-> {}]]
  /\ loose = [lanes |-> {}, epoch |-> FALSE]

Next ==
  \/ Refused \/ Push \/ PushStale \/ Poll \/ PruneNow \/ ObserveExternalOutput
  \/ RequestActivate \/ BeginFilling \/ CommitDelayed
  \/ ChangePreparation \/ ChangeFilling \/ ChangeDelayed
  \/ CancelPreparedChange \/ CancelFillingOfChange \/ CancelActivation
  \/ RequestDeactivate \/ CommitReturn \/ FinishReturn
  \/ ReportError \/ Recover

Spec == Init /\ [][Next]_vars

----------------------------------------------------------------------------
(* Properties.                                                             *)

\* The states, and the count of what is buffered.
TypeOK ==
  /\ core.state \in {"Bypass", "Preparing", "Filling", "Delayed", "Returning", "Error"}
  /\ core.buffered = Len(core.pending)
                     + FoldFunction(+, 0, [s \in Streams |-> Len(core.queues[s])])
  /\ core.buffered <= MaxBuffered

\* The packet of the lane that was emitted before out[i].
Before(i) ==
  LET same == {j \in 1..(i - 1) : Timeline(out'[j].stream) = Timeline(out'[i].stream)}
  IN  IF same = {} THEN shown[Timeline(out'[i].stream)].seq ELSE out'[Largest(same)].seq

\* A video packet that is emitted is a keyframe or follows the packet it refers
\* to, through every change of the delay, cancelled or not. Left out are lanes
\* that go on without a keyframe by design or by omission: optional or stalled
\* lanes at a commit, those cancelled before anything was buffered, a cancelled
\* change whose cover has been shown, and an object in error.
Decodable ==
  [][core'.state # "Error" =>
       \A i \in DOMAIN out' :
         \/ ~IsVideo(out'[i].stream) \/ out'[i].key
         \/ Before(i) = out'[i].after
         \/ Timeline(out'[i].stream) \in loose.lanes]_vars

\* The timestamps that these lanes have shown before out[i].
DtsBefore(i, lanes) ==
  (UNION {shown[t].dts : t \in lanes})
    \cup {out'[j].dts : j \in {k \in 1..(i - 1) : Timeline(out'[k].stream) \in lanes}}

PtsBefore(i, lanes) ==
  (UNION {shown[t].pts : t \in lanes})
    \cup {out'[j].pts : j \in {k \in 1..(i - 1) : Timeline(out'[k].stream) \in lanes}}

\* What is emitted never goes back in DTS over all lanes, each lane's DTS
\* increases, and a keyframe is presented after all that its lane has shown,
\* over every change of epoch. Left out is an object in error, and the epoch that
\* a cancelled change resumes behind its cover.
OutputInOrder ==
  [][core'.state # "Error" =>
       \A i \in DOMAIN out' :
         LET p == out'[i]
             lane == {Timeline(p.stream)}
         IN  /\ \A d \in DtsBefore(i, Timelines) : d <= p.dts
             /\ \/ loose.epoch
                \/ /\ \A d \in DtsBefore(i, lane) : d < p.dts
                   /\ p.key => \A d \in PtsBefore(i, lane) : d < p.pts]_vars

\* All lanes have the offset of the epoch: none has joined it since with one of its own.
SharedOffset == \A s, q \in DOMAIN core.offsets : core.offsets[s] = core.offsets[q]

\* No error but those that the host, the clock or the memory bring about: when the
\* input is interleaved, no lane stalls and none has joined a running epoch, neither a
\* poll nor a commit finds a packet that it cannot hand out in order.
PollsSucceed ==
  [][last' = last /\ spent' = spent /\ last.encoder.lag = 0
       /\ core.state # "Error" /\ ~loose.epoch
       /\ SharedOffset /\ ~(\E s \in core.active : Stalled(core, s))
       => core'.state # "Error"]_vars

\* While the object returns, the keyframe chosen for a lane is still buffered.
CutsBuffered ==
  core.state = "Returning" /\ ~core.committed =>
    \A s \in DOMAIN core.returnKeys :
      \E p \in ToSet(core.queues[s]) : p.seq = core.returnKeys[s] /\ p.key

\* Whatever is pruned, drained, cut or cleared: the memory limit counts exactly what is
\* held, and a keyframe at which the delay is to end stays until it is used.
BufferSound == TypeOK /\ CutsBuffered
============================================================================
