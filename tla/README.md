# Verification of OBS Dynamic Delay

TLA+ models of the OBS plug-in in this repository, the TLC runs that check them
on small instances, and proofs that the TLA+ proof system (TLAPS) checks for
every value of the constants.  The plug-in delays a running stream without
restarting it: it leaves the encoded packets of an output alone, or replaces
their payload by packets of a hold scene or by older packets of the same output.
It can also send the same encoded stream to several RTMP destinations.

## 1. The system

### Components

| Component | Source | State | Operations | Model |
|---|---|---|---|---|
| OutputSession | `src/src/output-session.cpp` | delay state, one primary and one hold FIFO per lane (video, audio tracks), fallback keyframes, timeline offset, flags of the current generation, the hold collector and what is known of its pause state | primary packet callback, hold packet callback, `request_delay`, `request_bypass`, `maintenance`, `sync_pause_state`, `reconnect_signal`, `activate_signal`, `pause_signal`, `take_rearm_request`, destructor | `OutputSession`; pausing and destruction in `HoldEncoding` |
| MultistreamQueue | `src/src/core/multistream-queue.hpp` | packets, byte count, epoch, waiting for a keyframe | `reset`, `push`, `pop` | `MultistreamQueue` |
| Destination | `src/src/multistream-transport.cpp:262-677` | worker thread, status, atomic `stop_`, `restart_`, `finished_`, `deadlineUsec_`, the interruptible socket, the queue | `run`, `submit`, `request_stop`, `check_deadline` | `MultistreamDestination` |
| Transport | `src/src/multistream-transport.cpp:680-870` | active and retired destinations, remembered statuses, watchdog thread | `start`, `stop`, `stop_all`, destructor, watchdog loop | `MultistreamTransport` |
| PcmSpscFifo | `src/src/core/audio_spsc_fifo.hpp` | slots, two atomic counters | `begin_push`, `commit_push`, `begin_pop`, `commit_pop`, `size` | `PcmSpscFifo` |
| PcmWindowCursor | `src/src/core/audio_spsc_fifo.hpp` | place in the block, alignment still owed, continuity, primed | `consume` | `PcmWindowCursor` |
| HoldAudioTap | `src/src/hold-audio-tap.cpp` | main clock, last timestamp pushed, `forceSilence` | `source_audio_render`, `push`, `main_clock_output`, `pull`, `force_silence` | `HoldAudioTap` |
| SharedHoldEncoding, HoldPipeline | `src/src/hold-pipeline.cpp` | a collector with cloned encoders, its subscribers, its pause state; who holds it | `acquire_encoding`, `subscribe`, `unsubscribe`, `receive`, `start`, `stop`, `set_paused` | `HoldEncoding` |
| HoldMediaHub | `src/src/hold-media-hub.cpp` | the private view and audio clock of a hold scene, the encodings made for it | create, match, acquire | its sharing in `DelayController`, its encodings in `HoldEncoding` |
| DelayController | `src/src/delay-controller.cpp` | sessions, settings, `requestedActive_`, `rearmPending_`, `reconnectPending_`, the hub in use | `poll`, `toggle_delay`, the setters, `refresh_scenes`, `start_delay_on_sessions`, `start_delay_on_output`, outputs that appear and vanish | `DelayController` |
| MultistreamController | `src/src/multistream-controller.cpp` | targets, starts that wait, the private output (the collector) and its headers, a failure flag | `start_target`, `stop_target`, `save_target`, `remove_target`, `stop_all`, `receive`, `poll`, frontend events, destructor | `MultistreamController` |
| PacketDelay | `src/src/core/packet_delay.cpp` | queues, offsets and horizons of the output, the transition under way | `push`, `poll`, `prune`, `observe_external_output`, the requests and commits, `report_error`, `recover` | `PacketDelay` (the plug-in does not link it) |
| PreviewCapture, audio preflight | `src/src/preview-capture.cpp`, `audio-preflight.cpp` | - | - | not modelled |
| Docks, encoder layouts, registration, vendored RTMP | see `PROJECT.json` | - | - | not modelled |

### How they interact

```
 libobs output thread ---> OutputSession::process_primary_packet  --.
 hold encoder thread  ---> OutputSession::receive_hold_packet     --+- OutputSession::mutex_
 DelayController      ---> request_delay / bypass / maintenance   --'   (frontend thread)
 libobs reconnection  ---> reconnect_signal / activate_signal

 output packet callback -> MultistreamTransport::submit -> Destination::submit --.
 watchdog thread (25 ms) -> check_deadline, collect_finished                     +- atomics,
 frontend thread -> start / stop / destructor -> request_stop                    |  mutex_,
 worker thread (one per destination): connect, pop, send, retry -----------------'  condition_

 Qt thread: start / stop / poll  -> MultistreamController -> transport, collector (libobs)
 encoder thread of the collector -> MultistreamController::receive -> transport

 collector's thread -> SharedHoldEncoding::receive -> receive_hold_packet of all subscribers
                       (subscribersMutex_, then the session's mutex)
 frontend thread    -> request_delay, maintenance, ~OutputSession -> unsubscribe (subscribersMutex_)

 main audio thread    -> HoldAudioTap::source_audio_render -> push -> begin/commit_push --.
                         main_clock_output                                                +- PcmSpscFifo
 private audio thread -> HoldAudioTap::pull -> PcmWindowCursor::consume -> begin/commit_pop
 frontend thread      -> force_silence
```

The controller reads of a session its state and its rearm request; sessions, a
running start and the controller share the media hub by reference count.
`OutputSession` shares nothing with the transport: they meet in the packets that
libobs passes on; `MultistreamController` gets them from an output of its own, the
collector, which `DelayController` delays like any other.  A destination is the only user of its queue.  The transport
sees a destination through `request_stop`, `finished` and `check_deadline`.  The
audio ring is the only thing its two threads share; it feeds the hold encoder.

### What is hard

- Three threads act on a session; `request_delay` and `maintenance` release the
  mutex to join the hold encoder, whose callbacks go on meanwhile.
- Splices: payloads of different encoders and ages are put into one timeline,
  which must stay decodable (keyframes) and monotonic (DTS, PTS with B-frames).
- Limits of memory in the middle of a transition; missing media time on one lane.
- A destination's flags are atomics, read and written outside its mutex; its
  deadlines race with the calls they bound, its stop with its sleep.
- Workers that are slow to stop; a destructor that joins all of them.
- A controller whose functions wait for sessions that packets move, and for a hub
  that the last of them lets go of, while outputs stop, reconnect and appear.
- A collector that must not be given up or replaced while a worker still uses its
  headers, though whether it is needed is asked in one call and acted on in another.
- Hold encoders that several sessions share, whose threads are in a session while
  it is stopped or destroyed, and whose pause state has to follow the outputs'.
- Delays that are changed and cancelled in the middle of a group of pictures.
- Audio that two clocks of different phase exchange without a lock, with
  timestamps that step.

What makes each component correct is listed with its runs in section 4;
`PROJECT.json` lists every hazard at its line, with the properties for it.

## 2. Plan

Done, in this order (the most important behaviour first):

1. `OutputSession`: the state machine, all actors; `OutputSessionProofs`.
2. `MultistreamQueue` and, for any caller, `MultistreamQueueUse`; proofs.
3. `MultistreamDestination`, which EXTENDS the queue, implementing the abstract
   `DestinationContract`; proofs.
4. `MultistreamTransport`, over workers that keep `DestinationContract`.
5. `PcmSpscFifo`, implementing the abstract `BoundedChannel`; `PcmWindowCursor`,
   its consumer; `HoldAudioTap`, which composes both with the producer; proofs.
6. `DelayController` over sessions that keep `SessionContract`, which
   `OutputSession` implements; proofs.
7. `MultistreamController`, which EXTENDS the transport and drives it; proofs of both.
8. `HoldEncoding`: shared encodings and the sessions' side of them, pausing included;
   proofs.
9. `PacketDelay`: one object, every method; proofs of its
   buffer and of the order of its output.

## 3. The models

In every module a definition carries the name of the function it stands for, and
`PROJECT.json` maps it to its lines.  Variables `lastOut`, `peakPts`, `began`,
`lost`, `gap`, `missed`, `slipped`, `created`, `received`, `played`, `phase`, `copied`, `headers`,
`shared`, `shown` and `loose` record history for the properties; they are never read by the code's guards.
`spent` counts against the bounds of a run.  Definitions that end in `_Bug` are plausible
mistakes in the definition that follows them: each property of a run is violated
when one of them takes its place.  Nothing else uses them.

### OutputSession

One action of the packet callback per branch of `process_primary_packet`, all
under one carrier packet (`PrimaryPacket`): `PassUntouched` (the unlocked fast
path; its read of the state and the pass are one step, as nothing another thread does
meanwhile concerns the packet that passes), `PassLive`, `RestoreLive`, `Fill`, `StartDelayed`, `Delay`,
`DelayLimitLive`, `DelayLimitDrain`, `ReturnOnFallback`, `ReturnFromFilling`,
`ReturnFromDelayed`.  `HoldPacket` is `receive_hold_packet`.  Everything under
`mutex_` is one step.  `request_delay` is `TakeOldPipeline`,
`RetireOldPipeline`, `PublishDelay` and `StartPipeline` (or its failure): the
points at which the code holds no mutex lie between them.  `maintenance` is
`MaintenanceTake`, `MaintenanceStop`, `MaintenanceRetire`.  While an old
collector is `retiring`, its packets still arrive.

Data: a packet is a record of source, sequence number, DTS in ticks (one video
frame and one audio packet), size, keyframe, and composition offset.  Only the
agreement of formats is kept.  The encoders are external: GOPs of given lengths,
with B frames if asked for, lanes interleaved by DTS, holes of media time.

### MultistreamQueue, MultistreamQueueUse

`Push`, `Pop` and `Reset` are the three functions, with all four limits and the
order of their tests.  `MultistreamQueueUse` calls them with any packet and any
time, a clock that goes back included.

### MultistreamDestination

The worker is a program counter over the stretches of `run` between two points at
which another thread can be seen to act: `Begin`, `Resolve`, `Register`,
`Handshake`, `Opened`, `Accept`, `Test`, `Park`, `Send`, `Close`, `Retry`, ...
`Test` to `Park` is the wait on `condition_`: the worker holds `mutex_` from
the condition's evaluation until it sleeps, but `request_stop` and the watchdog
do not take that mutex.  `request_stop` is three steps (flag, socket,
notification), `check_deadline` is three (read, compare and set `restart_`,
interrupt).  An exception is `Throw` in `connect_network`, or comes with the text of a
status, after the rest of `Accept`, `Sent` or `Retry` is done; `Close`, `Thrown` and
`Failing` are the handler.  The injected failure of the transport's own tests is left out.  Address resolution, muxer and librtmp are one peer that answers, fails, or hangs
until the socket is shut down.  Time is relative: the clock reads 0, deadlines
count down, arrival times move into the past.

### DestinationContract, MultistreamTransport

`DestinationContract` is the abstract worker: asked to stop while awake it
finishes; asleep it has to be notified; a notification that finds it falling
asleep is lost.  `MultistreamDestination!KeepsContract` is the refinement (worker
steps `parking`, `parked`, `done`, and everything else busy), with its fairness.
`MultistreamTransport` has one such worker for every start: `Worker(w)` is an instance
of the contract, and the worker's actions are the contract's, so that nothing else is
assumed of it.

### MultistreamController

It EXTENDS the transport: a method that calls the transport once is one step with
it, and one that calls it twice is two, so that workers and the watchdog act between.
`poll` is `PollStops`, `PollStarts` with a `PollStart` for each start that waits, and
`PollIdle`; `Check` is the question whether the collector is still needed, with which
`poll`, `stop_target` and a refused start end.  Collectors are numbered.  What they
deliver to the workers is left out, `ReceiveFails` excepted.  The encoders' headers are
external: they appear some time after a collector starts, or never.

### HoldEncoding

The frontend thread is a program counter over `request_delay`, `maintenance` and the
destructor of each session, with a step wherever the code takes or releases a mutex, or
waits for one.  The thread of a collector is `Deliver` (the packet arrives and
`subscribersMutex_` is taken), then `Enter` and `Leave` for every subscriber.  A session
holds its encoding by reference: `Expired` says that nobody does, and the last
`StopPipeline` destroys it.  What the packets do to a session is `OutputSession`'s; here
they can end a delay or ask for the clean-up (`HoldUnneeded`).  `Pause` is a pause or
resumption of an output, whose encoders do the same, and the signal it sends.

### PacketDelay

Every public method holds the mutex, so that a call is one step.  The object is the
record `core`, each private method an operator on it, and each public method an action.
`Pushed` and `Polled` are the dispatch on the state.  Time and timestamps are counted in
one time base; `NewOffset` is the least offset that satisfies the horizons, which the
code finds by a binary search.  The host has one clock and may call anything at any time.
It shows the cover only while filling and behind all that was sent, as the repository's tests
do (`packet_delay_tests.cpp:401-452`); the code takes a cover in any state.  One that
regresses or is invalid ends in the error state (`packet_delay.cpp:707`), which is what
`ReportError` does.  The host's encoders start with a keyframe, have B-frames or audio
that is behind, and may be replaced by a new generation.  `loose` says what a lane or the
present epoch is excused from, and where (see section 4).

### PcmSpscFifo, PcmWindowCursor, HoldAudioTap, BoundedChannel

`PcmSpscFifo` has a step per function.  A slot is lent between `BeginPush` and
`CommitPush` (`writing`), and between `BeginPop` and `CommitPop` (`held`).  An
acquire load of the other side's counter may return any value between the one it
returned last (`knownRead`, `knownWrite`) and the current one, and a slot is `Torn`
while it is written.  `BoundedChannel` is what the ring promises; `KeepsChannel`
is the refinement, in which the channel is the slots between the two counters.

`PcmWindowCursor` is `consume`, cut where it looks at the ring: `NotPrimed`,
`Underrun`, `TakeBlock` load the counter; `Discard`, `Silence`, `Skip` and `Copy`
deal with the block.  `HoldAudioTap` adds the producer (`Render` up to
`begin_push`, `RenderEnds` from there) and both clocks.  Timestamps are in frames,
and the reference of an alignment is the end of the last main window, as in
`push`.  `phase` is where the last alignment to a window put timestamp 0.  It is
unknown after an underrun, another format, and when timestamps step while frames
are still to be skipped: the code does not look at the timestamp then.

### SessionSteps, SessionContract, DelayController

`SessionSteps` says what one session does to the parts of its state that the
controller reads or waits for, one operator per function.  `SessionContract` allows
any of these steps at any time; `OutputSession!KeepsSessionContract` is the
refinement, checked with every interleaving of `session_reconnect`.

In `DelayController` the functions run on the frontend thread, one after another,
but packets and libobs act between any two steps.  `poll` is `Poll` (maintenance),
`TakeRearmRequests` and `Scan`.  A start selects the hub (`StartNothing`,
`SceneMissing`, `HubFails`, `ReuseHub`, `RebuildHub`, `CreateHub`), then goes over
the outputs: `Check`, and for one that can be started `Refuse`, or `Prepare` and
`Start` or `StartFails`.  The frontend's events are `AddOutput` and `RemoveOutput`,
those of the multistream dock `AddManaged` and `RemoveManaged`.  libobs is external:
`OutputStops`, `Reconnect`, `Activate` (the signal, after which packets flow) and
`Reconnected` (the flag that `obs_output_reconnecting` reads is cleared after it).
A hub is its media and an identity: `hub` is `activeMediaHub_`, `hubOf` what each
hold pipeline refers to, `frontend.hub` the running start's; `HubUsed` is
`use_count() > 1`.  The four kinds of setting that a hub depends on are one,
`media`; the order in which the sessions' maintenance and rearm requests alternate
in `poll` is left out, since sessions share nothing.

## 4. Runs

Run in this directory: `tlc -workers 2 -config <cfg> <module>`.

| Run | Configuration | Question |
|---|---|---|
| session_delay | `OutputSessionDelay.cfg` | A whole delay with B frames, both buffers small enough to overflow, cancelled at any moment |
| session_holes | `OutputSessionHoles.cfg` | Two encoder holes on any lanes: realignment |
| session_reconnect | `OutputSessionReconnect.cfg` | Two requests, a reconnection and clean-ups in any order |
| session_splice | `OutputSessionSplice.cfg` | Finding 1 |
| destination | `MultistreamDestination.cfg` | One destination and its queue, every thread, a peer that hangs |
| destination_stop | `MultistreamDestinationStop.cfg` | Finding 2 |
| multistream | `MultistreamController.cfg` | The controller over the transport: targets, collectors, workers and the watchdog |
| controller | `DelayController.cfg` | Two outputs, one that reconnects and one of the multistream dock, under every order of settings, starts and failures |
| controller_rearm | `DelayControllerRearm.cfg` | Finding 3 |
| hold_media | `HoldEncoding.cfg` | Two sessions that share hold encoders, pause, fail and are destroyed while packets are delivered |
| packet_delay | `PacketDelay.cfg` (module `MCPacketDelay`) | Every request of the packet delay, changed and cancelled at any moment |
| hold_audio | `HoldAudioTap.cfg` | Both audio threads, timestamps that step, overruns and underruns |

**OutputSession.**  `PrerollIsOneGop`: what the switch to hold starts from is one
complete GOP on every lane.  `SplicesOnKeyframesOtherwise`: a dependent frame
follows in the output the frame it follows in its GOP, except while Filling is
being left (finding 1).  `NoLiveLeak`: from the switch to hold until the return no
lane shows the present, whatever underruns.  `AgeIsTarget`: the delay is exactly
what was asked for, audio within one tick.  `NothingLostWhileDelayed`: also not
at the memory limit.  `TimestampsAscend`: the DTS increases, and a
keyframe is presented after all that was sent before.  The second half excepts finding
1, and a session that shows its hold fallback until it is live again: the same
keyframe repeated begins no epoch in the code, so with reordering it may be
presented as early as a frame before it.  `LanesInSync`: after a hole, audio and
video come from the same time again, but for the tolerance of two packets.  `PipelineReclaimed`: no hold encoder runs on
unnoticed.  `NoStaleCleanup`: no clean-up meant for one generation reaches the
next.  `KeepsSessionContract`: the session does what `DelayController` assumes.

**Destination.**  `StopReachesTheSocket`: registration of the socket and stop
cannot miss each other.  `NoGapInAConnection`: a connection starts with a keyframe
and omits no packet of its epoch.  `QueueSound`: the queue keeps its limits, counts
exactly what it holds, and holds one epoch, whoever pushes, pops and resets it when.
`LeavesNothingBehind`: nothing is queued while there is no connection, and a worker that
has finished leaves no connection open.  It makes one exception, counted in `slipped`: the
handler of an exception drops the queue (`multistream-transport.cpp:640-643`) and sets Error
(645) in two critical sections, and between them `submit` still sees a connected status
and a clear `stop_` and `restart_` (301-307).  What it queues then is never sent, and stays
until the destination is destroyed; the property says that nothing else stays.
`PeerCannotHang`: deadlines end every blocking call.
`RestartHappensUnlessMissed`: a restart that was asked for happens, unless it came from
the watchdog at the moment the worker fell asleep.  The watchdog compares a deadline it
read before the worker cleared it (`multistream-transport.cpp:291-298`), sets `restart_`
and notifies nobody; `submit` then returns early.  Such a worker sleeps until it is
stopped.  `KeepsContract`.

**Multistream.**  `TransportSound`: a target has one status, retired workers fit the
slots reserved for them, so that a `noexcept` stop never allocates, and the watchdog is
awake while anything runs.  `ReleaseNeverWaits`: nothing is let go of, or joined under
the mutex, before it has finished.  `DestructionEnds`, `WorkersAreReleased`.
`NobodyStreamsOn`: a worker that has not finished belongs to a target of the list, so that
it can be stopped, or was asked to stop and is kept until it has finished; none streams
on unseen after its target was stopped or removed, its start was answered late, or the
frontend went away.  `HeadersOfCollector`: a worker that has not finished was started with the headers of the
collector whose packets it gets; the collector is neither replaced nor given up under it.
`PendingStartsEnd`: a start that waits for headers begins, fails after ten seconds, or is
stopped; it does not wait for ever, also when others of its batch fail.

**Hold media.**  `NoLateDelivery`: once `unsubscribe` has returned, no collector is in
the session or still has it on its list.  `MethodsReturn`: the frontend thread waits for
deliveries that wait for mutexes it uses, and yet every method ends.  `PauseFollows`:
whatever a session remembered, and whatever libobs refused, a hold encoder is in the end
paused when its output is.  It excepts a collector that two sessions have shared, where
TLC finds that it fails: the session that started later tells the collector that the
output goes on, and is destroyed; the other remembers what it had set itself, has had
no signal since, and does not look.

**Packet delay.**  `BufferSound`: the count the memory limit is compared with is exact,
and the keyframe at which a return is to cut is still buffered when it does.
`Decodable`: a frame that is emitted is a keyframe or follows the frame before it, through
every change, cancellation and return.  `OutputInOrder`: DTS do not go back over all lanes, increase
on each, and keyframes are presented last.  `PollsSucceed`: with interleaved input and no
stalled lane, neither `poll` nor a commit ends in an error.  They except, each recorded in
`loose` at the step that causes it or as a guard, what the code does not provide for:

- an optional lane that showed nothing but the cover goes on wherever it is when the delay
  is committed, if it sends its next frame after that;
- an optional lane that joins a running epoch gets the least offset that fits its own first
  packet, not that of the epoch, and its packets may then come before those already emitted
  (`SharedOffset`: `PollsSucceed` does not speak of an epoch that was joined);
- a lane without a place to cut, when the delay is committed, loses what it has buffered and
  goes on in the middle of a group of pictures, and so does one whose activation is cancelled
  before it had a keyframe;
- a change that is cancelled while Filling goes on in the old epoch, also behind the
  cover that was shown meanwhile, and on a lane that came meanwhile, which has no offset:
  the next `poll` is an error;
- a lane that stalls is overtaken, and late when it returns;
- the error state passes packets as they come.

**Controller.**  `OneHub`: whatever is started, stopped and changed, there is one
hub, so that the hold scene is in the render tree once.  `LatestSettings`: a delay
that is on, and not about to be rearmed, has on every output the duration and the
scene chosen last.  `OffMeansLeaving`: off, no output is left in a delay, also one
that was reconnecting or about to be started; only after an error that was shown
can other outputs keep theirs.  `RearmCompletes`: once no session is in a delay, a pending
rearm ends, although the old hub puts it off as long as something uses it.  It is not said of
a rearm that waits for sessions still preparing, filling or delayed, as when the user
switches on again after an error that left them so: `toggle_delay` then waits for them
without asking them to return (`delay-controller.cpp:786-788`).

**Hold audio.**  `SlotsOwnedByOne`: no slot is lent to both threads.
`KeepsChannel`: whole blocks, once each, in order.  `InPhase`: every frame
copied lies where the last alignment puts it, through windows of another phase and
steps of the timestamps.  `BlocksOnce`: a block is played once, after those
before it, without a gap inside.  It says nothing of two blocks whose timestamps
overlap: after an underrun the overlap is played twice.

### Bounds, and why they are enough

The code's constants are CONSTANTS with small values; each further bound is marked
`bound:` where it is declared.  `OutputSession` checks one video and one audio
lane: lanes interact only through "all lanes" and "the earliest lane", which two
lanes of different kinds exercise.  `MaxDts` allows idle, preroll, filling,
several delayed frames and the return; the buffers hold five units of one
or two, fewer than a delay can need, so that each overflow branch is taken, and
enough for a delay without one.  `MaxIdle` bounds how long a session waits for
its first request, before which nothing is stored.  The destination run has
a queue of two packets and three bytes, of which a frame takes two, so that either limit
is hit before the other, and four submitted packets (keyframe, dependent frame, early
or late audio, overflow) and timeouts of one tick, which every race with a
deadline needs; reconnections are not bounded.  The queue's limits are hit there; the
theorems about it hold under any caller.  The multistream run allows three starts over
two ids and two collectors: the limits are hit, a target is stopped and
started while its first worker still closes, and a second collector with other headers
follows the first.

The hold media run has two sessions with the same encoders, two encodings and one change of the
pause state; the output starts paused, so that a new collector has to be told once and
told again.  Two encodings are what a session needs that fails or is rearmed; the second
serves both.  The packet delay run has one video lane with two generations beside an audio
lane, four packets, three ticks and three events (requests that begin something, covers,
new generations; an error counts as two): activate, change and cancel fit, and so do a
return and a second activation.  The buffer holds three, so that it can overflow.
Groups of pictures are three frames with a B-frame, or two with audio that is two ticks
late.

The controller run allows two changes by the user, one trouble (a reconnection, a
scene that is removed, or a failure) and two starts of outputs: enough to switch the
delay on and change it, or switch it off, while an output is lost or another appears.
The theorems of section 5 say the same of three of its four properties without these
bounds.

The audio run has two slots, so the ring wraps, is full and is empty; blocks of
two frames, so that an offset can fall inside a block, at its end, or span several;
timestamps that are up to three frames early or late, which is more than a block;
five ticks and four windows (`MaxTicks`, `MaxWindows`).

`CHECK_DEADLOCK FALSE` stands where the model may really stop: the sessions,
whose encoders stop at `MaxDts`, the transport, which is destroyed, the hold encoders,
whose sessions are, and the audio clocks and the packet delay, which stop at their bounds.

### Fairness

The runs of a session, of the packet delay and of the audio check safety and use no
fairness.  `MultistreamDestination` assumes weak
fairness of what the scheduler and the clock do by themselves: the worker, the
rest of a `request_stop` that began, the watchdog's poll, time.  Nothing is
assumed of the peer, the producer or of who stops.  `MultistreamTransport` assumes
that the watchdog's waits end (it waits 25 ms at a time), that a destructor that
began goes on, and of workers exactly the fairness in the contract, which
`KeepsContract` shows.  `MultistreamController` adds that ten seconds pass, that a method
ends, and, strongly, that the timer of `poll` is served between requests.  Starts are
bounded, so `WorkersAreReleased` is stated as "again and again no worker is unreleased".
`HoldEncoding` assumes that a delivery goes on; strongly, that the frontend thread
gets a mutex that is free between packets, that the timer calls `maintenance` of every
session, and that libobs does not refuse a pause for ever.  `DelayController` assumes that the poll timer and a function
that began go on, that an output which captures brings a keyframe, that libobs ends
a reconnection it does not give up, and that the frontend reports an output that
stopped, strongly, since it does so only between two polls.

### Findings

1. `session_splice` / `SplicesOnKeyframes` (`output-session.cpp:936`): when a
   delay is cancelled while Filling, an underrun of the hold queue is covered by
   the hold keyframe and continued with dependent frames after it, without a new
   epoch.  The guide says that splices happen only on keyframes.
2. `destination_stop` / `StopFinishes` (`multistream-transport.cpp:288`):
   `request_stop` notifies without the mutex, so the notification can fall between
   the worker's test and its sleep; without another packet the worker sleeps until
   the destructor repeats the stop.
3. `controller_rearm` / `RearmsAfterReconnection` (`delay-controller.cpp:930`): while
   a rearm is pending `poll` discards a session's rearm request, since the rearm
   covers it.  Between the activate signal, which makes the session live, and the
   moment libobs clears its reconnecting flag, the rearm may start, and its loop
   (line 753) skips the output for that flag.  The output stays live although the
   delay is on, without an error, until the user changes something.  The guide says
   that it is rearmed.

`KeepsContract`, `DestructionEnds` and `WorkersAreReleased` say what holds in spite of 2.

## 5. Proofs

Run `tlapm <module>.tla`.  Every theorem is for all values of the constants that
satisfy the named assumptions of the modules (`SessionAssumption`,
`QueueAssumption`, `DestinationAssumption`,
`CapacityAssumption`, `FramesAssumption`, `TapAssumption`, `TransportAssumption`,
`CollectorAssumption`, `ControllerAssumption`, `PacketDelayAssumption`): limits are natural numbers, track sets finite and non-empty, GOPs non-empty and of odd length
with B frames; a ring has two slots or more.

`OutputSessionProofs`, along invariants that build on each other:

- `TypeCorrect`: `[]TypeOK`, inductive by itself; one lemma for each helper of the packet
  path (`Choose`, `TakeHead`, `Emit`, `Realigned`, ...) and one for each actor.
- `HoldEncoderReclaimed` and `GenerationsKeptApart` from `IControl`.  Neither property is
  inductive: `HandOver` adds that only a stop not yet joined leaves a collector retiring,
  that `holdPipeline_` is empty while the frontend works, that a request proceeds only
  while the output is live, and that a reconnection which overtakes it leaves its
  clean-up to the next maintenance.
- `PrerollDecodable` from `PrerollInv`: the hold queues are in the order of their DTS and
  not ahead of the encoder, and once a GOP has begun the video queue starts with its
  keyframe, has no gap and ends where the encoder is.
- `SessionImplementsContract` from `ReturnInv`: an error is pending only on the way back,
  and a collector starts only where the controller expects one.  One lemma for each
  action says which step of `SessionSteps` it is, or that the controller sees none.
- `SplicesDecodable` and `TimestampsInOrder` from `VideoInv` and `TimelineInv`.  `VideoInv`
  says, for each state, where the queues fit: that the queue being sent continues the
  last packet sent, that its end is where its encoder goes on, and that what stands in for
  a missing packet is a keyframe (`InLive`, `InPreparing`, `InFilling`, `InDelayed`,
  `InReturn`).  `TimelineInv` bounds how far the last presented frame can lie ahead of the
  last DTS: by a P frame's composition offset, and not when a keyframe follows, as a GOP
  never ends in a P frame that waits for its B frame.  This is what makes the offset of a new
  epoch large enough.  The two properties are proved with holes, overflow, reconnections,
  B frames and cancelled delays of any number.
- `NothingShownEarly`, `DelayedByTarget` and `DelayIsLossless` from `Steady`, for
  `MaxHoles = 0`: encoders that leave no hole, everything else still of any number and size.
  The encoders then take turns (`Interleaved`), and each queue is a delay line: while
  filling it holds all since `fillStart` (`FillingSteadily`), while delayed exactly the last
  `Target` packets of its lane, following the one sent last (`DelayedSteadily`).  An empty
  queue never means the live packet, as something can be repeated: the hold
  audio as long as hold is shown (`HoldStandsIn`), and then the lane's own last packet,
  which each audio lane has after its first turn in the delayed branch (`FirstRound`).
  The hypothesis is needed.  A hole makes the session drop packets to realign, which is
  what `DelayIsLossless` and `DelayedByTarget` exclude.  `NoLiveLeak` fails too, by a hole as
  long as the rest of the filling: the session is delayed before any audio was sent
  from the queue, and at the memory limit the draining return
  finds an audio lane with neither a packet nor a fallback (TLC: `HoleTicks = 4`,
  `Target = 2`, `MaxPrimary = 4`).
- `LanesStayInSync`, with holes of any length in any lane, from `InStep`.  The property is
  about a step; the invariant says why: a hole is visible twice, in the cadence of what
  arrives and, a delay later, in that of what is sent, and in between it lies inside a queue.
  So what counts of a track is not what it sent last but what it sends next: unless a
  hole is in front of that, or of what its encoder delivers next, it is as old as the
  video, within the tolerance (`TrackInStep`); a packet that closes neither leaves its
  track as it was (`TrackMovesOn`).  For this, the queues have to rise (`QueuesRise`), what
  was seen has to lie before the encoders (`CadenceSeen`), and a filling has to begin with
  the same tick in every lane, or with a hole seen (`FillingInStep`).  `RealignedInStep`
  takes the five outcomes of `realign_primary_locked` one by one; in the cut it needs that
  a track which was seen up to its encoder is exactly at the video packet
  (`AudioUpToVideo`), as audio comes after the video of the same tick.  The bound
  is exact: TLC finds two ticks either way, with holes of two ticks and of three.

The other modules:

- `MultistreamQueueProofs` proves `QueueInv` of each operation and, of
  `MultistreamQueueUse`, the theorems `QueueBounded`, `BytesAccounted`,
  `LossEndsAtKeyframe`, `QueuedInOneEpoch` and `MediaBacklogBounded` with `UseInv`:
  packets of any size, any media times, and a clock that may go back.  The byte counter
  is compared with `BytesOf`, a recursive function, so its lemmas are by induction on the
  length of the queue.  The induction theorems of the library cannot be used for it, as
  they take an operator; `LeastNatural` replaces them: a set of natural numbers that is
  not empty has a least member, and the least counterexample has a predecessor.
- `MultistreamDestinationProofs`: `ControlInv` relates the worker's place, the
  socket, the flags and the stopper (`StopInterruptsTheNetwork`,
  `FinishIsFinal`); `StreamInv`, which rests on `QueueInv`, relates the status, the
  queue, what a connection has lost and what slipped into the queue of a failing worker
  (`DestinationQueueSound`, `OfflineQueueEmpty` with its exception for an Error,
  `ConnectionHasNoGap`, and, of both invariants, `NothingLeftBehind`).  `StepsKeepContract`: the safety half of the refinement,
  each step a step of the contract or a stutter.
- `HoldAudioTapProofs`: `RingInv` says that what each side knows of the other is on
  the safe side, that a slot is lent for writing only outside and for reading only
  inside what is queued, and that what is queued is whole.  With `SlotsDiffer`
  (numbers less than a capacity apart have different slots) it gives `RingSafety`
  and the refinement `RingImplementsChannel`, for any producer and consumer.
  `TapUsesRing` shows that every step of `HoldAudioTap` is a step of the ring, which
  carries both over to it: `TapSafety`, `TapImplementsChannel`.
  `CursorInv` is about the timestamps: the blocks in the ring are in the order of their
  timestamps and behind the last one copied, but for the block that is copied in parts,
  which is at the front and whose next frame is the one the cursor expects; and the
  alignment still owed says where the next frame belongs.  `BlocksPlayedOnce` and
  `PhaseNeverDrifts` follow, for timestamps that step in any way.
- `DelayControllerProofs`: `ControllerInv` says what a start in progress relies on:
  the delay is still requested, no rearm is pending, and its hub is the controller's
  and fits the settings (`StartReliesOn`); that sessions refer to no other hub
  (`HubsAgree`); and that what is not attached is live.  None of the three properties
  is inductive without it.  `SessionOperations`, `SessionStarts` and `SessionPackets`
  reduce every step of a session to "no delay begins".  `SceneRenderedOnce`,
  `SettingsApplied`, `OffLeavesNoDelay`.

- `HoldEncodingProofs`: `NothingDeliveredLate` from `HoldInv`: a session subscribes to no
  encoding but its own until it has unsubscribed, and the frontend's request says which
  of its steps still owes an `unsubscribe`.
- `MultistreamControllerProofs`: `TransportInv` says that both maps together fit the slots
  (`Room`), that an id has a worker or a remembered status, not both (`Statuses`), and
  that the watchdog ends only for a destructor that has retired everything (`Watched`).
  It gives
  `TransportIsSound`, and with the lemmas on each method `ReleasesFinishedOnly`.  What `collect_finished` remembers is a recursive function
  over the finished ids, so its lemma is an induction on their number.  `DrivesTransport`:
  every step of the controller is a step of the transport, which carries these over to it.
  `HeadersAgree` needs in addition that the headers kept for the next start are those of
  the present collector or none (`HeadersKept`), and that a worker that has finished
  stays so: what `poll` saw finished is still finished when it gives the collector up.
  `NobodyLeftStreaming` is inductive given `TransportInv`: `ReachableStays` takes the steps of
  the transport, `StopReaches` the removal of a target, `CreatedReachable` the new workers.

- `PacketDelayProofs`: `BufferIsSound` from `SoundInv`: every packet pushed has a number of
  its own, each queue holds packets of its stream in the order of their numbers (`Numbered`),
  the count is that of the queues and of what waits to be handed out (`Held`), and the
  keyframe chosen for a lane is the newest of its queue (`Kept`).  The last makes the
  property inductive: what `prune_locked` keeps from, and what a drain stops at, is then never
  behind the chosen keyframe.  The model's sums and drains are folds of the community
  modules; a fold over a finite set exists (`FoldExists`) and unfolds, by induction on the
  set with `LeastNatural`.  `CommitSound` needs that packets can be sorted at all
  (`SortedExists`) and that a set of packets from the queues is no larger than they are
  together (`PacketsCounted`).
  `EmittedInOrder` from `OrderInv`, for any streams, delays, encoders, reorder window and
  limits.  What a stream has sent bounds what any lane still holds or has shown of it
  (`Top`): its DTS increase, and a keyframe never directly follows the frame that is
  presented late (`NoKeyAfterTheFirst`).  `Arranged` says of the object in any state that
  each queue rises to that bound and that no lane has two streams in it; `InEpoch` that the
  offsets put all that is buffered, and all that is still to come, behind the horizons of the
  output, and that every lane that is drained has an offset; `Horizons` that the horizons are
  not before anything shown.  `InEpoch` cannot hold in every state: while an activation
  fills, or a return has not begun to drain, the offsets belong to no epoch that goes on,
  and a cover puts the horizons ahead of them.  `Flowing` names the states in which the
  epoch is in use, and the commits establish it anew from `Arranged` alone
  (`ApplyCutOrdered`, `CommitOrdered`).  Inside a call the same three travel through the
  folds of the drains with the packets handed out so far (`Going`, `DrainReadyGoing`,
  `DrainPendingGoing`).

Only model-checked, and why:

- all liveness, which needs fairness;
- `Decodable` of the packet delay: which packet each one refers to, through every cut and
  every lane that is let go on without a keyframe; and `PollsSucceed`, which compares the
  DTS of all lanes with each other.

## 6. Not modelled, and why

- Of a session: attaching the callback, the snapshot, estimates of bitrate and memory,
  formats beyond their agreement.
- Of the hold encoders: the settings of a clone, the comparison of codec headers, the
  path that takes a scene instead of a hub.
- Of the hub: the private view and the audio clock, which are sequences of calls into
  libobs on one thread; the audio they carry is `HoldAudioTap`.
- The audio preflight: a walk over the graph of sources that reads flags and settings
  once and keeps nothing.  What it decides is a table over libobs' sources; a model of it
  would restate the table.
- Of the multistream controller: texts of errors, the settings file.
- Of the packet delay: overflow of timestamps and sizes, different time bases, limits
  in bytes, the limit on streams, allocation failures, metrics,
  `require_video_keyframe` off.
- Of the controller: shutdown, what the audio preflight finds and shows, loading and
  saving of settings, the snapshot.
- Of a destination: how long a retry waits, the statistics in its status, FLV
  and RTMP themselves, integer widths (`media_distance` is written so that they do
  not matter).
- Of the audio: the copying of PCM by mixer and channel, `reset()` (called while
  nothing runs), the rounding and saturation of nanoseconds, libobs' sources.
- `PreviewCapture` and the docks: Qt painting of what the controllers show; nothing
  that is sent depends on it.
- Encoder layouts and registration, which call libobs and have no protocol of their own;
  vendored code.
