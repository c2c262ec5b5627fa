----------------------- MODULE MultistreamDestination ----------------------
(***************************************************************************)
(* One destination of src/src/multistream-transport.cpp (class             *)
(* Destination): a worker thread that connects, sends what its queue holds *)
(* and reconnects, and the three threads that act on it from outside:      *)
(*   - the one that submits packets                          (Submit),     *)
(*   - the transport's watchdog, check_deadline              (Watch...),   *)
(*   - the one that stops the destination, request_stop      (Stop...).    *)
(* stop_, restart_, finished_ and deadlineUsec_ are atomics that are read  *)
(* and written outside mutex_; a step here is what one thread does between *)
(* two points at which another can be seen to act.  The three threads from *)
(* outside exclude each other by the mutex of the transport (Impl::mutex_);*)
(* they do not exclude the worker.                                         *)
(*                                                                         *)
(* Time is relative: the clock always reads 0, deadline and watched count  *)
(* the ticks still to come, and a tick moves the arrival times of queued   *)
(* packets into the past.  A packet's pts is not kept; network, muxer and  *)
(* librtmp are one peer that may answer, fail or hang until the socket is  *)
(* shut down.  How long a retry waits (backoffSeconds) is left out.        *)
(***************************************************************************)
EXTENDS MultistreamQueue

CONSTANTS
  ConnectTimeout, WriteTimeout,   \* ConnectTimeoutUsec, WriteTimeoutUsec
  MaxSubmits                      \* bound: packets that are submitted

ASSUME DestinationAssumption ==
  {ConnectTimeout, WriteTimeout} \subseteq Nat \ {0} /\ MaxSubmits \in Nat

VARIABLES
  worker,     \* where the worker is
  status,     \* status_.state
  stop, restart, finished,        \* the atomic flags
  deadline,   \* deadlineUsec_, NoDeadline when 0
  socket,     \* interruptSocket_: "none", "open" or "shut" down
  stopper,    \* how far request_stop is
  watchdog, watched,              \* where check_deadline is, and the deadline it read
  submitted, frameTime,           \* the producer: packets so far, dts of its last frame
  began, lost,                    \* history of a connection: it has sent a packet; it misses one
  missed,     \* history: a wake-up came while the worker was falling asleep
  slipped     \* history: packets queued after a failing worker dropped its queue

signals == <<stop, restart, finished>>
outside == <<stopper, watchdog, watched>>
producer == <<submitted, frameTime>>
history == <<began, lost, missed, slipped>>
vars == <<queueVars, worker, status, signals, deadline, socket, outside, producer, history>>

Now == 0
NoDeadline == -1
Offline == {"Connecting", "Reconnecting", "Stopped", "Error"}

Interrupted == stop \/ restart \/ deadline = 0

\* interrupt_socket; notify_all, which only a thread that waits already hears.
Shut(s) == IF s = "open" THEN "shut" ELSE s
Notified(w) == IF w = "parked" THEN "test" ELSE IF w = "backoff" THEN "begin" ELSE w

\* The worker owns mutex_ from evaluating the condition of a wait to waiting.
MutexFree == worker \notin {"parking", "backoffParking"}

----------------------------------------------------------------------------
(* run(), the worker.                                                      *)

\* The head of the loop, and connect_network up to its first blocking call.
Begin ==
  /\ worker = "begin"
  /\ IF stop
     THEN worker' = "final" /\ UNCHANGED <<restart, status, deadline>>
     ELSE /\ worker' = "resolving"
          /\ restart' = FALSE
          /\ status' = "Connecting"
          /\ deadline' = ConnectTimeout
  /\ UNCHANGED <<queueVars, stop, finished, socket, outside, producer, history>>

Goto(from, to) ==
  /\ worker = from
  /\ worker' = to
  /\ UNCHANGED <<queueVars, status, signals, deadline, socket, outside, producer, history>>

\* resolve_host and connect_address poll interrupted().
Resolve == ~Interrupted /\ Goto("resolving", "connected")
ResolveFails == Goto("resolving", "closing")
ResolveGivesUp == Interrupted /\ Goto("resolving", "closing")

\* interruptSocket_ is a duplicate of the connected socket.
Register ==
  /\ worker = "connected"
  /\ worker' = "registered"
  /\ socket' = "open"
  /\ UNCHANGED <<queueVars, status, signals, deadline, outside, producer, history>>

Handshake_NoCheck_Bug == Goto("registered", "handshake")

Handshake ==
  \/ ~Interrupted /\ Goto("registered", "handshake")
  \/ Interrupted /\ Goto("registered", "closing")

\* The blocking calls up to and including open_muxer.
HandshakeSucceeds == socket = "open" /\ Goto("handshake", "opened")
HandshakeFails == Goto("handshake", "closing")
HandshakeShut == socket = "shut" /\ Goto("handshake", "closing")

Opened ==
  \/ Interrupted /\ Goto("opened", "closing")
  \/ /\ ~Interrupted
     /\ worker = "opened"
     /\ worker' = "accepting"
     /\ deadline' = NoDeadline
     /\ UNCHANGED <<queueVars, status, signals, socket, outside, producer, history>>

\* Nothing from before the connection is sent on it. What is thrown while the status gets
\* its text, here and in Sent and Retry, finds the rest done.
Accept ==
  /\ worker = "accepting"
  /\ worker' \in {"test", "throwing"}
  /\ Reset
  /\ status' = "WaitingForKeyframe"
  /\ began' = FALSE /\ lost' = TRUE
  /\ UNCHANGED <<signals, deadline, socket, outside, producer, missed, slipped>>

\* The condition of the wait and what follows it, under mutex_.
Test ==
  \/ Interrupted /\ Goto("test", "closing")
  \/ ~Interrupted /\ packets = <<>> /\ Goto("test", "parking")
  \/ /\ ~Interrupted /\ packets # <<>>
     /\ worker = "test"
     /\ Pop(Now)
     /\ IF PopSucceeds(Now)
        THEN worker' = "popped" /\ began' = TRUE /\ UNCHANGED <<restart, lost>>
        ELSE worker' = "closing" /\ restart' = TRUE /\ lost' = TRUE /\ UNCHANGED began
     /\ UNCHANGED <<status, stop, finished, deadline, socket, outside, producer, missed, slipped>>

\* The mutex is released and the worker sleeps, in one step.
Park == Goto("parking", "parked")

Send_NoDeadline_Bug ==
  /\ worker = "popped"
  /\ worker' = IF stop \/ restart THEN "closing" ELSE "sending"
  /\ UNCHANGED <<queueVars, status, signals, deadline, socket, outside, producer, history>>

\* send_packet: the write is bounded in time; write_flv checks interrupted().
Send ==
  /\ worker = "popped"
  /\ deadline' = WriteTimeout
  /\ worker' = IF stop \/ restart THEN "closing" ELSE "sending"
  /\ UNCHANGED <<queueVars, status, signals, socket, outside, producer, history>>

SendFails == Goto("sending", "closing")
SendShut == socket = "shut" /\ Goto("sending", "closing")

SendSucceeds ==
  /\ worker = "sending" /\ socket = "open"
  /\ worker' = IF Interrupted THEN "closing" ELSE "sent"
  /\ deadline' = NoDeadline
  /\ UNCHANGED <<queueVars, status, signals, socket, outside, producer, history>>

Sent ==
  /\ worker = "sent"
  /\ worker' \in {"test", "throwing"}
  /\ status' = "Streaming"
  /\ UNCHANGED <<queueVars, signals, deadline, socket, outside, producer, history>>

\* close_connection
Close ==
  /\ worker \in {"closing", "final", "throwing"}
  /\ worker' = [closing |-> "retry", final |-> "stopped", throwing |-> "thrown"][worker]
  /\ socket' = "none"
  /\ deadline' = NoDeadline
  /\ UNCHANGED <<queueVars, status, signals, outside, producer, history>>

\* After a connection that ended: what is queued is dropped.
Retry ==
  /\ worker = "retry"
  /\ Reset
  /\ IF stop
     THEN worker' = "final" /\ UNCHANGED status
     ELSE worker' \in {"backoffParking", "throwing"} /\ status' = "Reconnecting"
  /\ UNCHANGED <<signals, deadline, socket, outside, producer, history>>

ParkBackoff == Goto("backoffParking", "backoff")
BackoffEnds == Goto("backoff", "begin")

Finish ==
  /\ worker = "stopped"
  /\ worker' = "done"
  /\ status' = "Stopped"
  /\ finished' = TRUE
  /\ UNCHANGED <<queueVars, stop, restart, deadline, socket, outside, producer, history>>

\* An exception (out of memory) of connect_network, which allocates only before it has a
\* connection; write_callback catches those of a connection.
Throw == Goto("resolving", "throwing")

Thrown_KeepsQueue_Bug ==
  /\ worker = "thrown"
  /\ worker' = "failing"
  /\ UNCHANGED <<queueVars, status, signals, deadline, socket, outside, producer, history>>

Thrown ==
  /\ worker = "thrown"
  /\ worker' = "failing"
  /\ Reset
  /\ UNCHANGED <<status, signals, deadline, socket, outside, producer, history>>

Failing_NoCleanup_Bug ==
  /\ worker = "throwing"
  /\ worker' = "done"
  /\ status' = "Error"
  /\ finished' = TRUE
  /\ UNCHANGED <<queueVars, stop, restart, deadline, socket, outside, producer, history>>

Failing ==
  /\ worker = "failing"
  /\ worker' = "done"
  /\ status' = "Error"
  /\ finished' = TRUE
  /\ UNCHANGED <<queueVars, stop, restart, deadline, socket, outside, producer, history>>

\* What the worker does by itself, and what the peer decides.
WorkerStep ==
  \/ Begin \/ ResolveGivesUp \/ Register \/ Handshake \/ HandshakeShut \/ Opened \/ Accept
  \/ Test \/ Park \/ Send \/ SendShut \/ Sent \/ Close \/ Retry \/ ParkBackoff \/ BackoffEnds
  \/ Finish \/ Thrown \/ Failing

PeerStep ==
  Resolve \/ ResolveFails \/ HandshakeSucceeds \/ HandshakeFails \/ SendSucceeds \/ SendFails

----------------------------------------------------------------------------
(* The other threads.                                                      *)

\* The stream: frames one tick apart, audio that may be older than the frame.
NextPacket ==
  {[size |-> 2, video |-> TRUE, key |-> k, dts |-> frameTime + 1] : k \in BOOLEAN}
    \cup {[size |-> 1, video |-> FALSE, key |-> FALSE, dts |-> d] : d \in {frameTime - 1, frameTime}}

SubmitRefused_NoState_Bug == stop \/ restart

SubmitRefused == stop \/ restart \/ status \in Offline

\* submit.  What it does not queue is lost to the connection, unless it lies
\* before the epoch.
Submit(p) ==
  /\ submitted < MaxSubmits /\ MutexFree /\ stopper = "none" /\ watchdog = "idle"
  /\ submitted' = submitted + 1
  /\ frameTime' = IF p.video THEN p.dts ELSE frameTime
  /\ IF SubmitRefused
     THEN lost' = TRUE /\ UNCHANGED <<queueVars, worker, status, restart, slipped>>
     ELSE LET result == PushResult(p, Now)
          IN  /\ Push(p, Now)
              /\ worker' = Notified(worker)
              /\ lost' = IF result = "Accepted" THEN lost /\ (began \/ ~waitingForKeyframe)
                         ELSE lost \/ result # "BeforeEpoch"
              /\ slipped' = IF result = "Accepted" /\ worker = "failing" THEN slipped + 1 ELSE slipped
              /\ IF result = "Overflow"
                 THEN restart' = TRUE /\ status' = "Reconnecting"
                 ELSE UNCHANGED <<restart, status>>
  /\ UNCHANGED <<stop, finished, deadline, socket, outside, began, missed>>

SubmitThrows_Silent_Bug ==
  /\ submitted < MaxSubmits /\ MutexFree /\ stopper = "none" /\ watchdog = "idle"
  /\ ~SubmitRefused /\ \E p \in NextPacket : PushResult(p, Now) = "Accepted"
  /\ submitted' = submitted + 1
  /\ Reset
  /\ restart' = TRUE
  /\ status' = "Reconnecting"
  /\ lost' = TRUE
  /\ UNCHANGED <<worker, stop, finished, deadline, socket, outside, frameTime, began, missed, slipped>>

\* submit when the queue cannot allocate.
SubmitThrows ==
  /\ submitted < MaxSubmits /\ MutexFree /\ stopper = "none" /\ watchdog = "idle"
  /\ ~SubmitRefused /\ \E p \in NextPacket : PushResult(p, Now) = "Accepted"
  /\ submitted' = submitted + 1
  /\ Reset
  /\ restart' = TRUE
  /\ status' = "Reconnecting"
  /\ worker' = Notified(worker)
  /\ lost' = TRUE
  /\ UNCHANGED <<stop, finished, deadline, socket, outside, frameTime, began, missed, slipped>>

\* request_stop, which takes no lock but interrupt_socket's; the destructor
\* repeats it.
StopRequested ==
  /\ stopper \in {"none", "done"} /\ watchdog = "idle"
  /\ stopper' = "interrupting"
  /\ stop' = TRUE
  /\ UNCHANGED <<queueVars, worker, status, restart, finished, deadline, socket, watchdog,
                 watched, producer, history>>

StopInterrupts ==
  /\ stopper = "interrupting"
  /\ stopper' = "notifying"
  /\ socket' = Shut(socket)
  /\ UNCHANGED <<queueVars, worker, status, signals, deadline, watchdog, watched, producer,
                 history>>

StopNotifies_Silent_Bug ==
  /\ stopper = "notifying"
  /\ stopper' = "done"
  /\ missed' = (missed \/ worker = "parking")
  /\ UNCHANGED <<queueVars, worker, status, signals, deadline, socket, watchdog, watched, producer,
                 began, lost, slipped>>

StopNotifies ==
  /\ stopper = "notifying"
  /\ stopper' = "done"
  /\ worker' = Notified(worker)
  /\ missed' = (missed \/ worker = "parking")
  /\ UNCHANGED <<queueVars, status, signals, deadline, socket, watchdog, watched, producer,
                 began, lost, slipped>>

\* check_deadline: the deadline is read, compared with the clock, acted upon.
WatchReads ==
  /\ watchdog = "idle" /\ stopper \in {"none", "done"} /\ deadline # NoDeadline
  /\ watchdog' = "comparing"
  /\ watched' = deadline
  /\ UNCHANGED <<queueVars, worker, status, signals, deadline, socket, stopper, producer, history>>

WatchCompares ==
  /\ watchdog = "comparing"
  /\ IF watched = 0
     THEN watchdog' = "interrupting" /\ restart' = TRUE
     ELSE watchdog' = "idle" /\ UNCHANGED restart
  /\ watched' = NoDeadline
  /\ missed' = (missed \/ (watched = 0 /\ worker \in {"parking", "parked"}))
  /\ UNCHANGED <<queueVars, worker, status, stop, finished, deadline, socket, stopper, producer,
                 began, lost, slipped>>

WatchInterrupts ==
  /\ watchdog = "interrupting"
  /\ watchdog' = "idle"
  /\ socket' = Shut(socket)
  /\ UNCHANGED <<queueVars, worker, status, signals, deadline, stopper, watched, producer, history>>

Sooner(timer) == IF timer > 0 THEN timer - 1 ELSE timer

Tick ==
  /\ deadline' = Sooner(deadline)
  /\ watched' = Sooner(watched)
  /\ packets' = [i \in 1..Len(packets) |->
       [packets[i] EXCEPT !.enqueued = Max({@ - 1, -(MaxDuration + 1)})]]
  /\ UNCHANGED <<bytes, waitingForKeyframe, epoch, worker, status, signals, socket, stopper,
                 watchdog, producer, history>>

StopStep == StopInterrupts \/ StopNotifies
WatchStep == WatchReads \/ WatchCompares \/ WatchInterrupts

----------------------------------------------------------------------------
Init ==
  /\ QueueInit
  /\ worker = "begin" /\ status = "Connecting"
  /\ stop = FALSE /\ restart = FALSE /\ finished = FALSE
  /\ deadline = NoDeadline /\ socket = "none"
  /\ stopper = "none" /\ watchdog = "idle" /\ watched = NoDeadline
  /\ submitted = 0 /\ frameTime = 0
  /\ began = FALSE /\ lost = TRUE /\ missed = FALSE /\ slipped = 0

Next ==
  \/ WorkerStep \/ PeerStep \/ Throw
  \/ \E p \in NextPacket : Submit(p)
  \/ SubmitThrows
  \/ StopRequested \/ StopStep
  \/ WatchStep
  \/ Tick

Spec == Init /\ [][Next]_vars

\* The threads run and time passes; what the peer does is up to the peer, and
\* nobody has to submit or stop.
Fairness == WF_vars(WorkerStep) /\ WF_vars(StopStep) /\ WF_vars(WatchStep) /\ WF_vars(Tick)

FairSpec == Spec /\ Fairness

----------------------------------------------------------------------------
(* Properties.                                                             *)

\* The places of the worker.
WorkerSteps ==
  {"begin", "resolving", "connected", "registered", "handshake", "opened", "accepting", "test",
   "parking", "parked", "popped", "sending", "sent", "closing", "retry", "backoffParking",
   "backoff", "final", "stopped", "throwing", "thrown", "failing", "done"}

\* Once request_stop has interrupted the socket, the worker is never blocked on
\* the network again: however the registration of the socket and the stop
\* interleave, one of them sees the other.
StopReachesTheSocket ==
  (stopper \in {"notifying", "done"} /\ worker \in {"handshake", "sending"}) => socket = "shut"

\* finished_ is published after the connection is cleaned up, with a status
\* that no late submit overwrites.
FinishedIsFinal ==
  finished => socket = "none" /\ deadline = NoDeadline /\ status \in {"Stopped", "Error"}

\* A destination that is not connected holds no packets, with one exception: a worker that
\* fails by an exception drops its queue before its status says Error, and what is submitted
\* between the two stays until the destination is destroyed. Nothing else stays even then.
NothingQueuedOffline ==
  status \in Offline => packets = <<>> \/ (status = "Error" /\ Len(packets) <= slipped)

\* Whatever thread is late, and however a connection ends: what ended stays ended, and
\* nothing waits in the queue of a destination that is not connected, but for the packets
\* that slipped into the queue of a worker that was failing.
LeavesNothingBehind == FinishedIsFinal /\ NothingQueuedOffline

\* What a connection sends starts with a keyframe, and from there on no packet
\* of its epoch is missing: a slow or stalled destination reconnects instead of
\* going on with a gap.
NoGapInAConnection ==
  [][(worker = "test" /\ worker' = "popped") =>
       /\ ~lost
       /\ began \/ (Head(packets).video /\ Head(packets).key)]_vars

\* A peer that hangs is left: the write and connect deadlines bound every
\* blocking call.
PeerCannotHang ==
  \A w \in {"resolving", "handshake", "sending"} : (worker = w) ~> (worker # w)

\* A restart that was asked for takes place, unless the watchdog asks for it
\* after the worker tested the condition.
RestartHappensUnlessMissed == restart ~> (~restart \/ finished \/ missed)

\* What the transport knows of a worker: whether it sleeps, and whether it ended.
Phase ==
  IF worker \in {"parking", "parked", "done"} THEN worker ELSE "busy"

Worker == INSTANCE DestinationContract
          WITH phase <- Phase, pending <- stopper \in {"interrupting", "notifying"}

\* The worker keeps the contract: once asked to stop while awake it finishes, from
\* any step of any connection, with a peer that hangs.
KeepsContract == Worker!Contract

\* multistream-transport.cpp:714 says that a retired worker's finish releases
\* its keys promptly; at the least, a stopped worker finishes.
StopFinishes == stop ~> finished

============================================================================
