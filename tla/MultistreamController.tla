----------------------- MODULE MultistreamController -----------------------
(***************************************************************************)
(* The controller of src/src/multistream-controller.cpp over the transport *)
(* it drives.  Its methods and its timer run on the Qt thread; the workers,*)
(* the watchdog and the capture callback run beside it.  A method that     *)
(* calls the transport twice is two steps: others may come between.        *)
(*                                                                         *)
(* The collector is the private OBS output that delivers the final packets *)
(* to all targets; its encoders know their headers only some time after    *)
(* they have started.  Collectors are numbered, so that the headers of an  *)
(* earlier one can be told.  Left out: what makes a target valid, errors_, *)
(* the texts shown for starts that failed, and the settings file (a save   *)
(* that fails changes nothing).                                            *)
(***************************************************************************)
EXTENDS MultistreamTransport

CONSTANT MaxCollectors          \* bound: collectors that are created

ASSUME CollectorAssumption == MaxCollectors \in Nat

VARIABLES
  targets,        \* the ids of targets_
  pending,        \* pendingStarts_
  collector,      \* the number of master_, or 0
  collectors,     \* how many there were
  description,    \* the collector whose headers description_ holds, or 0
  known,          \* the collector's encoders have headers
  late,           \* startupTimer_ is past ten seconds
  captureFailed,  \* captureFailed_
  quitting,       \* shuttingDown_
  turn,           \* the Qt thread: "idle", "check" before it looks for targets, or "batch"
  batch,          \* poll: the starts that are left; it is ready if description # 0
  headers         \* history: the collector whose headers a worker was started with

asked == <<targets, pending>>
capture == <<collector, collectors, description, known, late, captureFailed>>
thread == <<turn, batch>>
ours == <<asked, capture, thread, quitting, headers>>
all == <<vars, ours>>

\* has_targets
HasTargets == \E id \in Active : destinations[id] \notin Finished

\* What makes running(id) false: a worker that ends has a final status a moment
\* before it has finished.
MayHaveEnded(id) ==
  /\ id \notin pending
  /\ id \in Active => destinations[id] \in Finished \/ phases[destinations[id]] = "busy"

----------------------------------------------------------------------------
(* The collector.                                                          *)

\* create_master, which keeps the one there is. When it fails nothing changes. Other
\* outputs may use the encoders already.
CreateMaster ==
  \/ /\ collector # 0
     /\ UNCHANGED <<collector, collectors, known, late>>
  \/ /\ collector = 0 /\ collectors < MaxCollectors
     /\ collectors' = collectors + 1 /\ collector' = collectors'
     /\ known' \in BOOLEAN
     /\ late' = FALSE

DestroyMaster_KeepsHeaders_Bug ==
  /\ collector' = 0 /\ captureFailed' = FALSE /\ known' = FALSE
  /\ UNCHANGED <<description, collectors, late>>

\* destroy_master
DestroyMaster ==
  /\ collector' = 0 /\ description' = 0 /\ captureFailed' = FALSE /\ known' = FALSE
  /\ UNCHANGED <<collectors, late>>

\* The encoders have made their first packets.
HeadersKnown ==
  /\ collector # 0 /\ ~known
  /\ known' = TRUE
  /\ UNCHANGED <<vars, asked, thread, quitting, headers, collector, collectors, description, late,
                 captureFailed>>

\* describe_stream
Described(g) == IF known' THEN g ELSE description

\* receive: a packet that cannot be forwarded. Others go to the workers.
ReceiveFails ==
  /\ collector # 0 /\ ~captureFailed
  /\ captureFailed' = TRUE
  /\ UNCHANGED <<vars, asked, thread, quitting, headers, collector, collectors, description, known,
                 late>>

\* The ten seconds a collector has to deliver its headers are over.
StartupTimerElapses ==
  /\ collector # 0 /\ ~late
  /\ late' = TRUE
  /\ UNCHANGED <<vars, asked, thread, quitting, headers, collector, collectors, description,
                 known, captureFailed>>

----------------------------------------------------------------------------
(* Requests.                                                               *)

\* transport_->start with the headers of the collector g
Starts(id, g) ==
  /\ Start(id) \/ StartRefused(id)
  /\ headers' = IF created' = created THEN headers ELSE [headers EXCEPT ![created'] = g]

Startable(id) ==
  /\ turn = "idle" /\ ~quitting
  /\ id \in targets /\ MayHaveEnded(id)
  /\ created + Cardinality(pending) < MaxStarts
  /\ CreateMaster

\* start_target while the collector has no headers yet
StartLater(id) ==
  /\ Startable(id) /\ description = 0 /\ ~known'
  /\ pending' = pending \cup {id}
  /\ UNCHANGED <<vars, targets, description, captureFailed, thread, quitting, headers>>

\* start_target; one that is refused looks whether the collector is needed.
StartTarget(id) ==
  /\ Startable(id)
  /\ description' = IF description = 0 THEN Described(collector') ELSE description
  /\ description' # 0
  /\ Starts(id, description')
  /\ turn' = IF created' = created THEN "check" ELSE "idle"
  /\ UNCHANGED <<targets, pending, captureFailed, batch, quitting>>

\* stop_target
StopTarget(id) ==
  /\ turn = "idle"
  /\ pending' = pending \ {id}
  /\ Stop(id)
  /\ turn' = "check"
  /\ UNCHANGED <<targets, capture, batch, quitting, headers>>

\* save_target of a new target; an edit is one of a target that does not run.
SaveTarget(id) ==
  /\ turn = "idle" /\ owner = "open" /\ id \notin targets
  /\ targets' = targets \cup {id}
  /\ UNCHANGED <<vars, pending, capture, thread, quitting, headers>>

RemoveTarget_KeepsWorker_Bug(id) ==
  /\ turn = "idle" /\ id \in targets /\ MayHaveEnded(id)
  /\ targets' = targets \ {id}
  /\ UNCHANGED <<vars, pending, capture, thread, quitting, headers>>

\* remove_target
RemoveTarget(id) ==
  /\ turn = "idle" /\ id \in targets /\ MayHaveEnded(id)
  /\ targets' = targets \ {id}
  /\ Stop(id)
  /\ UNCHANGED <<pending, capture, thread, quitting, headers>>

\* stop_all, which the transport carries out without an interruption.
StopTargets ==
  /\ pending' = {}
  /\ DestroyMaster
  /\ UNCHANGED <<targets, thread, headers>>

\* A change of the profile or of the scene collection, the exit of the frontend,
\* about_to_shutdown and the destructor.
FrontendEvent ==
  /\ turn = "idle" /\ owner = "open"
  /\ StopAll("open") /\ StopTargets
  /\ quitting' \in {quitting, TRUE}

\* The controller is gone, and destroys its transport.
CloseTransport ==
  /\ turn = "idle" /\ quitting /\ collector = 0
  /\ Close
  /\ UNCHANGED ours

----------------------------------------------------------------------------
(* poll                                                                    *)

PollStops ==
  /\ turn = "idle" /\ owner = "open" /\ captureFailed
  /\ StopAll("open") /\ StopTargets
  /\ UNCHANGED quitting

Ready_NoTimeout_Bug(described) == described

\* The pending starts are answered: with headers, or after ten seconds.
Ready(described) == described \/ late

PollStarts ==
  /\ turn = "idle" /\ ~captureFailed /\ collector # 0 /\ pending # {}
  /\ Ready(known) /\ UNCHANGED known
  /\ description' = Described(collector)
  /\ pending' = {} /\ batch' = pending /\ turn' = "batch"
  /\ UNCHANGED <<vars, targets, collector, collectors, late, captureFailed, quitting, headers>>

\* One start of the batch, all against the same headers.
PollStart(id) ==
  /\ turn = "batch" /\ id \in batch
  /\ IF description # 0 /\ id \in targets THEN Starts(id, description)
     ELSE UNCHANGED <<vars, headers>>
  /\ batch' = batch \ {id}
  /\ turn' = IF batch' = {} THEN "check" ELSE "batch"
  /\ UNCHANGED <<targets, pending, capture, quitting>>

PollIdle ==
  /\ turn = "idle" /\ ~captureFailed /\ pending = {} /\ collector # 0
  /\ turn' = "check"
  /\ UNCHANGED <<vars, asked, capture, batch, quitting, headers>>

Unneeded_IgnoresTargets_Bug == pending = {}

Unneeded == pending = {} /\ ~HasTargets

\* What poll, stop_target and a refused start end with.
Check ==
  /\ turn = "check" /\ turn' = "idle"
  /\ IF collector # 0 /\ Unneeded THEN DestroyMaster ELSE UNCHANGED capture
  /\ UNCHANGED <<vars, asked, batch, quitting, headers>>

Poll == PollStops \/ PollStarts \/ PollIdle \/ (\E id \in Ids : PollStart(id)) \/ Check

----------------------------------------------------------------------------
\* The transport's other threads, and its destructor.
Beside == (Watch \/ Destructor \/ \E w \in Workers : WorkerStep(w)) /\ UNCHANGED ours

InitController ==
  /\ Init
  /\ targets \in SUBSET Ids /\ pending = {}
  /\ collector = 0 /\ collectors = 0 /\ description = 0 /\ known = FALSE
  /\ late = FALSE
  /\ captureFailed = FALSE /\ quitting = FALSE
  /\ turn = "idle" /\ batch = {}
  /\ headers = [w \in Workers |-> 0]

NextController ==
  \/ \E id \in Ids : \/ StartTarget(id) \/ StartLater(id) \/ StopTarget(id)
                     \/ SaveTarget(id) \/ RemoveTarget(id)
  \/ FrontendEvent \/ CloseTransport
  \/ Poll
  \/ HeadersKnown \/ ReceiveFails \/ StartupTimerElapses
  \/ Beside

SpecController == InitController /\ [][NextController]_all

\* Timers expire, a method of the Qt thread ends, and its event loop serves the
\* timer of poll however many requests it has; the transport is fair as before.
FairController ==
  /\ SpecController
  /\ WF_all(StartupTimerElapses) /\ WF_all(Check \/ \E id \in Ids : PollStart(id))
  /\ SF_all(PollStops) /\ SF_all(PollStarts)
  /\ WF_all(Watch /\ UNCHANGED ours) /\ WF_all(Destructor /\ UNCHANGED ours)
  /\ \A w \in Workers : /\ WF_all(Sleep(w) /\ UNCHANGED ours)
                        /\ WF_all(stops[w] /\ Finish(w) /\ UNCHANGED ours)

----------------------------------------------------------------------------
(* Properties.                                                             *)

\* A worker that runs was started with the headers of the collector whose packets
\* it gets: the collector is never replaced or given up under it.
HeadersOfCollector ==
  \A id \in Active :
    destinations[id] \notin Finished =>
      collector # 0 /\ headers[destinations[id]] = collector

\* Whatever is started, stopped, removed and answered late: a worker that has not finished
\* belongs to a target of the list, which can be stopped, or was asked to stop and is kept
\* until it has finished. None streams on for a target that was stopped or removed, and none
\* outlives the transport.
NobodyStreamsOn ==
  \A w \in (1..created) \ Finished :
    \/ \E id \in Active \cap targets : destinations[id] = w
    \/ w \in retired /\ stops[w]

\* Starts that wait for headers are answered: they begin, or fail after ten seconds,
\* or are stopped; none is left behind by the others.
PendingStartsEnd == (pending # {}) ~> (pending = {})
=============================================================================
