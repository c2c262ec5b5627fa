------------------------ MODULE MultistreamTransport ------------------------
(***************************************************************************)
(* The transport of src/src/multistream-transport.cpp (class Impl): which  *)
(* destinations are active, which are being retired, and the watchdog that *)
(* enforces deadlines and releases the workers that finished.  A worker is *)
(* an instance of DestinationContract: an assumption about it, which       *)
(* MultistreamDestination is shown to keep.  Every operation holds         *)
(* Impl::mutex_ throughout and is one step.  request_stop is one step,     *)
(* too: its two halves differ only for a worker that falls asleep in       *)
(* between, which then hears the notification.                             *)
(***************************************************************************)
EXTENDS Integers, FiniteSets

CONSTANTS
  Ids,            \* the ids of targets
  MaxActive,      \* 8 destinations
  MaxWorkers,     \* 16 workers, those being retired included
  MaxTerminal,    \* 8 remembered statuses
  MaxStarts       \* bound: workers that are created

ASSUME TransportAssumption ==
  /\ IsFiniteSet(Ids)
  /\ {MaxActive, MaxWorkers, MaxTerminal} \subseteq Nat \ {0}
  /\ MaxStarts \in Nat

VARIABLES
  destinations,   \* destinations_: a function from the active ids to workers
  retired,        \* retired_
  terminal,       \* the ids of terminalStatuses_
  created,        \* the number of workers so far
  stops, phases,  \* of each worker: stop_, and where it is
  watchdog,       \* "asleep" (no timeout), "waiting" (25 ms) or "exited"
  shuttingDown,
  owner,          \* "open", or how far ~Impl is
  joining,        \* the worker whose destructor ~Impl is in, or 0
  missed          \* history: a destructor's request_stop found a worker falling asleep

maps == <<destinations, retired, terminal, created>>
workers == <<stops, phases>>
closing == <<shuttingDown, owner, joining>>
vars == <<maps, workers, watchdog, closing, missed>>

Workers == 1..MaxStarts
Active == DOMAIN destinations
Held == {destinations[id] : id \in Active} \cup retired
Finished == {w \in Workers : phases[w] = "done"}

Without(f, ids) == [id \in DOMAIN f \ ids |-> f[id]]

\* A worker, as far as the transport can tell. It is asked to stop in one step.
Worker(w) == INSTANCE DestinationContract WITH stop <- stops[w], pending <- FALSE, phase <- phases[w]

----------------------------------------------------------------------------
(* Helpers.                                                                *)

\* What terminalStatuses_ may be once the destination id is recorded: it makes room
\* before the allocation, and that may fail.
Recorded(ids, id) ==
  LET kept == IF Cardinality(ids) >= MaxTerminal THEN {ids \ {old} : old \in ids} ELSE {ids}
  IN  kept \cup {k \cup {id} : k \in kept}

\* collect_finished
FinishedIds == {id \in Active : destinations[id] \in Finished}

\* What terminalStatuses_ may be when collect_finished has been at the given ids; the order
\* of the map is unspecified, so that any of them may be the last.
TerminalAfterCollect ==
  LET after[ids \in SUBSET FinishedIds] ==
        IF ids = {} THEN {terminal}
        ELSE UNION {UNION {Recorded(kept, id) : kept \in after[ids \ {id}]} : id \in ids}
  IN  after[FinishedIds]

RetiredAfterRelease_Any_Bug == {}

\* erase_if(retired_, finished)
RetiredAfterRelease == retired \ Finished

\* notify_all, of the thread that sleeps on wake_.
WatchdogWoken == IF watchdog = "asleep" THEN "waiting" ELSE watchdog

----------------------------------------------------------------------------
(* The operations.                                                         *)

TooMany_ActiveOnly_Bug(active, retiring) == Cardinality(active) >= MaxActive

TooMany(active, retiring) ==
  \/ Cardinality(active) >= MaxActive
  \/ Cardinality(active) + Cardinality(retiring) >= MaxWorkers

\* start of a destination that is active already, or one too many; what finished
\* is collected all the same.
StartRefused(id) ==
  /\ owner = "open" /\ created < MaxStarts
  /\ LET active == Active \ FinishedIds
     IN  id \in active \/ TooMany(active, RetiredAfterRelease)
  /\ destinations' = Without(destinations, FinishedIds)
  /\ retired' = RetiredAfterRelease
  /\ terminal' \in TerminalAfterCollect
  /\ UNCHANGED <<created, workers, watchdog, closing, missed>>

NoteStart_Silent_Bug(id, collected) ==
  terminal' = collected \ {id} /\ UNCHANGED watchdog

NoteStart_KeepsStatus_Bug(id, collected) ==
  terminal' = collected /\ watchdog' = WatchdogWoken

\* A worker that runs replaces the status of the one before it.
NoteStart(id, collected) ==
  terminal' = collected \ {id} /\ watchdog' = WatchdogWoken

\* The entry of a worker that cannot be created is removed again.
StartFails(id) == destinations' = Without(destinations, FinishedIds)

\* start
Start(id) ==
  /\ owner = "open" /\ created < MaxStarts
  /\ LET active == Active \ FinishedIds
     IN  id \notin active /\ ~TooMany(active, RetiredAfterRelease)
  /\ retired' = RetiredAfterRelease
  /\ \E collected \in TerminalAfterCollect :
       \/ /\ created' = created + 1
          /\ destinations' = [i \in (Active \ FinishedIds) \cup {id} |->
                                IF i = id THEN created' ELSE destinations[i]]
          /\ NoteStart(id, collected)
       \/ /\ StartFails(id)
          /\ terminal' = collected
          /\ UNCHANGED <<created, watchdog>>
  /\ UNCHANGED <<workers, closing, missed>>

\* request_stop of every worker in ws.
StopWorkers(ws) ==
  /\ stops' = [w \in Workers |-> stops[w] \/ w \in ws]
  /\ phases' = [w \in Workers |-> IF w \in ws THEN Worker(w)!Woken(phases[w]) ELSE phases[w]]

Stop_Unasked_Bug(id) ==
  /\ owner = "open"
  /\ terminal' = terminal \ {id}
  /\ \/ id \notin Active /\ UNCHANGED <<destinations, retired>>
     \/ /\ id \in Active
        /\ retired' = (retired \cup {destinations[id]}) \ Finished
        /\ destinations' = Without(destinations, {id})
  /\ UNCHANGED <<created, workers, watchdog, closing, missed>>

\* stop
Stop(id) ==
  /\ owner = "open"
  /\ terminal' = terminal \ {id}
  /\ \/ id \notin Active /\ UNCHANGED <<destinations, retired, workers>>
     \/ /\ id \in Active
        /\ StopWorkers({destinations[id]})
        /\ retired' = (retired \cup {destinations[id]}) \ Finished
        /\ destinations' = Without(destinations, {id})
  /\ UNCHANGED <<created, watchdog, closing, missed>>

\* stop_all
StopAll(next) ==
  /\ StopWorkers({destinations[id] : id \in Active})
  /\ retired' = Held \ Finished
  /\ destinations' = <<>>
  /\ terminal' = {}
  /\ owner' = next
  /\ UNCHANGED <<created, watchdog, shuttingDown, joining, missed>>

StopEverything == owner = "open" /\ StopAll("open")

\* ~Impl: stop_all, the end of the watchdog, and retired_.clear(), which runs
\* the destructors: request_stop again, and join.
Close == owner = "open" /\ StopAll("stopped")

Shutdown_Silent_Bug ==
  /\ owner = "stopped"
  /\ shuttingDown' = TRUE
  /\ owner' = "joining"
  /\ UNCHANGED <<maps, workers, watchdog, joining, missed>>

Shutdown ==
  /\ owner = "stopped"
  /\ shuttingDown' = TRUE
  /\ watchdog' = WatchdogWoken
  /\ owner' = "joining"
  /\ UNCHANGED <<maps, workers, joining, missed>>

JoinWatchdog ==
  /\ owner = "joining" /\ watchdog = "exited"
  /\ owner' = "clearing"
  /\ UNCHANGED <<maps, workers, watchdog, shuttingDown, joining, missed>>

DestroyWorker ==
  /\ owner = "clearing" /\ joining = 0
  /\ joining' \in retired
  /\ StopWorkers({joining'})
  /\ missed' = (missed \/ phases[joining'] = "parking")
  /\ UNCHANGED <<maps, watchdog, shuttingDown, owner>>

JoinWorker ==
  /\ owner = "clearing" /\ joining \in Finished
  /\ retired' = retired \ {joining}
  /\ joining' = 0
  /\ UNCHANGED <<destinations, terminal, created, workers, watchdog, shuttingDown, owner, missed>>

Closed ==
  /\ owner = "clearing" /\ retired = {}
  /\ owner' = "gone"
  /\ UNCHANGED <<maps, workers, watchdog, shuttingDown, joining, missed>>

Destructor == Shutdown \/ JoinWatchdog \/ DestroyWorker \/ JoinWorker \/ Closed

Watch_KeepsRetired_Bug ==
  /\ watchdog = "waiting"
  /\ destinations' = Without(destinations, FinishedIds)
  /\ terminal' \in TerminalAfterCollect
  /\ watchdog' = IF shuttingDown THEN "exited"
                 ELSE IF destinations' = <<>> /\ retired = {} THEN "asleep"
                 ELSE "waiting"
  /\ UNCHANGED <<retired, created, workers, closing, missed>>

\* The watchdog after a wait: it releases what finished and waits again.  The
\* deadlines it checks are MultistreamDestination's.
Watch ==
  /\ watchdog = "waiting"
  /\ destinations' = Without(destinations, FinishedIds)
  /\ retired' = RetiredAfterRelease
  /\ terminal' \in TerminalAfterCollect
  /\ watchdog' = IF shuttingDown THEN "exited"
                 ELSE IF destinations' = <<>> /\ retired' = {} THEN "asleep"
                 ELSE "waiting"
  /\ UNCHANGED <<created, workers, closing, missed>>

----------------------------------------------------------------------------
(* The workers do what the contract lets them.                             *)

Moves(w) ==
  /\ w <= created
  /\ \E place \in Worker(w)!Phases : phases' = [phases EXCEPT ![w] = place]
  /\ UNCHANGED <<maps, stops, watchdog, closing, missed>>

FallAsleep(w) == Moves(w) /\ Worker(w)!FallAsleep
Sleep(w) == Moves(w) /\ Worker(w)!Sleep
Wake(w) == Moves(w) /\ Worker(w)!Wake
Finish(w) == Moves(w) /\ Worker(w)!Finish

WorkerStep(w) == FallAsleep(w) \/ Sleep(w) \/ Wake(w) \/ Finish(w)

----------------------------------------------------------------------------
Init ==
  /\ destinations = <<>> /\ retired = {} /\ terminal = {} /\ created = 0
  /\ stops = [w \in Workers |-> FALSE] /\ phases = [w \in Workers |-> "busy"]
  /\ watchdog = "asleep" /\ shuttingDown = FALSE /\ owner = "open" /\ joining = 0
  /\ missed = FALSE

Next ==
  \/ \E id \in Ids : StartRefused(id) \/ Start(id) \/ Stop(id)
  \/ StopEverything \/ Close \/ Destructor
  \/ Watch
  \/ \E w \in Workers : WorkerStep(w)

Spec == Init /\ [][Next]_vars

\* The watchdog's waits end, a destructor goes on, and workers keep their
\* contract.  Nobody has to start, stop or destroy anything.
Fairness ==
  /\ WF_vars(Watch) /\ WF_vars(Destructor)
  /\ \A w \in Workers : WF_vars(Sleep(w)) /\ WF_vars(stops[w] /\ Finish(w))

FairSpec == Spec /\ Fairness

----------------------------------------------------------------------------
(* Properties.                                                             *)

\* A stop never allocates: whatever is started, stopped and slow to finish,
\* the workers fit the sixteen slots retired_ has reserved.
RetirementSlots == Cardinality(Active) <= MaxActive /\ Cardinality(Held) <= MaxWorkers

\* snapshot reports each target once, and a bounded number of ended ones.
OneStatusPerTarget == terminal \cap Active = {} /\ Cardinality(terminal) <= MaxTerminal

\* While there is a worker, the watchdog is there to enforce its deadlines:
\* wake-ups of the watchdog are never lost.
WorkersAreWatched == Held # {} => watchdog = "waiting" \/ owner \in {"joining", "clearing"}

\* Whatever is started, stopped and slow to finish: the workers fit their slots, each
\* target has one status, and every worker is watched.
TransportSound == RetirementSlots /\ OneStatusPerTarget /\ WorkersAreWatched

\* start, stop and the watchdog hold the mutex that every packet needs: what
\* they release has finished, so that its join does not wait.
ReleaseNeverWaits ==
  [][(owner \in {"open", "stopped", "joining"}) => (Held \ Held') \subseteq Finished]_vars

\* The destructor returns unless the second notification of a worker is lost
\* like the first one.
DestructionEnds == (owner = "stopped") ~> (owner = "gone" \/ missed)

\* What was stopped, or ended by itself, is released, unless it fell asleep as it
\* was stopped or the destructor does not get to it: as starts are bounded, a worker
\* that stays would be left for ever.
Unreleased == {w \in retired \cup (Finished \cap Held) : phases[w] # "parked"}

WorkersAreReleased == []<>(Unreleased = {} \/ missed)

============================================================================
