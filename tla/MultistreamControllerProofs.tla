--------------------- MODULE MultistreamControllerProofs --------------------
(***************************************************************************)
(* The safety of the transport, as the multistream controller drives it,   *)
(* and of the controller: for any targets, limits, workers and collectors. *)
(***************************************************************************)
EXTENDS MultistreamController, FiniteSetTheorems, WellFoundedInduction, TLAPS

----------------------------------------------------------------------------
(* What collect_finished leaves of the remembered statuses.                *)

\* A set of naturals that is not empty has a least element.
LEMMA LeastNatural ==
  ASSUME NEW T \in SUBSET Nat, T # {}
  PROVE  \E n \in T : \A m \in T : n <= m
<1> DEFINE R == {pair \in Nat \X Nat : pair[1] < pair[2]}
<1>1. R = OpToRel(<, Nat)
  BY DEF OpToRel
<1>2. IsWellFoundedOn(R, Nat)
  BY <1>1, NatLessThanWellFounded
<1>3. PICK n \in T : \A m \in T : ~(<<m, n>> \in R)
  <2> HIDE DEF R
  <2> QED BY <1>2, WFMin
<1>4. ASSUME NEW m \in T PROVE n <= m
  <2>1. n \in Nat /\ m \in Nat
    OBVIOUS
  <2>2. ~(<<m, n>> \in R)
    BY <1>3
  <2> QED BY <2>1, <2>2
<1> QED BY <1>4

\* Statuses of the ids that are allowed, and no more than there is room for.
Fits(ids, allowed) == ids \subseteq allowed /\ IsFiniteSet(ids) /\ Cardinality(ids) <= MaxTerminal

\* One recording makes room first.
LEMMA RecordedFits ==
  ASSUME NEW ids, NEW allowed, NEW id, Fits(ids, allowed), NEW result \in Recorded(ids, id)
  PROVE  Fits(result, allowed \cup {id})
<1> DEFINE kept == IF Cardinality(ids) >= MaxTerminal THEN {ids \ {old} : old \in ids} ELSE {ids}
<1>1. Cardinality(ids) \in Nat /\ MaxTerminal \in Nat \ {0}
  BY FS_CardinalityType, TransportAssumption DEF Fits
<1>2. PICK k \in kept : result = k \/ result = k \cup {id}
  BY DEF Recorded
<1>3. k \subseteq allowed /\ IsFiniteSet(k) /\ Cardinality(k) \in Nat /\ Cardinality(k) < MaxTerminal
  <2>1. CASE Cardinality(ids) >= MaxTerminal
    <3>1. PICK old \in ids : k = ids \ {old}
      BY <1>2, <2>1
    <3>2. IsFiniteSet(k) /\ Cardinality(k) = Cardinality(ids) - 1
      BY <3>1, FS_RemoveElement DEF Fits
    <3>3. k \subseteq allowed
      BY <3>1 DEF Fits
    <3>4. Cardinality(k) \in Nat
      BY <3>2, FS_CardinalityType
    <3> QED BY <1>1, <2>1, <3>2, <3>3, <3>4 DEF Fits
  <2>2. CASE ~(Cardinality(ids) >= MaxTerminal)
    BY <1>1, <1>2, <2>2 DEF Fits
  <2> QED BY <2>1, <2>2
<1>4. IsFiniteSet(k \cup {id}) /\ Cardinality(k \cup {id}) <= Cardinality(k) + 1
      /\ Cardinality(k \cup {id}) \in Nat
  <2>1. /\ IsFiniteSet(k \cup {id})
        /\ Cardinality(k \cup {id}) = IF id \in k THEN Cardinality(k) ELSE Cardinality(k) + 1
    BY <1>3, FS_AddElement
  <2> QED BY <1>3, <2>1
<1> QED BY <1>1, <1>2, <1>3, <1>4 DEF Fits

\* What collect_finished yields for ids, when f says what it yields for fewer.
Collects(f, ids) ==
  IF ids = {} THEN {terminal}
  ELSE UNION {UNION {Recorded(kept, id) : kept \in f[ids \ {id}]} : id \in ids}

\* It asks f for nothing else.
LEMMA CollectsFewer ==
  ASSUME NEW f, NEW g, NEW ids, \A id \in ids : f[ids \ {id}] = g[ids \ {id}]
  PROVE  Collects(f, ids) = Collects(g, ids)
<1>1. {UNION {Recorded(kept, id) : kept \in f[ids \ {id}]} : id \in ids}
        = {UNION {Recorded(kept, id) : kept \in g[ids \ {id}]} : id \in ids}
  OBVIOUS
<1> QED BY <1>1 DEF Collects

\* The recursion of TerminalAfterCollect is well-founded.
LEMMA CollectsExists ==
  ASSUME NEW F, IsFiniteSet(F)
  PROVE  \E f : f = [ids \in SUBSET F |-> Collects(f, ids)]
<1> DEFINE Possible(n) ==
      \E f : \A ids \in SUBSET F : Cardinality(ids) <= n => f[ids] = Collects(f, ids)
<1>1. \A ids \in SUBSET F : IsFiniteSet(ids) /\ Cardinality(ids) \in Nat
                            /\ Cardinality(ids) <= Cardinality(F)
  BY FS_Subset, FS_CardinalityType
<1>2. Possible(0)
  <2> DEFINE f == [ids \in SUBSET F |-> {terminal}]
  <2>1. ASSUME NEW ids \in SUBSET F, Cardinality(ids) <= 0 PROVE f[ids] = Collects(f, ids)
    <3>1. ids = {}
      BY <1>1, <2>1, FS_EmptySet
    <3> QED BY <3>1 DEF Collects
  <2> HIDE DEF f
  <2> QED BY <2>1
<1>3. ASSUME NEW n \in Nat, Possible(n) PROVE Possible(n + 1)
  <2>1. PICK f : \A ids \in SUBSET F : Cardinality(ids) <= n => f[ids] = Collects(f, ids)
    BY <1>3
  <2> DEFINE g == [ids \in SUBSET F |-> Collects(f, ids)]
  <2>2. ASSUME NEW ids \in SUBSET F, Cardinality(ids) <= n + 1 PROVE g[ids] = Collects(g, ids)
    <3>1. ASSUME NEW id \in ids PROVE f[ids \ {id}] = g[ids \ {id}]
      <4>1. Cardinality(ids \ {id}) = Cardinality(ids) - 1 /\ ids \ {id} \in SUBSET F
        BY <1>1, FS_RemoveElement
      <4>2. Cardinality(ids \ {id}) <= n
        BY <1>1, <2>2, <4>1
      <4> QED BY <2>1, <4>1, <4>2
    <3>2. g[ids] = Collects(f, ids)
      OBVIOUS
    <3> HIDE DEF g
    <3> QED BY <3>1, <3>2, CollectsFewer
  <2> HIDE DEF g
  <2> QED BY <2>2
<1>4. Possible(Cardinality(F))
  <2> DEFINE T == {n \in Nat : ~Possible(n)}
  <2>1. T = {}
    <3> SUFFICES ASSUME T # {} PROVE FALSE
      OBVIOUS
    <3>1. T \in SUBSET Nat
      OBVIOUS
    <3>2. PICK n \in T : \A m \in T : n <= m
      <4> HIDE DEF T
      <4> QED BY <3>1, LeastNatural
    <3> HIDE DEF Possible
    <3>3. n # 0
      BY <1>2
    <3>4. n - 1 \in Nat /\ Possible(n - 1)
      BY <3>2, <3>3
    <3> QED BY <1>3, <3>4
  <2> QED BY <2>1, FS_CardinalityType
<1>5. PICK g : \A ids \in SUBSET F : g[ids] = Collects(g, ids)
  BY <1>1, <1>4
<1> DEFINE f == [ids \in SUBSET F |-> g[ids]]
<1>6. ASSUME NEW ids \in SUBSET F PROVE f[ids] = Collects(f, ids)
  <2>1. \A id \in ids : g[ids \ {id}] = f[ids \ {id}]
    OBVIOUS
  <2>2. f[ids] = Collects(g, ids)
    BY <1>5
  <2> HIDE DEF f
  <2> QED BY <2>1, <2>2, CollectsFewer
<1>7. f = [ids \in SUBSET F |-> f[ids]]
  OBVIOUS
<1> HIDE DEF f
<1>8. f = [ids \in SUBSET F |-> Collects(f, ids)]
  BY <1>6, <1>7
<1> QED BY <1>8

\* After collect_finished there is at most one status for each target that was active or
\* remembered, and never more than there is room for.
LEMMA CollectFits ==
  ASSUME IsFiniteSet(FinishedIds), Fits(terminal, Ids), NEW result \in TerminalAfterCollect
  PROVE  Fits(result, terminal \cup FinishedIds)
<1> DEFINE F == FinishedIds
<1> DEFINE after == CHOOSE f : f = [ids \in SUBSET F |-> Collects(f, ids)]
<1>1. after = [ids \in SUBSET F |-> Collects(after, ids)]
  BY CollectsExists
<1>2. TerminalAfterCollect = after[F]
  BY DEF TerminalAfterCollect, Collects
<1> HIDE DEF after
<1> DEFINE Fitting(ids) == \A t \in after[ids] : Fits(t, terminal \cup ids)
<1> DEFINE T == {n \in Nat : \E ids \in SUBSET F : Cardinality(ids) = n /\ ~Fitting(ids)}
<1>3. T = {}
  <2> SUFFICES ASSUME T # {} PROVE FALSE
    OBVIOUS
  <2>1. T \in SUBSET Nat
    OBVIOUS
  <2>2. PICK n \in T : \A m \in T : n <= m
    <3> HIDE DEF T
    <3> QED BY <2>1, LeastNatural
  <2>3. PICK ids \in SUBSET F : Cardinality(ids) = n /\ ~Fitting(ids)
    OBVIOUS
  <2>4. after[ids] = Collects(after, ids)
    BY <1>1
  <2>5. ids # {}
    BY <2>3, <2>4 DEF Collects, Fits
  <2>6. PICK t \in Collects(after, ids) : ~Fits(t, terminal \cup ids)
    BY <2>3, <2>4
  <2>7. PICK id \in ids : \E kept \in after[ids \ {id}] : t \in Recorded(kept, id)
    BY <2>5, <2>6 DEF Collects
  <2>8. PICK kept \in after[ids \ {id}] : t \in Recorded(kept, id)
    BY <2>7
  <2>9. Fitting(ids \ {id})
    <3>1. IsFiniteSet(ids)
      BY FS_Subset
    <3>2. /\ Cardinality(ids \ {id}) = Cardinality(ids) - 1
          /\ Cardinality(ids \ {id}) \in Nat /\ Cardinality(ids) \in Nat
      BY <3>1, FS_RemoveElement, FS_CardinalityType
    <3>3. ids \ {id} \in SUBSET F
      OBVIOUS
    <3>4. Cardinality(ids \ {id}) \notin T
      <4> HIDE DEF T, Fitting
      <4> QED BY <2>2, <2>3, <3>2
    <3> HIDE DEF Fitting
    <3> QED BY <3>2, <3>3, <3>4
  <2>10. Fits(kept, terminal \cup (ids \ {id}))
    BY <2>8, <2>9
  <2>11. Fits(t, (terminal \cup (ids \ {id})) \cup {id})
    BY <2>8, <2>10, RecordedFits
  <2>12. (terminal \cup (ids \ {id})) \cup {id} = terminal \cup ids
    OBVIOUS
  <2>13. Fits(t, terminal \cup ids)
    BY <2>11, <2>12
  <2> QED BY <2>6, <2>13
<1>4. Fitting(F)
  <2>1. Cardinality(F) \in Nat
    BY FS_CardinalityType
  <2> HIDE DEF Fitting
  <2> QED BY <1>3, <2>1
<1> QED BY <1>2, <1>4

----------------------------------------------------------------------------
(* The transport.                                                          *)

Phases == {"busy", "parking", "parked", "done"}

\* A step of a worker changes where it is, and nothing else.
LEMMA WorkerMoves ==
  ASSUME NEW w \in Workers, WorkerStep(w)
  PROVE  /\ UNCHANGED <<destinations, retired, terminal, created, stops, watchdog, shuttingDown, owner>>
         /\ \E place \in Phases : phases' = [phases EXCEPT ![w] = place]
         /\ phases[w] # "done"
<1>1. Moves(w) /\ phases[w] # "done"
  BY DEF WorkerStep, FallAsleep, Sleep, Wake, Finish, Worker!FallAsleep, Worker!Sleep,
         Worker!Wake, Worker!Finish
<1> QED BY <1>1 DEF Moves, Phases, Worker!Phases, maps, closing

TransportTypes ==
  /\ created \in 0..MaxStarts
  /\ Active \subseteq Ids
  /\ destinations \in [Active -> 1..created]
  /\ retired \subseteq 1..created
  /\ stops \in [Workers -> BOOLEAN]
  /\ phases \in [Workers -> Phases]
  /\ watchdog \in {"asleep", "waiting", "exited"}
  /\ shuttingDown \in BOOLEAN
  /\ owner \in {"open", "stopped", "joining", "clearing", "gone"}

\* A worker that is stopped moves from one map to the other: together they hold no more
\* than start allows.
Room ==
  /\ Cardinality(Active) <= MaxActive
  /\ Cardinality(Active) + Cardinality(retired) <= MaxWorkers

Statuses == Fits(terminal, Ids) /\ terminal \cap Active = {}

\* The watchdog ends only when the destructor waits for it, after everything was retired.
Watched ==
  /\ WorkersAreWatched
  /\ owner # "open" => Active = {}
  /\ owner = "gone" => retired = {}
  /\ shuttingDown => owner \in {"joining", "clearing", "gone"}
  /\ watchdog = "exited" => shuttingDown

TransportInv == TransportTypes /\ Room /\ Statuses /\ Watched

\* The maps are finite.
LEMMA MapsFinite ==
  ASSUME TransportTypes
  PROVE  /\ IsFiniteSet(Active) /\ Cardinality(Active) \in Nat
         /\ IsFiniteSet(retired) /\ Cardinality(retired) \in Nat
<1>1. IsFiniteSet(Active)
  BY FS_Subset, TransportAssumption DEF TransportTypes
<1>2. IsFiniteSet(retired)
  <2>1. IsFiniteSet(1..created)
    BY FS_Interval DEF TransportTypes
  <2> QED BY <2>1, FS_Subset DEF TransportTypes
<1> QED BY <1>1, <1>2, FS_CardinalityType

\* Maps that lose entries still fit.
LEMMA FewerFit ==
  ASSUME TransportTypes, Room, NEW A \in SUBSET Active, NEW R \in SUBSET retired
  PROVE  /\ IsFiniteSet(A) /\ Cardinality(A) \in Nat /\ Cardinality(A) <= Cardinality(Active)
         /\ IsFiniteSet(R) /\ Cardinality(R) \in Nat
         /\ Cardinality(A) <= MaxActive
         /\ Cardinality(A) + Cardinality(R) <= MaxWorkers
<1>1. /\ IsFiniteSet(A) /\ Cardinality(A) <= Cardinality(Active)
      /\ IsFiniteSet(R) /\ Cardinality(R) <= Cardinality(retired)
  BY MapsFinite, FS_Subset
<1>2. Cardinality(A) \in Nat /\ Cardinality(R) \in Nat
  BY <1>1, FS_CardinalityType
<1> QED BY <1>1, <1>2, MapsFinite, TransportAssumption DEF Room

\* All workers that are held fit the slots retired_ has reserved.
LEMMA HeldFits ==
  ASSUME TransportTypes, Room
  PROVE  IsFiniteSet(Held) /\ Cardinality(Held) <= MaxWorkers /\ Cardinality(Held) \in Nat
<1> DEFINE A == {destinations[id] : id \in Active}
<1>1. /\ IsFiniteSet(Active) /\ Cardinality(Active) \in Nat
      /\ IsFiniteSet(retired) /\ Cardinality(retired) \in Nat
  BY MapsFinite
<1>2. IsFiniteSet(A) /\ Cardinality(A) <= Cardinality(Active)
  <2>1. destinations \in Surjection(Active, A)
    BY DEF TransportTypes, Surjection
  <2> QED BY <1>1, <2>1, FS_Surjection
<1>3. Cardinality(A) \in Nat /\ Cardinality(A \cap retired) \in Nat
  BY <1>1, <1>2, FS_CardinalityType, FS_Intersection
<1>4. /\ IsFiniteSet(A \cup retired)
      /\ Cardinality(A \cup retired) = Cardinality(A) + Cardinality(retired) - Cardinality(A \cap retired)
  BY <1>1, <1>2, FS_Union
<1>5. Cardinality(A \cup retired) \in Nat
  BY <1>4, FS_CardinalityType
<1> HIDE DEF A
<1>6. Cardinality(A \cup retired) <= MaxWorkers
  BY <1>1, <1>2, <1>3, <1>4, <1>5, TransportAssumption DEF Room
<1> QED BY <1>4, <1>5, <1>6 DEF Held, A

\* collect_finished and the release of retired workers, by whichever thread: no worker
\* is forgotten that has not finished, and nobody gets two statuses.
LEMMA CollectKeeps ==
  ASSUME TransportInv,
         destinations' = Without(destinations, FinishedIds), retired' = RetiredAfterRelease,
         terminal' \in TerminalAfterCollect, UNCHANGED <<created, workers>>
  PROVE  /\ Active' = Active \ FinishedIds
         /\ destinations' \in [Active' -> 1..created']
         /\ Held' \subseteq Held
         /\ Room' /\ Statuses'
<1> USE DEF TransportInv
<1>1. Active' = Active \ FinishedIds /\ FinishedIds \subseteq Active
  BY DEF Without, Active, FinishedIds
<1>2. destinations' \in [Active' -> 1..created']
  BY <1>1 DEF Without, TransportTypes, Active
<1>3. Held' \subseteq Held
  BY <1>1 DEF Held, RetiredAfterRelease, Without, Active
<1>4. Room'
  <2>1. Active' \in SUBSET Active /\ retired' \in SUBSET retired
    BY <1>1 DEF RetiredAfterRelease
  <2> QED BY <2>1, FewerFit DEF Room
<1>5. Statuses'
  <2>1. IsFiniteSet(FinishedIds)
    BY <1>1, MapsFinite, FS_Subset
  <2>2. Fits(terminal', terminal \cup FinishedIds)
    BY <2>1, CollectFits DEF Statuses
  <2> QED BY <1>1, <2>2 DEF Statuses, Fits, TransportTypes
<1> QED BY <1>1, <1>2, <1>3, <1>4, <1>5

\* A start that is refused, or one whose worker cannot be created.
LEMMA RefusedKeeps ==
  ASSUME TransportInv, NEW id \in Ids, StartRefused(id)
  PROVE  TransportInv'
<1>1. /\ destinations' = Without(destinations, FinishedIds) /\ retired' = RetiredAfterRelease
      /\ terminal' \in TerminalAfterCollect
      /\ UNCHANGED <<created, workers, watchdog, shuttingDown, owner>> /\ owner = "open"
  BY DEF StartRefused, closing
<1>2. /\ Active' = Active \ FinishedIds /\ destinations' \in [Active' -> 1..created']
      /\ Held' \subseteq Held /\ Room' /\ Statuses'
  BY <1>1, CollectKeeps
<1>3. TransportTypes'
  BY <1>1, <1>2 DEF TransportInv, TransportTypes, RetiredAfterRelease, workers, Workers
<1>4. Watched'
  BY <1>1, <1>2 DEF TransportInv, Watched, WorkersAreWatched
<1> QED BY <1>2, <1>3, <1>4 DEF TransportInv

\* A start: the new worker has a slot, no older status, and a watchdog that is awake.
LEMMA StartKeeps ==
  ASSUME TransportInv, NEW id \in Ids, Start(id)
  PROVE  TransportInv'
<1> DEFINE active == Active \ FinishedIds
<1>1. /\ owner = "open" /\ created < MaxStarts /\ id \notin active
      /\ ~TooMany(active, RetiredAfterRelease)
      /\ retired' = RetiredAfterRelease
      /\ UNCHANGED <<workers, shuttingDown, owner>>
  BY DEF Start, closing
<1>2. PICK collected \in TerminalAfterCollect :
        \/ /\ created' = created + 1
           /\ destinations' = [i \in active \cup {id} |-> IF i = id THEN created' ELSE destinations[i]]
           /\ NoteStart(id, collected)
        \/ /\ destinations' = Without(destinations, FinishedIds)
           /\ terminal' = collected
           /\ UNCHANGED <<created, watchdog>>
  BY DEF Start, StartFails
<1>3. CASE destinations' = Without(destinations, FinishedIds) /\ terminal' = collected
           /\ UNCHANGED <<created, watchdog>>
  <2>1. /\ Active' = Active \ FinishedIds /\ destinations' \in [Active' -> 1..created']
        /\ Held' \subseteq Held /\ Room' /\ Statuses'
    BY <1>1, <1>2, <1>3, CollectKeeps
  <2>2. TransportTypes'
    BY <1>1, <1>3, <2>1 DEF TransportInv, TransportTypes, RetiredAfterRelease, workers, Workers
  <2>3. Watched'
    BY <1>1, <1>3, <2>1 DEF TransportInv, Watched, WorkersAreWatched
  <2> QED BY <2>1, <2>2, <2>3 DEF TransportInv
<1>4. CASE created' = created + 1
           /\ destinations' = [i \in active \cup {id} |-> IF i = id THEN created' ELSE destinations[i]]
           /\ NoteStart(id, collected)
  <2>1. Active' = active \cup {id} /\ active \subseteq Active
    BY <1>4 DEF Active
  <2>2. TransportTypes'
    <3>1. created' \in 0..MaxStarts /\ 1..created \subseteq 1..created' /\ created' \in 1..created'
      BY <1>1, <1>4, TransportAssumption DEF TransportInv, TransportTypes
    <3>2. destinations' \in [Active' -> 1..created']
      BY <1>4, <2>1, <3>1 DEF TransportInv, TransportTypes
    <3>3. retired' \subseteq 1..created' /\ Active' \subseteq Ids
      BY <1>1, <2>1, <3>1 DEF TransportInv, TransportTypes, RetiredAfterRelease
    <3> QED BY <1>1, <1>4, <3>1, <3>2, <3>3
            DEF TransportInv, TransportTypes, NoteStart, WatchdogWoken, workers, Workers
  <2>3. Room'
    <3>1. active \in SUBSET Active /\ retired' \in SUBSET retired
      BY <1>1 DEF RetiredAfterRelease
    <3>2. /\ IsFiniteSet(active) /\ Cardinality(active) \in Nat
          /\ IsFiniteSet(retired') /\ Cardinality(retired') \in Nat
      BY <3>1, FewerFit DEF TransportInv
    <3>3. Cardinality(active) < MaxActive /\ Cardinality(active) + Cardinality(retired') < MaxWorkers
      BY <1>1, <3>2, TransportAssumption DEF TooMany
    <3>4. Cardinality(Active') = Cardinality(active) + 1
      BY <1>1, <2>1, <3>2, FS_AddElement
    <3> QED BY <3>2, <3>3, <3>4, TransportAssumption DEF Room
  <2>4. Statuses'
    <3>1. IsFiniteSet(FinishedIds) /\ FinishedIds \subseteq Active
      BY MapsFinite, FS_Subset DEF TransportInv, FinishedIds
    <3>2. Fits(collected, terminal \cup FinishedIds)
      BY <1>2, <3>1, CollectFits DEF TransportInv, Statuses
    <3>3. terminal' = collected \ {id}
      BY <1>4 DEF NoteStart
    <3>4. IsFiniteSet(terminal') /\ Cardinality(terminal') <= MaxTerminal
      <4>1. /\ IsFiniteSet(terminal') /\ Cardinality(terminal') <= Cardinality(collected)
            /\ Cardinality(terminal') \in Nat /\ Cardinality(collected) \in Nat
        BY <3>2, <3>3, FS_Subset, FS_CardinalityType DEF Fits
      <4> QED BY <3>2, <4>1, TransportAssumption DEF Fits
    <3> QED BY <2>1, <3>1, <3>2, <3>3, <3>4 DEF TransportInv, TransportTypes, Statuses, Fits
  <2>5. Watched'
    <3>1. watchdog' = "waiting"
      BY <1>1, <1>4 DEF NoteStart, WatchdogWoken, TransportInv, TransportTypes, Watched
    <3> QED BY <1>1, <3>1 DEF TransportInv, Watched, WorkersAreWatched
  <2> QED BY <2>2, <2>3, <2>4, <2>5 DEF TransportInv
<1> QED BY <1>2, <1>3, <1>4

\* request_stop changes no map, and takes nobody's final state away.
LEMMA StopWorkersTypes ==
  ASSUME TransportTypes, NEW ws, StopWorkers(ws)
  PROVE  stops' \in [Workers -> BOOLEAN] /\ phases' \in [Workers -> Phases]
<1>1. \A w \in Workers, phase \in Phases : Worker(w)!Woken(phase) \in Phases
  BY DEF Phases, Worker!Woken
<1> QED BY <1>1 DEF StopWorkers, TransportTypes

\* A stop: the worker moves to the retired ones, where there is room for it.
LEMMA StopKeeps ==
  ASSUME TransportInv, NEW id \in Ids, Stop(id)
  PROVE  TransportInv'
<1>1. /\ owner = "open" /\ terminal' = terminal \ {id}
      /\ UNCHANGED <<created, watchdog, shuttingDown, owner>>
  BY DEF Stop, closing
<1>2. IsFiniteSet(terminal') /\ Cardinality(terminal') <= MaxTerminal
  <2>1. /\ IsFiniteSet(terminal') /\ Cardinality(terminal') <= Cardinality(terminal)
        /\ Cardinality(terminal') \in Nat /\ Cardinality(terminal) \in Nat
    BY <1>1, FS_Subset, FS_CardinalityType DEF TransportInv, Statuses, Fits
  <2> QED BY <2>1, TransportAssumption DEF TransportInv, Statuses, Fits
<1>3. CASE id \notin Active /\ UNCHANGED <<destinations, retired, workers>>
  <2>1. Active' = Active /\ Held' = Held
    BY <1>3 DEF Active, Held
  <2>2. TransportTypes' /\ Room' /\ Watched'
    BY <1>1, <1>3, <2>1
       DEF TransportInv, TransportTypes, Room, Watched, WorkersAreWatched, workers, Workers
  <2>3. Statuses'
    BY <1>1, <1>2, <2>1 DEF TransportInv, Statuses, Fits
  <2> QED BY <2>2, <2>3 DEF TransportInv
<1>4. CASE /\ id \in Active
           /\ StopWorkers({destinations[id]})
           /\ retired' = (retired \cup {destinations[id]}) \ Finished
           /\ destinations' = Without(destinations, {id})
  <2>1. Active' = Active \ {id} /\ \A i \in Active' : destinations'[i] = destinations[i]
    BY <1>4 DEF Active, Without
  <2>2. TransportTypes'
    <3>1. destinations' \in [Active' -> 1..created'] /\ Active' \subseteq Ids
      BY <1>1, <1>4, <2>1 DEF TransportInv, TransportTypes, Without
    <3>2. retired' \subseteq 1..created'
      BY <1>1, <1>4 DEF TransportInv, TransportTypes
    <3>3. stops' \in [Workers -> BOOLEAN] /\ phases' \in [Workers -> Phases]
      BY <1>4, StopWorkersTypes DEF TransportInv
    <3> QED BY <1>1, <3>1, <3>2, <3>3 DEF TransportInv, TransportTypes, Workers
  <2>3. Room'
    <3>1. /\ IsFiniteSet(Active) /\ Cardinality(Active) \in Nat
          /\ IsFiniteSet(retired) /\ Cardinality(retired) \in Nat
      BY MapsFinite DEF TransportInv
    <3>2. Cardinality(Active') = Cardinality(Active) - 1 /\ Cardinality(Active') \in Nat
      BY <1>4, <2>1, <3>1, FS_RemoveElement, FS_CardinalityType
    <3>3. /\ IsFiniteSet(retired \cup {destinations[id]})
          /\ Cardinality(retired \cup {destinations[id]}) \in Nat
          /\ Cardinality(retired \cup {destinations[id]}) <= Cardinality(retired) + 1
      <4>1. /\ IsFiniteSet(retired \cup {destinations[id]})
            /\ Cardinality(retired \cup {destinations[id]})
                 = IF destinations[id] \in retired THEN Cardinality(retired)
                   ELSE Cardinality(retired) + 1
        BY <3>1, FS_AddElement
      <4> QED BY <3>1, <4>1
    <3>4. /\ Cardinality(retired') <= Cardinality(retired \cup {destinations[id]})
          /\ Cardinality(retired') \in Nat
      BY <1>4, <3>3, FS_Subset, FS_CardinalityType
    <3> QED BY <3>1, <3>2, <3>3, <3>4, TransportAssumption DEF TransportInv, Room
  <2>4. Statuses'
    BY <1>1, <1>2, <2>1 DEF TransportInv, Statuses, Fits
  <2>5. Watched'
    <3>1. Held # {}
      BY <1>4 DEF Held
    <3> QED BY <1>1, <3>1 DEF TransportInv, Watched, WorkersAreWatched
  <2> QED BY <2>2, <2>3, <2>4, <2>5 DEF TransportInv
<1> QED BY <1>3, <1>4 DEF Stop

\* stop_all retires everything that has not finished, however much is being retired.
LEMMA StopAllKeeps ==
  ASSUME TransportInv, owner = "open", NEW next \in {"open", "stopped"}, StopAll(next)
  PROVE  TransportInv'
<1>1. /\ destinations' = <<>> /\ retired' = Held \ Finished /\ terminal' = {} /\ owner' = next
      /\ UNCHANGED <<created, watchdog, shuttingDown>>
  BY DEF StopAll
<1>2. Active' = {}
  BY <1>1 DEF Active
<1>3. TransportTypes'
  <2>1. destinations' \in [Active' -> 1..created']
    BY <1>1, <1>2, \A f : f = <<>> => f = [x \in {} |-> 0]
  <2>2. retired' \subseteq 1..created'
    BY <1>1 DEF TransportInv, TransportTypes, Held
  <2>3. stops' \in [Workers -> BOOLEAN] /\ phases' \in [Workers -> Phases]
    BY StopWorkersTypes DEF StopAll, TransportInv
  <2> QED BY <1>1, <1>2, <2>1, <2>2, <2>3 DEF TransportInv, TransportTypes, Workers
<1>4. Room'
  <2>1. IsFiniteSet(Held) /\ Cardinality(Held) <= MaxWorkers /\ Cardinality(Held) \in Nat
    BY HeldFits DEF TransportInv
  <2>2. /\ Cardinality(retired') <= Cardinality(Held) /\ Cardinality(retired') \in Nat
    BY <1>1, <2>1, FS_Subset, FS_CardinalityType
  <2>3. Cardinality(Active') = 0
    BY <1>2, FS_EmptySet
  <2> QED BY <2>1, <2>2, <2>3, TransportAssumption DEF Room
<1>5. Statuses'
  BY <1>1, FS_EmptySet, TransportAssumption DEF Statuses, Fits
<1>6. Watched'
  <2>1. Held' # {} => Held # {}
    BY <1>1, <1>2 DEF Held
  <2> QED BY <1>1, <1>2, <2>1 DEF TransportInv, Watched, WorkersAreWatched
<1> QED BY <1>3, <1>4, <1>5, <1>6 DEF TransportInv

\* ~Impl: a step releases at most a worker that was joined, and wakes the watchdog before
\* it waits for it.
LEMMA DestructorKeeps ==
  ASSUME TransportInv, Destructor
  PROVE  TransportInv'
<1>1. /\ UNCHANGED <<destinations, terminal, created>> /\ retired' \in SUBSET retired
      /\ owner \in {"stopped", "joining", "clearing"}
  BY DEF Destructor, Shutdown, JoinWatchdog, DestroyWorker, JoinWorker, Closed, maps
<1>2. Active' = Active /\ Held' \subseteq Held
  BY <1>1 DEF Active, Held
<1>3. TransportTypes'
  <2>1. stops' \in [Workers -> BOOLEAN] /\ phases' \in [Workers -> Phases]
    BY StopWorkersTypes
       DEF TransportInv, TransportTypes, Destructor, Shutdown, JoinWatchdog, DestroyWorker,
           JoinWorker, Closed, workers
  <2>2. /\ watchdog' \in {"asleep", "waiting", "exited"} /\ shuttingDown' \in BOOLEAN
        /\ owner' \in {"open", "stopped", "joining", "clearing", "gone"}
    BY DEF TransportInv, TransportTypes, Destructor, Shutdown, JoinWatchdog, DestroyWorker,
           JoinWorker, Closed, WatchdogWoken
  <2> QED BY <1>1, <1>2, <2>1, <2>2 DEF TransportInv, TransportTypes, Workers
<1>4. Room'
  BY <1>1, <1>2, FewerFit DEF TransportInv, Room
<1>5. Statuses'
  BY <1>1, <1>2 DEF TransportInv, Statuses, Fits
<1>6. Watched'
  BY <1>1, <1>2
     DEF TransportInv, TransportTypes, Watched, WorkersAreWatched, Destructor, Shutdown,
         JoinWatchdog, DestroyWorker, JoinWorker, Closed, WatchdogWoken, Held
<1> QED BY <1>3, <1>4, <1>5, <1>6 DEF TransportInv

\* The watchdog goes to sleep only when there is nobody left to watch.
LEMMA WatchKeeps ==
  ASSUME TransportInv, Watch
  PROVE  TransportInv'
<1>1. /\ destinations' = Without(destinations, FinishedIds) /\ retired' = RetiredAfterRelease
      /\ terminal' \in TerminalAfterCollect
      /\ UNCHANGED <<created, workers, shuttingDown, owner>> /\ watchdog = "waiting"
  BY DEF Watch, closing
<1>2. /\ Active' = Active \ FinishedIds /\ destinations' \in [Active' -> 1..created']
      /\ Held' \subseteq Held /\ Room' /\ Statuses'
  BY <1>1, CollectKeeps
<1>3. TransportTypes'
  <2>1. watchdog' \in {"asleep", "waiting", "exited"}
    BY DEF Watch
  <2> QED BY <1>1, <1>2, <2>1
          DEF TransportInv, TransportTypes, RetiredAfterRelease, workers, Workers
<1>4. Watched'
  <2>1. CASE shuttingDown
    <3>1. owner = "gone" => Held' = {}
      BY <1>2 DEF TransportInv, Watched, Held
    <3> QED BY <1>1, <1>2, <2>1, <3>1
            DEF TransportInv, Watched, WorkersAreWatched, RetiredAfterRelease, Watch
  <2>2. CASE ~shuttingDown
    <3>1. watchdog' # "exited" /\ (Held' # {} => watchdog' = "waiting")
      <4>1. CASE destinations' = <<>> /\ retired' = {}
        BY <2>2, <4>1 DEF Watch, Held, Active
      <4>2. CASE ~(destinations' = <<>> /\ retired' = {})
        BY <2>2, <4>2 DEF Watch
      <4> QED BY <4>1, <4>2
    <3> QED BY <1>1, <1>2, <2>2, <3>1
            DEF TransportInv, Watched, WorkersAreWatched, RetiredAfterRelease
  <2> QED BY <2>1, <2>2
<1> QED BY <1>2, <1>3, <1>4 DEF TransportInv

\* A worker changes only where it is.
LEMMA WorkerKeeps ==
  ASSUME TransportInv, NEW w \in Workers, WorkerStep(w)
  PROVE  TransportInv'
<1>1. UNCHANGED <<destinations, retired, terminal, created, stops, watchdog, shuttingDown, owner>>
  BY WorkerMoves
<1>2. phases' \in [Workers -> Phases]
  BY WorkerMoves DEF TransportInv, TransportTypes
<1>3. Active' = Active /\ Held' = Held
  BY <1>1 DEF Active, Held
<1> QED BY <1>1, <1>2, <1>3
        DEF TransportInv, TransportTypes, Room, Statuses, Fits, Watched, WorkersAreWatched, Workers

\* Every step of the transport.
LEMMA TransportKeeps ==
  ASSUME TransportInv, [Next]_vars
  PROVE  TransportInv'
<1>1. CASE UNCHANGED vars
  BY <1>1
     DEF vars, maps, workers, closing, TransportInv, TransportTypes, Room, Statuses, Fits, Watched,
         WorkersAreWatched, Active, Held, Workers
<1>2. CASE \E id \in Ids : StartRefused(id) \/ Start(id) \/ Stop(id)
  BY <1>2, RefusedKeeps, StartKeeps, StopKeeps
<1>3. CASE StopEverything \/ Close
  BY <1>3, StopAllKeeps DEF StopEverything, Close
<1>4. CASE Destructor
  BY <1>4, DestructorKeeps
<1>5. CASE Watch
  BY <1>5, WatchKeeps
<1>6. CASE \E w \in Workers : WorkerStep(w)
  BY <1>6, WorkerKeeps
<1> QED BY <1>1, <1>2, <1>3, <1>4, <1>5, <1>6 DEF Next

\* It starts with nothing.
LEMMA TransportStarts == Init => TransportInv
<1> SUFFICES ASSUME Init PROVE TransportInv
  OBVIOUS
<1>1. Active = {} /\ Held = {}
  BY DEF Init, Active, Held
<1>2. destinations \in [Active -> 1..created]
  BY <1>1, \A f : f = <<>> => f = [x \in {} |-> 0] DEF Init
<1>3. Cardinality({}) = 0 /\ IsFiniteSet({})
  BY FS_EmptySet
<1>4. Room
  BY <1>1, <1>3, TransportAssumption DEF Room, Init
<1>5. TransportTypes
  <2>1. stops \in [Workers -> BOOLEAN] /\ phases \in [Workers -> Phases] /\ shuttingDown \in BOOLEAN
    BY Zenon DEF Init, Phases
  <2>2. created \in 0..MaxStarts /\ retired \subseteq 1..created /\ Active \subseteq Ids
    BY <1>1, TransportAssumption DEF Init
  <2> QED BY <1>2, <2>1, <2>2 DEF TransportTypes, Init
<1> QED BY <1>1, <1>3, <1>4, <1>5, TransportAssumption
        DEF TransportInv, Statuses, Fits, Watched, WorkersAreWatched, Init

\* At all times.
LEMMA TransportAlways == Spec => []TransportInv
<1>1. Init => TransportInv
  BY TransportStarts
<1>2. TransportInv /\ [Next]_vars => TransportInv'
  BY TransportKeeps
<1> QED BY <1>1, <1>2, PTL DEF Spec

\* The workers of start, stop and the watchdog fit the reserved slots, each target has at
\* most one status, and no worker is left without the watchdog.
THEOREM TransportIsSound == Spec => []TransportSound
<1>1. TransportInv => TransportSound
  <2> SUFFICES ASSUME TransportInv PROVE TransportSound
    OBVIOUS
  <2>1. RetirementSlots
    BY HeldFits DEF TransportInv, Room, RetirementSlots
  <2> QED BY <2>1 DEF TransportSound, OneStatusPerTarget, TransportInv, Statuses, Fits, Watched
<1> QED BY <1>1, TransportAlways, PTL

\* What start, stop, stop_all and the watchdog release under the mutex has finished: only
\* the destructor waits for a worker.
THEOREM ReleasesFinishedOnly == Spec => ReleaseNeverWaits
<1> DEFINE Releases ==
      (owner \in {"open", "stopped", "joining"}) => (Held \ Held') \subseteq Finished
<1>1. [Next]_vars => [Releases]_vars
  <2> SUFFICES ASSUME Next PROVE Releases
    BY DEF vars
  <2>1. ASSUME destinations' = Without(destinations, FinishedIds), retired' = RetiredAfterRelease
        PROVE  Releases
    BY <2>1 DEF Without, RetiredAfterRelease, Held, Active, FinishedIds
  <2>2. ASSUME NEW id \in Ids, Start(id) PROVE Releases
    <3>1. CASE /\ created' = created + 1
               /\ destinations' = [i \in (Active \ FinishedIds) \cup {id} |->
                                     IF i = id THEN created' ELSE destinations[i]]
      <4>1. retired' = RetiredAfterRelease /\ id \notin Active \ FinishedIds
        BY <2>2 DEF Start
      <4>2. \A i \in Active \ FinishedIds : destinations[i] \in Held'
        BY <3>1, <4>1 DEF Held, Active
      <4> QED BY <4>1, <4>2 DEF Held, RetiredAfterRelease, FinishedIds
    <3>2. CASE StartFails(id)
      BY <2>1, <2>2, <3>2 DEF Start, StartFails
    <3> QED BY <2>2, <3>1, <3>2 DEF Start
  <2>3. ASSUME NEW id \in Ids, Stop(id) PROVE Releases
    <3>1. CASE UNCHANGED <<destinations, retired>>
      BY <3>1 DEF Held, Active
    <3>2. CASE /\ retired' = (retired \cup {destinations[id]}) \ Finished
               /\ destinations' = Without(destinations, {id})
      <4>1. \A i \in Active \ {id} : destinations[i] \in Held'
        BY <3>2 DEF Held, Active, Without
      <4>2. \A w \in (retired \cup {destinations[id]}) \ Finished : w \in Held'
        BY <3>2 DEF Held
      <4> QED BY <4>1, <4>2 DEF Held
    <3> QED BY <2>3, <3>1, <3>2 DEF Stop, workers
  <2>4. CASE StopEverything \/ Close
    BY <2>4 DEF StopEverything, Close, StopAll, Held
  <2>5. CASE Destructor
    <3>1. CASE JoinWorker \/ Closed \/ DestroyWorker
      BY <3>1 DEF JoinWorker, Closed, DestroyWorker
    <3>2. CASE Shutdown \/ JoinWatchdog
      BY <3>2 DEF Shutdown, JoinWatchdog, maps, Held, Active
    <3> QED BY <2>5, <3>1, <3>2 DEF Destructor
  <2>6. ASSUME NEW w \in Workers, WorkerStep(w) PROVE Releases
    BY <2>6, WorkerMoves DEF Held, Active
  <2>7. CASE Watch
    BY <2>1, <2>7 DEF Watch
  <2>8. ASSUME NEW id \in Ids, StartRefused(id) PROVE Releases
    BY <2>1, <2>8 DEF StartRefused
  <2> HIDE DEF Releases
  <2> QED BY <2>2, <2>3, <2>4, <2>5, <2>6, <2>7, <2>8 DEF Next
<1>2. [][Next]_vars => [][Releases]_vars
  BY <1>1, PTL
<1> QED BY <1>2 DEF Spec, ReleaseNeverWaits

----------------------------------------------------------------------------
(* The controller.                                                         *)

\* A step of the controller is one of the transport, or leaves it alone.
LEMMA TransportStep ==
  ASSUME [NextController]_all
  PROVE  [Next]_vars
<1>1. ASSUME NEW id \in Ids, NEW g, Starts(id, g) PROVE Next
  BY <1>1 DEF Starts, Next
<1>2. ASSUME NEW id \in Ids, Stop(id) PROVE Next
  BY <1>2 DEF Next
<1>3. ASSUME owner = "open", StopAll("open") PROVE Next
  BY <1>3 DEF StopEverything, Next
<1>4. CASE UNCHANGED all
  BY <1>4 DEF all
<1>5. CASE \E id \in Ids : \/ StartTarget(id) \/ StartLater(id) \/ StopTarget(id)
                           \/ SaveTarget(id) \/ RemoveTarget(id)
  BY <1>1, <1>2, <1>5 DEF StartTarget, StartLater, StopTarget, SaveTarget, RemoveTarget
<1>6. CASE FrontendEvent \/ PollStops
  BY <1>3, <1>6 DEF FrontendEvent, PollStops
<1>7. CASE CloseTransport
  BY <1>7 DEF CloseTransport, Next
<1>8. CASE \E id \in Ids : PollStart(id)
  BY <1>1, <1>8 DEF PollStart
<1>9. CASE PollStarts \/ PollIdle \/ Check \/ HeadersKnown \/ ReceiveFails \/ StartupTimerElapses
  BY <1>9 DEF PollStarts, PollIdle, Check, HeadersKnown, ReceiveFails, StartupTimerElapses
<1>10. CASE Beside
  BY <1>10 DEF Beside, Next
<1> QED BY <1>4, <1>5, <1>6, <1>7, <1>8, <1>9, <1>10 DEF NextController, Poll

\* The controller drives the transport as it is meant to be driven: whatever Qt's thread
\* does, the transport sees calls that it allows.
THEOREM DrivesTransport == SpecController => Spec
<1>1. InitController => Init
  BY DEF InitController
<1>2. [NextController]_all => [Next]_vars
  BY TransportStep
<1> QED BY <1>1, <1>2, PTL DEF SpecController, Spec

ControllerTypes ==
  /\ collector \in 0..collectors
  /\ collectors \in 0..MaxCollectors
  /\ headers \in [Workers -> 0..collectors]

\* The headers that are kept are those of the collector that is there.
HeadersKept == description # 0 => description = collector

ControllerInv == ControllerTypes /\ HeadersKept /\ HeadersOfCollector

\* A worker that has finished stays so.
LEMMA FinishedStay ==
  ASSUME TransportInv, [Next]_vars
  PROVE  Finished \subseteq Finished'
<1> SUFFICES ASSUME NEW w \in Workers, phases[w] = "done" PROVE phases'[w] = "done"
  BY DEF Finished, Workers
<1>1. phases \in [Workers -> Phases]
  BY DEF TransportInv, TransportTypes
<1>2. ASSUME UNCHANGED phases PROVE phases'[w] = "done"
  BY <1>2
<1>3. ASSUME NEW ws, StopWorkers(ws) PROVE phases'[w] = "done"
  BY <1>3 DEF StopWorkers, Worker!Woken
<1>4. CASE UNCHANGED vars
  BY <1>2, <1>4 DEF vars, workers
<1>5. CASE \E id \in Ids : StartRefused(id) \/ Start(id) \/ Stop(id)
  BY <1>2, <1>3, <1>5 DEF StartRefused, Start, Stop, workers
<1>6. CASE StopEverything \/ Close
  BY <1>3, <1>6 DEF StopEverything, Close, StopAll
<1>7. CASE Destructor
  BY <1>2, <1>3, <1>7
     DEF Destructor, Shutdown, JoinWatchdog, DestroyWorker, JoinWorker, Closed, workers
<1>8. CASE Watch
  BY <1>2, <1>8 DEF Watch, workers
<1>9. CASE \E v \in Workers : WorkerStep(v)
  BY <1>1, <1>9, WorkerMoves
<1> QED BY <1>4, <1>5, <1>6, <1>7, <1>8, <1>9 DEF Next

\* Destinations that may only disappear, and workers that may only finish, ask for no
\* other headers.
LEMMA FewerAgree ==
  ASSUME HeadersOfCollector, Active' \subseteq Active, \A id \in Active' : destinations'[id] = destinations[id],
         Finished \subseteq Finished', UNCHANGED headers, UNCHANGED collector
  PROVE  HeadersOfCollector'
BY DEF HeadersOfCollector

\* A transport step that starts nobody takes destinations away, if anything.
LEMMA OnlyFewer ==
  ASSUME \/ \E id \in Ids : StartRefused(id) \/ Stop(id)
         \/ Watch \/ Destructor \/ \E w \in Workers : WorkerStep(w)
  PROVE  Active' \subseteq Active /\ \A i \in Active' : destinations'[i] = destinations[i]
<1>1. ASSUME NEW ids, destinations' = Without(destinations, ids)
      PROVE  Active' \subseteq Active /\ \A i \in Active' : destinations'[i] = destinations[i]
  BY <1>1 DEF Active, Without
<1>2. ASSUME UNCHANGED destinations
      PROVE  Active' \subseteq Active /\ \A i \in Active' : destinations'[i] = destinations[i]
  BY <1>2 DEF Active
<1>3. CASE Watch \/ \E id \in Ids : StartRefused(id)
  BY <1>1, <1>3 DEF StartRefused, Watch
<1>4. CASE \E id \in Ids : Stop(id)
  BY <1>1, <1>2, <1>4 DEF Stop
<1>5. CASE Destructor \/ \E w \in Workers : WorkerStep(w)
  BY <1>2, <1>5, WorkerMoves
     DEF Destructor, Shutdown, JoinWatchdog, DestroyWorker, JoinWorker, Closed, maps
<1> QED BY <1>3, <1>4, <1>5

\* A start against the headers of the collector that is there, and stays.
LEMMA StartsAgree ==
  ASSUME TransportInv, NEW id \in Ids, NEW g, g # 0, Starts(id, g), collector' = g,
         headers \in [Workers -> 0..collectors],
         HasTargets => collector = g, HeadersOfCollector
  PROVE  HeadersOfCollector'
<1>1. Finished \subseteq Finished' /\ created' \in Nat
  <2>1. Next
    BY DEF Starts, Next
  <2>2. TransportInv'
    BY <2>1, TransportKeeps
  <2> QED BY <2>1, <2>2, FinishedStay DEF TransportInv, TransportTypes
<1>2. ASSUME NEW i \in Active, destinations[i] \notin Finished'
      PROVE  collector = g /\ headers[destinations[i]] = g
  BY <1>1, <1>2 DEF HeadersOfCollector, HasTargets
<1>3. CASE created' = created
  <2>1. Active' \subseteq Active /\ \A i \in Active' : destinations'[i] = destinations[i]
    <3>1. CASE StartRefused(id)
      BY <3>1, OnlyFewer
    <3>2. CASE Start(id)
      <4>1. created \in Nat
        BY DEF TransportInv, TransportTypes
      <4>2. destinations' = Without(destinations, FinishedIds)
        BY <1>3, <3>2, <4>1 DEF Start, StartFails
      <4> QED BY <4>2 DEF Active, Without
    <3> QED BY <3>1, <3>2 DEF Starts
  <2> QED BY <1>2, <1>3, <2>1 DEF Starts, HeadersOfCollector
<1>4. CASE created' # created
  <2>1. /\ created' = created + 1 /\ created < MaxStarts
        /\ destinations' = [i \in (Active \ FinishedIds) \cup {id} |->
                              IF i = id THEN created' ELSE destinations[i]]
    BY <1>4 DEF Starts, Start, StartRefused
  <2>2. created \in Nat /\ created' \in Workers /\ \A i \in Active : destinations[i] \in 1..created
    BY <2>1, TransportAssumption DEF TransportInv, TransportTypes, Workers
  <2>3. headers' = [headers EXCEPT ![created'] = g]
    BY <1>4 DEF Starts
  <2>4. headers'[created'] = g /\ \A w \in 1..created : headers'[w] = headers[w]
    BY <2>1, <2>2, <2>3, TransportAssumption DEF Workers
  <2>5. SUFFICES ASSUME NEW i \in Active', destinations'[i] \notin Finished'
                 PROVE  collector' # 0 /\ headers'[destinations'[i]] = collector'
    BY DEF HeadersOfCollector
  <2>6. CASE i = id
    BY <2>1, <2>4, <2>6
  <2>7. CASE i # id
    <3>1. i \in Active /\ destinations'[i] = destinations[i]
      BY <2>1, <2>5, <2>7 DEF Active
    <3> QED BY <1>2, <2>2, <2>4, <2>5, <3>1
  <2> QED BY <2>6, <2>7
<1> QED BY <1>3, <1>4

\* create_master never replaces a collector.
LEMMA CreateKeeps ==
  ASSUME ControllerTypes, CreateMaster
  PROVE  /\ collector' \in 1..collectors' /\ collectors' \in 0..MaxCollectors
         /\ 0..collectors \subseteq 0..collectors'
         /\ collector # 0 => collector' = collector
BY CollectorAssumption DEF ControllerTypes, CreateMaster

\* The start of a target, against the headers of the collector there was or a new one.
LEMMA StartTargetKeeps ==
  ASSUME TransportInv, ControllerInv, NEW id \in Ids, StartTarget(id)
  PROVE  ControllerInv'
<1>1. /\ CreateMaster
      /\ description' = IF description = 0 THEN Described(collector') ELSE description
      /\ description' # 0
      /\ Starts(id, description')
  BY DEF StartTarget, Startable
<1>2. /\ collector' \in 1..collectors' /\ collectors' \in 0..MaxCollectors
      /\ 0..collectors \subseteq 0..collectors'
      /\ collector # 0 => collector' = collector
  BY <1>1, CreateKeeps DEF ControllerInv
<1>3. collector \in Nat
  BY CollectorAssumption DEF ControllerInv, ControllerTypes
<1>4. description' = collector'
  BY <1>1, <1>2, <1>3 DEF ControllerInv, HeadersKept, Described
<1>5. HasTargets => collector = description'
  BY <1>2, <1>4 DEF ControllerInv, HeadersOfCollector, HasTargets
<1>6. HeadersOfCollector'
  BY <1>1, <1>4, <1>5, StartsAgree DEF ControllerInv, ControllerTypes
<1>7. headers' \in [Workers -> 0..collectors']
  <2>1. headers' = headers \/ headers' = [headers EXCEPT ![created'] = description']
    BY <1>1 DEF Starts
  <2>2. description' \in 0..collectors' /\ headers \in [Workers -> 0..collectors']
    BY <1>2, <1>4 DEF ControllerInv, ControllerTypes
  <2> QED BY <2>1, <2>2
<1> QED BY <1>2, <1>4, <1>6, <1>7 DEF ControllerInv, ControllerTypes, HeadersKept, Workers

\* One start of a batch: the headers may be gone with the collector, and then nobody starts.
LEMMA PollStartKeeps ==
  ASSUME TransportInv, ControllerInv, NEW id \in Ids, PollStart(id)
  PROVE  ControllerInv'
<1>1. UNCHANGED <<collector, collectors, description>>
  BY DEF PollStart, capture
<1>2. CASE description # 0 /\ id \in targets
  <2>1. Starts(id, description) /\ collector' = description
    BY <1>1, <1>2 DEF PollStart, ControllerInv, HeadersKept
  <2>2. HasTargets => collector = description
    BY <1>2 DEF ControllerInv, HeadersKept
  <2>3. HeadersOfCollector'
    BY <1>2, <2>1, <2>2, StartsAgree DEF ControllerInv, ControllerTypes
  <2>4. headers' \in [Workers -> 0..collectors']
    <3>1. headers' = headers \/ headers' = [headers EXCEPT ![created'] = description]
      BY <2>1 DEF Starts
    <3>2. description \in 0..collectors
      BY <1>2 DEF ControllerInv, ControllerTypes, HeadersKept
    <3> QED BY <1>1, <3>1, <3>2 DEF ControllerInv, ControllerTypes
  <2> QED BY <1>1, <2>3, <2>4 DEF ControllerInv, ControllerTypes, HeadersKept, Workers
<1>3. CASE ~(description # 0 /\ id \in targets)
  <2>1. UNCHANGED <<vars, headers>>
    BY <1>3 DEF PollStart
  <2> QED BY <1>1, <2>1
          DEF ControllerInv, ControllerTypes, HeadersKept, HeadersOfCollector, vars, maps, workers,
              Active, Finished, Workers
<1> QED BY <1>2, <1>3

\* Without a start no other headers are asked for, and a collector goes only when nobody
\* needs it.
LEMMA ControllerKeeps ==
  ASSUME TransportInv, ControllerInv, [NextController]_all
  PROVE  ControllerInv'
<1>1. Finished \subseteq Finished'
  BY TransportStep, FinishedStay
<1>2. ASSUME Active' \subseteq Active, \A id \in Active' : destinations'[id] = destinations[id],
             UNCHANGED <<headers, collector, collectors, description>>
      PROVE  ControllerInv'
  BY <1>1, <1>2, FewerAgree DEF ControllerInv, ControllerTypes, HeadersKept, Workers
<1>3. ASSUME UNCHANGED vars PROVE Active' = Active /\ destinations' = destinations
  BY <1>3 DEF vars, maps, Active
<1>4. ASSUME ~HasTargets', UNCHANGED headers,
             collector' \in 0..collectors', collectors' \in 0..MaxCollectors,
             0..collectors \subseteq 0..collectors', HeadersKept'
      PROVE  ControllerInv'
  BY <1>4 DEF ControllerInv, ControllerTypes, HeadersOfCollector, HasTargets, Workers
<1>5. CASE UNCHANGED all
  BY <1>2, <1>3, <1>5 DEF all, ours, capture
<1>6. CASE \E id \in Ids : StartTarget(id)
  BY <1>6, StartTargetKeeps
<1>7. CASE \E id \in Ids : StartLater(id)
  <2>1. UNCHANGED <<vars, headers, description>> /\ CreateMaster /\ description = 0
    BY <1>7 DEF StartLater, Startable
  <2>2. /\ collector' \in 1..collectors' /\ collectors' \in 0..MaxCollectors
        /\ 0..collectors \subseteq 0..collectors'
        /\ collector # 0 => collector' = collector
    BY <2>1, CreateKeeps DEF ControllerInv
  <2>3. HeadersOfCollector'
    BY <1>1, <1>3, <2>1, <2>2 DEF ControllerInv, HeadersOfCollector
  <2> QED BY <2>1, <2>2, <2>3 DEF ControllerInv, ControllerTypes, HeadersKept, Workers
<1>8. CASE \E id \in Ids : StopTarget(id) \/ RemoveTarget(id)
  BY <1>2, <1>8, OnlyFewer DEF StopTarget, RemoveTarget, capture
<1>9. CASE FrontendEvent \/ PollStops
  <2>1. ~HasTargets'
    <3>1. destinations' = <<>>
      BY <1>9 DEF FrontendEvent, PollStops, StopAll
    <3> QED BY <3>1 DEF HasTargets, Active
  <2>2. UNCHANGED <<headers, collectors>> /\ collector' = 0 /\ description' = 0
    BY <1>9 DEF FrontendEvent, PollStops, StopTargets, DestroyMaster
  <2> QED BY <1>4, <2>1, <2>2, CollectorAssumption DEF ControllerInv, ControllerTypes, HeadersKept
<1>10. CASE CloseTransport
  <2>1. ~HasTargets' /\ UNCHANGED <<headers, collector, collectors, description>>
    BY <1>10 DEF CloseTransport, Close, StopAll, HasTargets, Active, ours, capture
  <2> QED BY <1>4, <2>1 DEF ControllerInv, ControllerTypes, HeadersKept
<1>11. CASE PollStarts
  <2>1. UNCHANGED <<vars, headers, collector, collectors>> /\ description' = Described(collector)
    BY <1>11 DEF PollStarts
  <2>2. HeadersKept'
    BY <2>1 DEF Described, ControllerInv, HeadersKept
  <2>3. HeadersOfCollector'
    BY <1>1, <1>3, <2>1 DEF ControllerInv, HeadersOfCollector
  <2> QED BY <2>1, <2>2, <2>3 DEF ControllerInv, ControllerTypes, Workers
<1>12. CASE \E id \in Ids : PollStart(id)
  BY <1>12, PollStartKeeps
<1>13. CASE Check
  <2>1. UNCHANGED <<vars, headers>> /\ ((DestroyMaster /\ Unneeded) \/ UNCHANGED capture)
    BY <1>13 DEF Check
  <2>2. CASE UNCHANGED capture
    BY <1>2, <1>3, <2>1, <2>2 DEF capture
  <2>3. CASE DestroyMaster /\ Unneeded
    <3>1. ~HasTargets'
      BY <1>1, <1>3, <2>1, <2>3 DEF Unneeded, HasTargets
    <3> QED BY <1>4, <2>1, <2>3, <3>1, CollectorAssumption
            DEF DestroyMaster, ControllerInv, ControllerTypes, HeadersKept
  <2> QED BY <2>1, <2>2, <2>3
<1>14. CASE PollIdle \/ HeadersKnown \/ ReceiveFails \/ StartupTimerElapses
            \/ \E id \in Ids : SaveTarget(id)
  BY <1>2, <1>3, <1>14 DEF PollIdle, HeadersKnown, ReceiveFails, StartupTimerElapses, SaveTarget, capture
<1>15. CASE Beside
  <2>1. UNCHANGED <<headers, collector, collectors, description>>
    BY <1>15 DEF Beside, ours, capture
  <2>2. Active' \subseteq Active /\ \A id \in Active' : destinations'[id] = destinations[id]
    BY <1>15, OnlyFewer DEF Beside
  <2> QED BY <1>2, <2>1, <2>2
<1> QED BY <1>5, <1>6, <1>7, <1>8, <1>9, <1>10, <1>11, <1>12, <1>13, <1>14, <1>15
        DEF NextController, Poll

\* A worker that runs was started with the headers of the collector whose packets it gets.
THEOREM HeadersAgree == SpecController => []HeadersOfCollector
<1>1. InitController => ControllerInv
  <2> SUFFICES ASSUME InitController PROVE ControllerInv
    OBVIOUS
  <2>1. Active = {}
    BY DEF InitController, Init, Active
  <2> QED BY <2>1, CollectorAssumption
          DEF InitController, ControllerInv, ControllerTypes, HeadersKept, HeadersOfCollector
<1>2. TransportInv /\ ControllerInv /\ [NextController]_all => ControllerInv'
  BY ControllerKeeps
<1>3. ControllerInv => HeadersOfCollector
  BY DEF ControllerInv
<1>4. SpecController => []TransportInv
  BY DrivesTransport, TransportAlways, PTL
<1> QED BY <1>1, <1>2, <1>3, <1>4, PTL DEF SpecController

----------------------------------------------------------------------------
(* Who can be stopped.                                                     *)

\* A worker that a target of the list leads to, or that was asked to stop and is kept.
Reachable(w) ==
  \/ \E id \in Active \cap targets : destinations[id] = w
  \/ w \in retired /\ stops[w]

\* A stop is never taken back.
LEMMA StopsStay ==
  ASSUME TransportInv, [Next]_vars, NEW w \in Workers, stops[w]
  PROVE  stops'[w]
<1>1. ASSUME NEW ws, StopWorkers(ws) PROVE stops'[w]
  BY <1>1 DEF StopWorkers
<1>2. CASE UNCHANGED stops
  BY <1>2
<1>3. CASE UNCHANGED vars
  BY <1>2, <1>3 DEF vars, workers
<1>4. CASE \E id \in Ids : StartRefused(id) \/ Start(id) \/ Stop(id)
  BY <1>1, <1>2, <1>4 DEF StartRefused, Start, Stop, workers
<1>5. CASE StopEverything \/ Close
  BY <1>1, <1>5 DEF StopEverything, Close, StopAll
<1>6. CASE Destructor
  BY <1>1, <1>2, <1>6
     DEF Destructor, Shutdown, JoinWatchdog, DestroyWorker, JoinWorker, Closed, workers
<1>7. CASE Watch
  BY <1>2, <1>7 DEF Watch, workers
<1>8. CASE \E v \in Workers : WorkerStep(v)
  BY <1>2, <1>8, WorkerMoves
<1> QED BY <1>3, <1>4, <1>5, <1>6, <1>7, <1>8 DEF Next

\* A stop of one destination loses no worker, even when its target is removed.
LEMMA StopReaches ==
  ASSUME TransportInv, NEW id \in Ids, Stop(id), targets \ {id} \subseteq targets',
         NEW w \in Workers, w \notin Finished, Reachable(w)
  PROVE  Reachable(w)'
<1>1. CASE id \notin Active
  <2>1. UNCHANGED <<destinations, retired, stops>>
    BY <1>1 DEF Stop, workers
  <2> QED BY <1>1, <2>1 DEF Reachable, Active
<1>2. CASE id \in Active
  <2>1. /\ StopWorkers({destinations[id]})
        /\ retired' = (retired \cup {destinations[id]}) \ Finished
        /\ destinations' = Without(destinations, {id})
    BY <1>2 DEF Stop
  <2>2. stops'[w] = (stops[w] \/ w = destinations[id])
    BY <2>1 DEF StopWorkers
  <2>3. Active' = Active \ {id} /\ \A i \in Active' : destinations'[i] = destinations[i]
    BY <2>1 DEF Without, Active
  <2>4. CASE w \in retired /\ stops[w]
    BY <2>1, <2>2, <2>4 DEF Reachable
  <2>5. CASE \E i \in Active \cap targets : destinations[i] = w
    BY <2>1, <2>2, <2>3, <2>5 DEF Reachable
  <2> QED BY <2>4, <2>5 DEF Reachable
<1> QED BY <1>1, <1>2

\* No step of the transport loses a worker that has not finished, as long as the targets stay.
LEMMA ReachableStays ==
  ASSUME TransportInv, [Next]_vars, targets \subseteq targets',
         NEW w \in Workers, w \notin Finished, Reachable(w)
  PROVE  Reachable(w)'
<1>1. stops[w] => stops'[w]
  BY StopsStay
<1>2. ASSUME w \in retired => w \in retired',
             \A i \in Active : destinations[i] = w => i \in Active' /\ destinations'[i] = w
      PROVE  Reachable(w)'
  BY <1>1, <1>2 DEF Reachable
<1>3. CASE UNCHANGED vars
  BY <1>2, <1>3 DEF vars, maps, Active
<1>4. ASSUME destinations' = Without(destinations, FinishedIds), retired' = RetiredAfterRelease
      PROVE  Reachable(w)'
  BY <1>2, <1>4 DEF Without, Active, FinishedIds, RetiredAfterRelease
<1>5. CASE Watch \/ \E id \in Ids : StartRefused(id)
  BY <1>4, <1>5 DEF Watch, StartRefused
<1>6. ASSUME NEW id \in Ids, Start(id) PROVE Reachable(w)'
  <2>1. retired' = RetiredAfterRelease /\ id \notin Active \ FinishedIds
    BY <1>6 DEF Start
  <2>2. \/ destinations' = [i \in (Active \ FinishedIds) \cup {id} |->
                              IF i = id THEN created' ELSE destinations[i]]
        \/ destinations' = Without(destinations, FinishedIds)
    BY <1>6 DEF Start, StartFails
  <2> QED BY <1>2, <1>4, <2>1, <2>2 DEF Active, FinishedIds, RetiredAfterRelease
<1>7. CASE \E id \in Ids : Stop(id)
  BY <1>7, StopReaches
<1>8. CASE StopEverything \/ Close
  <2>1. /\ StopWorkers({destinations[id] : id \in Active})
        /\ retired' = Held \ Finished
    BY <1>8 DEF StopEverything, Close, StopAll
  <2>2. stops'[w] = (stops[w] \/ w \in {destinations[id] : id \in Active})
    BY <2>1 DEF StopWorkers
  <2> QED BY <2>1, <2>2 DEF Reachable, Held
<1>9. CASE Destructor
  BY <1>2, <1>9
     DEF Destructor, Shutdown, JoinWatchdog, DestroyWorker, JoinWorker, Closed, maps, Active
<1>10. CASE \E v \in Workers : WorkerStep(v)
  BY <1>2, <1>10, WorkerMoves DEF Active
<1> QED BY <1>3, <1>5, <1>6, <1>7, <1>8, <1>9, <1>10 DEF Next

\* Only start_target and poll create a worker, for a target of the list.
LEMMA CreatedReachable ==
  ASSUME TransportInv, [NextController]_all, created' # created, NEW w, w = created'
  PROVE  w = created + 1 /\ Reachable(w)'
<1>1. ASSUME NEW id \in Ids, NEW g, Starts(id, g), id \in targets'
      PROVE  w = created + 1 /\ Reachable(w)'
  <2>1. /\ created' = created + 1
        /\ destinations' = [i \in (Active \ FinishedIds) \cup {id} |->
                              IF i = id THEN created' ELSE destinations[i]]
    BY <1>1 DEF Starts, Start, StartRefused
  <2>2. id \in Active' /\ destinations'[id] = w
    BY <2>1 DEF Active
  <2> QED BY <1>1, <2>1, <2>2 DEF Reachable
<1>2. ASSUME NEW id \in Ids, StartTarget(id) PROVE w = created + 1 /\ Reachable(w)'
  BY <1>1, <1>2 DEF StartTarget, Startable
<1>3. ASSUME NEW id \in Ids, PollStart(id) PROVE w = created + 1 /\ Reachable(w)'
  BY <1>1, <1>3 DEF PollStart, vars, maps
<1>4. ~(UNCHANGED all)
  BY DEF all, vars, maps
<1>5. ASSUME NEW id \in Ids
      PROVE  ~StartLater(id) /\ ~StopTarget(id) /\ ~SaveTarget(id) /\ ~RemoveTarget(id)
  BY DEF StartLater, StopTarget, SaveTarget, RemoveTarget, Stop, vars, maps
<1>6. ~FrontendEvent /\ ~PollStops /\ ~CloseTransport
  BY DEF FrontendEvent, PollStops, CloseTransport, Close, StopAll
<1>7. /\ ~PollStarts /\ ~PollIdle /\ ~Check
      /\ ~HeadersKnown /\ ~ReceiveFails /\ ~StartupTimerElapses
  BY DEF PollStarts, PollIdle, Check, HeadersKnown, ReceiveFails, StartupTimerElapses, vars, maps
<1>8. ~Beside
  BY WorkerMoves
     DEF Beside, Watch, Destructor, Shutdown, JoinWatchdog, DestroyWorker, JoinWorker, Closed, maps
<1> QED BY <1>2, <1>3, <1>4, <1>5, <1>6, <1>7, <1>8 DEF NextController, Poll

\* Targets leave the list only as they are removed, and that stops their workers.
LEMMA TargetsStay ==
  ASSUME [NextController]_all
  PROVE  targets \subseteq targets' \/ \E id \in Ids : Stop(id) /\ targets' = targets \ {id}
<1>1. CASE UNCHANGED all
  BY <1>1 DEF all, ours, asked
<1>2. CASE \E id \in Ids : \/ StartTarget(id) \/ StartLater(id) \/ StopTarget(id)
                           \/ SaveTarget(id) \/ RemoveTarget(id)
  BY <1>2 DEF StartTarget, StartLater, StopTarget, SaveTarget, RemoveTarget
<1>3. CASE FrontendEvent \/ PollStops
  BY <1>3 DEF FrontendEvent, PollStops, StopTargets
<1>4. CASE CloseTransport \/ Beside
  BY <1>4 DEF CloseTransport, Beside, ours, asked
<1>5. CASE \/ \E id \in Ids : PollStart(id)
           \/ PollStarts \/ PollIdle \/ Check \/ HeadersKnown \/ ReceiveFails \/ StartupTimerElapses
  BY <1>5 DEF PollStart, PollStarts, PollIdle, Check, HeadersKnown, ReceiveFails,
              StartupTimerElapses, asked
<1> QED BY <1>1, <1>2, <1>3, <1>4, <1>5 DEF NextController, Poll

\* Whatever is started, stopped, removed and answered late, every worker that has not
\* finished can be stopped through its target, or was asked to stop and is kept: start_target,
\* stop_target, remove_target and stop_all (multistream-controller.cpp:235-345) leave nobody
\* streaming whom the list of targets does not show.
THEOREM NobodyLeftStreaming == SpecController => []NobodyStreamsOn
<1>1. InitController => NobodyStreamsOn
  BY DEF InitController, Init, NobodyStreamsOn
<1>2. TransportInv /\ TransportInv' /\ NobodyStreamsOn /\ [NextController]_all => NobodyStreamsOn'
  <2> SUFFICES ASSUME TransportInv, TransportInv', NobodyStreamsOn, [NextController]_all,
                      NEW w \in (1..created') \ Finished'
               PROVE  Reachable(w)'
    BY DEF NobodyStreamsOn, Reachable
  <2>1. [Next]_vars /\ Finished \subseteq Finished'
    BY TransportStep, FinishedStay
  <2>2. created \in Nat /\ created' \in 0..MaxStarts
    BY TransportAssumption DEF TransportInv, TransportTypes
  <2>3. CASE w \in 1..created
    <3>1. Reachable(w)
      BY <2>1, <2>3 DEF NobodyStreamsOn, Reachable
    <3>2. w \in Workers
      BY <2>2, TransportAssumption DEF Workers
    <3>3. w \notin Finished
      BY <2>1
    <3> QED BY <2>1, <3>1, <3>2, <3>3, TargetsStay, ReachableStays, StopReaches
  <2>4. CASE w \notin 1..created
    <3>1. created' # created
      BY <2>4
    <3>2. created' = created + 1
      BY <3>1, CreatedReachable
    <3>3. w = created'
      BY <2>2, <2>4, <3>2
    <3> QED BY <3>1, <3>3, CreatedReachable
  <2> QED BY <2>3, <2>4
<1>3. SpecController => []TransportInv
  BY DrivesTransport, TransportAlways, PTL
<1> QED BY <1>1, <1>2, <1>3, PTL DEF SpecController

=============================================================================
