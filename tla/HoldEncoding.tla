---------------------------- MODULE HoldEncoding ----------------------------
(***************************************************************************)
(* The hold encoders of src/src/hold-pipeline.cpp, shared by the sessions  *)
(* whose outputs have the same encoders, and the sessions' side of them:   *)
(* start, stop, and src/src/output-session.cpp: sync_pause_state.          *)
(*                                                                         *)
(* One frontend thread starts, maintains and destroys the sessions.  Every *)
(* encoding has a collector with a thread of its own, which delivers each  *)
(* packet to all subscribers: it holds subscribersMutex_ throughout, and   *)
(* the mutex of the session it is in.  What a session does with packets is *)
(* OutputSession's; here a packet may make it ask for the cleanup.         *)
(***************************************************************************)
EXTENDS Integers, FiniteSets

CONSTANTS
  Sessions,
  Layouts,        \* the primary encoders of an output, all tracks together
  MaxEncodings,   \* bound: encodings that are created
  MaxPauses       \* bound: pauses and resumptions of the primary encoders

VARIABLES
  layout,         \* of each session's output
  \* SharedHoldEncoding, by the order in which they were made
  encoded,        \* the layouts they are made for
  status,         \* of the collector: "none", "new", "active", "dead" or "gone"
  subscribers,    \* subscribers_
  held,           \* its pause state
  shared,         \* history: it had several subscribers at once
  \* the thread of a collector
  left, inside,   \* the sessions it has still to visit; {the one it is in}
  \* OutputSession
  pipeline,       \* the encoding of holdPipeline_, or 0
  live,           \* state_ is Bypass or Error
  cleanup,        \* cleanupHoldRequested_
  requested,      \* pauseSyncRequested_
  holdPaused,     \* holdPaused_ if holdPauseStateKnown_: a set of at most one BOOLEAN
  gone,           \* the sessions that are destroyed
  \* the frontend thread
  op, at, who,    \* its method, the step it is at, and the session
  taken,          \* the encoding it lets go, or 0
  read,           \* sync_pause_state: paused
  \* the primary encoders
  paused, pauses

encodings == <<encoded, status, subscribers, held, shared>>
threads == <<left, inside>>
sessions == <<pipeline, live, cleanup, requested, holdPaused, gone>>
frontend == <<op, at, who, taken, read>>
primary == <<layout, paused, pauses>>
vars == <<encodings, threads, sessions, frontend, primary>>

Encodings == 1..MaxEncodings

\* What the frontend thread does while it holds a session's mutex: it joins nobody.
Locked_WhileStopping_Bug == {"stop"}
Locked == {}

MutexFree(s) ==
  /\ \A c \in Encodings : s \notin inside[c]
  /\ ~(who = s /\ at \in Locked)

\* The weak pointer of encodings_ is expired.
Expired(c) == c # taken /\ \A s \in Sessions : pipeline[s] # c

\* Nobody in particular: who means nothing while op is idle.
Somebody == CHOOSE s \in Sessions : TRUE

Goto(step) == at' = step
Return == op' = "idle" /\ at' = "idle" /\ who' = Somebody /\ read' = FALSE
Continue == UNCHANGED <<op, who, read>>

----------------------------------------------------------------------------
(* The thread of a collector.                                              *)

\* receive, as long as it holds subscribersMutex_. Without subscribers it does nothing.
Delivering(c) == left[c] \cup inside[c] # {}

Deliver(c) ==
  /\ status[c] = "active" /\ ~Delivering(c)
  /\ left' = [left EXCEPT ![c] = subscribers[c]]
  /\ UNCHANGED <<inside, encodings, sessions, frontend, primary>>

Enter(c, s) ==
  /\ s \in left[c] /\ inside[c] = {}
  /\ MutexFree(s)
  /\ inside' = [inside EXCEPT ![c] = {s}]
  /\ left' = [left EXCEPT ![c] = @ \ {s}]
  /\ UNCHANGED <<encodings, sessions, frontend, primary>>

\* receive_hold_packet returns; what it may have changed is HoldUnneeded.
Leave(c, s) ==
  /\ s \in inside[c]
  /\ inside' = [inside EXCEPT ![c] = {}]
  /\ UNCHANGED <<left, encodings, sessions, frontend, primary>>

Collector(c) == \E s \in Sessions : Enter(c, s) \/ Leave(c, s)

\* The collector's output or an encoder of it fails.
Fails(c) ==
  /\ status[c] = "active"
  /\ status' = [status EXCEPT ![c] = "dead"]
  /\ held' = [held EXCEPT ![c] = FALSE]
  /\ shared' = [shared EXCEPT ![c] = FALSE]
  /\ UNCHANGED <<encoded, subscribers, threads, sessions, frontend, primary>>

----------------------------------------------------------------------------
(* The session, from other threads than the frontend's.                    *)

\* The delay is full, or over: the hold encoder is not needed any more.
HoldUnneeded(s) ==
  /\ s \notin gone /\ ~live[s] /\ MutexFree(s)
  /\ live' \in {live, [live EXCEPT ![s] = TRUE]}
  /\ cleanup' = [cleanup EXCEPT ![s] = TRUE]
  /\ UNCHANGED <<encodings, threads, pipeline, requested, holdPaused, gone, frontend, primary>>

\* The output of s is paused, or goes on: so do its encoders, and pause_signal.
Pause(s) ==
  /\ s \notin gone /\ pauses < MaxPauses
  /\ paused' = [paused EXCEPT ![layout[s]] = ~@]
  /\ pauses' = pauses + 1
  /\ requested' = [requested EXCEPT ![s] = TRUE]
  /\ UNCHANGED <<layout, encodings, threads, pipeline, live, cleanup, holdPaused, gone, frontend>>

----------------------------------------------------------------------------
(* The methods of the frontend thread.                                     *)

Begin(s, method, step) ==
  /\ op = "idle" /\ s \notin gone
  /\ op' = method /\ who' = s /\ at' = step

\* The pipeline is taken out of the session s.
TakePipeline(s) ==
  /\ taken' = pipeline[s]
  /\ pipeline' = [pipeline EXCEPT ![s] = 0]

\* request_delay
RequestDelay(s) ==
  /\ live[s] /\ status[MaxEncodings] = "none"
  /\ MutexFree(s)
  /\ Begin(s, "delay", "stop")
  /\ TakePipeline(s)
  /\ UNCHANGED <<encodings, threads, live, cleanup, requested, holdPaused, gone, read, primary>>

\* ~OutputSession, which takes no mutex
Destroy(s) ==
  /\ Begin(s, "destroy", "stop")
  /\ TakePipeline(s)
  /\ UNCHANGED <<encodings, threads, live, cleanup, requested, holdPaused, gone, read, primary>>

\* maintenance
Maintenance(s) ==
  /\ Begin(s, "maintenance", "sync")
  /\ UNCHANGED <<encodings, threads, sessions, taken, read, primary>>

CleanUp ==
  /\ at = "clean" /\ cleanup[who] /\ MutexFree(who)
  /\ TakePipeline(who)
  /\ cleanup' = [cleanup EXCEPT ![who] = FALSE]
  /\ holdPaused' = [holdPaused EXCEPT ![who] = {}]
  /\ Goto("stop") /\ Continue
  /\ UNCHANGED <<encodings, threads, live, requested, gone, primary>>

NothingToClean ==
  /\ at = "clean" /\ ~cleanup[who] /\ MutexFree(who)
  /\ Return
  /\ UNCHANGED <<encodings, threads, sessions, taken, primary>>

Unsubscribable_NoWait_Bug(c) == TRUE

\* unsubscribe waits for the delivery in progress.
Unsubscribable(c) == c # 0 => ~Delivering(c)

\* HoldPipeline::stop: unsubscribe, and encoding_.reset, which destroys the encoding
\* if it was the last; nothing is delivered any more then.
StopPipeline ==
  /\ at = "stop" /\ Unsubscribable(taken)
  /\ subscribers' = [c \in Encodings |-> subscribers[c] \ {s \in {who} : c = taken}]
  /\ LET last == {c \in Encodings \cap {taken} : \A s \in Sessions : pipeline[s] # c}
     IN  /\ status' = [c \in Encodings |-> IF c \in last THEN "gone" ELSE status[c]]
         /\ held' = [c \in Encodings |-> c \notin last /\ held[c]]
         /\ shared' = [c \in Encodings |-> c \notin last /\ shared[c]]
  /\ taken' = 0
  /\ gone' = IF op = "destroy" THEN gone \cup {who} ELSE gone
  /\ CASE op = "delay" -> Goto("publish") /\ Continue
       [] op = "failed" -> Goto("error") /\ Continue
       [] OTHER -> Return
  /\ UNCHANGED <<encoded, threads, pipeline, live, cleanup, requested, holdPaused, primary>>

Forgotten_Kept_Bug(s) == holdPaused[s]

\* What a new generation knows of the pause state of its collector
Forgotten(s) == {}

\* request_delay publishes the new generation.
Publish ==
  /\ at = "publish" /\ MutexFree(who)
  /\ live' = [live EXCEPT ![who] = FALSE]
  /\ cleanup' = [cleanup EXCEPT ![who] = FALSE]
  /\ holdPaused' = [holdPaused EXCEPT ![who] = Forgotten(who)]
  /\ Goto("acquire")
  /\ UNCHANGED <<encodings, threads, pipeline, requested, gone, op, who, taken, read, primary>>

Matches(c) == status[c] \in {"new", "active"} /\ encoded[c] = layout[who]

\* acquire_encoding: one in use that matches, or a new one
Acquired ==
  LET matching == {c \in Encodings : ~Expired(c) /\ Matches(c)}
  IN  IF matching # {} THEN matching
      ELSE {c \in Encodings : status[c] = "none" /\ \A d \in 1..(c - 1) : status[d] # "none"}

\* HoldPipeline::start: acquire_encoding and subscribe
Acquire ==
  /\ at = "acquire"
  /\ \E c \in Acquired :
       /\ ~Delivering(c)
       /\ pipeline' = [pipeline EXCEPT ![who] = c]
       /\ encoded' = [encoded EXCEPT ![c] = layout[who]]
       /\ status' = [status EXCEPT ![c] = IF @ = "none" THEN "new" ELSE @]
       /\ subscribers' = [subscribers EXCEPT ![c] = @ \cup {who}]
       /\ shared' = [shared EXCEPT ![c] = @ \/ subscribers[c] # {}]
  /\ Goto("start")
  /\ Continue
  /\ UNCHANGED <<held, threads, live, cleanup, requested, holdPaused, gone, taken, primary>>

\* SharedHoldEncoding::start
Start ==
  /\ at = "start"
  /\ LET c == pipeline[who]
     IN  /\ status[c] \in {"new", "active"}
         /\ status' = [status EXCEPT ![c] = "active"]
  /\ Goto("sync")
  /\ Continue
  /\ UNCHANGED <<encoded, subscribers, held, shared, threads, sessions, taken, primary>>

\* It fails, or the encoding has failed meanwhile: HoldPipeline::stop, and an error.
StartFails ==
  /\ at = "start" /\ status[pipeline[who]] \in {"new", "dead"}
  /\ TakePipeline(who)
  /\ op' = "failed" /\ Goto("stop")
  /\ UNCHANGED <<encodings, threads, live, cleanup, requested, holdPaused, gone, who, read,
                 primary>>

StartError ==
  /\ at = "error" /\ MutexFree(who)
  /\ live' = [live EXCEPT ![who] = TRUE]
  /\ cleanup' = [cleanup EXCEPT ![who] = TRUE]
  /\ Return
  /\ UNCHANGED <<encodings, threads, pipeline, requested, holdPaused, gone, taken, primary>>

\* sync_pause_state
ReadPaused ==
  /\ at = "sync"
  /\ read' = paused[layout[who]]
  /\ Goto("decide")
  /\ UNCHANGED <<encodings, threads, sessions, op, who, taken, primary>>

AfterSync == IF op = "maintenance" THEN Goto("clean") /\ Continue ELSE Return

Wanted_OnSignal_Bug == requested[who]

\* The collector has to be told.
Wanted == requested[who] \/ holdPaused[who] # {read}

Decide ==
  /\ at = "decide" /\ MutexFree(who)
  /\ requested' = [requested EXCEPT ![who] = FALSE]
  /\ IF pipeline[who] # 0 /\ Wanted THEN Goto("apply") /\ Continue ELSE AfterSync
  /\ UNCHANGED <<encodings, threads, pipeline, live, cleanup, holdPaused, gone, taken, primary>>

\* set_paused: libobs may refuse, as long as an earlier change is under way, or when
\* nothing changes.
PauseHold ==
  /\ at = "apply" /\ status[pipeline[who]] = "active" /\ MutexFree(who)
  /\ held' = [held EXCEPT ![pipeline[who]] = read]
  /\ holdPaused' = [holdPaused EXCEPT ![who] = {read}]
  /\ AfterSync
  /\ UNCHANGED <<encoded, status, subscribers, shared, threads, pipeline, live, cleanup, requested,
                 gone, taken, primary>>

PauseRefused ==
  /\ at = "apply"
  /\ AfterSync
  /\ UNCHANGED <<encodings, threads, sessions, taken, primary>>

Goes == \/ CleanUp \/ NothingToClean \/ StopPipeline
        \/ Publish \/ Acquire \/ Start \/ StartFails \/ StartError
        \/ ReadPaused \/ Decide \/ PauseHold \/ PauseRefused

----------------------------------------------------------------------------
\* The outputs are paused: a new collector has to be told, and with one more change
\* told again that they go on.
Init ==
  /\ layout \in [Sessions -> Layouts]
  /\ encoded \in [Encodings -> {CHOOSE l \in Layouts : TRUE}]
  /\ status = [c \in Encodings |-> "none"]
  /\ subscribers = [c \in Encodings |-> {}]
  /\ held = [c \in Encodings |-> FALSE]
  /\ shared = [c \in Encodings |-> FALSE]
  /\ left = [c \in Encodings |-> {}] /\ inside = [c \in Encodings |-> {}]
  /\ pipeline = [s \in Sessions |-> 0]
  /\ live = [s \in Sessions |-> TRUE] /\ cleanup = [s \in Sessions |-> FALSE]
  /\ requested = [s \in Sessions |-> FALSE] /\ holdPaused = [s \in Sessions |-> {}]
  /\ gone = {}
  /\ op = "idle" /\ at = "idle" /\ who = Somebody /\ taken = 0 /\ read = FALSE
  /\ paused = [l \in Layouts |-> TRUE] /\ pauses = 0

Next ==
  \/ \E s \in Sessions : \/ RequestDelay(s) \/ Maintenance(s) \/ Destroy(s)
                         \/ HoldUnneeded(s) \/ Pause(s)
  \/ \E c \in Encodings : Deliver(c) \/ Collector(c) \/ Fails(c)
  \/ Goes

\* A delivery goes on unless it is blocked; so does a method of the frontend thread,
\* and packets are rare enough for it to get each mutex that is free between them.  The
\* timer calls maintenance of every session again and again, and libobs does not
\* refuse a change for ever.
Fairness ==
  /\ SF_vars(Goes)
  /\ SF_vars(PauseHold /\ held' # held)
  /\ \A s \in Sessions : SF_vars(Maintenance(s))
  /\ \A c \in Encodings : WF_vars(Collector(c))

Spec == Init /\ [][Next]_vars /\ Fairness

----------------------------------------------------------------------------
(* Properties.                                                             *)

\* A session may be destroyed as soon as unsubscribe has returned: no collector is in
\* a session that is not subscribed any more, and none runs without its encoding.
NoLateDelivery ==
  \A c \in Encodings :
    /\ inside[c] \cup left[c] \subseteq subscribers[c] \ gone
    /\ status[c] = "gone" => ~Delivering(c)

\* unsubscribe waits for a delivery that may wait for the session, and the last
\* release for the collector: every method returns all the same.
MethodsReturn == []<>(op = "idle")

\* A collector of one session is paused when the primary encoders are, whatever changes
\* or is refused while the session starts, fails and starts again.
PauseAgrees(s) ==
  LET c == pipeline[s]
  IN  c # 0 => status[c] # "active" \/ shared[c] \/ held[c] = paused[layout[s]]

PauseFollows == []<>(\A s \in Sessions : PauseAgrees(s))
=============================================================================
