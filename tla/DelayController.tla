--------------------------- MODULE DelayController --------------------------
(***************************************************************************)
(* The delay of all outputs: src/src/delay-controller.cpp.                 *)
(*                                                                         *)
(* Every function here runs on the frontend thread, one after another, but *)
(* between two of its steps packets move the sessions and libobs stops and *)
(* reconnects the outputs.  A function is therefore cut where it reads or  *)
(* changes a session or an output's flags; poll is Poll, TakeRearmRequests *)
(* and Scan, and a start is SelectHub and, for each output, Check, Prepare *)
(* and Start.  A session is what SessionSteps says.                        *)
(*                                                                         *)
(* Abstraction: "media" is the selected scene with the audio configuration *)
(* of its hub; a hub is its media and an identity, and it lives as long as *)
(* activeMediaHub_, the running start or a hold pipeline refers to it.     *)
(* What the audio preflight finds is left out, but for creating a hub that *)
(* may fail.                                                               *)
(***************************************************************************)
EXTENDS SessionSteps, Integers, FiniteSets

CONSTANTS
  Outputs,        \* the outputs that may be attached
  Managed,        \* those of the multistream dock; they do not reconnect
  Seconds,        \* the durations a user may choose
  Media,          \* the scenes, each with an audio configuration
  MaxChanges,     \* bound: what the user does
  MaxTroubles,    \* bound: reconnections, scenes that are removed, failures
  MaxStarts       \* bound: starts of outputs

ASSUME ControllerAssumption ==
  /\ Managed \subseteq Outputs
  /\ Seconds # {} /\ Media # {}
  /\ {MaxChanges, MaxTroubles, MaxStarts} \subseteq Nat

VARIABLES
  requestedActive, rearmPending, reconnectPending, settings,
  hub,             \* activeMediaHub_, NoHub if null
  attached,        \* the keys of sessions_
  sessions,        \* its values
  hubOf,           \* the hub that the session's hold pipeline refers to
  secondsOf,       \* targetSeconds_ of a session
  controllerError, \* controllerError_ is not empty
  outputErrors,    \* the outputs with an entry in outputErrors_
  frontend,        \* what the frontend thread is in the middle of
  link,            \* libobs: what each output does
  scenes,          \* the media whose scene exists
  spent            \* uses of the bounds

settingVars == <<requestedActive, rearmPending, reconnectPending, settings, controllerError>>
sessionVars == <<attached, sessions, hubOf, secondsOf, outputErrors>>
libobsVars  == <<link, scenes>>
vars == <<settingVars, hub, sessionVars, frontend, libobsVars, spent>>

NoHub == [id |-> 0]
NoOutput == "no output"

Phase(pc, todo) == [pc |-> pc, todo |-> todo, ready |-> {}, now |-> NoOutput, hub |-> NoHub]

Idle == Phase("idle", {})

----------------------------------------------------------------------------
(* Helpers.                                                                *)

\* obs_output_active && !obs_output_reconnecting; the flag is cleared only
\* after the activate signal.
Deliverable(o) == link[o] = "active"

Captures(o) == link[o] \in {"active", "activated"}

\* use_count() > 1, asked while no start holds a hub
HubUsed == hub # NoHub /\ \E o \in Outputs : hubOf[o] = hub

Hubs == {hub, frontend.hub} \cup {hubOf[o] : o \in Outputs}

\* HoldMediaHub::create
FreshHub ==
  [id |-> CHOOSE i \in 1..(Cardinality(Outputs) + 2) : \A h \in Hubs : h.id # i,
   media |-> settings.media]

\* What a request for bypass of every session leaves.
AllBypassed == [o \in Outputs |-> IF o \in attached THEN Bypassed(sessions[o]) ELSE sessions[o]]

\* request_rearm
RequestRearm ==
  IF requestedActive
  THEN /\ rearmPending' = TRUE
       /\ reconnectPending' = {}
       /\ sessions' = AllBypassed
  ELSE UNCHANGED <<rearmPending, reconnectPending, sessions>>

\* The frontend thread begins to start the delay on these outputs ...
Starting(todo) == Phase("hub", todo)

\* ... and ends, unless poll has found more.
EndStart ==
  IF frontend.ready = {} THEN frontend' = Idle
  ELSE \E o \in frontend.ready :
         frontend' = [Starting({o}) EXCEPT !.ready = frontend.ready \ {o}]

UserActs ==
  /\ frontend.pc = "idle"
  /\ spent.changes < MaxChanges
  /\ spent' = [spent EXCEPT !.changes = @ + 1]

Trouble == spent.troubles < MaxTroubles /\ spent' = [spent EXCEPT !.troubles = @ + 1]

----------------------------------------------------------------------------
(* poll, every 100 ms.                                                     *)

Poll_NoMaintenance_Bug ==
  /\ frontend.pc = "idle"
  /\ frontend' = [frontend EXCEPT !.pc = "take"]
  /\ UNCHANGED <<settingVars, hub, sessionVars, libobsVars, spent>>

\* The sessions' maintenance.
Poll ==
  /\ frontend.pc = "idle"
  /\ frontend' = [frontend EXCEPT !.pc = "take"]
  /\ sessions' = [o \in Outputs |-> Maintained(sessions[o])]
  /\ hubOf' = [o \in Outputs |-> IF sessions[o].cleanup THEN NoHub ELSE hubOf[o]]
  /\ UNCHANGED <<settingVars, hub, attached, secondsOf, outputErrors, libobsVars, spent>>

\* take_rearm_request of every session; a pending rearm swallows it.
TakeRearmRequests ==
  /\ frontend.pc = "take"
  /\ frontend' = [frontend EXCEPT !.pc = "scan"]
  /\ sessions' = [o \in Outputs |-> RearmTaken(sessions[o])]
  /\ reconnectPending' = IF requestedActive /\ ~rearmPending
                         THEN reconnectPending \cup {o \in attached : sessions[o].rearm}
                         ELSE reconnectPending
  /\ UNCHANGED <<requestedActive, rearmPending, settings, controllerError, hub, attached, hubOf,
                 secondsOf, outputErrors, libobsVars, spent>>

AllLive == \A o \in attached : sessions[o].state \in LiveStates

\* The rest of poll: the reconnected outputs that can be started, a rearm for
\* which every session is live again, and a hub that nobody uses.
Scan ==
  LET kept    == IF requestedActive THEN reconnectPending \cap attached ELSE {}
      ready   == {o \in kept : ~rearmPending /\ sessions[o].state \in LiveStates
                                /\ link[o] \notin {"reconnecting", "activated"}}
      rearms  == rearmPending /\ AllLive
  IN  /\ frontend.pc = "scan"
      /\ reconnectPending' = kept \ ready
      /\ rearmPending' = (rearmPending /\ ~rearms)
      /\ hub' = IF HubUsed THEN hub ELSE NoHub
      /\ IF rearms THEN frontend' = Starting(attached)
         ELSE IF ready = {} THEN frontend' = Idle
         ELSE \E o \in ready : frontend' = [Starting({o}) EXCEPT !.ready = ready \ {o}]
      /\ UNCHANGED <<requestedActive, settings, controllerError, sessionVars, libobsVars, spent>>

----------------------------------------------------------------------------
(* start_delay_on_sessions and start_delay_on_output: one action for each   *)
(* way in which the hub is selected, then a loop over the outputs.  The     *)
(* former also clears controllerError_, which is empty whenever the delay   *)
(* is requested.                                                            *)

StartNeeded == requestedActive /\ ~rearmPending /\ frontend.todo # {}

SceneExists == settings.media \in scenes

StartNothing ==
  /\ frontend.pc = "hub" /\ ~StartNeeded
  /\ EndStart
  /\ UNCHANGED <<settingVars, hub, sessionVars, libobsVars, spent>>

\* No scene, or HoldMediaHub::create fails with every audio mode.
GiveUp ==
  /\ requestedActive' = FALSE
  /\ controllerError' = TRUE
  /\ EndStart
  /\ UNCHANGED <<rearmPending, reconnectPending, settings, sessionVars, libobsVars>>

SceneMissing ==
  /\ frontend.pc = "hub" /\ StartNeeded /\ ~SceneExists
  /\ GiveUp
  /\ UNCHANGED <<hub, spent>>

HubFails ==
  /\ frontend.pc = "hub" /\ StartNeeded /\ SceneExists
  /\ ~HubUsed
  /\ Trouble
  /\ GiveUp
  /\ hub' = NoHub

MatchesHub == hub.media = settings.media

ReuseHub ==
  /\ frontend.pc = "hub" /\ StartNeeded /\ SceneExists
  /\ HubUsed /\ MatchesHub
  /\ frontend' = [frontend EXCEPT !.pc = "check", !.hub = hub]
  /\ UNCHANGED <<settingVars, hub, sessionVars, libobsVars, spent>>

\* A session has not yet let go of a hub for other media: everything returns to
\* live once more.
RebuildHub ==
  /\ frontend.pc = "hub" /\ StartNeeded /\ SceneExists
  /\ HubUsed /\ ~MatchesHub
  /\ rearmPending' = TRUE
  /\ reconnectPending' = {}
  /\ sessions' = AllBypassed
  /\ EndStart
  /\ UNCHANGED <<requestedActive, settings, controllerError, hub, attached, hubOf, secondsOf,
                 outputErrors, libobsVars, spent>>

CreateHub_WhileUsed_Bug ==
  /\ frontend.pc = "hub" /\ StartNeeded /\ SceneExists
  /\ HubUsed => ~MatchesHub
  /\ hub' = FreshHub
  /\ frontend' = [frontend EXCEPT !.pc = "check", !.hub = FreshHub]
  /\ UNCHANGED <<settingVars, sessionVars, libobsVars, spent>>

CreateHub ==
  /\ frontend.pc = "hub" /\ StartNeeded /\ SceneExists
  /\ ~HubUsed
  /\ hub' = FreshHub
  /\ frontend' = [frontend EXCEPT !.pc = "check", !.hub = FreshHub]
  /\ UNCHANGED <<settingVars, sessionVars, libobsVars, spent>>

\* The next output of the loop: one that is on air and live is asked for the delay.
Check ==
  /\ frontend.pc = "check" /\ frontend.todo # {}
  /\ \E o \in frontend.todo :
       frontend' = IF o \in attached /\ Deliverable(o) /\ sessions[o].state \in LiveStates
                   THEN [frontend EXCEPT !.pc = "prepare", !.todo = @ \ {o}, !.now = o]
                   ELSE [frontend EXCEPT !.todo = @ \ {o}]
  /\ UNCHANGED <<settingVars, hub, sessionVars, libobsVars, spent>>

CheckEnds ==
  /\ frontend.pc = "check" /\ frontend.todo = {}
  /\ EndStart
  /\ UNCHANGED <<settingVars, hub, sessionVars, libobsVars, spent>>

\* request_delay: refused (supported(), for one), or the new generation is
\* published and the old collector is gone.
Refuse ==
  /\ frontend.pc = "prepare"
  /\ Trouble
  /\ frontend' = [frontend EXCEPT !.pc = "check", !.now = NoOutput]
  /\ outputErrors' = outputErrors \cup {frontend.now}
  /\ UNCHANGED <<settingVars, hub, attached, sessions, hubOf, secondsOf, libobsVars>>

Prepare ==
  LET o == frontend.now
  IN  /\ frontend.pc = "prepare"
      /\ frontend' = [frontend EXCEPT !.pc = "start"]
      /\ sessions' = [sessions EXCEPT ![o] = Prepared(Released(@))]
      /\ hubOf' = [hubOf EXCEPT ![o] = NoHub]
      /\ secondsOf' = [secondsOf EXCEPT ![o] = settings.seconds]
      /\ UNCHANGED <<settingVars, hub, attached, outputErrors, libobsVars, spent>>

\* ... and HoldPipeline::start.
Start ==
  LET o == frontend.now
  IN  /\ frontend.pc = "start"
      /\ frontend' = [frontend EXCEPT !.pc = "check", !.now = NoOutput]
      /\ sessions' = [sessions EXCEPT ![o] = Started(@)]
      /\ hubOf' = [hubOf EXCEPT ![o] = frontend.hub]
      /\ outputErrors' = outputErrors \ {o}
      /\ UNCHANGED <<settingVars, hub, attached, secondsOf, libobsVars, spent>>

StartFails ==
  LET o == frontend.now
  IN  /\ frontend.pc = "start"
      /\ Trouble
      /\ frontend' = [frontend EXCEPT !.pc = "check", !.now = NoOutput]
      /\ sessions' = [sessions EXCEPT ![o] = StartFailed(@)]
      /\ outputErrors' = outputErrors \cup {o}
      /\ UNCHANGED <<settingVars, hub, attached, hubOf, secondsOf, libobsVars>>

----------------------------------------------------------------------------
(* What the user does.                                                     *)

ToggleOff_NoBypass_Bug ==
  /\ UserActs /\ requestedActive
  /\ requestedActive' = FALSE
  /\ rearmPending' = FALSE
  /\ reconnectPending' = {}
  /\ UNCHANGED <<settings, controllerError, hub, sessionVars, frontend, libobsVars>>

ToggleOff ==
  /\ UserActs /\ requestedActive
  /\ requestedActive' = FALSE
  /\ rearmPending' = FALSE
  /\ reconnectPending' = {}
  /\ sessions' = AllBypassed
  /\ UNCHANGED <<settings, controllerError, hub, attached, hubOf, secondsOf, outputErrors,
                 frontend, libobsVars>>

ToggleOn ==
  /\ UserActs /\ ~requestedActive
  /\ requestedActive' = TRUE
  /\ controllerError' = FALSE
  /\ rearmPending' = ~AllLive
  /\ frontend' = IF AllLive THEN Starting(attached) ELSE Idle
  /\ UNCHANGED <<reconnectPending, settings, hub, sessionVars, libobsVars>>

SetDelaySeconds_NoRearm_Bug(seconds) ==
  /\ UserActs
  /\ settings' = [settings EXCEPT !.seconds = seconds]
  /\ UNCHANGED <<requestedActive, rearmPending, reconnectPending, controllerError, hub, sessionVars, frontend, libobsVars>>

SetDelaySeconds(seconds) ==
  /\ UserActs
  /\ settings' = [settings EXCEPT !.seconds = seconds]
  /\ RequestRearm
  /\ UNCHANGED <<requestedActive, controllerError, hub, attached, hubOf, secondsOf,
                 outputErrors, frontend, libobsVars>>

\* set_hold_scene, and likewise the mode, the source and the track of its audio.
SetHoldScene(media) ==
  /\ UserActs
  /\ media \in scenes
  /\ settings' = [settings EXCEPT !.media = media]
  /\ RequestRearm
  /\ UNCHANGED <<requestedActive, controllerError, hub, attached, hubOf, secondsOf,
                 outputErrors, frontend, libobsVars>>

\* refresh_scenes: the selected scene has gone, another is selected.
RefreshScenes ==
  /\ frontend.pc = "idle"
  /\ ~SceneExists
  /\ \E media \in scenes : settings' = [settings EXCEPT !.media = media]
  /\ RequestRearm
  /\ UNCHANGED <<requestedActive, controllerError, hub, attached, hubOf, secondsOf,
                 outputErrors, frontend, libobsVars, spent>>

----------------------------------------------------------------------------
(* The outputs: what the frontend announces, and what libobs does.         *)

Without(o) ==
  /\ attached' = attached \ {o}
  /\ sessions' = [sessions EXCEPT ![o] = NewSession]
  /\ hubOf' = [hubOf EXCEPT ![o] = NoHub]
  /\ secondsOf' = [secondsOf EXCEPT ![o] = 0]
  /\ outputErrors' = outputErrors \ {o}
  /\ reconnectPending' = reconnectPending \ {o}

\* STREAMING_STARTED, RECORDING_STARTED.  Until they are handled the output passes
\* untouched, as it does from then on until it is asked for a delay.
AddOutput(o) ==
  /\ o \notin Managed \cup attached \cup outputErrors /\ link[o] = "stopped"
  /\ frontend.pc = "idle"
  /\ spent.starts < MaxStarts
  /\ link' = [link EXCEPT ![o] = "active"]
  /\ \/ /\ attached' = attached \cup {o}
        /\ spent' = [spent EXCEPT !.starts = @ + 1]
        /\ UNCHANGED outputErrors
     \/ /\ spent.troubles < MaxTroubles
        /\ outputErrors' = outputErrors \cup {o}
        /\ spent' = [spent EXCEPT !.starts = @ + 1, !.troubles = @ + 1]
        /\ UNCHANGED attached
  /\ frontend' = IF requestedActive /\ ~rearmPending THEN Starting(attached') ELSE Idle
  /\ UNCHANGED <<settingVars, hub, sessions, hubOf, secondsOf, scenes>>

OutputStops(o) ==
  /\ o \notin Managed /\ link[o] # "stopped"
  /\ link' = [link EXCEPT ![o] = "stopped"]
  /\ UNCHANGED <<settingVars, hub, sessionVars, frontend, scenes, spent>>

\* STREAMING_STOPPED, RECORDING_STOPPED, some time after the output has.
RemoveOutput(o) ==
  /\ frontend.pc = "idle"
  /\ o \in (attached \cup outputErrors) \ Managed /\ link[o] = "stopped"
  /\ Without(o)
  /\ UNCHANGED <<requestedActive, rearmPending, settings, controllerError, hub, frontend, link,
                 scenes, spent>>

\* create_master: add_managed_output, obs_output_start, managed_output_started
AddManaged(o) ==
  /\ o \in Managed /\ link[o] = "stopped"
  /\ frontend.pc = "idle"
  /\ spent.starts < MaxStarts
  /\ spent' = [spent EXCEPT !.starts = @ + 1]
  /\ link' = [link EXCEPT ![o] = "active"]
  /\ attached' = attached \cup {o}
  /\ outputErrors' = outputErrors \ {o}
  /\ frontend' = IF requestedActive /\ ~rearmPending THEN Starting({o}) ELSE Idle
  /\ UNCHANGED <<settingVars, hub, sessions, hubOf, secondsOf, scenes>>

\* destroy_master: obs_output_force_stop, remove_managed_output
RemoveManaged(o) ==
  /\ o \in Managed /\ link[o] # "stopped"
  /\ frontend.pc = "idle"
  /\ link' = [link EXCEPT ![o] = "stopped"]
  /\ Without(o)
  /\ UNCHANGED <<requestedActive, rearmPending, settings, controllerError, hub, frontend, scenes, spent>>

\* A packet moves a session; without carriers only the hold encoder's do.
PacketLeadsTo(o, states) ==
  /\ o \in attached
  /\ \E state \in states, failing \in BOOLEAN, cleanup \in BOOLEAN :
       LET s == sessions[o]
           t == [s EXCEPT !.state = state, !.failing = failing, !.cleanup = cleanup]
       IN  /\ t # s
           /\ Advanced(s, t) \/ Strained(s, t)
           /\ Captures(o) \/ (s.holds /\ s.state = "Preparing" /\ state = "Error")
           /\ sessions' = [sessions EXCEPT ![o] = t]
  /\ UNCHANGED <<settingVars, hub, attached, hubOf, secondsOf, outputErrors, frontend,
                 libobsVars, spent>>

PacketArrives(o) == PacketLeadsTo(o, DelayStates)

\* A live keyframe ends the return.
KeyframeArrives(o) == sessions[o].state = "ReturningLive" /\ PacketLeadsTo(o, LiveStates)

Signalled(o, s) == IF o \in attached THEN [sessions EXCEPT ![o] = s] ELSE sessions

\* The connection is lost: data capture ends and reconnect is signalled.
Reconnect(o) ==
  /\ o \notin Managed /\ Deliverable(o)
  /\ Trouble
  /\ link' = [link EXCEPT ![o] = "reconnecting"]
  /\ sessions' = Signalled(o, Reconnecting(sessions[o]))
  /\ UNCHANGED <<settingVars, hub, attached, hubOf, secondsOf, outputErrors, frontend, scenes>>

\* obs_output_begin_data_capture: activate is signalled ...
Activate(o) ==
  /\ link[o] = "reconnecting"
  /\ link' = [link EXCEPT ![o] = "activated"]
  /\ sessions' = Signalled(o, Reactivated(sessions[o]))
  /\ UNCHANGED <<settingVars, hub, attached, hubOf, secondsOf, outputErrors, frontend, scenes, spent>>

\* ... and only then is the output no longer reconnecting.
Reconnected(o) ==
  /\ link[o] = "activated"
  /\ link' = [link EXCEPT ![o] = "active"]
  /\ UNCHANGED <<settingVars, hub, sessionVars, frontend, scenes, spent>>

\* Another part of OBS removes the selected scene, though not the last one.
SceneRemoved ==
  /\ SceneExists /\ Cardinality(scenes) > 1
  /\ Trouble
  /\ scenes' = scenes \ {settings.media}
  /\ UNCHANGED <<settingVars, hub, sessionVars, frontend, link>>

----------------------------------------------------------------------------
Init ==
  /\ requestedActive = FALSE /\ rearmPending = FALSE /\ reconnectPending = {}
  /\ settings = CHOOSE loaded \in [seconds : Seconds, media : Media] : TRUE
  /\ hub = NoHub
  /\ attached = {}
  /\ sessions = [o \in Outputs |-> NewSession]
  /\ hubOf = [o \in Outputs |-> NoHub]
  /\ secondsOf = [o \in Outputs |-> 0]
  /\ controllerError = FALSE /\ outputErrors = {}
  /\ frontend = Idle
  /\ link = [o \in Outputs |-> "stopped"]
  /\ scenes = Media
  /\ spent = [changes |-> 0, troubles |-> 0, starts |-> 0]

PollSteps == Poll \/ TakeRearmRequests \/ Scan

StartSteps ==
  \/ StartNothing \/ SceneMissing \/ HubFails \/ ReuseHub \/ RebuildHub \/ CreateHub
  \/ Check \/ CheckEnds \/ Refuse \/ Prepare \/ Start \/ StartFails

UserSteps ==
  \/ ToggleOff \/ ToggleOn
  \/ \E seconds \in Seconds : SetDelaySeconds(seconds)
  \/ \E media \in Media : SetHoldScene(media)

OutputSteps(o) ==
  \/ AddOutput(o) \/ RemoveOutput(o) \/ OutputStops(o)
  \/ AddManaged(o) \/ RemoveManaged(o)
  \/ PacketArrives(o) \/ Reconnect(o) \/ Activate(o) \/ Reconnected(o)

Next ==
  \/ PollSteps \/ StartSteps \/ UserSteps
  \/ RefreshScenes \/ SceneRemoved
  \/ \E o \in Outputs : OutputSteps(o)

\* The poll timer and the functions go on, the frontend handles its events in
\* turn, outputs that capture get keyframes, and libobs, which limits its
\* attempts, does not reconnect for ever.
Fairness ==
  /\ WF_vars(PollSteps \/ StartSteps)
  /\ \A o \in Outputs : WF_vars(KeyframeArrives(o))
  /\ \A o \in Outputs \ Managed :
       SF_vars(RemoveOutput(o)) /\ WF_vars(Activate(o) \/ Reconnected(o))

Spec == Init /\ [][Next]_vars

FairSpec == Spec /\ Fairness

----------------------------------------------------------------------------
(* Properties.                                                             *)

\* The scene of the hold is in libobs's render tree at most once: all sessions,
\* a start in progress and the controller refer to one and the same hub.
OneHub == \A g, h \in Hubs \ {NoHub} : g = h

\* A delay that is requested, and not about to be rearmed, has on every output the
\* duration chosen last, and is prepared from the scene chosen last.
LatestSettings ==
  (requestedActive /\ ~rearmPending) =>
    \A o \in attached : sessions[o].state \in WithDelay =>
      /\ secondsOf[o] = settings.seconds
      /\ hubOf[o] # NoHub => hubOf[o].media = settings.media

\* No output keeps a delay that is not requested, unless an error was shown.
OffMeansLeaving ==
  (~requestedActive /\ ~controllerError) => \A o \in attached : sessions[o].state \notin WithDelay

Rearmable == \A o \in attached : sessions[o].state \notin WithDelay

\* Once no session is in a delay, a rearm ends with a hub for the new settings, the
\* user's change of mind or an error, whatever stops or reconnects: a hub that is still
\* in use puts it off, but not for ever.  A session that still prepares, fills or is
\* delayed, as after an error and another toggle, is not asked to return by poll; of a
\* rearm that waits for such a session nothing is said.
RearmCompletes ==
  (rearmPending /\ Rearmable) ~> (~rearmPending /\ frontend.pc # "hub")

\* After a reconnection the delay that is requested is prepared again, unless the
\* output is lost once more or an error says why not.
Reconnects(o) == o \in attached /\ requestedActive /\ sessions[o].rearm

RearmedOrExcused(o) ==
  \/ sessions[o].state # "Bypass"
  \/ ~requestedActive \/ o \in outputErrors
  \/ o \notin attached \/ link[o] \in {"stopped", "reconnecting"}

RearmsAfterReconnection == \A o \in Outputs : Reconnects(o) ~> RearmedOrExcused(o)

============================================================================
