------------------------ MODULE DelayControllerProofs -----------------------
(***************************************************************************)
(* One hub, the latest settings and no delay that is not requested, for    *)
(* any outputs, settings and bounds.                                       *)
(*                                                                         *)
(* The inductive invariant says what a start in progress may rely on: that *)
(* the delay is still requested and not about to be rearmed, and that its  *)
(* hub is the controller's and has the media selected last.                *)
(***************************************************************************)
EXTENDS DelayController, TLAPS

Shape ==
  /\ attached \subseteq Outputs
  /\ sessions \in [Outputs -> Session]
  /\ hubOf = [o \in Outputs |-> hubOf[o]]
  /\ secondsOf = [o \in Outputs |-> secondsOf[o]]
  /\ settings = [seconds |-> settings.seconds, media |-> settings.media]
  /\ frontend = [pc |-> frontend.pc, todo |-> frontend.todo, ready |-> frontend.ready,
                 now |-> frontend.now, hub |-> frontend.hub]

HubsAgree == \A o \in Outputs : hubOf[o] \in {NoHub, hub}

StartPhases == {"check", "prepare", "start"}

StartReliesOn ==
  IF frontend.pc \in StartPhases
  THEN /\ requestedActive /\ ~rearmPending
       /\ frontend.hub = hub
       /\ hub.media = settings.media
       /\ frontend.pc = "prepare" => frontend.now \in attached
  ELSE frontend.hub = NoHub

DetachedIsLive == \A o \in Outputs \ attached : sessions[o].state \notin WithDelay

ControllerInv ==
  Shape /\ HubsAgree /\ StartReliesOn /\ DetachedIsLive /\ LatestSettings /\ OffMeansLeaving

----------------------------------------------------------------------------
(* The steps of a session.                                                 *)

NoDelayFrom(s, t) == t \in Session /\ (t.state \in WithDelay => s.state \in WithDelay)

\* Bypass, maintenance and the signals never put a session in a delay ...
LEMMA SessionOperations ==
  ASSUME NEW s \in Session
  PROVE  /\ Bypassed(s) \in Session /\ Bypassed(s).state \notin WithDelay
         /\ NoDelayFrom(s, Bypassed(s)) /\ NoDelayFrom(s, Maintained(s))
         /\ NoDelayFrom(s, Reconnecting(s)) /\ NoDelayFrom(s, Reactivated(s))
         /\ NoDelayFrom(s, RearmTaken(s))
BY DEF Session, Bypassed, NoDelayFrom, Maintained, Reconnecting, Reactivated, RearmTaken,
       WithDelay, DelayStates

\* ... nor does a start that fails, or one that was prepared.
LEMMA SessionStarts ==
  ASSUME NEW s \in Session
  PROVE  /\ Prepared(Released(s)) \in Session
         /\ NoDelayFrom(s, Started(s)) /\ NoDelayFrom(s, StartFailed(s))
BY DEF Session, Prepared, Released, Started, StartFailed, NoDelayFrom, WithDelay, DelayStates

\* A packet moves a session along its delay, never into one.
LEMMA SessionPackets ==
  ASSUME NEW s \in Session,
         NEW state \in DelayStates, NEW failing \in BOOLEAN, NEW cleanup \in BOOLEAN,
         NEW t, t = [s EXCEPT !.state = state, !.failing = failing, !.cleanup = cleanup],
         Advanced(s, t) \/ Strained(s, t)
  PROVE  NoDelayFrom(s, t)
<1>2. t \in Session
  BY DEF Session
<1>3. CASE Advanced(s, t)
  <2>1. <<s.state, t.state>> \in PacketMoves
    BY <1>3 DEF Advanced
  <2>2. t.state \in WithDelay => s.state \in WithDelay
    BY <2>1 DEF PacketMoves, WithDelay
  <2>. QED
    BY <1>2, <2>2 DEF NoDelayFrom
<1>4. CASE Strained(s, t)
  <2>1. t.state = "ReturningLive"
    BY <1>4 DEF Strained, Session
  <2>. QED
    BY <1>2, <2>1 DEF NoDelayFrom, WithDelay
<1>. QED
  BY <1>3, <1>4

\* So bypassing every session leaves no attached one in a delay.
LEMMA AllBypassedType ==
  ASSUME Shape
  PROVE  /\ AllBypassed \in [Outputs -> Session]
         /\ \A o \in attached : AllBypassed[o].state \notin WithDelay
         /\ \A o \in Outputs : NoDelayFrom(sessions[o], AllBypassed[o])
BY SessionOperations DEF Shape, AllBypassed, NoDelayFrom

----------------------------------------------------------------------------
(* What most steps have in common.                                         *)

\* Unless a session enters a delay or a setting changes, what is said of the
\* sessions stays true.
LEMMA FewerDelays ==
  ASSUME LatestSettings, OffMeansLeaving, DetachedIsLive, Shape,
         requestedActive' = requestedActive, controllerError' = controllerError,
         rearmPending' = rearmPending, settings' = settings,
         attached' \subseteq Outputs,
         \A o \in Outputs : sessions'[o].state \in WithDelay =>
           /\ sessions[o].state \in WithDelay
           /\ secondsOf'[o] = secondsOf[o]
           /\ hubOf'[o] \in {NoHub, hubOf[o]}
  PROVE  LatestSettings' /\ OffMeansLeaving'
BY DEF LatestSettings, OffMeansLeaving, DetachedIsLive, Shape

\* When no session is in a delay there is nothing to say.
LEMMA NoDelays ==
  ASSUME \A o \in attached' : sessions'[o].state \notin WithDelay
  PROVE  LatestSettings' /\ OffMeansLeaving'
BY DEF LatestSettings, OffMeansLeaving

Between(f) ==
  /\ f.pc \notin StartPhases
  /\ f.hub = NoHub
  /\ f = [pc |-> f.pc, todo |-> f.todo, ready |-> f.ready, now |-> f.now, hub |-> f.hub]

\* The frontend thread when it is idle or begins a start ...
LEMMA StartingShape ==
  ASSUME NEW todo, NEW ready
  PROVE  Between(Idle) /\ Between(Starting(todo)) /\ Between([Starting(todo) EXCEPT !.ready = ready])
BY DEF Between, Starting, Idle, Phase, StartPhases

\* ... and when it has ended one.
LEMMA EndStartShape ==
  ASSUME EndStart
  PROVE  Between(frontend')
<1>1. CASE frontend.ready = {}
  BY <1>1, StartingShape DEF EndStart
<1>2. CASE frontend.ready # {}
  <2>1. PICK o \in frontend.ready :
          frontend' = [Starting({o}) EXCEPT !.ready = frontend.ready \ {o}]
    BY <1>2 DEF EndStart
  <2>. QED
    BY <2>1, StartingShape
<1>. QED
  BY <1>1, <1>2

----------------------------------------------------------------------------
(* The invariant is inductive.                                             *)

\* The initial state: no hub, no session, an idle frontend.
LEMMA InitInv == Init => ControllerInv
<1>. SUFFICES ASSUME Init PROVE ControllerInv
  OBVIOUS
<1>1. Between(frontend)
  BY StartingShape DEF Init
<1>2. Shape
  <2>1. settings \in [seconds : Seconds, media : Media]
    <3>1. PICK a \in Seconds, b \in Media : TRUE
      BY ControllerAssumption
    <3>2. [seconds |-> a, media |-> b] \in [seconds : Seconds, media : Media]
      BY <3>1
    <3>3. (CHOOSE loaded \in [seconds : Seconds, media : Media] : TRUE)
            \in [seconds : Seconds, media : Media]
      BY <3>2, Zenon
    <3>. QED
      BY <3>3 DEF Init
  <2>2. NewSession \in Session
    BY DEF NewSession, Session, DelayStates
  <2>. QED
    BY <1>1, <2>1, <2>2 DEF Init, Shape, Between
<1>3. HubsAgree
  BY DEF Init, HubsAgree
<1>4. StartReliesOn
  BY <1>1 DEF StartReliesOn, Between
<1>5. DetachedIsLive
  BY DEF Init, DetachedIsLive, NewSession, WithDelay
<1>6. LatestSettings /\ OffMeansLeaving
  BY DEF Init, LatestSettings, OffMeansLeaving
<1>. QED
  BY <1>2, <1>3, <1>4, <1>5, <1>6 DEF ControllerInv

\* Steps of the sessions and of libobs: no delay begins, and nothing else changes.
LEMMA SessionsMove ==
  ASSUME ControllerInv,
         UNCHANGED <<requestedActive, rearmPending, settings, controllerError, hub, attached,
                     hubOf, secondsOf, frontend>>,
         sessions' \in [Outputs -> Session],
         \A o \in Outputs : NoDelayFrom(sessions[o], sessions'[o])
  PROVE  ControllerInv'
<1>1. Shape'
  BY DEF ControllerInv, Shape
<1>2. HubsAgree' /\ StartReliesOn'
  BY DEF ControllerInv, HubsAgree, StartReliesOn
<1>3. DetachedIsLive'
  BY DEF ControllerInv, DetachedIsLive, NoDelayFrom
<1>4. LatestSettings' /\ OffMeansLeaving'
  <2>1. \A o \in Outputs : sessions'[o].state \in WithDelay =>
          sessions[o].state \in WithDelay /\ secondsOf'[o] = secondsOf[o] /\ hubOf'[o] \in {NoHub, hubOf[o]}
    BY DEF NoDelayFrom
  <2>2. attached' \subseteq Outputs
    BY <1>1 DEF Shape
  <2>. QED
    BY <2>1, <2>2, FewerDelays DEF ControllerInv
<1>. QED
  BY <1>1, <1>2, <1>3, <1>4 DEF ControllerInv

\* One session moves.
LEMMA OneSession ==
  ASSUME Shape, NEW o \in Outputs, NEW t, NoDelayFrom(sessions[o], t),
         sessions' = [sessions EXCEPT ![o] = t]
  PROVE  /\ sessions' \in [Outputs -> Session]
         /\ \A p \in Outputs : NoDelayFrom(sessions[p], sessions'[p])
BY DEF Shape, NoDelayFrom

\* The packets.
LEMMA PacketInv ==
  ASSUME ControllerInv, NEW o \in Outputs, PacketArrives(o)
  PROVE  ControllerInv'
<1>1. PICK state \in DelayStates, failing \in BOOLEAN, cleanup \in BOOLEAN :
        LET s == sessions[o]
            t == [s EXCEPT !.state = state, !.failing = failing, !.cleanup = cleanup]
        IN  /\ Advanced(s, t) \/ Strained(s, t)
            /\ sessions' = [sessions EXCEPT ![o] = t]
  BY DEF PacketArrives, PacketLeadsTo
<1>. DEFINE t == [sessions[o] EXCEPT !.state = state, !.failing = failing, !.cleanup = cleanup]
<1>2. sessions[o] \in Session
  BY DEF ControllerInv, Shape
<1>3. NoDelayFrom(sessions[o], t)
  BY <1>1, <1>2, SessionPackets
<1>. HIDE DEF t
<1>4. sessions' = [sessions EXCEPT ![o] = t]
  BY <1>1 DEF t
<1>. QED
  BY <1>3, <1>4, OneSession, SessionsMove
  DEF PacketArrives, PacketLeadsTo, ControllerInv, settingVars

\* What libobs does to an output's link and its session.
LEMMA LinkInv ==
  ASSUME ControllerInv, NEW o \in Outputs,
         OutputStops(o) \/ Reconnect(o) \/ Activate(o) \/ Reconnected(o) \/ SceneRemoved
  PROVE  ControllerInv'
<1>1. sessions[o] \in Session /\ Shape
  BY DEF ControllerInv, Shape
<1>2. \A p \in Outputs : NoDelayFrom(sessions[p], sessions[p])
  BY <1>1 DEF Shape, NoDelayFrom
<1>3. CASE OutputStops(o) \/ Reconnected(o) \/ SceneRemoved
  BY <1>1, <1>2, <1>3, SessionsMove
  DEF OutputStops, Reconnected, SceneRemoved, settingVars, sessionVars, Shape
<1>4. ASSUME NEW s \in {Reconnecting(sessions[o]), Reactivated(sessions[o])},
             sessions' = Signalled(o, s)
      PROVE  /\ sessions' \in [Outputs -> Session]
             /\ \A p \in Outputs : NoDelayFrom(sessions[p], sessions'[p])
  <2>1. NoDelayFrom(sessions[o], s)
    BY <1>1, <1>4, SessionOperations
  <2>2. CASE o \in attached
    BY <1>1, <1>4, <2>1, <2>2, OneSession DEF Signalled
  <2>3. CASE o \notin attached
    BY <1>1, <1>2, <1>4, <2>3 DEF Signalled, Shape
  <2>. QED
    BY <2>2, <2>3
<1>5. CASE Reconnect(o)
  BY <1>4, <1>5, SessionsMove DEF Reconnect, settingVars
<1>6. CASE Activate(o)
  BY <1>4, <1>6, SessionsMove DEF Activate, settingVars
<1>. QED
  BY <1>3, <1>5, <1>6

\* Every session is asked for bypass, between two starts.
LEMMA BypassInv ==
  ASSUME ControllerInv, Between(frontend'),
         sessions' = AllBypassed,
         UNCHANGED <<hub, attached, hubOf, secondsOf>>,
         settings' = [seconds |-> settings'.seconds, media |-> settings'.media]
  PROVE  ControllerInv'
<1>1. /\ sessions' \in [Outputs -> Session]
      /\ \A o \in attached' : sessions'[o].state \notin WithDelay
      /\ \A o \in Outputs : NoDelayFrom(sessions[o], sessions'[o])
  BY AllBypassedType DEF ControllerInv
<1>2. Shape'
  BY <1>1 DEF ControllerInv, Shape, Between
<1>3. HubsAgree' /\ StartReliesOn'
  BY DEF ControllerInv, HubsAgree, StartReliesOn, Between
<1>4. DetachedIsLive'
  BY <1>1 DEF ControllerInv, DetachedIsLive, NoDelayFrom
<1>5. LatestSettings' /\ OffMeansLeaving'
  BY <1>1, NoDelays
<1>. QED
  BY <1>2, <1>3, <1>4, <1>5 DEF ControllerInv

\* A setting changes: what is requested is rearmed.
LEMMA RequestRearmInv ==
  ASSUME ControllerInv, Between(frontend'), RequestRearm,
         UNCHANGED <<requestedActive, controllerError, hub, attached, hubOf, secondsOf>>,
         settings' = [seconds |-> settings'.seconds, media |-> settings'.media]
  PROVE  ControllerInv'
<1>1. CASE requestedActive
  BY <1>1, BypassInv DEF RequestRearm
<1>2. CASE ~requestedActive
  <2>1. UNCHANGED <<rearmPending, sessions>>
    BY <1>2 DEF RequestRearm
  <2>2. Shape' /\ HubsAgree' /\ StartReliesOn' /\ DetachedIsLive'
    BY <2>1 DEF ControllerInv, Shape, HubsAgree, StartReliesOn, DetachedIsLive, Between
  <2>3. LatestSettings' /\ OffMeansLeaving'
    BY <1>2, <2>1 DEF ControllerInv, LatestSettings, OffMeansLeaving
  <2>. QED
    BY <2>2, <2>3 DEF ControllerInv
<1>. QED
  BY <1>1, <1>2

\* Whoever acts while the frontend thread is idle finds it between two starts.
LEMMA IdleIsBetween ==
  ASSUME ControllerInv, frontend.pc \notin StartPhases
  PROVE  /\ Between(frontend)
         /\ \A pc : pc \notin StartPhases => Between([frontend EXCEPT !.pc = pc])
BY DEF ControllerInv, Shape, StartReliesOn, Between

\* What the user does, and the scene that is selected in place of one that has gone.
LEMMA UserInv ==
  ASSUME ControllerInv, UserSteps \/ RefreshScenes
  PROVE  ControllerInv'
<1>1. frontend.pc = "idle" /\ Between(frontend)
  BY IdleIsBetween DEF UserSteps, RefreshScenes, ToggleOff, ToggleOn, SetDelaySeconds,
     SetHoldScene, UserActs, StartPhases
<1>2. settings = [seconds |-> settings.seconds, media |-> settings.media]
  BY DEF ControllerInv, Shape
<1>3. CASE ToggleOff
  BY <1>1, <1>2, <1>3, BypassInv DEF ToggleOff
<1>4. ASSUME NEW seconds, SetDelaySeconds(seconds)
      PROVE  ControllerInv'
  <2>1. settings' = [seconds |-> settings'.seconds, media |-> settings'.media]
    BY <1>2, <1>4 DEF SetDelaySeconds
  <2>. QED
    BY <1>1, <1>4, <2>1, RequestRearmInv DEF SetDelaySeconds
<1>5. ASSUME NEW media, settings' = [settings EXCEPT !.media = media], RequestRearm,
             UNCHANGED <<requestedActive, controllerError, hub, attached, hubOf, secondsOf, frontend>>
      PROVE  ControllerInv'
  <2>1. settings' = [seconds |-> settings'.seconds, media |-> settings'.media]
    BY <1>2, <1>5
  <2>. QED
    BY <1>1, <1>5, <2>1, RequestRearmInv
<1>6. CASE ToggleOn
  <2>1. Between(frontend')
    BY <1>6, StartingShape DEF ToggleOn
  <2>2. Shape' /\ HubsAgree' /\ StartReliesOn' /\ DetachedIsLive'
    BY <1>6, <2>1
    DEF ControllerInv, ToggleOn, sessionVars, Shape, HubsAgree, StartReliesOn, DetachedIsLive, Between
  <2>3. requestedActive' /\ (~rearmPending' => \A o \in attached' : sessions'[o].state \notin WithDelay)
    BY <1>6 DEF ToggleOn, AllLive, LiveStates, WithDelay, sessionVars
  <2>4. LatestSettings' /\ OffMeansLeaving'
    BY <2>3 DEF LatestSettings, OffMeansLeaving
  <2>. QED
    BY <2>2, <2>4 DEF ControllerInv
<1>7. CASE RefreshScenes
  <2>1. PICK media \in scenes : settings' = [settings EXCEPT !.media = media]
    BY <1>7 DEF RefreshScenes
  <2>. QED
    BY <1>5, <1>7, <2>1 DEF RefreshScenes
<1>8. ASSUME NEW media, SetHoldScene(media)
      PROVE  ControllerInv'
  BY <1>5, <1>8 DEF SetHoldScene
<1>. QED
  BY <1>3, <1>4, <1>6, <1>7, <1>8 DEF UserSteps

\* poll: maintenance and the rearm requests change no state of a session, and a
\* hub is dropped only when no session refers to it.
LEMMA PollInv ==
  ASSUME ControllerInv, PollSteps
  PROVE  ControllerInv'
<1>1. frontend.pc \notin StartPhases /\ Between(frontend)
  BY IdleIsBetween DEF PollSteps, Poll, TakeRearmRequests, Scan, StartPhases
<1>2. Shape /\ \A o \in Outputs : sessions[o] \in Session
  BY DEF ControllerInv, Shape
<1>3. CASE Poll
  <2>1. Between(frontend')
    BY <1>1, <1>3, IdleIsBetween DEF Poll, StartPhases
  <2>2. /\ sessions' \in [Outputs -> Session]
        /\ \A o \in Outputs : NoDelayFrom(sessions[o], sessions'[o])
    BY <1>2, <1>3, SessionOperations DEF Poll, NoDelayFrom
  <2>3. \A o \in Outputs : hubOf'[o] \in {NoHub, hubOf[o]}
    BY <1>3 DEF Poll
  <2>4. Shape'
    BY <1>3, <2>1, <2>2 DEF Poll, settingVars, ControllerInv, Shape, Between
  <2>5. HubsAgree' /\ StartReliesOn'
    BY <1>3, <2>1, <2>3 DEF Poll, ControllerInv, HubsAgree, StartReliesOn, Between
  <2>6. DetachedIsLive'
    BY <1>3, <2>2 DEF Poll, ControllerInv, DetachedIsLive, NoDelayFrom
  <2>7. LatestSettings' /\ OffMeansLeaving'
    BY <1>3, <2>2, <2>3, <2>4, FewerDelays
    DEF Poll, settingVars, ControllerInv, NoDelayFrom, Shape
  <2>. QED
    BY <2>4, <2>5, <2>6, <2>7 DEF ControllerInv
<1>4. CASE TakeRearmRequests
  <2>1. Between(frontend')
    BY <1>1, <1>4, IdleIsBetween DEF TakeRearmRequests, StartPhases
  <2>2. /\ sessions' \in [Outputs -> Session]
        /\ \A o \in Outputs : NoDelayFrom(sessions[o], sessions'[o])
    BY <1>2, <1>4, SessionOperations DEF TakeRearmRequests, NoDelayFrom
  <2>3. Shape' /\ HubsAgree' /\ StartReliesOn'
    BY <1>4, <2>1, <2>2
    DEF TakeRearmRequests, ControllerInv, Shape, Between, HubsAgree, StartReliesOn
  <2>4. DetachedIsLive'
    BY <1>4, <2>2 DEF TakeRearmRequests, ControllerInv, DetachedIsLive, NoDelayFrom
  <2>5. LatestSettings' /\ OffMeansLeaving'
    BY <1>4, <2>2, <2>3, FewerDelays DEF TakeRearmRequests, ControllerInv, NoDelayFrom, Shape
  <2>. QED
    BY <2>3, <2>4, <2>5 DEF ControllerInv
<1>5. CASE Scan
  <2>1. Between(frontend')
    <3>1. \/ frontend' = Idle
          \/ frontend' = Starting(attached)
          \/ \E o, ready : frontend' = [Starting({o}) EXCEPT !.ready = ready]
      BY <1>5 DEF Scan
    <3>. QED
      BY <3>1, StartingShape
  <2>2. /\ UNCHANGED <<requestedActive, settings, controllerError, sessionVars>>
        /\ hub' = IF HubUsed THEN hub ELSE NoHub
        /\ rearmPending' = (rearmPending /\ ~(rearmPending /\ AllLive))
    BY <1>5 DEF Scan
  <2>3. HubsAgree'
    BY <2>2 DEF ControllerInv, HubsAgree, HubUsed, sessionVars
  <2>4. Shape' /\ StartReliesOn' /\ DetachedIsLive'
    BY <2>1, <2>2 DEF ControllerInv, Shape, StartReliesOn, DetachedIsLive, Between, sessionVars
  <2>5. CASE AllLive
    <3>1. \A o \in attached' : sessions'[o].state \notin WithDelay
      BY <2>2, <2>5 DEF AllLive, LiveStates, WithDelay, sessionVars
    <3>. QED
      BY <2>3, <2>4, <3>1, NoDelays DEF ControllerInv
  <2>6. CASE ~AllLive
    <3>1. rearmPending' <=> rearmPending
      BY <2>2, <2>6
    <3>2. LatestSettings' /\ OffMeansLeaving'
      BY <2>2, <3>1 DEF ControllerInv, LatestSettings, OffMeansLeaving, sessionVars
    <3>. QED
      BY <2>3, <2>4, <3>2 DEF ControllerInv
  <2>. QED
    BY <2>5, <2>6
<1>. QED
  BY <1>3, <1>4, <1>5 DEF PollSteps

\* Outputs that are attached are live, and those that are detached are forgotten.
LEMMA OutputInv ==
  ASSUME ControllerInv, NEW o \in Outputs,
         AddOutput(o) \/ AddManaged(o) \/ RemoveOutput(o) \/ RemoveManaged(o)
  PROVE  ControllerInv'
<1>1. frontend.pc = "idle" /\ Between(frontend)
  BY IdleIsBetween DEF AddOutput, AddManaged, RemoveOutput, RemoveManaged, StartPhases
<1>2. CASE AddOutput(o) \/ AddManaged(o)
  <2>1. /\ UNCHANGED <<settingVars, hub, sessions, hubOf, secondsOf>>
        /\ attached' \subseteq attached \cup {o}
        /\ attached \subseteq attached'
        /\ frontend' = Idle \/ \E todo : frontend' = Starting(todo)
    BY <1>2 DEF AddOutput, AddManaged
  <2>2. Between(frontend')
    BY <2>1, StartingShape
  <2>3. attached' \subseteq Outputs
    BY <2>1 DEF ControllerInv, Shape
  <2>4. Shape' /\ HubsAgree' /\ StartReliesOn' /\ DetachedIsLive'
    BY <2>1, <2>2, <2>3
    DEF ControllerInv, Shape, HubsAgree, StartReliesOn, DetachedIsLive, Between, settingVars
  <2>5. LatestSettings' /\ OffMeansLeaving'
    BY <2>1, <2>3, FewerDelays DEF ControllerInv, settingVars
  <2>. QED
    BY <2>4, <2>5 DEF ControllerInv
<1>3. CASE RemoveOutput(o) \/ RemoveManaged(o)
  <2>1. /\ UNCHANGED <<requestedActive, rearmPending, settings, controllerError, hub, frontend>>
        /\ Without(o)
    BY <1>3 DEF RemoveOutput, RemoveManaged
  <2>2. NewSession \in Session /\ NewSession.state \notin WithDelay
    BY DEF NewSession, Session, DelayStates, WithDelay
  <2>3. attached' \subseteq Outputs /\ attached' = attached \ {o}
    BY <2>1 DEF Without, ControllerInv, Shape
  <2>4. Shape'
    BY <2>1, <2>2, <2>3 DEF Without, ControllerInv, Shape
  <2>5. HubsAgree' /\ StartReliesOn'
    <3>1. HubsAgree'
      BY <2>1 DEF Without, ControllerInv, Shape, HubsAgree
    <3>2. StartReliesOn'
      BY <1>1, <2>1 DEF StartReliesOn, StartPhases, Between
    <3>. QED
      BY <3>1, <3>2
  <2>6. \A p \in Outputs : p # o => /\ sessions'[p] = sessions[p]
                                    /\ hubOf'[p] = hubOf[p]
                                    /\ secondsOf'[p] = secondsOf[p]
    BY <2>1 DEF Without, ControllerInv, Shape
  <2>7. sessions'[o].state \notin WithDelay
    BY <2>1, <2>2 DEF Without, ControllerInv, Shape
  <2>8. DetachedIsLive'
    BY <2>3, <2>6, <2>7 DEF ControllerInv, DetachedIsLive
  <2>9. LatestSettings' /\ OffMeansLeaving'
    BY <2>1, <2>3, <2>6, <2>7, FewerDelays DEF ControllerInv
  <2>. QED
    BY <2>4, <2>5, <2>8, <2>9 DEF ControllerInv
<1>. QED
  BY <1>2, <1>3

\* A start ends, before or after its loop: poll may have found more outputs.
LEMMA StartEndsInv ==
  ASSUME ControllerInv,
         StartNothing \/ SceneMissing \/ HubFails \/ RebuildHub \/ CheckEnds
  PROVE  ControllerInv'
<1>1. Between(frontend')
  BY EndStartShape DEF StartNothing, SceneMissing, HubFails, GiveUp, RebuildHub, CheckEnds
<1>2. CASE StartNothing \/ CheckEnds
  <2>1. UNCHANGED <<settingVars, hub, sessionVars>>
    BY <1>2 DEF StartNothing, CheckEnds
  <2>2. Shape' /\ HubsAgree' /\ StartReliesOn' /\ DetachedIsLive'
    BY <1>1, <2>1
    DEF ControllerInv, Shape, HubsAgree, StartReliesOn, DetachedIsLive, Between, settingVars, sessionVars
  <2>3. LatestSettings' /\ OffMeansLeaving'
    BY <2>1 DEF ControllerInv, LatestSettings, OffMeansLeaving, settingVars, sessionVars
  <2>. QED
    BY <2>2, <2>3 DEF ControllerInv
<1>3. CASE SceneMissing \/ HubFails
  <2>1. UNCHANGED <<settings, sessionVars>> /\ ~requestedActive' /\ controllerError'
    BY <1>3 DEF SceneMissing, HubFails, GiveUp
  <2>2. hub' = hub \/ (~HubUsed /\ hub' = NoHub)
    BY <1>3 DEF SceneMissing, HubFails
  <2>3. HubsAgree'
    BY <2>1, <2>2 DEF ControllerInv, HubsAgree, HubUsed, sessionVars
  <2>4. Shape' /\ StartReliesOn' /\ DetachedIsLive'
    BY <1>1, <2>1 DEF ControllerInv, Shape, StartReliesOn, DetachedIsLive, Between, sessionVars
  <2>5. LatestSettings' /\ OffMeansLeaving'
    BY <2>1 DEF LatestSettings, OffMeansLeaving
  <2>. QED
    BY <2>3, <2>4, <2>5 DEF ControllerInv
<1>4. CASE RebuildHub
  <2>1. settings' = [seconds |-> settings'.seconds, media |-> settings'.media]
    BY <1>4 DEF RebuildHub, ControllerInv, Shape
  <2>. QED
    BY <1>1, <1>4, <2>1, BypassInv DEF RebuildHub
<1>. QED
  BY <1>2, <1>3, <1>4

\* A hub is selected: the one in use if it fits, a new one only when none is used.
LEMMA SelectHubInv ==
  ASSUME ControllerInv, ReuseHub \/ CreateHub
  PROVE  ControllerInv'
<1>1. /\ UNCHANGED <<settingVars, sessionVars>>
      /\ requestedActive /\ ~rearmPending
      /\ frontend' = [frontend EXCEPT !.pc = "check", !.hub = hub']
      /\ hub'.media = settings.media
      /\ hub' = hub \/ ~HubUsed
  <2>1. CASE ReuseHub
    BY <2>1 DEF ReuseHub, StartNeeded, MatchesHub
  <2>2. CASE CreateHub
    <3>1. FreshHub.media = settings.media
      BY DEF FreshHub
    <3>. QED
      BY <2>2, <3>1 DEF CreateHub, StartNeeded
  <2>. QED
    BY <2>1, <2>2
<1>2. /\ frontend'.pc = "check" /\ frontend'.hub = hub'
      /\ frontend' = [pc |-> frontend'.pc, todo |-> frontend'.todo, ready |-> frontend'.ready,
                      now |-> frontend'.now, hub |-> frontend'.hub]
  BY <1>1 DEF ControllerInv, Shape
<1>3. Shape' /\ DetachedIsLive'
  BY <1>1, <1>2 DEF ControllerInv, Shape, DetachedIsLive, settingVars, sessionVars
<1>4. HubsAgree'
  BY <1>1 DEF ControllerInv, HubsAgree, HubUsed, sessionVars
<1>5. StartReliesOn'
  BY <1>1, <1>2 DEF StartReliesOn, StartPhases, settingVars
<1>6. LatestSettings' /\ OffMeansLeaving'
  BY <1>1 DEF ControllerInv, LatestSettings, OffMeansLeaving, settingVars, sessionVars
<1>. QED
  BY <1>3, <1>4, <1>5, <1>6 DEF ControllerInv

\* The loop over the outputs.
LEMMA LoopInv ==
  ASSUME ControllerInv, Check \/ Refuse \/ Prepare \/ Start \/ StartFails
  PROVE  ControllerInv'
<1>. DEFINE o == frontend.now
<1>1. /\ frontend.pc \in StartPhases /\ frontend'.pc \in StartPhases
      /\ frontend'.hub = frontend.hub
      /\ frontend' = [pc |-> frontend'.pc, todo |-> frontend'.todo, ready |-> frontend'.ready,
                      now |-> frontend'.now, hub |-> frontend'.hub]
  <2>1. CASE Check
    BY <2>1 DEF Check, ControllerInv, Shape, StartPhases
  <2>2. CASE Refuse
    BY <2>2 DEF Refuse, ControllerInv, Shape, StartPhases
  <2>3. CASE Prepare
    BY <2>3 DEF Prepare, ControllerInv, Shape, StartPhases
  <2>4. CASE Start
    BY <2>4 DEF Start, ControllerInv, Shape, StartPhases
  <2>5. CASE StartFails
    BY <2>5 DEF StartFails, ControllerInv, Shape, StartPhases
  <2>. QED
    BY <2>1, <2>2, <2>3, <2>4, <2>5
<1>2. UNCHANGED <<requestedActive, rearmPending, settings, controllerError, hub, attached>>
  BY DEF Check, Refuse, Prepare, Start, StartFails, settingVars, sessionVars
<1>3. /\ requestedActive /\ ~rearmPending
      /\ frontend.hub = hub /\ hub.media = settings.media
      /\ frontend.pc = "prepare" => o \in attached
  BY <1>1 DEF ControllerInv, StartReliesOn
<1>4. StartReliesOn'
  <2>1. frontend'.pc = "prepare" => frontend'.now \in attached
    BY DEF Check, Refuse, Prepare, Start, StartFails, ControllerInv, Shape
  <2>. QED
    BY <1>1, <1>2, <1>3, <2>1 DEF StartReliesOn
<1>5. OffMeansLeaving'
  BY <1>2, <1>3 DEF OffMeansLeaving
<1>6. CASE Check \/ Refuse
  <2>1. UNCHANGED <<sessions, hubOf, secondsOf>>
    BY <1>6 DEF Check, Refuse, sessionVars
  <2>2. Shape' /\ HubsAgree' /\ DetachedIsLive'
    BY <1>1, <1>2, <2>1 DEF ControllerInv, Shape, HubsAgree, DetachedIsLive
  <2>3. LatestSettings'
    BY <1>2, <2>1 DEF ControllerInv, LatestSettings
  <2>. QED
    BY <1>4, <1>5, <2>2, <2>3 DEF ControllerInv
<1>7. CASE Prepare
  <2>1. /\ sessions' = [sessions EXCEPT ![o] = Prepared(Released(@))]
        /\ hubOf' = [hubOf EXCEPT ![o] = NoHub]
        /\ secondsOf' = [secondsOf EXCEPT ![o] = settings.seconds]
        /\ o \in attached /\ o \in Outputs
    BY <1>3, <1>7 DEF Prepare, ControllerInv, Shape
  <2>2. Prepared(Released(sessions[o])) \in Session
    BY <2>1, SessionStarts DEF ControllerInv, Shape
  <2>3. Shape'
    BY <1>1, <1>2, <2>1, <2>2 DEF ControllerInv, Shape
  <2>4. HubsAgree'
    BY <1>2, <2>1 DEF ControllerInv, Shape, HubsAgree
  <2>5. \A p \in Outputs : p # o => /\ sessions'[p] = sessions[p]
                                    /\ hubOf'[p] = hubOf[p]
                                    /\ secondsOf'[p] = secondsOf[p]
    BY <2>1 DEF ControllerInv, Shape
  <2>6. hubOf'[o] = NoHub /\ secondsOf'[o] = settings.seconds
    BY <2>1 DEF ControllerInv, Shape
  <2>7. DetachedIsLive'
    BY <1>2, <2>1, <2>5 DEF ControllerInv, DetachedIsLive
  <2>8. LatestSettings'
    <3>. SUFFICES ASSUME NEW p \in attached', sessions'[p].state \in WithDelay
                  PROVE  /\ secondsOf'[p] = settings'.seconds
                         /\ hubOf'[p] # NoHub => hubOf'[p].media = settings'.media
      BY DEF LatestSettings
    <3>1. CASE p = o
      BY <1>2, <2>6, <3>1
    <3>2. CASE p # o
      BY <1>2, <1>3, <2>5, <3>2 DEF ControllerInv, LatestSettings, Shape
    <3>. QED
      BY <3>1, <3>2
  <2>. QED
    BY <1>4, <1>5, <2>3, <2>4, <2>7, <2>8 DEF ControllerInv
<1>8. CASE Start \/ StartFails
  <2>1. PICK t \in {Started(sessions[o]), StartFailed(sessions[o])} :
          sessions' = [sessions EXCEPT ![o] = t]
    BY <1>8 DEF Start, StartFails
  <2>2. hubOf' \in {hubOf, [hubOf EXCEPT ![o] = frontend.hub]} /\ secondsOf' = secondsOf
    BY <1>8 DEF Start, StartFails
  <2>3. /\ sessions' \in [Outputs -> Session]
        /\ \A p \in Outputs : NoDelayFrom(sessions[p], sessions'[p])
    <3>1. CASE o \in Outputs
      <4>1. NoDelayFrom(sessions[o], t)
        BY <2>1, <3>1, SessionStarts DEF ControllerInv, Shape
      <4>. QED
        BY <2>1, <3>1, <4>1, OneSession DEF ControllerInv
    <3>2. CASE o \notin Outputs
      BY <2>1, <3>2 DEF ControllerInv, Shape, NoDelayFrom
    <3>. QED
      BY <3>1, <3>2
  <2>4. \A p \in Outputs : hubOf'[p] = hubOf[p] \/ hubOf'[p] = hub
    BY <1>3, <2>2 DEF ControllerInv, Shape
  <2>5. Shape'
    BY <1>1, <1>2, <2>2, <2>3 DEF ControllerInv, Shape
  <2>6. HubsAgree'
    BY <1>2, <2>4 DEF ControllerInv, HubsAgree
  <2>7. DetachedIsLive'
    BY <1>2, <2>3 DEF ControllerInv, DetachedIsLive, NoDelayFrom
  <2>8. LatestSettings'
    <3>. SUFFICES ASSUME NEW p \in attached', sessions'[p].state \in WithDelay
                  PROVE  /\ secondsOf'[p] = settings'.seconds
                         /\ hubOf'[p] # NoHub => hubOf'[p].media = settings'.media
      BY DEF LatestSettings
    <3>1. p \in attached /\ p \in Outputs /\ sessions[p].state \in WithDelay
      BY <1>2, <2>3 DEF ControllerInv, Shape, NoDelayFrom
    <3>2. /\ secondsOf[p] = settings.seconds
          /\ hubOf[p] # NoHub => hubOf[p].media = settings.media
      BY <1>3, <3>1 DEF ControllerInv, LatestSettings
    <3>. QED
      BY <1>2, <1>3, <2>2, <2>4, <3>1, <3>2
  <2>. QED
    BY <1>4, <1>5, <2>5, <2>6, <2>7, <2>8 DEF ControllerInv
<1>. QED
  BY <1>6, <1>7, <1>8

\* Every step, of whoever it is, keeps the invariant.
LEMMA StepInv == ControllerInv /\ [Next]_vars => ControllerInv'
<1>. SUFFICES ASSUME ControllerInv, [Next]_vars PROVE ControllerInv'
  OBVIOUS
<1>1. CASE PollSteps
  BY <1>1, PollInv
<1>2. CASE StartSteps
  BY <1>2, StartEndsInv, SelectHubInv, LoopInv DEF StartSteps
<1>3. CASE UserSteps \/ RefreshScenes
  BY <1>3, UserInv
<1>4. ASSUME NEW o \in Outputs, OutputSteps(o)
      PROVE  ControllerInv'
  BY <1>4, PacketInv, LinkInv, OutputInv DEF OutputSteps
<1>5. CASE SceneRemoved
  <2>1. \A o \in Outputs : NoDelayFrom(sessions[o], sessions[o])
    BY DEF ControllerInv, Shape, NoDelayFrom
  <2>. QED
    BY <1>5, <2>1, SessionsMove DEF SceneRemoved, settingVars, sessionVars, ControllerInv, Shape
<1>6. CASE UNCHANGED vars
  <2>1. \A o \in Outputs : NoDelayFrom(sessions[o], sessions[o])
    BY DEF ControllerInv, Shape, NoDelayFrom
  <2>. QED
    BY <1>6, <2>1, SessionsMove DEF vars, settingVars, sessionVars, ControllerInv, Shape
<1>. QED
  BY <1>1, <1>2, <1>3, <1>4, <1>5, <1>6 DEF Next

\* The invariant holds throughout.
LEMMA Invariant == Spec => []ControllerInv
BY InitInv, StepInv, PTL DEF Spec

----------------------------------------------------------------------------
(* The theorems.                                                           *)

\* Whatever stops, reconnects, fails or is changed, the hold scene is rendered by
\* one hub: a session, a start in progress and the controller never refer to two.
THEOREM SceneRenderedOnce == Spec => []OneHub
<1>1. ControllerInv => OneHub
  <2>. SUFFICES ASSUME ControllerInv, NEW g \in Hubs \ {NoHub}
                PROVE  g = hub
    BY DEF OneHub
  <2>1. frontend.hub \in {NoHub, hub}
    BY DEF ControllerInv, StartReliesOn
  <2>2. \A o \in Outputs : hubOf[o] \in {NoHub, hub}
    BY DEF ControllerInv, HubsAgree
  <2>. QED
    BY <2>1, <2>2 DEF Hubs
<1>. QED
  BY <1>1, Invariant, PTL

\* An active delay has the duration and the scene chosen last on every output, or is
\* about to be rearmed with them.
THEOREM SettingsApplied == Spec => []LatestSettings
<1>1. ControllerInv => LatestSettings
  BY DEF ControllerInv
<1>. QED
  BY <1>1, Invariant, PTL

\* Once the delay is switched off no output is left preparing, filling or delayed,
\* also one that was attached, reconnected or being started meanwhile.
THEOREM OffLeavesNoDelay == Spec => []OffMeansLeaving
<1>1. ControllerInv => OffMeansLeaving
  BY DEF ControllerInv
<1>. QED
  BY <1>1, Invariant, PTL

============================================================================
