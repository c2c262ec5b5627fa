-------------------------- MODULE SessionContract ---------------------------
(***************************************************************************)
(* One session as the delay controller sees it: any of the SessionSteps in *)
(* any order.  OutputSession implements it, DelayController has one for    *)
(* every output.                                                           *)
(***************************************************************************)
EXTENDS SessionSteps

VARIABLE session

PacketStep == Advanced(session, session') \/ Strained(session, session')

RequestStep ==
  \/ session.state \in LiveStates /\ session' = Released(session)
  \/ session.state \in LiveStates /\ ~session.holds /\ session' = Prepared(session)
  \/ ~session.holds /\ session' \in {Started(session), StartFailed(session)}

BypassStep == session' = Bypassed(session)

MaintenanceStep == session' = Maintained(session)

SignalStep == session' \in {Reconnecting(session), Reactivated(session), RearmTaken(session)}

Contract ==
  /\ session = NewSession
  /\ [][PacketStep \/ RequestStep \/ BypassStep \/ MaintenanceStep \/ SignalStep]_session

============================================================================
