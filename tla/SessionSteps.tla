---------------------------- MODULE SessionSteps ----------------------------
(***************************************************************************)
(* What one OutputSession (src/src/output-session.cpp) does to the parts   *)
(* of its state that the delay controller reads or waits for, as relations *)
(* between two values of                                                   *)
(*   state    DelayState,                                                  *)
(*   failing  errorReturnPending_: on its way back to live with an error,  *)
(*   cleanup  cleanupHoldRequested_: maintenance is to free the collector, *)
(*   reset    reconnectResetPending_: a reconnection has begun,            *)
(*   rearm    reconnectRearmRequested_: and has ended,                     *)
(*   holds    holdPipeline_ is set: the session keeps a hold encoder and   *)
(*            with it the media hub alive.                                 *)
(***************************************************************************)

DelayStates == {"Bypass", "Preparing", "Filling", "Delayed", "ReturningLive", "Error"}

\* is_bypass()
LiveStates == {"Bypass", "Error"}

\* States that only a request for bypass, an error or a reconnection ends.
WithDelay == {"Preparing", "Filling", "Delayed"}

Session ==
  [state : DelayStates, failing : BOOLEAN, cleanup : BOOLEAN, reset : BOOLEAN,
   rearm : BOOLEAN, holds : BOOLEAN]

NewSession ==
  [state |-> "Bypass", failing |-> FALSE, cleanup |-> FALSE, reset |-> FALSE,
   rearm |-> FALSE, holds |-> FALSE]

\* How packets, of the output or of the hold encoder, move a session.
PacketMoves ==
  {<<"Preparing", "Filling">>, <<"Preparing", "ReturningLive">>, <<"Preparing", "Error">>,
   <<"Filling", "Delayed">>, <<"Filling", "ReturningLive">>,
   <<"Delayed", "ReturningLive">>, <<"Delayed", "Bypass">>,
   <<"ReturningLive", "Bypass">>, <<"ReturningLive", "Error">>}

\* A packet moves s to t.  One that ends the use of the hold encoder asks for the
\* clean-up; one that ends the return does so with the error that is pending.
Advanced(s, t) ==
  /\ <<s.state, t.state>> \in PacketMoves
  /\ t.cleanup = (s.cleanup \/ t.state \in LiveStates \cup {"Delayed"})
  /\ s.state = "ReturningLive" => (t.state = "Error" <=> s.failing)
  /\ t.failing => t.state = "ReturningLive"
  /\ t = [s EXCEPT !.state = t.state, !.failing = t.failing, !.cleanup = t.cleanup]

\* A limit or an underrun that changes no state, or that is met in Filling by the
\* hold encoder's packets.
Strained(s, t) ==
  /\ s.state \in {"Filling", "ReturningLive"}
  /\ \E failing \in BOOLEAN, cleanup \in BOOLEAN :
       /\ s.failing => failing
       /\ s.cleanup => cleanup
       /\ t = [s EXCEPT !.state = "ReturningLive", !.failing = failing, !.cleanup = cleanup]

\* request_delay, up to the new generation: the old collector goes first.
Released(s) == [s EXCEPT !.holds = FALSE]

Prepared(s) ==
  [s EXCEPT !.state = "Preparing", !.failing = FALSE, !.cleanup = FALSE]

\* ... and from there: the collector starts, or does not.
Started(s) == [s EXCEPT !.holds = TRUE]

StartFailed(s) == [s EXCEPT !.holds = TRUE, !.state = "Error", !.cleanup = TRUE]

\* request_bypass
Bypassed(s) ==
  IF s.state \in {"Preparing", "Error"}
  THEN [s EXCEPT !.state = "Bypass", !.failing = FALSE, !.cleanup = TRUE]
  ELSE IF s.state \in {"Filling", "Delayed"} THEN [s EXCEPT !.state = "ReturningLive"]
  ELSE s

\* maintenance
Maintained(s) == IF s.cleanup THEN [s EXCEPT !.cleanup = FALSE, !.holds = FALSE] ELSE s

\* reconnect_signal
Reconnecting(s) == [Bypassed(s) EXCEPT !.reset = TRUE]

\* activate_signal
Reactivated(s) ==
  IF s.reset
  THEN [s EXCEPT !.state = "Bypass", !.failing = FALSE, !.cleanup = TRUE, !.reset = FALSE,
                 !.rearm = TRUE]
  ELSE s

\* take_rearm_request
RearmTaken(s) == [s EXCEPT !.rearm = FALSE]

============================================================================
