------------------------- MODULE DestinationContract ------------------------
(***************************************************************************)
(* What the transport may rely on of one destination's worker when it asks *)
(* it to stop (request_stop and finished, src/src/multistream-transport.cpp*)
(* 284-290): a worker that is awake finishes by itself, whatever the peer  *)
(* does.  One that sleeps for want of packets has to be notified, and a    *)
(* notification that finds it falling asleep is lost.                      *)
(***************************************************************************)

VARIABLES
  stop,     \* stop_
  pending,  \* request_stop has not notified yet
  phase     \* "busy", "parking" (falling asleep), "parked" (asleep) or "done"

contractVars == <<stop, pending, phase>>

Phases == {"busy", "parking", "parked", "done"}

ContractInit == stop = FALSE /\ pending = FALSE /\ phase = "busy"

Woken(p) == IF p = "parked" THEN "busy" ELSE p

RequestStop == stop' = TRUE /\ pending' = TRUE /\ UNCHANGED phase

DeliverStop == pending /\ pending' = FALSE /\ phase' = Woken(phase) /\ UNCHANGED stop

RequestAndDeliver == stop' = TRUE /\ pending' = FALSE /\ phase' = Woken(phase)

FallAsleep == phase = "busy" /\ ~stop /\ phase' = "parking" /\ stop' = stop /\ pending' = pending

Sleep == phase = "parking" /\ phase' = "parked" /\ stop' = stop /\ pending' = pending

\* A packet, which a worker that was asked to stop is not given.
Wake == phase = "parked" /\ ~stop /\ phase' = "busy" /\ stop' = stop /\ pending' = pending

\* Unless it was asked to, a worker ends only by an error.
Finish == phase = "busy" /\ phase' = "done" /\ stop' = stop /\ pending' = pending

ContractNext ==
  RequestStop \/ DeliverStop \/ RequestAndDeliver \/ FallAsleep \/ Sleep \/ Wake \/ Finish

ContractSteps == ContractInit /\ [][ContractNext]_contractVars

Contract ==
  /\ ContractSteps
  /\ WF_contractVars(DeliverStop)
  /\ WF_contractVars(Sleep)
  /\ WF_contractVars(stop /\ Finish)

============================================================================
