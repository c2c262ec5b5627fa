-------------------- MODULE MultistreamDestinationProofs --------------------
(***************************************************************************)
(* The safety of one destination, for any limits and timeouts, any number  *)
(* of packets and any interleaving of its threads.                         *)
(***************************************************************************)
EXTENDS MultistreamDestination, MultistreamQueueProofs

----------------------------------------------------------------------------
(* The worker, its socket and the threads outside.                         *)

\* From the registration of the socket to the end of the connection.
Registered ==
  {"registered", "handshake", "opened", "accepting", "test", "parking", "parked", "popped",
   "sending", "sent"}

ControlTypes ==
  /\ worker \in WorkerSteps
  /\ socket \in {"none", "open", "shut"}
  /\ stopper \in {"none", "interrupting", "notifying", "done"}
  /\ stop \in BOOLEAN /\ restart \in BOOLEAN /\ finished \in BOOLEAN
  /\ status \in {"WaitingForKeyframe", "Streaming"} \cup Offline

\* A stop that found no socket to shut down is seen right after the worker
\* registers one.
ControlInv ==
  /\ ControlTypes
  /\ stop <=> (stopper # "none")
  /\ worker \in Registered => socket # "none"
  /\ worker \in {"begin", "resolving", "connected", "retry", "backoffParking", "backoff",
                 "stopped", "thrown", "failing", "done"} => socket = "none"
  /\ (stopper \in {"notifying", "done"} /\ socket = "open") => worker \in {"registered", "closing"}
  /\ worker \in {"stopped", "thrown", "failing", "done"} => deadline = NoDeadline
  /\ worker = "done" => status \in {"Stopped", "Error"}
  /\ finished => worker = "done"

\* Every step of every thread keeps the control invariant.
LEMMA ControlInductive == ControlInv /\ [Next]_vars => ControlInv'
<1> SUFFICES ASSUME ControlInv, [Next]_vars PROVE ControlInv'
  OBVIOUS
<1> USE DEF ControlInv, ControlTypes, WorkerSteps, Registered, Offline, Interrupted, NoDeadline,
            signals, outside, producer, history
<1>1. CASE Begin
  BY <1>1 DEF Begin
<1>2. CASE ResolveGivesUp
  BY <1>2 DEF ResolveGivesUp, Goto
<1>3. CASE Register
  BY <1>3 DEF Register
<1>4. CASE Handshake
  BY <1>4 DEF Handshake, Goto
<1>5. CASE HandshakeShut
  BY <1>5 DEF HandshakeShut, Goto
<1>6. CASE Opened
  BY <1>6 DEF Opened, Goto
<1>7. CASE Accept
  BY <1>7 DEF Accept
<1>8. CASE Test
  <2>1. /\ UNCHANGED <<status, stop, finished, deadline, socket, stopper>>
        /\ worker = "test" /\ worker' \in {"closing", "parking", "popped"}
        /\ restart' \in BOOLEAN
    BY <1>8 DEF Test, Goto
  <2> QED BY <2>1
<1>9. CASE Park
  BY <1>9 DEF Park, Goto
<1>10. CASE Send
  BY <1>10 DEF Send
<1>11. CASE SendShut
  BY <1>11 DEF SendShut, Goto
<1>12. CASE Sent
  BY <1>12 DEF Sent
<1>13. CASE Close
  BY <1>13 DEF Close
<1>14. CASE Retry
  BY <1>14 DEF Retry
<1>15. CASE ParkBackoff
  BY <1>15 DEF ParkBackoff, Goto
<1>16. CASE BackoffEnds
  BY <1>16 DEF BackoffEnds, Goto
<1>17. CASE Finish
  BY <1>17 DEF Finish
<1>18. CASE Thrown
  BY <1>18 DEF Thrown
<1>19. CASE Failing
  BY <1>19 DEF Failing
<1>20. CASE Resolve
  BY <1>20 DEF Resolve, Goto
<1>21. CASE ResolveFails
  BY <1>21 DEF ResolveFails, Goto
<1>22. CASE HandshakeSucceeds
  BY <1>22 DEF HandshakeSucceeds, Goto
<1>23. CASE HandshakeFails
  BY <1>23 DEF HandshakeFails, Goto
<1>24. CASE SendSucceeds
  BY <1>24 DEF SendSucceeds
<1>25. CASE SendFails
  BY <1>25 DEF SendFails, Goto
<1>26. CASE Throw
  BY <1>26 DEF Throw, Goto
<1>27. CASE SubmitThrows
  BY <1>27 DEF SubmitThrows, SubmitRefused, Notified
<1>28. CASE StopRequested
  BY <1>28 DEF StopRequested
<1>29. CASE StopInterrupts
  BY <1>29 DEF StopInterrupts, Shut
<1>30. CASE StopNotifies
  BY <1>30 DEF StopNotifies, Notified
<1>31. CASE WatchReads
  BY <1>31 DEF WatchReads
<1>32. CASE WatchCompares
  <2>1. /\ UNCHANGED <<worker, status, stop, finished, deadline, socket, stopper>>
        /\ restart' \in BOOLEAN
    BY <1>32 DEF WatchCompares
  <2> QED BY <2>1
<1>33. CASE WatchInterrupts
  BY <1>33 DEF WatchInterrupts, Shut
<1>34. CASE Tick
  BY <1>34 DEF Tick, Sooner
<1>35. CASE \E p \in NextPacket : Submit(p)
  <2>1. PICK p \in NextPacket : Submit(p)
    BY <1>35
  <2>2. UNCHANGED <<stop, finished, deadline, socket, stopper>>
    BY <2>1 DEF Submit
  <2>3. \/ UNCHANGED <<worker, status, restart>>
        \/ /\ status \notin Offline
           /\ worker' = Notified(worker)
           /\ \/ restart' = TRUE /\ status' = "Reconnecting"
              \/ UNCHANGED <<restart, status>>
    BY <2>1 DEF Submit, SubmitRefused
  <2>4. CASE UNCHANGED <<worker, status, restart>>
    BY <2>2, <2>4
  <2>5. CASE status \notin Offline /\ worker' = Notified(worker)
    <3>1. restart' \in BOOLEAN /\ status' \in {"WaitingForKeyframe", "Streaming"} \cup Offline
      BY <2>3, <2>5
    <3>2. worker # "done"
      BY <2>5
    <3> QED BY <2>2, <2>5, <3>1, <3>2 DEF Notified
  <2> QED BY <2>3, <2>4, <2>5
<1>36. CASE UNCHANGED vars
  BY <1>36 DEF vars, signals, outside, producer, history, queueVars
<1> QED
  BY <1>1, <1>2, <1>3, <1>4, <1>5, <1>6, <1>7, <1>8, <1>9, <1>10, <1>11, <1>12, <1>13, <1>14, <1>15, <1>16, <1>17, <1>18, <1>19, <1>20, <1>21, <1>22, <1>23, <1>24, <1>25, <1>26, <1>27, <1>28, <1>29, <1>30, <1>31, <1>32, <1>33, <1>34, <1>35, <1>36
  DEF Next, WorkerStep, PeerStep, StopStep, WatchStep

----------------------------------------------------------------------------
(* The queue and what a connection sends.                                  *)

\* From the acceptance of the connection on, while nobody interrupts it.
InConnection ==
  /\ worker \in {"test", "parking", "parked", "popped", "sending", "sent"}
  /\ ~stop /\ ~restart

\* An accepted connection loses packets only before its first keyframe is queued.
Gapless ==
  /\ status \notin Offline
  /\ waitingForKeyframe => ~began
  /\ ~waitingForKeyframe =>
       /\ ~lost
       /\ began \/ (packets # <<>> /\ Head(packets).video /\ Head(packets).key)

StreamInv ==
  /\ QueueInv
  /\ frameTime \in Int
  /\ worker \in WorkerSteps
  /\ worker \in {"begin", "backoffParking", "backoff"} => status \in {"Connecting", "Reconnecting"}
  /\ worker \in {"final", "stopped"} => stop /\ packets = <<>>
  /\ NothingQueuedOffline
  /\ slipped \in Nat
  /\ worker = "failing" => Len(packets) <= slipped
  /\ began \in BOOLEAN /\ lost \in BOOLEAN
  /\ stop \in BOOLEAN /\ restart \in BOOLEAN
  /\ InConnection => Gapless

SameFrame(p, q) == p.video = q.video /\ p.key = q.key

\* A tick changes no more of the queue than when its packets arrived.
LEMMA AgeInv ==
  ASSUME QueueInv, Tick
  PROVE  /\ QueueInv'
         /\ Len(packets') = Len(packets)
         /\ packets # <<>> => SameFrame(packets'[1], packets[1])
<1>1. packets \in Seq(QueuedPacket)
  BY DEF QueueInv
<1>2. packets' = [i \in 1..Len(packets) |->
        [packets[i] EXCEPT !.enqueued = Max({@ - 1, -(MaxDuration + 1)})]]
  BY DEF Tick
<1>3. ASSUME NEW i \in 1..Len(packets)
      PROVE  /\ packets'[i] \in QueuedPacket
             /\ packets'[i].dts = packets[i].dts
             /\ SameFrame(packets'[i], packets[i])
  <2>1. packets[i] \in QueuedPacket
    BY <1>1
  <2>2. Max({packets[i].enqueued - 1, -(MaxDuration + 1)}) \in Int
    BY <2>1, MaxOfTwo, QueueAssumption DEF QueuedPacket
  <2>3. packets'[i] = [packets[i] EXCEPT !.enqueued = Max({@ - 1, -(MaxDuration + 1)})]
    BY <1>2
  <2> QED BY <2>1, <2>2, <2>3 DEF QueuedPacket, SameFrame
<1>4. packets' \in Seq(QueuedPacket) /\ Len(packets') = Len(packets)
  <2>1. Len(packets) \in Nat
    BY <1>1
  <2>2. packets' \in [1..Len(packets) -> QueuedPacket]
    BY <1>2, <1>3
  <2> QED BY <2>1, <2>2
<1>5. UNCHANGED <<bytes, waitingForKeyframe, epoch>>
  BY DEF Tick
<1>6. OneEpoch'
  BY <1>1, <1>3, <1>4, <1>5 DEF QueueInv, OneEpoch
<1>7. AccountingExact'
  <2>1. Sized(packets) /\ \A i \in 1..Len(packets) : packets'[i].size = packets[i].size
    <3>1. ASSUME NEW i \in 1..Len(packets) PROVE packets'[i].size = packets[i].size
      <4>1. packets[i] \in QueuedPacket
        BY <1>1
      <4> QED BY <1>2, <4>1 DEF QueuedPacket
    <3> QED BY <1>1, <3>1, QueueSized
  <2> QED BY <1>1, <1>4, <1>5, <2>1, BytesOfSizes DEF QueueInv, AccountingExact
<1> QED BY <1>1, <1>3, <1>4, <1>5, <1>6, <1>7 DEF QueueInv, WithinLimits

\* What submit does to an unbroken connection.
LEMMA SubmitInv ==
  ASSUME StreamInv, NEW p \in Packet, p.size # 0, Submit(p)
  PROVE  StreamInv'
<1> USE DEF StreamInv, WorkerSteps, Offline, NothingQueuedOffline, InConnection
<1>1. frameTime' \in Int /\ UNCHANGED <<stop, began>>
  BY DEF Submit, Packet
<1>4. slipped \in Nat /\ Len(packets) \in Nat
  BY DEF QueueInv
<1>2. CASE SubmitRefused
  <2>1. UNCHANGED <<queueVars, worker, status, restart, slipped>> /\ lost' = TRUE
    BY <1>2 DEF Submit
  <2>2. QueueInv'
    BY <2>1, QueueUnchanged
  <2>3. ~(InConnection /\ Gapless)
    BY <1>2 DEF SubmitRefused, Gapless
  <2> QED BY <1>1, <2>1, <2>2, <2>3 DEF queueVars
<1>3. CASE ~SubmitRefused
  <2>1. ~stop /\ ~restart /\ status \notin Offline
    BY <1>3 DEF SubmitRefused
  <2>2. Push(p, Now) /\ worker' = Notified(worker)
    BY <1>3 DEF Submit
  <2>3. QueueInv'
    BY <2>2, PushInv DEF Now
  <2>4. worker' \in WorkerSteps /\ worker' \notin {"begin", "backoffParking", "backoff", "final", "stopped"}
    BY <2>1, <2>2 DEF Notified
  <2>7. slipped' \in Nat /\ (worker' = "failing" => Len(packets') <= slipped')
    <3>1. slipped' = IF PushResult(p, Now) = "Accepted" /\ worker = "failing" THEN slipped + 1 ELSE slipped
      BY <1>3 DEF Submit
    <3>2. \/ PushResult(p, Now) = "Accepted" /\ Len(packets') = Len(packets) + 1
          \/ PushResult(p, Now) # "Accepted" /\ Len(packets') = 0
          \/ PushResult(p, Now) # "Accepted" /\ packets' = packets
      BY <2>2 DEF Push, Reset, queueVars, QueueInv
    <3>3. worker' = "failing" => worker = "failing" /\ Len(packets) <= slipped
      BY <2>2 DEF Notified
    <3> QED BY <1>4, <3>1, <3>2, <3>3
  <2>5. CASE PushResult(p, Now) = "Overflow"
    <3>1. restart' = TRUE /\ status' = "Reconnecting" /\ lost' = TRUE /\ packets' = <<>>
      BY <1>3, <2>2, <2>5 DEF Submit, Push, Reset
    <3> QED BY <1>1, <2>1, <2>3, <2>4, <2>7, <3>1
  <2>6. CASE PushResult(p, Now) # "Overflow"
    <3>1. UNCHANGED <<restart, status>>
      BY <1>3, <2>6 DEF Submit
    <3>2. lost' = IF PushResult(p, Now) = "Accepted" THEN lost /\ (began \/ ~waitingForKeyframe)
                  ELSE lost \/ PushResult(p, Now) # "BeforeEpoch"
      BY <1>3 DEF Submit
    <3>3. ASSUME InConnection' PROVE Gapless'
      <4>1. InConnection /\ Gapless
        BY <1>1, <2>2, <3>1, <3>3 DEF Notified
      <4>2. CASE PushResult(p, Now) = "Accepted" /\ waitingForKeyframe
        <5>1. packets = <<>> /\ p.video /\ p.key
          BY <4>2 DEF PushResult, QueueInv, OneEpoch
        <5>2. packets' = Append(packets, Queued(p, Now)) /\ ~waitingForKeyframe'
          BY <2>2, <4>2 DEF Push
        <5>3. packets' # <<>> /\ Head(packets') = Queued(p, Now)
          BY <5>1, <5>2 DEF QueueInv
        <5> QED BY <1>1, <2>1, <3>1, <3>2, <4>1, <4>2, <5>1, <5>2, <5>3 DEF Gapless, Queued
      <4>3. CASE PushResult(p, Now) = "Accepted" /\ ~waitingForKeyframe
        <5>1. packets' = Append(packets, Queued(p, Now)) /\ ~waitingForKeyframe'
          BY <2>2, <4>3 DEF Push
        <5>2. packets # <<>> => packets' # <<>> /\ Head(packets') = Head(packets)
          BY <5>1 DEF QueueInv
        <5> QED BY <1>1, <2>1, <3>1, <3>2, <4>1, <4>3, <5>1, <5>2 DEF Gapless
      <4>4. CASE PushResult(p, Now) = "BeforeEpoch"
        <5>1. ~waitingForKeyframe /\ UNCHANGED queueVars
          BY <2>2, <4>4 DEF Push, PushResult
        <5> QED BY <1>1, <3>1, <3>2, <4>1, <4>4, <5>1 DEF Gapless, queueVars
      <4>5. CASE PushResult(p, Now) = "WaitingForKeyframe"
        <5>1. waitingForKeyframe /\ UNCHANGED queueVars
          BY <2>2, <4>5 DEF Push, PushResult
        <5> QED BY <1>1, <3>1, <4>1, <5>1 DEF Gapless, queueVars
      <4> QED BY <2>6, <4>2, <4>3, <4>4, <4>5 DEF PushResult
    <3> QED BY <1>1, <2>1, <2>3, <2>4, <2>7, <3>1, <3>2, <3>3
  <2> QED BY <2>5, <2>6
<1> QED BY <1>2, <1>3

\* Every step keeps what is queued and sent free of gaps.
LEMMA StreamInductive == StreamInv /\ [Next]_vars => StreamInv'
<1> SUFFICES ASSUME StreamInv, [Next]_vars PROVE StreamInv'
  OBVIOUS
<1> USE DEF StreamInv, WorkerSteps, Offline, NothingQueuedOffline, InConnection, Gapless, signals,
            outside, producer, history, queueVars
<1>1. CASE Begin
  <2>1. QueueInv'
    BY <1>1, QueueUnchanged DEF Begin
  <2> QED BY <1>1, <2>1 DEF Begin
<1>2. CASE ResolveGivesUp
  <2>1. QueueInv'
    BY <1>2, QueueUnchanged DEF ResolveGivesUp, Goto
  <2> QED BY <1>2, <2>1 DEF ResolveGivesUp, Goto
<1>3. CASE Register
  <2>1. QueueInv'
    BY <1>3, QueueUnchanged DEF Register
  <2> QED BY <1>3, <2>1 DEF Register
<1>4. CASE Handshake
  <2>1. QueueInv'
    BY <1>4, QueueUnchanged DEF Handshake, Goto
  <2> QED BY <1>4, <2>1 DEF Handshake, Goto
<1>5. CASE HandshakeShut
  <2>1. QueueInv'
    BY <1>5, QueueUnchanged DEF HandshakeShut, Goto
  <2> QED BY <1>5, <2>1 DEF HandshakeShut, Goto
<1>6. CASE Opened
  <2>1. QueueInv'
    BY <1>6, QueueUnchanged DEF Opened, Goto
  <2> QED BY <1>6, <2>1 DEF Opened, Goto
<1>7. CASE Accept
  <2>1. QueueInv'
    BY <1>7, ResetInv DEF Accept
  <2> QED BY <1>7, <2>1 DEF Accept, Reset
<1>8. CASE Test
  <2>1. CASE Interrupted \/ packets = <<>>
    <3>1. /\ worker = "test" /\ worker' \in {"closing", "parking"}
          /\ UNCHANGED <<queueVars, status, stop, restart, frameTime, began, lost, slipped>>
      BY <1>8, <2>1 DEF Test, Goto
    <3>2. QueueInv'
      BY <3>1, QueueUnchanged
    <3> QED BY <3>1, <3>2
  <2>2. CASE ~Interrupted /\ packets # <<>>
    <3>1. /\ worker = "test" /\ Pop(Now)
          /\ \/ PopSucceeds(Now) /\ worker' = "popped" /\ began' = TRUE /\ UNCHANGED <<restart, lost>>
             \/ ~PopSucceeds(Now) /\ worker' = "closing" /\ restart' = TRUE /\ lost' = TRUE
                /\ UNCHANGED began
          /\ UNCHANGED <<status, stop, frameTime, slipped>>
      BY <1>8, <2>2 DEF Test, Goto
    <3>2. QueueInv'
      BY <3>1, PopInv DEF Now
    <3>3. Gapless /\ ~waitingForKeyframe
      BY <2>2, <3>1 DEF QueueInv, OneEpoch, Interrupted
    <3>4. PopSucceeds(Now) => UNCHANGED waitingForKeyframe
      BY <3>1 DEF Pop
    <3>5. CASE PopSucceeds(Now)
      BY <3>1, <3>2, <3>3, <3>4, <3>5
    <3>6. CASE ~PopSucceeds(Now)
      <4>1. worker' = "closing" /\ UNCHANGED <<status, stop, frameTime, began, slipped>>
            /\ lost' \in BOOLEAN /\ restart' \in BOOLEAN /\ status \notin Offline
        BY <3>1, <3>3, <3>6
      <4> QED BY <3>2, <4>1
    <3> QED BY <3>5, <3>6
  <2> QED BY <2>1, <2>2
<1>9. CASE Park
  <2>1. QueueInv'
    BY <1>9, QueueUnchanged DEF Park, Goto
  <2> QED BY <1>9, <2>1 DEF Park, Goto
<1>10. CASE Send
  <2>1. QueueInv'
    BY <1>10, QueueUnchanged DEF Send
  <2> QED BY <1>10, <2>1 DEF Send
<1>11. CASE SendShut
  <2>1. QueueInv'
    BY <1>11, QueueUnchanged DEF SendShut, Goto
  <2> QED BY <1>11, <2>1 DEF SendShut, Goto
<1>12. CASE Sent
  <2>1. QueueInv'
    BY <1>12, QueueUnchanged DEF Sent
  <2> QED BY <1>12, <2>1 DEF Sent
<1>13. CASE Close
  <2>1. QueueInv'
    BY <1>13, QueueUnchanged DEF Close
  <2> QED BY <1>13, <2>1 DEF Close
<1>14. CASE Retry
  <2>1. QueueInv'
    BY <1>14, ResetInv DEF Retry
  <2> QED BY <1>14, <2>1 DEF Retry, Reset
<1>15. CASE ParkBackoff
  <2>1. QueueInv'
    BY <1>15, QueueUnchanged DEF ParkBackoff, Goto
  <2> QED BY <1>15, <2>1 DEF ParkBackoff, Goto
<1>16. CASE BackoffEnds
  <2>1. QueueInv'
    BY <1>16, QueueUnchanged DEF BackoffEnds, Goto
  <2> QED BY <1>16, <2>1 DEF BackoffEnds, Goto
<1>17. CASE Finish
  <2>1. QueueInv'
    BY <1>17, QueueUnchanged DEF Finish
  <2> QED BY <1>17, <2>1 DEF Finish
<1>18. CASE Thrown
  <2>1. QueueInv'
    BY <1>18, ResetInv DEF Thrown
  <2> QED BY <1>18, <2>1 DEF Thrown, Reset
<1>19. CASE Failing
  <2>1. QueueInv'
    BY <1>19, QueueUnchanged DEF Failing
  <2> QED BY <1>19, <2>1 DEF Failing
<1>20. CASE Resolve
  <2>1. QueueInv'
    BY <1>20, QueueUnchanged DEF Resolve, Goto
  <2> QED BY <1>20, <2>1 DEF Resolve, Goto
<1>21. CASE ResolveFails
  <2>1. QueueInv'
    BY <1>21, QueueUnchanged DEF ResolveFails, Goto
  <2> QED BY <1>21, <2>1 DEF ResolveFails, Goto
<1>22. CASE HandshakeSucceeds
  <2>1. QueueInv'
    BY <1>22, QueueUnchanged DEF HandshakeSucceeds, Goto
  <2> QED BY <1>22, <2>1 DEF HandshakeSucceeds, Goto
<1>23. CASE HandshakeFails
  <2>1. QueueInv'
    BY <1>23, QueueUnchanged DEF HandshakeFails, Goto
  <2> QED BY <1>23, <2>1 DEF HandshakeFails, Goto
<1>24. CASE SendSucceeds
  <2>1. QueueInv'
    BY <1>24, QueueUnchanged DEF SendSucceeds
  <2> QED BY <1>24, <2>1 DEF SendSucceeds
<1>25. CASE SendFails
  <2>1. QueueInv'
    BY <1>25, QueueUnchanged DEF SendFails, Goto
  <2> QED BY <1>25, <2>1 DEF SendFails, Goto
<1>26. CASE Throw
  <2>1. QueueInv'
    BY <1>26, QueueUnchanged DEF Throw, Goto
  <2> QED BY <1>26, <2>1 DEF Throw, Goto
<1>27. CASE SubmitThrows
  <2>1. QueueInv'
    BY <1>27, ResetInv DEF SubmitThrows
  <2> QED BY <1>27, <2>1 DEF SubmitThrows, SubmitRefused, Notified, Reset
<1>28. CASE StopRequested
  <2>1. QueueInv'
    BY <1>28, QueueUnchanged DEF StopRequested
  <2> QED BY <1>28, <2>1 DEF StopRequested
<1>29. CASE StopInterrupts
  <2>1. QueueInv'
    BY <1>29, QueueUnchanged DEF StopInterrupts, Shut
  <2> QED BY <1>29, <2>1 DEF StopInterrupts, Shut
<1>30. CASE StopNotifies
  <2>1. QueueInv'
    BY <1>30, QueueUnchanged DEF StopNotifies, Notified
  <2> QED BY <1>30, <2>1 DEF StopNotifies, Notified
<1>31. CASE WatchReads
  <2>1. QueueInv'
    BY <1>31, QueueUnchanged DEF WatchReads
  <2> QED BY <1>31, <2>1 DEF WatchReads
<1>32. CASE WatchCompares
  <2>1. QueueInv'
    BY <1>32, QueueUnchanged DEF WatchCompares
  <2> QED BY <1>32, <2>1 DEF WatchCompares
<1>33. CASE WatchInterrupts
  <2>1. QueueInv'
    BY <1>33, QueueUnchanged DEF WatchInterrupts, Shut
  <2> QED BY <1>33, <2>1 DEF WatchInterrupts, Shut
<1>34. CASE Tick
  <2>1. QueueInv' /\ Len(packets') = Len(packets) /\ (packets # <<>> => SameFrame(packets'[1], packets[1]))
    BY <1>34, AgeInv DEF Tick
  <2>2. packets # <<>> => packets[1] = Head(packets)
    BY DEF QueueInv
  <2>3. packets' # <<>> => packets # <<>> /\ packets'[1] = Head(packets')
    BY <2>1 DEF QueueInv
  <2>4. UNCHANGED <<waitingForKeyframe, worker, status, stop, restart, frameTime, began, lost, slipped>>
    BY <1>34 DEF Tick
  <2>5. packets = <<>> <=> packets' = <<>>
    BY <2>1 DEF QueueInv
  <2> QED BY <2>1, <2>2, <2>3, <2>4, <2>5 DEF SameFrame
<1>35. CASE \E p \in NextPacket : Submit(p)
  <2>1. PICK p \in NextPacket : Submit(p)
    BY <1>35
  <2>2. p \in Packet /\ p.size # 0
    <3>1. \/ \E k \in BOOLEAN : p = [size |-> 2, video |-> TRUE, key |-> k, dts |-> frameTime + 1]
          \/ \E d \in {frameTime - 1, frameTime} :
               p = [size |-> 1, video |-> FALSE, key |-> FALSE, dts |-> d]
      BY <2>1 DEF NextPacket
    <3>2. CASE \E k \in BOOLEAN : p = [size |-> 2, video |-> TRUE, key |-> k, dts |-> frameTime + 1]
      BY <3>2 DEF Packet
    <3>3. CASE \E d \in {frameTime - 1, frameTime} :
                 p = [size |-> 1, video |-> FALSE, key |-> FALSE, dts |-> d]
      BY <3>3 DEF Packet
    <3> QED BY <3>1, <3>2, <3>3
  <2> QED BY <2>1, <2>2, SubmitInv
<1>36. CASE UNCHANGED vars
  BY <1>36, QueueUnchanged DEF vars
<1> QED
  BY <1>1, <1>2, <1>3, <1>4, <1>5, <1>6, <1>7, <1>8, <1>9, <1>10, <1>11, <1>12, <1>13, <1>14, <1>15, <1>16, <1>17, <1>18, <1>19, <1>20, <1>21, <1>22, <1>23, <1>24, <1>25, <1>26, <1>27, <1>28, <1>29, <1>30, <1>31, <1>32, <1>33, <1>34, <1>35, <1>36
  DEF Next, WorkerStep, PeerStep, StopStep, WatchStep

----------------------------------------------------------------------------
\* Only the test of the wait takes the worker to the next packet.
LEMMA TestAlone ==
  ASSUME [Next]_vars, worker = "test", worker' = "popped"
  PROVE  Test
<1>1. \/ WorkerStep \/ PeerStep \/ Throw \/ SubmitThrows \/ StopRequested \/ StopStep \/ WatchStep
      \/ Tick \/ \E p \in NextPacket : Submit(p)
  BY DEF Next, vars
<1>2. ~SubmitThrows /\ ~StopRequested /\ ~Tick
  BY DEF SubmitThrows, Notified, StopRequested, Tick
<1>3. ~WatchStep
  BY DEF WatchStep, WatchReads, WatchCompares, WatchInterrupts
<1>4. ~StopStep
  BY DEF StopStep, StopInterrupts, StopNotifies, Notified
<1>5. ~PeerStep /\ ~Throw
  BY DEF PeerStep, Throw, Resolve, ResolveFails, HandshakeSucceeds, HandshakeFails, SendSucceeds,
         SendFails, Goto
<1>6. ASSUME NEW p \in NextPacket PROVE ~Submit(p)
  BY DEF Submit, Notified
<1> QED
  BY <1>1, <1>2, <1>3, <1>4, <1>5, <1>6
  DEF WorkerStep, Begin, ResolveGivesUp, Register, Handshake, HandshakeShut, Opened, Accept, Park,
      Send, SendShut, Sent, Close, Retry, ParkBackoff, BackoffEnds, Finish, Thrown, Failing, Goto

\* Both invariants hold throughout.
LEMMA Invariants == Spec => [](ControlInv /\ StreamInv)
<1>1. Init => ControlInv
  BY DEF Init, ControlInv, ControlTypes, WorkerSteps, Offline, Registered
<1>2. Init => StreamInv
  <2> SUFFICES ASSUME Init PROVE StreamInv
    OBVIOUS
  <2>1. QueueInv /\ packets = <<>>
    BY InitInv DEF Init, QueueInit
  <2>2. /\ worker = "begin" /\ status = "Connecting" /\ frameTime = 0
        /\ ~stop /\ ~restart /\ ~began /\ lost
        /\ {stop, restart, began, lost} \subseteq BOOLEAN
        /\ slipped = 0
    BY DEF Init
  <2> QED BY <2>1, <2>2 DEF StreamInv, WorkerSteps, NothingQueuedOffline, InConnection
<1> QED BY <1>1, <1>2, ControlInductive, StreamInductive, PTL DEF Spec

\* After request_stop has interrupted the socket, the worker is not blocked on
\* a socket that is still open (multistream-transport.cpp:446-459).
THEOREM StopInterruptsTheNetwork == Spec => []StopReachesTheSocket
<1>1. ControlInv => StopReachesTheSocket
  BY DEF ControlInv, ControlTypes, Registered, StopReachesTheSocket
<1> QED BY <1>1, Invariants, PTL

\* finished_ is set last in run(), and nothing touches the connection or turns
\* the status back afterwards.
THEOREM FinishIsFinal == Spec => []FinishedIsFinal
<1>1. ControlInv => FinishedIsFinal
  BY DEF ControlInv, FinishedIsFinal
<1> QED BY <1>1, Invariants, PTL

\* submit queues nothing while the destination is not connected, and every path of run()
\* out of a connection drops what was queued. An Error holds no more than what was submitted
\* between the last drop and the status (multistream-transport.cpp:642, 645).
THEOREM OfflineQueueEmpty == Spec => []NothingQueuedOffline
<1>1. StreamInv => NothingQueuedOffline
  BY DEF StreamInv
<1> QED BY <1>1, Invariants, PTL

\* Both together, with the same exception for an Error, for every deadline, every limit and
\* every stream.
THEOREM NothingLeftBehind == Spec => []LeavesNothingBehind
<1> QED BY FinishIsFinal, OfflineQueueEmpty, PTL DEF LeavesNothingBehind

\* Whatever is submitted, sent, dropped and left to grow stale: the queue of a destination
\* counts what it holds, within both limits, and holds packets of one epoch
\* (multistream-queue.hpp:29-83).
THEOREM DestinationQueueSound == Spec => []QueueSound
<1>1. StreamInv => QueueSound
  BY DEF StreamInv, QueueInv, QueueSound
<1> QED BY <1>1, Invariants, PTL

\* A connection sends an uninterrupted piece of the stream from a keyframe on:
\* push reopens only on a keyframe, and whatever drops a packet later, a full
\* or stale queue, the watchdog or a stop, keeps run() from popping the next.
THEOREM ConnectionHasNoGap == Spec => NoGapInAConnection
<1> DEFINE Complete ==
      (worker = "test" /\ worker' = "popped") =>
         /\ ~lost
         /\ began \/ (Head(packets).video /\ Head(packets).key)
<1>1. StreamInv /\ [Next]_vars => [Complete]_vars
  <2> SUFFICES ASSUME StreamInv, [Next]_vars, worker = "test", worker' = "popped"
               PROVE  Complete
    OBVIOUS
  <2>1. Test
    BY TestAlone
  <2>2. ~Interrupted /\ packets # <<>>
    BY <2>1 DEF Test, Goto
  <2>3. Gapless /\ ~waitingForKeyframe
    BY <2>2 DEF StreamInv, InConnection, Interrupted, QueueInv, OneEpoch
  <2> QED BY <2>3 DEF Gapless
<1> QED BY <1>1, Invariants, PTL DEF Spec, NoGapInAConnection

----------------------------------------------------------------------------
(* The contract.                                                           *)

\* Every step of a destination is one the contract allows, or none to it: a
\* worker that was asked to stop never falls asleep, and it ends from awake.
THEOREM StepsKeepContract == Spec => Worker!ContractSteps
<1>1. Init => Worker!ContractInit
  BY DEF Init, Worker!ContractInit, Phase
<1>2. [Next]_vars => [Worker!ContractNext]_(Worker!contractVars)
  <2> SUFFICES ASSUME [Next]_vars PROVE [Worker!ContractNext]_(Worker!contractVars)
    OBVIOUS
  <2> USE DEF Worker!contractVars, Worker!ContractNext, Phase, signals, outside
  <2>1. CASE Test
    <3>1. /\ UNCHANGED <<stop, stopper>> /\ worker = "test"
          /\ \/ worker' \in {"closing", "popped"}
             \/ worker' = "parking" /\ ~stop
      BY <2>1 DEF Test, Goto, Interrupted
    <3> QED BY <3>1 DEF Worker!FallAsleep
  <2>2. CASE Park
    BY <2>2 DEF Park, Goto, Worker!Sleep
  <2>3. CASE Finish \/ Failing
    BY <2>3 DEF Finish, Failing, Worker!Finish
  <2>4. CASE StopRequested
    BY <2>4 DEF StopRequested, Worker!RequestStop
  <2>5. CASE StopNotifies
    <3>1. /\ stopper = "notifying" /\ stopper' = "done" /\ stop' = stop
          /\ worker' = Notified(worker)
      BY <2>5 DEF StopNotifies
    <3>2. Phase' = Worker!Woken(Phase)
      BY <3>1 DEF Notified, Worker!Woken
    <3> QED BY <3>1, <3>2 DEF Worker!DeliverStop
  <2>6. CASE SubmitThrows \/ \E p \in NextPacket : Submit(p)
    <3>1. /\ UNCHANGED <<stop, stopper>>
          /\ UNCHANGED worker \/ (~stop /\ worker' = Notified(worker))
      BY <2>6 DEF SubmitThrows, Submit, SubmitRefused
    <3> QED BY <3>1 DEF Notified, Worker!Wake
  <2>7. CASE StopInterrupts \/ WatchStep \/ Tick \/ UNCHANGED vars
    BY <2>7 DEF StopInterrupts, WatchStep, WatchReads, WatchCompares, WatchInterrupts, Tick, vars
  <2>8. CASE Begin \/ Register \/ Opened \/ Accept \/ Send \/ Sent \/ Close \/ Retry \/ Thrown
    BY <2>8 DEF Begin, Register, Opened, Accept, Send, Sent, Close, Retry, Thrown, Goto
  <2>9. CASE PeerStep \/ Throw
    BY <2>9 DEF PeerStep, Throw, Resolve, ResolveFails, HandshakeSucceeds, HandshakeFails,
                SendSucceeds, SendFails, Goto
  <2>10. CASE ResolveGivesUp \/ Handshake \/ HandshakeShut \/ SendShut \/ ParkBackoff \/ BackoffEnds
    BY <2>10 DEF ResolveGivesUp, Handshake, HandshakeShut, SendShut, ParkBackoff, BackoffEnds, Goto
  <2> QED
    BY <2>1, <2>2, <2>3, <2>4, <2>5, <2>6, <2>7, <2>8, <2>9, <2>10
    DEF Next, WorkerStep, StopStep
<1> QED BY <1>1, <1>2, PTL DEF Spec, Worker!ContractSteps

============================================================================
