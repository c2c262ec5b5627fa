-------------------------- MODULE MultistreamQueue -------------------------
(***************************************************************************)
(* The bounded queue of one multistream destination,                       *)
(* src/src/core/multistream-queue.hpp.  Its caller synchronises and passes *)
(* the time; media time (dts) and clock time are independent integers.     *)
(* Integer widths are left out: media_distance subtracts through unsigned  *)
(* integers just so that they do not matter.                               *)
(***************************************************************************)
EXTENDS Integers, Sequences, FiniteSetsExt

CONSTANTS MaxBytes, MaxPackets, MaxDuration     \* Limits

ASSUME QueueAssumption ==
  MaxBytes \in Nat /\ MaxPackets \in Nat /\ MaxDuration \in Nat

VARIABLES
  packets,             \* packets_: what is queued, with the time it arrived
  bytes,               \* bytes_
  waitingForKeyframe,  \* waitingForKeyframe_
  epoch                \* epochDtsUsec_

queueVars == <<packets, bytes, waitingForKeyframe, epoch>>

QueueInit == packets = <<>> /\ bytes = 0 /\ waitingForKeyframe = TRUE /\ epoch = 0

Reset_KeepsBytes_Bug ==
  packets' = <<>> /\ bytes' = bytes /\ waitingForKeyframe' = TRUE /\ epoch' = 0

Reset_KeepsOpen_Bug ==
  packets' = <<>> /\ bytes' = 0 /\ UNCHANGED <<waitingForKeyframe, epoch>>

\* reset
Reset == packets' = <<>> /\ bytes' = 0 /\ waitingForKeyframe' = TRUE /\ epoch' = 0

MediaDistance(newer, older) == IF newer <= older THEN 0 ELSE newer - older

\* A packet that arrived at this time has waited too long, or the clock went back.
Stale(enqueued, now) == now < enqueued \/ now - enqueued > MaxDuration

Refused_NoPacketLimit_Bug(p, now) ==
  \/ p.size > MaxBytes - Min({bytes, MaxBytes})
  \/ packets # <<>> /\ \/ Stale(Head(packets).enqueued, now)
                       \/ MediaDistance(p.dts, Head(packets).dts) > MaxDuration

\* oversized, full or expired
Refused(p, now) ==
  \/ p.size > MaxBytes - Min({bytes, MaxBytes})
  \/ Len(packets) >= MaxPackets
  \/ packets # <<>> /\ \/ Stale(Head(packets).enqueued, now)
                       \/ MediaDistance(p.dts, Head(packets).dts) > MaxDuration

PushResult_NoEpochCheck_Bug(p, now) ==
  IF p.size = 0 THEN "Invalid"
  ELSE IF waitingForKeyframe /\ ~(p.video /\ p.key) THEN "WaitingForKeyframe"
  ELSE IF Refused(p, now) THEN "Overflow"
  ELSE "Accepted"

PushResult_AnyFrame_Bug(p, now) ==
  IF p.size = 0 THEN "Invalid"
  ELSE IF waitingForKeyframe /\ ~p.video THEN "WaitingForKeyframe"
  ELSE IF ~waitingForKeyframe /\ p.dts < epoch THEN "BeforeEpoch"
  ELSE IF Refused(p, now) THEN "Overflow"
  ELSE "Accepted"

PushResult(p, now) ==
  IF p.size = 0 THEN "Invalid"
  ELSE IF waitingForKeyframe /\ ~(p.video /\ p.key) THEN "WaitingForKeyframe"
  ELSE IF ~waitingForKeyframe /\ p.dts < epoch THEN "BeforeEpoch"
  ELSE IF Refused(p, now) THEN "Overflow"
  ELSE "Accepted"

Queued(p, now) == [size |-> p.size, video |-> p.video, key |-> p.key, dts |-> p.dts, enqueued |-> now]

\* push
Push(p, now) ==
  \/ /\ PushResult(p, now) \in {"Invalid", "WaitingForKeyframe", "BeforeEpoch"}
     /\ UNCHANGED queueVars
  \/ /\ PushResult(p, now) = "Overflow"
     /\ Reset
  \/ /\ PushResult(p, now) = "Accepted"
     /\ epoch' = IF waitingForKeyframe THEN p.dts ELSE epoch
     /\ waitingForKeyframe' = FALSE
     /\ packets' = Append(packets, Queued(p, now))
     /\ bytes' = bytes + p.size

\* pop; it yields Head(packets) unless that is stale.
PopSucceeds(now) == packets # <<>> /\ ~Stale(Head(packets).enqueued, now)

Pop(now) ==
  \/ /\ PopSucceeds(now)
     /\ packets' = Tail(packets)
     /\ bytes' = bytes - Head(packets).size
     /\ UNCHANGED <<waitingForKeyframe, epoch>>
  \/ /\ packets # <<>> /\ ~PopSucceeds(now)
     /\ Reset
  \/ packets = <<>> /\ UNCHANGED queueVars

----------------------------------------------------------------------------
(* Properties.                                                             *)

QueuedPacket == [size : Nat, video : BOOLEAN, key : BOOLEAN, dts : Int, enqueued : Int]

\* The memory a slow destination can hold is bounded, whatever is submitted:
\* the byte counter is the size of what is queued, through every drop.
BytesOf(q) ==
  LET sum[i \in 0..Len(q)] == IF i = 0 THEN 0 ELSE sum[i - 1] + q[i].size
  IN  sum[Len(q)]

AccountingExact == bytes = BytesOf(packets)

\* Both hard limits hold.
WithinLimits == bytes <= MaxBytes /\ Len(packets) <= MaxPackets

\* What is queued belongs to the current epoch; between epochs nothing is.
OneEpoch ==
  /\ waitingForKeyframe => packets = <<>>
  /\ \A i \in 1..Len(packets) : packets[i].dts >= epoch

\* However the queue is filled, drained, reset and left to grow stale: what it counts
\* is what it holds, what it holds is bounded, and all of it can be muxed against
\* the epoch.
QueueSound == AccountingExact /\ WithinLimits /\ OneEpoch

\* The backlog a pop starts from is no longer than the duration limit in media
\* time: a packet is never queued further than that behind the head.
BacklogBounded ==
  [][Len(packets') > Len(packets) =>
       MediaDistance(packets'[Len(packets')].dts, packets'[1].dts) <= MaxDuration]_queueVars

============================================================================
