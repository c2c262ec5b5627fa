------------------------ MODULE MultistreamQueueUse ------------------------
(***************************************************************************)
(* The queue by itself, under any caller: packets and times are arbitrary, *)
(* and the clock may go back.  The theorems of MultistreamQueueProofs are  *)
(* about it; TLC checks the queue as MultistreamDestination uses it.       *)
(***************************************************************************)
EXTENDS MultistreamQueue

VARIABLE gap    \* history: something was lost since the last keyframe queued

Submitted == [size : Nat, video : BOOLEAN, key : BOOLEAN, dts : Int]

UsePush(p, now) ==
  LET result == PushResult(p, now)
  IN  /\ Push(p, now)
      /\ gap' = (result = "Overflow" \/ (gap /\ ~(result = "Accepted" /\ p.video /\ p.key)))

UsePop(now) ==
  /\ Pop(now)
  /\ gap' = (gap \/ (packets # <<>> /\ ~PopSucceeds(now)))

UseReset == Reset /\ gap' = TRUE

useVars == <<queueVars, gap>>

UseInit == QueueInit /\ gap = TRUE

UseNext ==
  \/ \E p \in Submitted, now \in Int : UsePush(p, now)
  \/ \E now \in Int : UsePop(now)
  \/ UseReset

UseSpec == UseInit /\ [][UseNext]_useVars

----------------------------------------------------------------------------
\* A queue that lost anything delivers nothing until a keyframe: no frame goes
\* out whose reference was dropped.
GapEndsAtKeyframe == gap => packets = <<>>

============================================================================
