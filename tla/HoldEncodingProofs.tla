------------------------- MODULE HoldEncodingProofs ------------------------
(***************************************************************************)
(* No collector delivers to a session that has left it, for any number of  *)
(* sessions, encodings and pauses, and any interleaving of the threads.    *)
(***************************************************************************)
EXTENDS HoldEncoding, TLAPS

\* The frontend thread is in one method of one session that exists.  It lets an
\* encoding go only at "stop", and the session has none then; nor has it before the
\* new one is acquired.
FrontendInv ==
  /\ op # "idle" => who \in Sessions \ gone
  /\ op = "idle" => at = "idle"
  /\ at # "stop" => taken = 0
  /\ at \in {"stop", "publish", "acquire"} => op # "idle" /\ pipeline[who] = 0
  /\ taken \in Encodings \cup {0}

\* A session subscribes to no encoding but its own, until it has unsubscribed.
SubscriptionInv ==
  \A c \in Encodings :
    /\ subscribers[c] \subseteq Sessions \ gone
    /\ \A s \in subscribers[c] : pipeline[s] = c \/ (at = "stop" /\ who = s /\ taken = c)

HoldTypes ==
  /\ subscribers \in [Encodings -> SUBSET Sessions]
  /\ left \in [Encodings -> SUBSET Sessions]
  /\ inside \in [Encodings -> SUBSET Sessions]
  /\ pipeline \in [Sessions -> Encodings \cup {0}]
  /\ DOMAIN status = Encodings
  /\ gone \in SUBSET Sessions

HoldInv == HoldTypes /\ FrontendInv /\ SubscriptionInv /\ NoLateDelivery

\* Everything that HoldInv speaks of.
heldVars == <<status, subscribers, left, inside, pipeline, gone, op, at, who, taken>>

\* What changes none of it keeps it.
LEMMA HoldUntouched == HoldInv /\ UNCHANGED heldVars => HoldInv'
BY DEF HoldInv, HoldTypes, FrontendInv, SubscriptionInv, NoLateDelivery, Delivering, heldVars

\* The thread of a collector goes over its subscribers, and over nobody else.
LEMMA CollectorKeeps ==
  ASSUME HoldInv, NEW c \in Encodings, Deliver(c) \/ Collector(c) \/ Fails(c)
  PROVE  HoldInv'
<1> USE DEF HoldInv, HoldTypes, FrontendInv, SubscriptionInv, NoLateDelivery, Delivering,
            encodings, sessions, frontend, primary, threads
<1>1. CASE Deliver(c)
  BY <1>1 DEF Deliver
<1>2. CASE Collector(c)
  <2>1. PICK s \in Sessions : Enter(c, s) \/ Leave(c, s)
    BY <1>2 DEF Collector
  <2>2. CASE Enter(c, s)
    BY <2>2 DEF Enter
  <2>3. CASE Leave(c, s)
    BY <2>3 DEF Leave
  <2> QED BY <2>1, <2>2, <2>3
<1>3. CASE Fails(c)
  BY <1>3 DEF Fails
<1> QED BY <1>1, <1>2, <1>3

\* A method of the frontend thread that begins may take the pipeline out of a session.
LEMMA MethodBegins ==
  ASSUME HoldInv, NEW s \in Sessions, RequestDelay(s) \/ Maintenance(s) \/ Destroy(s)
  PROVE  HoldInv'
<1> USE DEF HoldInv, HoldTypes, FrontendInv, SubscriptionInv, NoLateDelivery, Delivering,
            encodings, sessions, frontend, primary, threads, Begin, TakePipeline
<1>1. CASE RequestDelay(s)
  BY <1>1 DEF RequestDelay
<1>2. CASE Maintenance(s)
  BY <1>2 DEF Maintenance
<1>3. CASE Destroy(s)
  BY <1>3 DEF Destroy
<1> QED BY <1>1, <1>2, <1>3

\* unsubscribe returns when nothing is delivered by the encoding that is let go: then
\* no collector visits the session any more.
LEMMA StopKeeps == HoldInv /\ StopPipeline => HoldInv'
<1> SUFFICES ASSUME HoldInv, StopPipeline PROVE HoldInv'
  OBVIOUS
<1> USE DEF HoldInv, HoldTypes, FrontendInv, SubscriptionInv, NoLateDelivery, Delivering
<1>1. /\ at = "stop" /\ who \in Sessions \ gone /\ pipeline[who] = 0
      /\ taken # 0 => ~Delivering(taken)
      /\ UNCHANGED <<left, inside, pipeline>>
      /\ taken' = 0
      /\ at' # "stop"
  BY DEF StopPipeline, Unsubscribable, Goto, Return, threads
<1>2. /\ subscribers' = [c \in Encodings |-> subscribers[c] \ {s \in {who} : c = taken}]
      /\ gone' \in {gone, gone \cup {who}}
  BY DEF StopPipeline
<1>3. \/ op' = "idle" /\ at' = "idle"
      \/ /\ UNCHANGED <<op, who, gone>> /\ op # "idle"
         /\ at' \in {"publish", "error"}
  BY DEF StopPipeline, Goto, Return, Continue
<1>4. ASSUME NEW c \in Encodings
      PROVE  who \notin subscribers'[c] /\ who \notin left[c] \cup inside[c]
  <2>1. c # 0
    BY DEF Encodings
  <2>2. CASE c = taken
    BY <1>1, <1>2, <2>1, <2>2
  <2>3. CASE c # taken
    BY <1>1, <1>2, <2>1, <2>3
  <2> QED BY <2>2, <2>3
<1>5. /\ DOMAIN status' = Encodings
      /\ \A c \in Encodings : status'[c] = "gone" => status[c] = "gone" \/ c = taken
  BY DEF StopPipeline
<1>6. SubscriptionInv'
  BY <1>1, <1>2, <1>4
<1>7. NoLateDelivery'
  <2> SUFFICES ASSUME NEW c \in Encodings
               PROVE  /\ (inside[c] \cup left[c] \subseteq subscribers[c] \ gone)'
                      /\ (status[c] = "gone" => ~Delivering(c))'
    OBVIOUS
  <2>1. c # 0
    BY DEF Encodings
  <2>2. (status[c] = "gone" => ~Delivering(c))'
    BY <1>1, <1>5, <2>1
  <2>3. (inside[c] \cup left[c] \subseteq subscribers[c] \ gone)'
    BY <1>1, <1>2, <1>4
  <2> QED BY <2>2, <2>3
<1>8. FrontendInv'
  BY <1>1, <1>3
<1>9. HoldTypes'
  BY <1>1, <1>2, <1>5
<1> QED BY <1>6, <1>7, <1>8, <1>9

\* The other steps of the methods.
LEMMA MethodGoesOn ==
  ASSUME HoldInv, Goes
  PROVE  HoldInv'
<1> USE DEF HoldInv, HoldTypes, FrontendInv, SubscriptionInv, NoLateDelivery, Delivering,
            encodings, sessions, frontend, primary, threads, Goto, Continue, Return, TakePipeline
<1>1. CASE CleanUp
  BY <1>1 DEF CleanUp
<1>2. CASE NothingToClean
  BY <1>2 DEF NothingToClean
<1>3. CASE StopPipeline
  BY <1>3, StopKeeps
<1>4. CASE Publish
  BY <1>4 DEF Publish
<1>5. CASE Acquire
  <2>1. PICK c \in Acquired :
          /\ pipeline' = [pipeline EXCEPT ![who] = c]
          /\ status' = [status EXCEPT ![c] = IF @ = "none" THEN "new" ELSE @]
          /\ subscribers' = [subscribers EXCEPT ![c] = @ \cup {who}]
    BY <1>5 DEF Acquire
  <2>2. c \in Encodings
    BY DEF Acquired
  <2>3. /\ at = "acquire" /\ op # "idle" /\ at' = "start" /\ who \in Sessions \ gone
        /\ UNCHANGED <<op, who, taken, gone, left, inside>>
    BY <1>5 DEF Acquire
  <2>4. c # 0 /\ \A d \in Encodings : who \notin subscribers[d]
    BY <2>2, <2>3 DEF Encodings
  <2>5. HoldTypes' /\ FrontendInv'
    BY <2>1, <2>2, <2>3
  <2>6. SubscriptionInv'
    BY <2>1, <2>2, <2>3, <2>4
  <2>7. NoLateDelivery'
    <3>1. \A d \in Encodings : status'[d] = "gone" => status[d] = "gone"
      BY <2>1, <2>2
    <3> QED BY <2>1, <2>2, <2>3, <3>1
  <2> QED BY <2>5, <2>6, <2>7
<1>6. CASE Start
  BY <1>6 DEF Start
<1>7. CASE StartFails
  BY <1>7 DEF StartFails
<1>8. CASE StartError
  BY <1>8 DEF StartError
<1>9. CASE ReadPaused
  BY <1>9 DEF ReadPaused
<1>10. CASE Decide
  BY <1>10 DEF Decide, AfterSync
<1>11. CASE PauseHold
  BY <1>11 DEF PauseHold, AfterSync
<1>12. CASE PauseRefused
  BY <1>12 DEF PauseRefused, AfterSync
<1> QED
  BY <1>1, <1>2, <1>3, <1>4, <1>5, <1>6, <1>7, <1>8, <1>9, <1>10, <1>11, <1>12 DEF Goes

\* Every step of every thread keeps the invariant.
LEMMA HoldInductive == HoldInv /\ [Next]_vars => HoldInv'
<1> SUFFICES ASSUME HoldInv, [Next]_vars PROVE HoldInv'
  OBVIOUS
<1>1. CASE \E s \in Sessions : RequestDelay(s) \/ Maintenance(s) \/ Destroy(s)
  BY <1>1, MethodBegins
<1>2. CASE \E s \in Sessions : HoldUnneeded(s) \/ Pause(s)
  BY <1>2, HoldUntouched DEF HoldUnneeded, Pause, heldVars, encodings, threads, frontend
<1>3. CASE \E c \in Encodings : Deliver(c) \/ Collector(c) \/ Fails(c)
  BY <1>3, CollectorKeeps
<1>4. CASE Goes
  BY <1>4, MethodGoesOn
<1>5. CASE UNCHANGED vars
  BY <1>5, HoldUntouched DEF vars, heldVars, encodings, threads, sessions, frontend
<1> QED BY <1>1, <1>2, <1>3, <1>4, <1>5 DEF Next

\* A session may be destroyed, and a new generation may begin, as soon as unsubscribe has
\* returned (hold-pipeline.cpp:164-177, output-session.cpp:83-104): whoever pauses,
\* fails, shares and lets go meanwhile, no collector enters it any more.
THEOREM NothingDeliveredLate == Spec => []NoLateDelivery
<1>1. Init => HoldInv
  BY DEF Init, HoldInv, HoldTypes, FrontendInv, SubscriptionInv, NoLateDelivery, Delivering
<1>2. HoldInv => NoLateDelivery
  BY DEF HoldInv
<1> QED BY <1>1, <1>2, HoldInductive, PTL DEF Spec

=============================================================================
