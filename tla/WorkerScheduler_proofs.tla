----------------------- MODULE WorkerScheduler_proofs -----------------------
(***************************************************************************)
(* Proofs about WorkerScheduler, for any clients, workers, lanes, messages *)
(* and capacities.  The inductive invariant Inv has four groups of parts:  *)
(* who is where (the control state of a thread, its locals, and the        *)
(* counters tied to the threads they count), who will drain a scheduled    *)
(* lane (one reservation, held by one party), what each phase of Stop may  *)
(* rely on, and where each accepted message is.                            *)
(***************************************************************************)
EXTENDS WorkerScheduler, FiniteSetTheorems, SequenceTheorems, TLAPS

(***************************************************************************)
(* Threads and their locals                                                *)
(***************************************************************************)
HasLane  == Counted \union {"canDrain", "enter"}
HasMessage(w) == workerPc[w] \in {"popped", "calling"}

\* A post knows its lane and message, a draining worker its lane, and a worker
\* posts only from inside a callback; no worker ever stops the scheduler.
ThreadInv ==
    /\ \A c \in Caller : postPc[c] # "idle" => postLane[c] \in Lane /\ postMessage[c] \in Message
    /\ \A w \in Worker :
          /\ workerPc[w] \in HasLane => workerLane[w] \in Lane
          /\ workerPc[w] \notin HasLane => workerLane[w] = NoLane
          /\ HasMessage(w) => current[w] \in Message /\ drained[w] < MaxMessagesPerDrain
          /\ postPc[w] # "idle" => workerPc[w] = "calling"
          /\ stopPc[w] = "idle"

\* The counters are the numbers of threads inside TryPost and of counted drains.
CountInv ==
    /\ IsFiniteSet(Posters) /\ Cardinality(Posters) = inFlightPosts
    /\ IsFiniteSet(Active) /\ Cardinality(Active) = activeDrains

(***************************************************************************)
(* The reservation of a lane                                               *)
(***************************************************************************)
Queued(l)     == \E n \in 1..Len(ready) : ready[n] = l
Reserves(w, l) == workerLane[w] = l
                  /\ workerPc[w] \in {"canDrain", "enter", "begin", "reschedule"}
Promises(c, l) == postLane[c] = l /\ postPc[c] = "schedule"

\* The reservation has one holder: one entry, one worker or one caller.
HolderInv ==
    \A l \in Lane :
        /\ \A m, n \in 1..Len(ready) : ready[m] = l /\ ready[n] = l => m = n
        /\ \A v, w \in Worker : Reserves(v, l) /\ Reserves(w, l) => v = w
        /\ \A c, d \in Caller : Promises(c, l) /\ Promises(d, l) => c = d
        /\ Queued(l) => /\ \A w \in Worker : ~Reserves(w, l)
                        /\ \A c \in Caller : ~Promises(c, l)
        /\ \A w \in Worker, c \in Caller : ~(Reserves(w, l) /\ Promises(c, l))

\* Exactly the scheduled lanes are reserved; after a Discard the reservation of
\* a lane may have been given up.
Reserved(l) == Queued(l) \/ (\E w \in Worker : Reserves(w, l))
                         \/ (\E c \in Caller : Promises(c, l))

ReservationInv ==
    \A l \in Lane : /\ Reserved(l) => laneState[l] = "Scheduled"
                    /\ laneState[l] = "Scheduled" /\ AcceptsSchedule => Reserved(l)

\* A lane is drained by the one worker between its two critical sections.
DrainInv ==
    \A l \in Lane : /\ \A w \in Worker : InDrain(w, l) => laneState[l] = "Draining"
                    /\ \A v, w \in Worker : InDrain(v, l) /\ InDrain(w, l) => v = w

(***************************************************************************)
(* The phases of Stop                                                      *)
(***************************************************************************)
InStop(phases) == \E c \in Caller : stopPc[c] \in phases

AfterPosts  == {"drains", "pool", "join", "poolDone", "reset", "finish"}
AfterDrains == {"pool", "join", "poolDone", "reset", "finish"}
AfterTold   == {"join", "poolDone", "reset", "finish"}
AfterJoin   == {"poolDone", "reset", "finish"}

PostsOver  == state = "Stopped" \/ InStop(AfterPosts)
DrainsOver == state = "Stopped" \/ InStop(AfterDrains)
PoolTold   == state = "Stopped" \/ InStop(AfterTold)
Joined     == state = "Stopped" \/ InStop(AfterJoin)

\* One caller stops the scheduler, in the mode that took effect.
ModeInv ==
    /\ \A c, d \in Caller : stopPc[c] # "idle" /\ stopPc[d] # "idle" => c = d
    /\ \A c \in Caller : stopPc[c] # "idle" => state \in {"StoppingDrain", "StoppingDiscard"}
    /\ state = "Running" <=> stopMode = "none"
    /\ state = "StoppingDrain" => stopMode = "Drain"
    /\ state = "StoppingDiscard" => stopMode = "Discard"
    /\ poolState = "Running" <=> ~PoolTold
    /\ \A c \in Caller : stopPc[c] = "drains" => stopMode = "Drain"

\* What each phase has established stays so.
PhaseInv ==
    /\ PostsOver => inFlightPosts = 0
    /\ DrainsOver /\ stopMode = "Drain" =>
          /\ \A w \in Worker : workerPc[w] \in {"ready", "exited"}
          /\ ready = << >>
          /\ \A l \in Lane : laneState[l] = "Idle" /\ laneQueue[l] = << >>
    /\ Joined => ready = << >> /\ \A w \in Worker : workerPc[w] = "exited"
    /\ ~laneAlive => state = "Stopped" \/ InStop({"finish"})

(***************************************************************************)
(* What became of each accepted message                                    *)
(***************************************************************************)
Handles(w, l) == workerLane[w] = l /\ HasMessage(w)

\* Accepted are, in order: the messages handled, the one a worker has in hand, the queue.
OrderInv ==
    laneAlive \/ stopMode = "Drain" =>
        \A l \in Lane :
            /\ \A w \in Worker : Handles(w, l) =>
                  accepted[l] = handled[l] \o (<< current[w] >> \o laneQueue[l])
            /\ (\A w \in Worker : ~Handles(w, l)) => accepted[l] = handled[l] \o laneQueue[l]

ReservedOnce == HolderInv /\ ReservationInv /\ DrainInv

SchedulerInv == TypeOK /\ ThreadInv /\ CountInv /\ ReservedOnce /\ ModeInv /\ PhaseInv

Inv == SchedulerInv /\ ScheduleAssertions /\ OrderInv
-----------------------------------------------------------------------------
(***************************************************************************)
(* Types                                                                   *)
(***************************************************************************)
LEMMA ScheduleAnswerType == ScheduleAnswer \in {"SUCCESS", "INVALID_STATE", "CAPACITY_EXCEEDED"}
  BY DEF ScheduleAnswer

LEMMA TypeNext == TypeOK /\ ThreadInv /\ CountInv /\ [Next]_vars => TypeOK'
  <1> SUFFICES ASSUME TypeOK, ThreadInv, CountInv, [Next]_vars PROVE TypeOK'
    OBVIOUS
  <1>1. ASSUME NEW c \in Caller, NEW l \in Lane, NEW m \in Message, PostEnter(c, l, m)
       PROVE  TypeOK'
    BY <1>1 DEF PostEnter, TypeOK, schedVars, laneVars, poolVars, drainVars,
         postVars, stopVars, history
  <1>2. ASSUME NEW c \in Caller, PostRefused(c) PROVE TypeOK'
    BY <1>2 DEF PostRefused, TypeOK, schedVars, laneVars, poolVars, drainVars,
         postVars, stopVars, history
  <1>3. ASSUME NEW c \in Caller, PostPublish(c) PROVE TypeOK'
    <2>1. postLane[c] \in Lane /\ postMessage[c] \in Message
      BY <1>3 DEF PostPublish, ThreadInv
    <2> QED
      BY <1>3, <2>1 DEF PostPublish, TypeOK, schedVars, laneVars, poolVars, drainVars, postVars,
         stopVars, history
  <1>4. ASSUME NEW c \in Caller, PostSchedule(c) PROVE TypeOK'
    <2>1. ready' \in Seq(Lane)
      BY <1>4 DEF PostSchedule, TryScheduleLane, TypeOK, ThreadInv
    <2>2. scheduleResult' \in [Caller -> {"SUCCESS", "INVALID_STATE", "CAPACITY_EXCEEDED"}]
      BY <1>4, ScheduleAnswerType DEF PostSchedule, TryScheduleLane, TypeOK
    <2>3. postPc' \in [Caller -> {"idle", "publish", "schedule", "assert", "leave"}]
      BY <1>4 DEF PostSchedule, TypeOK
    <2> QED
      BY <1>4, <2>1, <2>2, <2>3 DEF PostSchedule, TypeOK, schedVars, laneVars, poolVars, drainVars, postVars,
         stopVars, history
  <1>5. ASSUME NEW c \in Caller, PostAssert(c) PROVE TypeOK'
    BY <1>5 DEF PostAssert, TypeOK, schedVars, laneVars, poolVars, drainVars,
         postVars, stopVars, history
  <1>6. ASSUME NEW c \in Caller, PostLeave(c) PROVE TypeOK'
    <2>1. inFlightPosts' \in Nat
      <3>1. c \in Posters /\ IsFiniteSet(Posters) /\ Cardinality(Posters) = inFlightPosts
        BY <1>6 DEF PostLeave, Posters, CountInv
      <3>2. inFlightPosts # 0
        BY <3>1, FS_EmptySet
      <3> QED
        BY <1>6, <3>2 DEF PostLeave, TypeOK
    <2> QED
      BY <1>6, <2>1 DEF PostLeave, NotifyAll, TypeOK, schedVars, laneVars, poolVars, drainVars, postVars,
         stopVars, history
  <1>7. ASSUME NEW w \in Worker, WorkerTake(w) PROVE TypeOK'
    <2>1. Head(ready) \in Lane /\ Tail(ready) \in Seq(Lane)
      BY <1>7, HeadTailProperties DEF WorkerTake, TypeOK
    <2> QED
      BY <1>7, <2>1 DEF WorkerTake, TypeOK, schedVars, laneVars, poolVars, drainVars, postVars,
         stopVars, history
  <1>8. ASSUME NEW w \in Worker, WorkerExit(w) PROVE TypeOK'
    BY <1>8 DEF WorkerExit, TypeOK, schedVars, laneVars, poolVars, drainVars,
         postVars, stopVars, history
  <1>9. ASSUME NEW w \in Worker, DrainCheck(w) PROVE TypeOK'
    BY <1>9 DEF DrainCheck, TypeOK, schedVars, laneVars, poolVars, drainVars,
         postVars, stopVars, history
  <1>10. ASSUME NEW w \in Worker, DrainEnter(w) PROVE TypeOK'
    BY <1>10 DEF DrainEnter, TypeOK, schedVars, laneVars, poolVars, drainVars,
         postVars, stopVars, history
  <1>11. ASSUME NEW w \in Worker, LaneBegin(w) PROVE TypeOK'
    <2> DEFINE scheduled == laneState[workerLane[w]] = "Scheduled"
    <2>0. UNCHANGED <<schedVars, laneQueue, laneAlive, poolVars, workerLane, current,
                      postVars, scheduleResult, stopVars, history>>
      BY <1>11 DEF LaneBegin
    <2>1. CASE scheduled
      <3>1. /\ laneState' = [laneState EXCEPT ![workerLane[w]] = "Draining"]
            /\ workerPc' = [workerPc EXCEPT ![w] = "loop"]
            /\ drained' = [drained EXCEPT ![w] = 0]
        BY <1>11, <2>1 DEF LaneBegin
      <3>2. 0 \in 0..MaxMessagesPerDrain
        BY SchedulerAssumption DEF IsValidCreateInfo
      <3>3. drained' \in [Worker -> 0..MaxMessagesPerDrain]
        BY <3>1, <3>2 DEF TypeOK
      <3> QED
        BY <2>0, <3>1, <3>3 DEF TypeOK, schedVars, laneVars, poolVars, drainVars, postVars,
         stopVars, history
    <2>2. CASE ~scheduled
      <3>1. workerPc' = [workerPc EXCEPT ![w] = "leave"] /\ UNCHANGED <<laneState, drained>>
        BY <1>11, <2>2 DEF LaneBegin
      <3> QED
        BY <2>0, <3>1 DEF TypeOK, schedVars, laneVars, poolVars, drainVars, postVars,
         stopVars, history
    <2> QED
      BY <2>1, <2>2
  <1>12. ASSUME NEW w \in Worker, LaneTake(w) PROVE TypeOK'
    <2>1. workerLane[w] \in Lane
      BY <1>12 DEF LaneTake, ThreadInv, HasLane, Counted
    <2>2. laneQueue[workerLane[w]] \in Seq(Message) /\ laneQueue[workerLane[w]] # << >>
      BY <1>12, <2>1 DEF LaneTake, TypeOK
    <2>3. Head(laneQueue[workerLane[w]]) \in Message /\ Tail(laneQueue[workerLane[w]]) \in Seq(Message)
      BY <2>2, HeadTailProperties
    <2>4. laneQueue' \in [Lane -> Seq(Message)] /\ current' \in [Worker -> Message \union {NoMessage}]
      BY <1>12, <2>3 DEF LaneTake, TypeOK
    <2> QED
      BY <1>12, <2>4 DEF LaneTake, TypeOK, schedVars, laneVars, poolVars, drainVars, postVars,
         stopVars, history
  <1>13. ASSUME NEW w \in Worker, LaneCall(w) PROVE TypeOK'
    BY <1>13 DEF LaneCall, TypeOK, schedVars, laneVars, poolVars, drainVars,
         postVars, stopVars, history
  <1>14. ASSUME NEW w \in Worker, LaneReturn(w) PROVE TypeOK'
    <2>1. current[w] \in Message /\ drained[w] < MaxMessagesPerDrain /\ workerLane[w] \in Lane
      BY <1>14 DEF LaneReturn, ThreadInv, HasMessage, HasLane, Counted
    <2>2. handled' \in [Lane -> Seq(Message)]
      BY <1>14, <2>1 DEF LaneReturn, TypeOK
    <2>3. drained' \in [Worker -> 0..MaxMessagesPerDrain]
      BY <1>14, <2>1, SchedulerAssumption DEF LaneReturn, TypeOK, IsValidCreateInfo
    <2> QED
      BY <1>14, <2>2, <2>3 DEF LaneReturn, TypeOK, schedVars, laneVars, poolVars, drainVars, postVars,
         stopVars, history
  <1>15. ASSUME NEW w \in Worker, LaneStop(w) PROVE TypeOK'
    BY <1>15 DEF LaneStop, TypeOK, schedVars, laneVars, poolVars, drainVars,
         postVars, stopVars, history
  <1>16. ASSUME NEW w \in Worker, LaneEnd(w) PROVE TypeOK'
    BY <1>16 DEF LaneEnd, TypeOK, schedVars, laneVars, poolVars, drainVars,
         postVars, stopVars, history
  <1>17. ASSUME NEW w \in Worker, DrainReschedule(w) PROVE TypeOK'
    <2>1. ready' \in Seq(Lane)
      BY <1>17 DEF DrainReschedule, TryScheduleLane, TypeOK, ThreadInv, HasLane, Counted
    <2>2. scheduleResult' \in [Caller -> {"SUCCESS", "INVALID_STATE", "CAPACITY_EXCEEDED"}]
      BY <1>17, ScheduleAnswerType DEF DrainReschedule, TryScheduleLane, TypeOK
    <2> QED
      BY <1>17, <2>1, <2>2 DEF DrainReschedule, TypeOK, schedVars, laneVars, poolVars, drainVars, postVars,
         stopVars, history
  <1>18. ASSUME NEW w \in Worker, DrainAssert(w) PROVE TypeOK'
    BY <1>18 DEF DrainAssert, TypeOK, schedVars, laneVars, poolVars, drainVars,
         postVars, stopVars, history
  <1>19. ASSUME NEW w \in Worker, DrainLeave(w) PROVE TypeOK'
    <2>1. activeDrains' \in Nat
      <3>1. w \in Active /\ IsFiniteSet(Active) /\ Cardinality(Active) = activeDrains
        BY <1>19 DEF DrainLeave, Active, Counted, CountInv
      <3>2. activeDrains # 0
        BY <3>1, FS_EmptySet
      <3> QED
        BY <1>19, <3>2 DEF DrainLeave, TypeOK
    <2> QED
      BY <1>19, <2>1 DEF DrainLeave, NotifyAll, TypeOK, schedVars, laneVars, poolVars, drainVars, postVars,
         stopVars, history
  <1>20. ASSUME NEW c \in Caller, NEW mode \in {"Drain", "Discard"}, StopEnter(c, mode)
       PROVE  TypeOK'
    BY <1>20 DEF StopEnter, TypeOK, schedVars, laneVars, poolVars, drainVars,
         postVars, stopVars, history
  <1>21. ASSUME NEW c \in Caller, StopSleep(c) PROVE TypeOK'
    BY <1>21 DEF StopSleep, TypeOK, schedVars, laneVars, poolVars, drainVars,
         postVars, stopVars, history
  <1>22. ASSUME NEW c \in Caller, StopWaited(c) PROVE TypeOK'
    BY <1>22 DEF StopWaited, TypeOK, schedVars, laneVars, poolVars, drainVars,
         postVars, stopVars, history
  <1>23. ASSUME NEW c \in Caller, StopPool(c) PROVE TypeOK'
    BY <1>23 DEF StopPool, TypeOK, schedVars, laneVars, poolVars, drainVars,
         postVars, stopVars, history
  <1>24. ASSUME NEW c \in Caller, StopJoin(c) PROVE TypeOK'
    <2>1. ready' \in Seq(Lane)
      BY <1>24 DEF StopJoin, TypeOK
    <2> QED
      BY <1>24, <2>1 DEF StopJoin, TypeOK, schedVars, laneVars, poolVars, drainVars, postVars,
         stopVars, history
  <1>25. ASSUME NEW c \in Caller, StopPoolDone(c) PROVE TypeOK'
    BY <1>25 DEF StopPoolDone, TypeOK, schedVars, laneVars, poolVars, drainVars,
         postVars, stopVars, history
  <1>26. ASSUME NEW c \in Caller, StopReset(c) PROVE TypeOK'
    <2>1. laneQueue' = [l \in Lane |-> << >>] /\ laneAlive' = FALSE
      BY <1>26 DEF StopReset
    <2>2. << >> \in Seq(Message)
      OBVIOUS
    <2>3. laneQueue' \in [Lane -> Seq(Message)] /\ laneAlive' \in BOOLEAN
      BY <2>1, <2>2
    <2> QED
      BY <1>26, <2>3 DEF StopReset, TypeOK, schedVars, laneVars, poolVars, drainVars, postVars,
         stopVars, history
  <1>27. ASSUME NEW c \in Caller, StopFinish(c) PROVE TypeOK'
    BY <1>27 DEF StopFinish, NotifyAll, TypeOK, schedVars, laneVars, poolVars, drainVars, postVars,
         stopVars, history
  <1>28. CASE UNCHANGED vars
    BY <1>28 DEF vars, TypeOK, schedVars, laneVars, poolVars, drainVars,
         postVars, stopVars, history
  <1> QED
    BY <1>1, <1>2, <1>3, <1>4, <1>5, <1>6, <1>7, <1>8, <1>9, <1>10, <1>11, <1>12, <1>13,
       <1>14, <1>15, <1>16, <1>17, <1>18, <1>19, <1>20, <1>21, <1>22, <1>23, <1>24,
       <1>25, <1>26, <1>27, <1>28
       DEF Next, PostStep, WorkerStep, StopStep

\* Drain finds the lane Scheduled: the reservation the worker took is still its own.
LEMMA BeginDrains ==
  ASSUME TypeOK, ThreadInv, ReservationInv, NEW w \in Worker, LaneBegin(w)
  PROVE  /\ workerPc[w] = "begin" /\ workerLane[w] \in Lane
         /\ laneState[workerLane[w]] = "Scheduled"
         /\ laneState' = [laneState EXCEPT ![workerLane[w]] = "Draining"]
         /\ workerPc' = [workerPc EXCEPT ![w] = "loop"]
         /\ drained' = [drained EXCEPT ![w] = 0]
         /\ UNCHANGED <<schedVars, laneQueue, laneAlive, poolVars, workerLane, current,
                        postVars, scheduleResult, stopVars, history>>
  <1>1. workerPc[w] = "begin"
    BY DEF LaneBegin
  <1>2. workerLane[w] \in Lane
    BY <1>1 DEF ThreadInv, HasLane, Counted
  <1>3. laneState[workerLane[w]] = "Scheduled"
    BY <1>1, <1>2 DEF ReservationInv, Reserved, Reserves
  <1> QED
    BY <1>1, <1>2, <1>3 DEF LaneBegin
-----------------------------------------------------------------------------
(***************************************************************************)
(* Threads and their locals                                                *)
(***************************************************************************)
LEMMA ThreadNext == TypeOK /\ ThreadInv /\ ReservationInv /\ [Next]_vars => ThreadInv'
  <1> SUFFICES ASSUME TypeOK, ThreadInv, ReservationInv, [Next]_vars PROVE ThreadInv'
    OBVIOUS
  <1>1. ASSUME NEW c \in Caller, NEW l \in Lane, NEW m \in Message, PostEnter(c, l, m)
       PROVE  ThreadInv'
    <2>1. c \in Worker => workerPc[c] = "calling"
      BY <1>1, SchedulerAssumption DEF PostEnter, CanCall
    <2> QED
      BY <1>1, <2>1 DEF PostEnter, TypeOK, ThreadInv, HasLane, Counted, HasMessage, Caller,
                        drainVars, stopVars
  <1>2. ASSUME NEW c \in Caller, PostRefused(c) PROVE ThreadInv'
    BY <1>2 DEF PostRefused, TypeOK, ThreadInv, HasLane, Counted, HasMessage, Caller,
         drainVars, postVars, stopVars
  <1>3. ASSUME NEW c \in Caller, PostPublish(c) PROVE ThreadInv'
    BY <1>3 DEF PostPublish, TypeOK, ThreadInv, HasLane, Counted, HasMessage, Caller,
         drainVars, postVars, stopVars
  <1>4. ASSUME NEW c \in Caller, PostSchedule(c) PROVE ThreadInv'
    BY <1>4 DEF PostSchedule, TypeOK, ThreadInv, HasLane, Counted, HasMessage, Caller,
         drainVars, postVars, stopVars
  <1>5. ASSUME NEW c \in Caller, PostAssert(c) PROVE ThreadInv'
    BY <1>5 DEF PostAssert, TypeOK, ThreadInv, HasLane, Counted, HasMessage, Caller,
         drainVars, postVars, stopVars
  <1>6. ASSUME NEW c \in Caller, PostLeave(c) PROVE ThreadInv'
    BY <1>6 DEF PostLeave, TypeOK, ThreadInv, HasLane, Counted, HasMessage, Caller,
         drainVars, postVars, stopVars
  <1>7. ASSUME NEW w \in Worker, WorkerTake(w) PROVE ThreadInv'
    <2>1. Head(ready) \in Lane
      BY <1>7, HeadTailProperties DEF WorkerTake, TypeOK
    <2> QED
      BY <1>7, <2>1 DEF WorkerTake, TypeOK, ThreadInv, HasLane, Counted, HasMessage,
                        Caller, postVars, stopVars
  <1>8. ASSUME NEW w \in Worker, WorkerExit(w) PROVE ThreadInv'
    BY <1>8 DEF WorkerExit, TypeOK, ThreadInv, HasLane, Counted, HasMessage, Caller,
         drainVars, postVars, stopVars
  <1>9. ASSUME NEW w \in Worker, DrainCheck(w) PROVE ThreadInv'
    BY <1>9 DEF DrainCheck, TypeOK, ThreadInv, HasLane, Counted, HasMessage, Caller,
         drainVars, postVars, stopVars
  <1>10. ASSUME NEW w \in Worker, DrainEnter(w) PROVE ThreadInv'
    BY <1>10 DEF DrainEnter, TypeOK, ThreadInv, HasLane, Counted, HasMessage, Caller,
         drainVars, postVars, stopVars
  <1>11. ASSUME NEW w \in Worker, LaneBegin(w) PROVE ThreadInv'
    BY <1>11, BeginDrains, SchedulerAssumption
       DEF TypeOK, ThreadInv, HasLane, Counted, HasMessage, Caller, IsValidCreateInfo,
           postVars, stopVars
  <1>12. ASSUME NEW w \in Worker, LaneTake(w) PROVE ThreadInv'
    <2>1. workerLane[w] \in Lane
      BY <1>12 DEF LaneTake, ThreadInv, HasLane, Counted
    <2>2. laneQueue[workerLane[w]] \in Seq(Message) /\ laneQueue[workerLane[w]] # << >>
      BY <1>12, <2>1 DEF LaneTake, TypeOK
    <2>3. Head(laneQueue[workerLane[w]]) \in Message
      BY <2>2, HeadTailProperties
    <2> QED
      BY <1>12, <2>3 DEF LaneTake, BatchLeft, TypeOK, ThreadInv, HasLane, Counted, HasMessage,
                        Caller, postVars, stopVars
  <1>13. ASSUME NEW w \in Worker, LaneCall(w) PROVE ThreadInv'
    BY <1>13 DEF LaneCall, TypeOK, ThreadInv, HasLane, Counted, HasMessage, Caller,
         drainVars, postVars, stopVars
  <1>14. ASSUME NEW w \in Worker, LaneReturn(w) PROVE ThreadInv'
    BY <1>14 DEF LaneReturn, TypeOK, ThreadInv, HasLane, Counted, HasMessage, Caller,
         drainVars, postVars, stopVars
  <1>15. ASSUME NEW w \in Worker, LaneStop(w) PROVE ThreadInv'
    BY <1>15 DEF LaneStop, TypeOK, ThreadInv, HasLane, Counted, HasMessage, Caller,
         drainVars, postVars, stopVars
  <1>16. ASSUME NEW w \in Worker, LaneEnd(w) PROVE ThreadInv'
    BY <1>16 DEF LaneEnd, TypeOK, ThreadInv, HasLane, Counted, HasMessage, Caller,
         drainVars, postVars, stopVars
  <1>17. ASSUME NEW w \in Worker, DrainReschedule(w) PROVE ThreadInv'
    BY <1>17 DEF DrainReschedule, TypeOK, ThreadInv, HasLane, Counted, HasMessage, Caller,
         drainVars, postVars, stopVars
  <1>18. ASSUME NEW w \in Worker, DrainAssert(w) PROVE ThreadInv'
    BY <1>18 DEF DrainAssert, TypeOK, ThreadInv, HasLane, Counted, HasMessage, Caller,
         drainVars, postVars, stopVars
  <1>19. ASSUME NEW w \in Worker, DrainLeave(w) PROVE ThreadInv'
    BY <1>19 DEF DrainLeave, TypeOK, ThreadInv, HasLane, Counted, HasMessage, Caller,
         drainVars, postVars, stopVars
  <1>20. ASSUME NEW c \in Caller, NEW mode \in {"Drain", "Discard"}, StopEnter(c, mode)
       PROVE  ThreadInv'
    <2>1. c \notin Worker
      BY <1>20, SchedulerAssumption DEF StopEnter, CanCall, IsCurrentDrainCallback
    <2> QED
      BY <1>20, <2>1 DEF StopEnter, TypeOK, ThreadInv, HasLane, Counted, HasMessage, Caller,
                        drainVars, postVars
  <1>21. ASSUME NEW c \in Caller, StopSleep(c) PROVE ThreadInv'
    BY <1>21 DEF StopSleep, TypeOK, ThreadInv, HasLane, Counted, HasMessage, Caller,
         drainVars, postVars, stopVars
  <1>22. ASSUME NEW c \in Caller, StopWaited(c) PROVE ThreadInv'
    BY <1>22 DEF StopWaited, TypeOK, ThreadInv, HasLane, Counted, HasMessage, Caller,
         drainVars, postVars, stopVars
  <1>23. ASSUME NEW c \in Caller, StopPool(c) PROVE ThreadInv'
    BY <1>23 DEF StopPool, TypeOK, ThreadInv, HasLane, Counted, HasMessage, Caller,
         drainVars, postVars, stopVars
  <1>24. ASSUME NEW c \in Caller, StopJoin(c) PROVE ThreadInv'
    BY <1>24 DEF StopJoin, TypeOK, ThreadInv, HasLane, Counted, HasMessage, Caller,
         drainVars, postVars, stopVars
  <1>25. ASSUME NEW c \in Caller, StopPoolDone(c) PROVE ThreadInv'
    BY <1>25 DEF StopPoolDone, TypeOK, ThreadInv, HasLane, Counted, HasMessage, Caller,
         drainVars, postVars, stopVars
  <1>26. ASSUME NEW c \in Caller, StopReset(c) PROVE ThreadInv'
    BY <1>26 DEF StopReset, TypeOK, ThreadInv, HasLane, Counted, HasMessage, Caller,
         drainVars, postVars, stopVars
  <1>27. ASSUME NEW c \in Caller, StopFinish(c) PROVE ThreadInv'
    BY <1>27 DEF StopFinish, TypeOK, ThreadInv, HasLane, Counted, HasMessage, Caller,
         drainVars, postVars, stopVars
  <1>28. CASE UNCHANGED vars
    BY <1>28 DEF vars, TypeOK, ThreadInv, HasLane, Counted, HasMessage, Caller,
         drainVars, postVars, stopVars
  <1> QED
    BY <1>1, <1>2, <1>3, <1>4, <1>5, <1>6, <1>7, <1>8, <1>9, <1>10, <1>11, <1>12, <1>13,
       <1>14, <1>15, <1>16, <1>17, <1>18, <1>19, <1>20, <1>21, <1>22, <1>23, <1>24,
       <1>25, <1>26, <1>27, <1>28
       DEF Next, PostStep, WorkerStep, StopStep
-----------------------------------------------------------------------------
(***************************************************************************)
(* The counters                                                            *)
(***************************************************************************)
WorkOrStop == \/ \E w \in Worker : WorkerStep(w)
              \/ \E c \in Caller : StopStep(c)
              \/ \E c \in Caller, mode \in {"Drain", "Discard"} : StopEnter(c, mode)

LEMMA WorkOrStopPosts == WorkOrStop => UNCHANGED <<postVars, inFlightPosts>>
  <1>1. ASSUME NEW w \in Worker, WorkerStep(w) PROVE UNCHANGED <<postVars, inFlightPosts>>
    BY <1>1 DEF WorkerStep, WorkerTake, WorkerExit, DrainCheck, DrainEnter, DrainReschedule,
                DrainAssert, DrainLeave, LaneBegin, LaneTake, LaneCall, LaneReturn,
                LaneStop, LaneEnd, schedVars
  <1>2. ASSUME NEW c \in Caller, StopStep(c) PROVE UNCHANGED <<postVars, inFlightPosts>>
    BY <1>2 DEF StopStep, StopSleep, StopWaited, StopPool, StopJoin, StopPoolDone, StopReset,
                StopFinish, schedVars
  <1>3. ASSUME NEW c \in Caller, NEW mode \in {"Drain", "Discard"}, StopEnter(c, mode)
        PROVE  UNCHANGED <<postVars, inFlightPosts>>
    BY <1>3 DEF StopEnter
  <1> QED
    BY <1>1, <1>2, <1>3 DEF WorkOrStop

LEMMA PostersCounted ==
  ASSUME TypeOK, CountInv, [Next]_vars
  PROVE  IsFiniteSet(Posters') /\ Cardinality(Posters') = inFlightPosts'
  <1>1. ASSUME NEW c \in Caller, NEW l \in Lane, NEW m \in Message, PostEnter(c, l, m)
        PROVE  IsFiniteSet(Posters') /\ Cardinality(Posters') = inFlightPosts'
    <2>1. c \notin Posters /\ Posters' = Posters \union {c}
      BY <1>1 DEF PostEnter, CanCall, Posters, TypeOK
    <2>2. inFlightPosts' = inFlightPosts + 1
      BY <1>1 DEF PostEnter
    <2> QED
      BY <2>1, <2>2, FS_AddElement DEF CountInv
  <1>2. ASSUME NEW c \in Caller, PostLeave(c)
        PROVE  IsFiniteSet(Posters') /\ Cardinality(Posters') = inFlightPosts'
    <2>1. c \in Posters /\ Posters' = Posters \ {c}
      BY <1>2 DEF PostLeave, Posters, TypeOK
    <2>2. inFlightPosts' = inFlightPosts - 1
      BY <1>2 DEF PostLeave
    <2> QED
      BY <2>1, <2>2, FS_RemoveElement DEF CountInv
  <1>3. ASSUME NEW c \in Caller,
               PostRefused(c) \/ PostPublish(c) \/ PostSchedule(c) \/ PostAssert(c)
        PROVE  IsFiniteSet(Posters') /\ Cardinality(Posters') = inFlightPosts'
    <2>1. Posters' = Posters /\ inFlightPosts' = inFlightPosts
      BY <1>3 DEF PostRefused, PostPublish, PostSchedule, PostAssert, Posters, TypeOK, schedVars
    <2> QED
      BY <2>1 DEF CountInv
  <1>4. ASSUME UNCHANGED <<postVars, inFlightPosts>>
        PROVE  IsFiniteSet(Posters') /\ Cardinality(Posters') = inFlightPosts'
    <2>1. Posters' = Posters
      BY <1>4 DEF Posters, postVars
    <2> QED
      BY <1>4, <2>1 DEF CountInv
  <1>5. CASE UNCHANGED vars
    BY <1>4, <1>5 DEF vars, schedVars
  <1> QED
    BY <1>1, <1>2, <1>3, <1>4, <1>5, WorkOrStopPosts DEF Next, PostStep, WorkOrStop

LEMMA ActiveCounted ==
  ASSUME TypeOK, ThreadInv, ReservationInv, CountInv, [Next]_vars
  PROVE  IsFiniteSet(Active') /\ Cardinality(Active') = activeDrains'
  <1>0. ASSUME UNCHANGED <<workerPc, activeDrains>>
        PROVE  IsFiniteSet(Active') /\ Cardinality(Active') = activeDrains'
    <2>1. Active' = Active
      BY <1>0 DEF Active
    <2> QED
      BY <1>0, <2>1 DEF CountInv
  <1>1. ASSUME NEW w \in Worker, DrainEnter(w)
        PROVE  IsFiniteSet(Active') /\ Cardinality(Active') = activeDrains'
    <2>1. w \notin Active /\ Active' = Active \union {w}
      BY <1>1 DEF DrainEnter, Active, Counted, TypeOK
    <2>2. activeDrains' = activeDrains + 1
      BY <1>1 DEF DrainEnter
    <2> QED
      BY <2>1, <2>2, FS_AddElement DEF CountInv
  <1>2. ASSUME NEW w \in Worker, DrainLeave(w)
        PROVE  IsFiniteSet(Active') /\ Cardinality(Active') = activeDrains'
    <2>1. w \in Active /\ Active' = Active \ {w}
      BY <1>2 DEF DrainLeave, Active, Counted, TypeOK
    <2>2. activeDrains' = activeDrains - 1
      BY <1>2 DEF DrainLeave
    <2> QED
      BY <2>1, <2>2, FS_RemoveElement DEF CountInv
  <1>3. ASSUME NEW w \in Worker, \/ WorkerTake(w) \/ WorkerExit(w) \/ DrainCheck(w)
                                 \/ LaneTake(w) \/ LaneCall(w) \/ LaneReturn(w) \/ LaneStop(w)
                                 \/ LaneEnd(w) \/ DrainReschedule(w) \/ DrainAssert(w)
        PROVE  IsFiniteSet(Active') /\ Cardinality(Active') = activeDrains'
    <2>1. Active' = Active /\ activeDrains' = activeDrains
      BY <1>3 DEF WorkerTake, WorkerExit, DrainCheck, LaneTake, LaneCall, LaneReturn, LaneStop,
                  LaneEnd, DrainReschedule, DrainAssert, Active, Counted, TypeOK, schedVars
    <2> QED
      BY <2>1 DEF CountInv
  <1>4. ASSUME NEW w \in Worker, LaneBegin(w)
        PROVE  IsFiniteSet(Active') /\ Cardinality(Active') = activeDrains'
    <2>1. Active' = Active /\ activeDrains' = activeDrains
      BY <1>4, BeginDrains DEF Active, Counted, TypeOK, schedVars
    <2> QED
      BY <2>1 DEF CountInv
  <1>5. ASSUME NEW c \in Caller, StopStep(c) \/ PostStep(c)
        PROVE  UNCHANGED <<workerPc, activeDrains>>
    BY <1>5 DEF StopStep, StopSleep, StopWaited, StopPool, StopJoin, StopPoolDone, StopReset,
                StopFinish, PostStep, PostRefused, PostPublish, PostSchedule, PostAssert,
                PostLeave, schedVars
  <1>6. ASSUME NEW c \in Caller, \/ \E l \in Lane, m \in Message : PostEnter(c, l, m)
                                 \/ \E mode \in {"Drain", "Discard"} : StopEnter(c, mode)
        PROVE  UNCHANGED <<workerPc, activeDrains>>
    BY <1>6 DEF PostEnter, StopEnter
  <1>7. CASE UNCHANGED vars
    BY <1>0, <1>7 DEF vars, schedVars
  <1> QED
    BY <1>0, <1>1, <1>2, <1>3, <1>4, <1>5, <1>6, <1>7 DEF Next, WorkerStep

LEMMA CountNext ==
  TypeOK /\ ThreadInv /\ ReservationInv /\ CountInv /\ [Next]_vars => CountInv'
  BY PostersCounted, ActiveCounted DEF CountInv
-----------------------------------------------------------------------------
(***************************************************************************)
(* The reservation of a lane                                               *)
(***************************************************************************)
\* Until a Discard, the pool has not been told to stop while a thread is in TryPost or a
\* worker holds a lane.
LEMMA PoolRuns ==
  ASSUME TypeOK, CountInv, ModeInv, PhaseInv, AcceptsSchedule,
         \/ \E c \in Caller : postPc[c] # "idle"
         \/ \E w \in Worker : workerPc[w] \notin {"ready", "exited"}
  PROVE  poolState = "Running"
  <1> SUFFICES ASSUME PoolTold PROVE FALSE
    BY DEF ModeInv
  <1>1. state # "Stopped" /\ InStop(AfterTold)
    BY DEF PoolTold, AcceptsSchedule
  <1>2. stopMode = "Drain"
    BY <1>1 DEF InStop, AfterTold, ModeInv, AcceptsSchedule
  <1>3. PostsOver /\ DrainsOver
    BY <1>1 DEF PostsOver, DrainsOver, InStop, AfterPosts, AfterDrains, AfterTold
  <1>4. \A c \in Caller : postPc[c] = "idle"
    <2>1. IsFiniteSet(Posters) /\ Cardinality(Posters) = 0
      BY <1>3 DEF PhaseInv, CountInv
    <2>2. Posters = {}
      BY <2>1, FS_EmptySet
    <2> QED
      BY <2>2 DEF Posters
  <1>5. \A w \in Worker : workerPc[w] \in {"ready", "exited"}
    BY <1>2, <1>3 DEF PhaseInv
  <1> QED
    BY <1>4, <1>5

\* The entries of the ready queue are different lanes: it has room for one not in it.
LEMMA ReadyHasRoom ==
  ASSUME TypeOK, HolderInv, NEW l \in Lane, ~Queued(l)
  PROVE  Len(ready) < ReadyCapacity
  <1>1. Len(ready) \in Nat /\ \A n \in 1..Len(ready) : ready[n] \in Lane \ {l}
    BY DEF TypeOK, Queued
  <1>2. \A m, n \in 1..Len(ready) : ready[m] = ready[n] => m = n
    BY <1>1 DEF HolderInv
  <1>3. /\ IsFiniteSet(Lane) /\ Cardinality(Lane) \in Nat
        /\ ReadyCapacity \in Nat /\ Cardinality(Lane) <= ReadyCapacity
    BY SchedulerAssumption, FS_CardinalityType DEF IsValidCreateInfo
  <1>4. IsFiniteSet(Lane \ {l}) /\ Cardinality(Lane \ {l}) = Cardinality(Lane) - 1
    BY <1>3, FS_RemoveElement
  <1>5. IsFiniteSet(1..Len(ready)) /\ Cardinality(1..Len(ready)) = Len(ready)
    <2>1. PICK k \in Nat : k = Len(ready)
      BY <1>1
    <2>2. IsFiniteSet(1..k) /\ Cardinality(1..k) = IF 1 > k THEN 0 ELSE k - 1 + 1
      BY FS_Interval
    <2> QED
      BY <2>1, <2>2
  <1>6. CASE Cardinality(Lane \ {l}) < Len(ready)
    <2> DEFINE entry == [n \in 1..Len(ready) |-> ready[n]]
    <2>1. entry \in [1..Len(ready) -> Lane \ {l}]
      BY <1>1
    <2>2. \E m, n \in 1..Len(ready) : m # n /\ entry[m] = entry[n]
      <3> HIDE DEF entry
      <3> QED
        BY <1>4, <1>5, <1>6, <2>1, FS_PigeonHole
    <2> QED
      BY <1>2, <2>2
  <1> QED
    BY <1>1, <1>3, <1>4, <1>6

LEMMA ScheduleSucceeds ==
  ASSUME TypeOK, CountInv, HolderInv, ModeInv, PhaseInv, AcceptsSchedule,
         NEW l \in Lane, ~Queued(l),
         \/ \E c \in Caller : postPc[c] # "idle"
         \/ \E w \in Worker : workerPc[w] \notin {"ready", "exited"}
  PROVE  ScheduleAnswer = "SUCCESS"
  <1>1. poolState = "Running"
    BY PoolRuns
  <1>2. Len(ready) < ReadyCapacity
    BY ReadyHasRoom
  <1>3. Len(ready) \in Nat /\ ReadyCapacity \in Nat
    BY SchedulerAssumption DEF TypeOK, IsValidCreateInfo
  <1> QED
    BY <1>1, <1>2, <1>3 DEF ScheduleAnswer

LEMMA QuietReservations ==
  ASSUME ReservedOnce, UNCHANGED <<ready, laneState>>, AcceptsSchedule' => AcceptsSchedule,
         \A w \in Worker, l \in Lane : /\ Reserves(w, l)' <=> Reserves(w, l)
                                       /\ InDrain(w, l)' <=> InDrain(w, l),
         \A c \in Caller, l \in Lane : Promises(c, l)' <=> Promises(c, l)
  PROVE  ReservedOnce'
  <1>1. \A l \in Lane : /\ Queued(l)' <=> Queued(l)
                        /\ Reserved(l)' <=> Reserved(l)
    BY DEF Queued, Reserved
  <1>2. HolderInv'
    BY <1>1 DEF ReservedOnce, HolderInv
  <1>3. ReservationInv'
    BY <1>1 DEF ReservedOnce, ReservationInv
  <1>4. DrainInv'
    BY DEF ReservedOnce, DrainInv
  <1> QED
    BY <1>2, <1>3, <1>4 DEF ReservedOnce


LEMMA QuietPosts ==
  ASSUME TypeOK, ThreadInv, ReservedOnce, NEW c \in Caller,
         \/ \E l \in Lane, m \in Message : PostEnter(c, l, m)
         \/ PostRefused(c) \/ PostAssert(c) \/ PostLeave(c)
  PROVE  ReservedOnce'
  <1>1. UNCHANGED <<ready, laneState, state, workerPc, workerLane>>
    BY DEF PostEnter, PostRefused, PostAssert, PostLeave, schedVars, laneVars, poolVars, drainVars
  <1>2. \A d \in Caller, l \in Lane : Promises(d, l)' <=> Promises(d, l)
    BY DEF PostEnter, CanCall, PostRefused, PostAssert, PostLeave, Promises, TypeOK, postVars
  <1>3. \A w \in Worker, l \in Lane : /\ Reserves(w, l)' <=> Reserves(w, l)
                                      /\ InDrain(w, l)' <=> InDrain(w, l)
    BY <1>1 DEF Reserves, InDrain
  <1> QED
    BY <1>1, <1>2, <1>3, QuietReservations DEF AcceptsSchedule

LEMMA QuietDrains ==
  ASSUME TypeOK, ThreadInv, ReservedOnce, NEW w \in Worker,
         \/ WorkerExit(w) \/ DrainEnter(w) \/ LaneTake(w) \/ LaneCall(w) \/ LaneReturn(w)
         \/ LaneStop(w) \/ DrainAssert(w) \/ DrainLeave(w)
         \/ DrainCheck(w) /\ CanDrain
  PROVE  ReservedOnce'
  <1>1. UNCHANGED <<ready, laneState, state, postPc, postLane>>
    BY DEF WorkerExit, DrainEnter, LaneTake, LaneCall, LaneReturn, LaneStop, DrainAssert, DrainLeave,
           DrainCheck, schedVars, laneVars, poolVars, postVars
  <1>2. \A v \in Worker, l \in Lane : /\ Reserves(v, l)' <=> Reserves(v, l)
                                      /\ InDrain(v, l)' <=> InDrain(v, l)
    <2>1. CASE WorkerExit(w) \/ DrainEnter(w) \/ (DrainCheck(w) /\ CanDrain)
      BY <2>1 DEF WorkerExit, DrainEnter, DrainCheck, Reserves, InDrain, TypeOK, drainVars
    <2>2. CASE LaneTake(w) \/ LaneCall(w)
      BY <2>2 DEF LaneTake, LaneCall, Reserves, InDrain, TypeOK, drainVars
    <2>3. CASE LaneReturn(w) \/ LaneStop(w)
      BY <2>3 DEF LaneReturn, LaneStop, Reserves, InDrain, TypeOK, drainVars
    <2>4. CASE DrainAssert(w) \/ DrainLeave(w)
      BY <2>4 DEF DrainAssert, DrainLeave, Reserves, InDrain, TypeOK, drainVars
    <2> QED
      BY <2>1, <2>2, <2>3, <2>4
  <1>3. \A c \in Caller, l \in Lane : Promises(c, l)' <=> Promises(c, l)
    BY <1>1 DEF Promises
  <1> QED
    BY <1>1, <1>2, <1>3, QuietReservations DEF AcceptsSchedule

LEMMA QuietStops ==
  ASSUME TypeOK, ReservedOnce, NEW c \in Caller,
         \/ \E mode \in {"Drain", "Discard"} : StopEnter(c, mode)
         \/ StopSleep(c) \/ StopWaited(c) \/ StopPool(c) \/ StopPoolDone(c) \/ StopReset(c)
         \/ StopFinish(c)
  PROVE  ReservedOnce'
  <1>1. UNCHANGED <<ready, laneState, postPc, postLane, workerPc, workerLane>>
    BY DEF StopEnter, StopSleep, StopWaited, StopPool, StopPoolDone, StopReset, StopFinish,
           laneVars, poolVars, postVars, drainVars
  <1>2. AcceptsSchedule' => AcceptsSchedule
    BY DEF StopEnter, StopSleep, StopWaited, StopPool, StopPoolDone, StopReset, StopFinish,
           AcceptsSchedule, schedVars
  <1>3. \A v \in Worker, l \in Lane : /\ Reserves(v, l)' <=> Reserves(v, l)
                                      /\ InDrain(v, l)' <=> InDrain(v, l)
    BY <1>1 DEF Reserves, InDrain
  <1>4. \A d \in Caller, l \in Lane : Promises(d, l)' <=> Promises(d, l)
    BY <1>1 DEF Promises
  <1> QED
    BY <1>1, <1>2, <1>3, <1>4, QuietReservations

\* A reservation is given up, or the pool's queue is destroyed, once a Discard has begun.
LEMMA ReservationGivenUp ==
  ASSUME ReservedOnce, laneState' = laneState, ~AcceptsSchedule',
         ready' = ready \/ ready' = << >>,
         \A w \in Worker, l \in Lane : /\ Reserves(w, l)' => Reserves(w, l)
                                       /\ InDrain(w, l)' <=> InDrain(w, l),
         \A c \in Caller, l \in Lane : Promises(c, l)' => Promises(c, l)
  PROVE  ReservedOnce'
  <1>1. \A l \in Lane : /\ Queued(l)' => Queued(l) /\ ready' = ready
                        /\ Reserved(l)' => Reserved(l)
    BY DEF Queued, Reserved
  <1>2. \A l \in Lane : \A m, n \in 1..Len(ready') : ready'[m] = l /\ ready'[n] = l => m = n
    BY DEF ReservedOnce, HolderInv
  <1>3. HolderInv'
    BY <1>1, <1>2 DEF ReservedOnce, HolderInv
  <1>4. ReservationInv'
    BY <1>1 DEF ReservedOnce, ReservationInv
  <1>5. DrainInv'
    BY DEF ReservedOnce, DrainInv
  <1> QED
    BY <1>3, <1>4, <1>5 DEF ReservedOnce

\* The worker or caller that holds the reservation of l gives it to the pool's queue.
LEMMA ReservationQueued ==
  ASSUME TypeOK, ReservedOnce, NEW l \in Lane, Reserved(l), ~Queued(l),
         ready' = Append(ready, l), UNCHANGED <<laneState, state>>,
         \A w \in Worker, k \in Lane : /\ Reserves(w, k)' <=> Reserves(w, k) /\ k # l
                                       /\ InDrain(w, k)' <=> InDrain(w, k),
         \A c \in Caller, k \in Lane : Promises(c, k)' <=> Promises(c, k) /\ k # l
  PROVE  ReservedOnce'
  <1>1. PICK len \in Nat : len = Len(ready)
    BY DEF TypeOK
  <1>2. /\ Len(ready') = len + 1 /\ ready'[len + 1] = l
        /\ \A n \in 1..len : ready'[n] = ready[n]
    BY <1>1 DEF TypeOK
  <1>3. \A n \in 1..len : ready[n] # l
    BY <1>1 DEF Queued
  <1>4. \A n \in 1..(len + 1) : n \in 1..len \/ n = len + 1
    BY <1>1
  <1>5. Queued(l)' /\ \A k \in Lane \ {l} : Queued(k)' <=> Queued(k)
    BY <1>1, <1>2, <1>4 DEF Queued
  <1>6. \A k \in Lane : \A m, n \in 1..Len(ready') : ready'[m] = k /\ ready'[n] = k => m = n
    BY <1>1, <1>2, <1>3, <1>4 DEF ReservedOnce, HolderInv
  <1>7. HolderInv'
    <2>1. \A k \in Lane \ {l} :
             /\ \A v, w \in Worker : Reserves(v, k)' /\ Reserves(w, k)' => v = w
             /\ \A c, d \in Caller : Promises(c, k)' /\ Promises(d, k)' => c = d
             /\ Queued(k)' => /\ \A w \in Worker : ~Reserves(w, k)'
                              /\ \A c \in Caller : ~Promises(c, k)'
             /\ \A w \in Worker, c \in Caller : ~(Reserves(w, k)' /\ Promises(c, k)')
      BY <1>5 DEF ReservedOnce, HolderInv
    <2>2. /\ \A w \in Worker : ~Reserves(w, l)'
          /\ \A c \in Caller : ~Promises(c, l)'
      OBVIOUS
    <2> QED
      BY <1>6, <2>1, <2>2 DEF HolderInv
  <1>8. \A k \in Lane : Reserved(k)' <=> Reserved(k)
    BY <1>5 DEF Reserved
  <1>9. ReservationInv'
    BY <1>8 DEF ReservedOnce, ReservationInv, AcceptsSchedule
  <1>10. DrainInv'
    BY DEF ReservedOnce, DrainInv
  <1> QED
    BY <1>7, <1>9, <1>10 DEF ReservedOnce

LEMMA PublishReserves ==
  ASSUME TypeOK, ThreadInv, ReservedOnce, NEW c \in Caller, PostPublish(c)
  PROVE  ReservedOnce'
  <1>1. PICK l \in Lane : l = postLane[c] /\ postPc[c] = "publish"
    BY DEF PostPublish, ThreadInv
  <1>2. UNCHANGED <<ready, state, workerPc, workerLane, postLane>>
    BY DEF PostPublish, schedVars, poolVars, drainVars
  <1>3. \A w \in Worker, k \in Lane : /\ Reserves(w, k)' <=> Reserves(w, k)
                                      /\ InDrain(w, k)' <=> InDrain(w, k)
    BY <1>2 DEF Reserves, InDrain
  <1>4. CASE laneState[l] = "Idle"
    <2>1. /\ laneState' = [laneState EXCEPT ![l] = "Scheduled"]
          /\ postPc' = [postPc EXCEPT ![c] = "schedule"]
      BY <1>1, <1>4 DEF PostPublish, ShouldSchedule
    <2>2. /\ laneState'[l] = "Scheduled"
          /\ \A k \in Lane \ {l} : laneState'[k] = laneState[k]
      BY <1>1, <2>1 DEF TypeOK
    <2>3. \A d \in Caller, k \in Lane : Promises(d, k)' <=> Promises(d, k) \/ (d = c /\ k = l)
      BY <1>1, <1>2, <2>1 DEF Promises, TypeOK
    <2>4. ~Reserved(l) /\ \A w \in Worker : ~InDrain(w, l)
      BY <1>1, <1>4 DEF ReservedOnce, ReservationInv, DrainInv
    <2>5. ~Queued(l) /\ (\A w \in Worker : ~Reserves(w, l)) /\ \A d \in Caller : ~Promises(d, l)
      BY <2>4 DEF Reserved
    <2>6. \A k \in Lane : Queued(k)' <=> Queued(k)
      BY <1>2 DEF Queued
    <2>7. HolderInv'
      BY <1>1, <1>2, <1>3, <2>3, <2>5, <2>6 DEF ReservedOnce, HolderInv
    <2>8. Reserved(l)' /\ \A k \in Lane \ {l} : Reserved(k)' <=> Reserved(k)
      BY <1>1, <1>3, <2>3, <2>6 DEF Reserved
    <2>9. ReservationInv'
      BY <1>1, <1>2, <2>2, <2>8 DEF ReservedOnce, ReservationInv, AcceptsSchedule
    <2>10. DrainInv'
      BY <1>1, <1>3, <2>2, <2>4 DEF ReservedOnce, DrainInv
    <2> QED
      BY <2>7, <2>9, <2>10 DEF ReservedOnce
  <1>5. CASE laneState[l] # "Idle"
    <2>1. laneState' = laneState /\ postPc' = [postPc EXCEPT ![c] = "leave"]
      BY <1>1, <1>5 DEF PostPublish, ShouldSchedule, TypeOK
    <2>2. \A d \in Caller, k \in Lane : Promises(d, k)' <=> Promises(d, k)
      BY <1>1, <1>2, <2>1 DEF Promises, TypeOK
    <2> QED
      BY <1>2, <1>3, <2>1, <2>2, QuietReservations DEF AcceptsSchedule
  <1> QED
    BY <1>4, <1>5

LEMMA PostSchedules ==
  ASSUME SchedulerInv, NEW c \in Caller, PostSchedule(c)
  PROVE  /\ ReservedOnce'
         /\ \/ scheduleResult'[c] = "SUCCESS"
            \/ scheduleResult'[c] = "INVALID_STATE" /\ ~AcceptsSchedule
  <1> USE DEF SchedulerInv
  <1>1. PICK l \in Lane : l = postLane[c] /\ postPc[c] = "schedule"
    BY DEF PostSchedule, ThreadInv
  <1>2. UNCHANGED <<laneState, state, workerPc, workerLane, postLane>>
    BY DEF PostSchedule, schedVars, laneVars, drainVars
  <1>3. \A w \in Worker, k \in Lane : /\ Reserves(w, k)' <=> Reserves(w, k)
                                      /\ InDrain(w, k)' <=> InDrain(w, k)
    BY <1>2 DEF Reserves, InDrain
  <1>4. \A d \in Caller, k \in Lane : Promises(d, k)' <=> Promises(d, k) /\ d # c
    BY <1>2 DEF PostSchedule, Promises, TypeOK
  <1>5. Promises(c, l) /\ \A k \in Lane : Promises(c, k) => k = l
    BY <1>1 DEF Promises
  <1>6. Reserved(l) /\ ~Queued(l) /\ (\A w \in Worker : ~Reserves(w, l))
        /\ \A d \in Caller : Promises(d, l) => d = c
    BY <1>5 DEF Reserved, ReservedOnce, HolderInv
  <1>7. scheduleResult'[c] = ScheduleAnswer
    BY DEF PostSchedule, TryScheduleLane, TypeOK
  <1>8. CASE AcceptsSchedule
    <2>1. ScheduleAnswer = "SUCCESS"
      BY <1>1, <1>6, <1>8, ScheduleSucceeds DEF ReservedOnce
    <2>2. ready' = Append(ready, l)
      BY <1>1, <2>1 DEF PostSchedule, TryScheduleLane
    <2>3. /\ \A w \in Worker, k \in Lane : Reserves(w, k)' <=> Reserves(w, k) /\ k # l
          /\ \A d \in Caller, k \in Lane : Promises(d, k)' <=> Promises(d, k) /\ k # l
      BY <1>3, <1>4, <1>5, <1>6
    <2> QED
      BY <1>2, <1>3, <1>6, <1>7, <2>1, <2>2, <2>3, ReservationQueued
  <1>9. CASE ~AcceptsSchedule
    <2>1. ScheduleAnswer = "INVALID_STATE"
      BY <1>9 DEF ScheduleAnswer
    <2>2. ready' = ready /\ ~AcceptsSchedule'
      BY <1>2, <1>9, <2>1 DEF PostSchedule, TryScheduleLane, AcceptsSchedule
    <2> QED
      BY <1>2, <1>3, <1>4, <1>7, <1>9, <2>1, <2>2, ReservationGivenUp
  <1> QED
    BY <1>8, <1>9

LEMMA DrainReschedules ==
  ASSUME SchedulerInv, NEW w \in Worker, DrainReschedule(w)
  PROVE  /\ ReservedOnce'
         /\ \/ scheduleResult'[w] = "SUCCESS"
            \/ scheduleResult'[w] = "INVALID_STATE" /\ ~AcceptsSchedule
  <1> USE DEF SchedulerInv
  <1>1. PICK l \in Lane : l = workerLane[w] /\ workerPc[w] = "reschedule"
    BY DEF DrainReschedule, ThreadInv, HasLane, Counted
  <1>2. UNCHANGED <<laneState, state, workerLane, postPc, postLane>>
    BY DEF DrainReschedule, schedVars, laneVars, drainVars, postVars
  <1>3. \A v \in Worker, k \in Lane : /\ Reserves(v, k)' <=> Reserves(v, k) /\ v # w
                                      /\ InDrain(v, k)' <=> InDrain(v, k)
    BY <1>2 DEF DrainReschedule, Reserves, InDrain, TypeOK
  <1>4. \A d \in Caller, k \in Lane : Promises(d, k)' <=> Promises(d, k)
    BY <1>2 DEF Promises
  <1>5. Reserves(w, l) /\ \A k \in Lane : Reserves(w, k) => k = l
    BY <1>1 DEF Reserves
  <1>6. Reserved(l) /\ ~Queued(l) /\ (\A d \in Caller : ~Promises(d, l))
        /\ \A v \in Worker : Reserves(v, l) => v = w
    BY <1>5 DEF Reserved, ReservedOnce, HolderInv
  <1>7. scheduleResult'[w] = ScheduleAnswer
    BY DEF DrainReschedule, TryScheduleLane, TypeOK, Caller
  <1>8. CASE AcceptsSchedule
    <2>1. ScheduleAnswer = "SUCCESS"
      BY <1>1, <1>6, <1>8, ScheduleSucceeds DEF ReservedOnce
    <2>2. ready' = Append(ready, l)
      BY <1>1, <2>1 DEF DrainReschedule, TryScheduleLane
    <2>3. /\ \A v \in Worker, k \in Lane : Reserves(v, k)' <=> Reserves(v, k) /\ k # l
          /\ \A d \in Caller, k \in Lane : Promises(d, k)' <=> Promises(d, k) /\ k # l
      BY <1>3, <1>4, <1>5, <1>6
    <2> QED
      BY <1>2, <1>3, <1>6, <1>7, <2>1, <2>2, <2>3, ReservationQueued
  <1>9. CASE ~AcceptsSchedule
    <2>1. ScheduleAnswer = "INVALID_STATE"
      BY <1>9 DEF ScheduleAnswer
    <2>2. ready' = ready /\ ~AcceptsSchedule'
      BY <1>2, <1>9, <2>1 DEF DrainReschedule, TryScheduleLane, AcceptsSchedule
    <2> QED
      BY <1>2, <1>3, <1>4, <1>7, <1>9, <2>1, <2>2, ReservationGivenUp
  <1> QED
    BY <1>8, <1>9

\* The worker takes the reservation with the entry it takes off the queue.
LEMMA TakeReserves ==
  ASSUME TypeOK, ThreadInv, ReservedOnce, NEW w \in Worker, WorkerTake(w)
  PROVE  ReservedOnce'
  <1>1. PICK l \in Lane, len \in Nat : l = ready[1] /\ l = Head(ready) /\ len + 1 = Len(ready)
    <2>1. ready \in Seq(Lane) /\ ready # << >>
      BY DEF WorkerTake, TypeOK
    <2>2. Len(ready) \in Nat /\ Len(ready) >= 1 /\ ready[1] \in Lane /\ Head(ready) = ready[1]
      BY <2>1
    <2>3. Len(ready) - 1 \in Nat /\ Len(ready) - 1 + 1 = Len(ready)
      BY <2>2
    <2> QED
      BY <2>2, <2>3
  <1>2. Len(ready') = len /\ \A n \in 1..len : ready'[n] = ready[n + 1]
    BY <1>1 DEF WorkerTake, TypeOK
  <1>3. UNCHANGED <<laneState, state, postPc, postLane>>
    BY DEF WorkerTake, schedVars, laneVars, postVars
  <1>4. \A c \in Caller, k \in Lane : Promises(c, k)' <=> Promises(c, k)
    BY <1>3 DEF Promises
  <1>5. \A v \in Worker, k \in Lane : /\ Reserves(v, k)' <=> Reserves(v, k) \/ (v = w /\ k = l)
                                      /\ InDrain(v, k)' <=> InDrain(v, k)
    BY <1>1 DEF WorkerTake, Reserves, InDrain, TypeOK
  <1>6. Queued(l) /\ \A n \in 1..len : ready[n + 1] # l
    BY <1>1 DEF Queued, ReservedOnce, HolderInv
  <1>7. (\A v \in Worker : ~Reserves(v, l)) /\ \A c \in Caller : ~Promises(c, l)
    BY <1>6 DEF ReservedOnce, HolderInv
  <1>8. ~Queued(l)' /\ \A k \in Lane \ {l} : Queued(k)' <=> Queued(k)
    <2>1. ~Queued(l)'
      BY <1>2, <1>6 DEF Queued
    <2>2. ASSUME NEW k \in Lane \ {l}, Queued(k)' PROVE Queued(k)
      <3>1. PICK n \in 1..len : ready[n + 1] = k
        BY <1>2, <2>2 DEF Queued
      <3>2. n + 1 \in 1..Len(ready)
        BY <1>1
      <3> QED
        BY <3>1, <3>2 DEF Queued
    <2>3. ASSUME NEW k \in Lane \ {l}, Queued(k) PROVE Queued(k)'
      <3>1. PICK n \in 1..(len + 1) : ready[n] = k
        BY <1>1, <2>3 DEF Queued
      <3>2. n # 1
        BY <1>1, <3>1
      <3>3. n - 1 \in 1..len /\ (n - 1) + 1 = n
        BY <3>2
      <3>4. ready'[n - 1] = k
        BY <1>2, <3>1, <3>3
      <3> QED
        BY <1>2, <3>3, <3>4 DEF Queued
    <2> QED
      BY <2>1, <2>2, <2>3
  <1>9. \A k \in Lane : \A m, n \in 1..Len(ready') : ready'[m] = k /\ ready'[n] = k => m = n
    <2>1. \A m \in 1..len : m + 1 \in 1..Len(ready)
      BY <1>1
    <2>2. \A k \in Lane : \A m, n \in 1..len :
              ready[m + 1] = k /\ ready[n + 1] = k => m + 1 = n + 1
      BY <2>1 DEF ReservedOnce, HolderInv
    <2>3. ASSUME NEW k \in Lane, NEW m \in 1..Len(ready'), NEW n \in 1..Len(ready'),
                 ready'[m] = k, ready'[n] = k
          PROVE  m = n
      <3>1. m \in 1..len /\ n \in 1..len /\ ready[m + 1] = k /\ ready[n + 1] = k
        BY <1>2, <2>3
      <3>2. m + 1 = n + 1
        BY <2>2, <3>1
      <3> QED
        BY <3>1, <3>2
    <2> QED
      BY <2>3
  <1>10. HolderInv'
    <2>1. \A k \in Lane \ {l} :
             /\ \A u, v \in Worker : Reserves(u, k)' /\ Reserves(v, k)' => u = v
             /\ \A c, d \in Caller : Promises(c, k)' /\ Promises(d, k)' => c = d
             /\ Queued(k)' => /\ \A v \in Worker : ~Reserves(v, k)'
                              /\ \A c \in Caller : ~Promises(c, k)'
             /\ \A v \in Worker, c \in Caller : ~(Reserves(v, k)' /\ Promises(c, k)')
      BY <1>4, <1>5, <1>8 DEF ReservedOnce, HolderInv
    <2>2. /\ \A v \in Worker : Reserves(v, l)' => v = w
          /\ \A c \in Caller : ~Promises(c, l)'
          /\ ~Queued(l)'
      BY <1>4, <1>5, <1>7, <1>8
    <2> QED
      BY <1>9, <2>1, <2>2 DEF HolderInv
  <1>11. \A k \in Lane : Reserved(k)' <=> Reserved(k)
    BY <1>4, <1>5, <1>6, <1>8 DEF Reserved
  <1>12. ReservationInv'
    BY <1>3, <1>11 DEF ReservedOnce, ReservationInv, AcceptsSchedule
  <1>13. DrainInv'
    BY <1>3, <1>5 DEF ReservedOnce, DrainInv
  <1> QED
    BY <1>10, <1>12, <1>13 DEF ReservedOnce

LEMMA CheckReserves ==
  ASSUME TypeOK, ThreadInv, ReservedOnce, NEW w \in Worker, DrainCheck(w), ~CanDrain
  PROVE  ReservedOnce'
  <1>1. UNCHANGED <<ready, laneState, state, postPc, postLane>> /\ ~AcceptsSchedule'
    BY DEF DrainCheck, CanDrain, AcceptsSchedule, schedVars, laneVars, poolVars, postVars
  <1>2. \A v \in Worker, l \in Lane : /\ Reserves(v, l)' => Reserves(v, l)
                                      /\ InDrain(v, l)' <=> InDrain(v, l)
    BY SchedulerAssumption DEF DrainCheck, Reserves, InDrain, TypeOK
  <1>3. \A c \in Caller, l \in Lane : Promises(c, l)' <=> Promises(c, l)
    BY <1>1 DEF Promises
  <1> QED
    BY <1>1, <1>2, <1>3, ReservationGivenUp

\* The reservation ends when its worker enters the lane's Drain.
LEMMA BeginReserves ==
  ASSUME TypeOK, ThreadInv, ReservedOnce, NEW w \in Worker, LaneBegin(w)
  PROVE  ReservedOnce'
  <1>0. /\ workerPc[w] = "begin" /\ workerLane[w] \in Lane
        /\ laneState[workerLane[w]] = "Scheduled"
        /\ laneState' = [laneState EXCEPT ![workerLane[w]] = "Draining"]
        /\ workerPc' = [workerPc EXCEPT ![w] = "loop"]
        /\ UNCHANGED <<schedVars, poolVars, workerLane, postVars>>
    BY BeginDrains DEF ReservedOnce
  <1>1. PICK l \in Lane : l = workerLane[w]
    BY <1>0
  <1>2. UNCHANGED <<ready, state, postPc, postLane>>
    BY <1>0 DEF schedVars, poolVars, postVars
  <1>3. laneState'[l] = "Draining" /\ \A k \in Lane \ {l} : laneState'[k] = laneState[k]
    BY <1>0, <1>1 DEF TypeOK
  <1>4. \A v \in Worker, k \in Lane :
           /\ Reserves(v, k)' <=> Reserves(v, k) /\ v # w
           /\ InDrain(v, k)' <=> InDrain(v, k) \/ (v = w /\ k = l)
    BY <1>0, <1>1 DEF Reserves, InDrain, TypeOK
  <1>5. \A c \in Caller, k \in Lane : Promises(c, k)' <=> Promises(c, k)
    BY <1>2 DEF Promises
  <1>6. \A k \in Lane : Queued(k)' <=> Queued(k)
    BY <1>2 DEF Queued
  <1>7. Reserves(w, l) /\ \A k \in Lane : Reserves(w, k) => k = l
    BY <1>0, <1>1 DEF Reserves
  <1>8. /\ ~Queued(l) /\ \A c \in Caller : ~Promises(c, l)
        /\ \A v \in Worker : Reserves(v, l) => v = w
        /\ \A v \in Worker : ~InDrain(v, l)
    BY <1>0, <1>1, <1>7 DEF ReservedOnce, HolderInv, DrainInv
  <1>9. HolderInv'
    BY <1>2, <1>4, <1>5, <1>6 DEF ReservedOnce, HolderInv
  <1>10. ~Reserved(l)' /\ \A k \in Lane \ {l} : Reserved(k)' <=> Reserved(k)
    <2>1. ~Reserved(l)'
      BY <1>4, <1>5, <1>6, <1>8 DEF Reserved
    <2>2. \A k \in Lane \ {l} : Reserved(k)' <=> Reserved(k)
      BY <1>4, <1>5, <1>6, <1>7 DEF Reserved
    <2> QED
      BY <2>1, <2>2
  <1>11. ReservationInv'
    BY <1>2, <1>3, <1>10 DEF ReservedOnce, ReservationInv, AcceptsSchedule
  <1>12. DrainInv'
    BY <1>3, <1>4, <1>8 DEF ReservedOnce, DrainInv
  <1> QED
    BY <1>9, <1>11, <1>12 DEF ReservedOnce

\* The worker that leaves a lane with messages left reserves it again.
LEMMA EndReserves ==
  ASSUME TypeOK, ThreadInv, ReservedOnce, NEW w \in Worker, LaneEnd(w)
  PROVE  ReservedOnce'
  <1>1. PICK l \in Lane : l = workerLane[w] /\ workerPc[w] = "leaving"
    BY DEF LaneEnd, ThreadInv, HasLane, Counted
  <1>2. UNCHANGED <<ready, state, workerLane, postPc, postLane>>
    BY DEF LaneEnd, schedVars, poolVars, drainVars, postVars
  <1>3. InDrain(w, l) /\ laneState[l] = "Draining" /\ \A v \in Worker : InDrain(v, l) => v = w
    BY <1>1 DEF InDrain, ReservedOnce, DrainInv
  <1>4. ~Reserved(l)
    BY <1>3 DEF ReservedOnce, ReservationInv
  <1>5. ~Queued(l) /\ (\A v \in Worker : ~Reserves(v, l)) /\ \A c \in Caller : ~Promises(c, l)
    BY <1>4 DEF Reserved
  <1>6. \A c \in Caller, k \in Lane : Promises(c, k)' <=> Promises(c, k)
    BY <1>2 DEF Promises
  <1>7. \A k \in Lane : Queued(k)' <=> Queued(k)
    BY <1>2 DEF Queued
  <1>8. \A v \in Worker, k \in Lane :
           /\ Reserves(v, k)' <=> Reserves(v, k) \/ (v = w /\ k = l /\ Remains(l))
           /\ InDrain(v, k)' <=> InDrain(v, k) /\ v # w
    BY <1>1, <1>2 DEF LaneEnd, Reserves, InDrain, TypeOK
  <1>9. /\ laneState'[l] = IF Remains(l) THEN "Scheduled" ELSE "Idle"
        /\ \A k \in Lane \ {l} : laneState'[k] = laneState[k]
    BY <1>1 DEF LaneEnd, TypeOK
  <1>10. HolderInv'
    <2>1. \A k \in Lane \ {l} :
             /\ \A u, v \in Worker : Reserves(u, k)' /\ Reserves(v, k)' => u = v
             /\ \A c, d \in Caller : Promises(c, k)' /\ Promises(d, k)' => c = d
             /\ Queued(k)' => /\ \A v \in Worker : ~Reserves(v, k)'
                              /\ \A c \in Caller : ~Promises(c, k)'
             /\ \A v \in Worker, c \in Caller : ~(Reserves(v, k)' /\ Promises(c, k)')
      BY <1>6, <1>7, <1>8 DEF ReservedOnce, HolderInv
    <2>2. /\ \A v \in Worker : Reserves(v, l)' => v = w
          /\ \A c \in Caller : ~Promises(c, l)'
          /\ ~Queued(l)'
      BY <1>5, <1>6, <1>7, <1>8
    <2>3. \A k \in Lane : \A m, n \in 1..Len(ready') : ready'[m] = k /\ ready'[n] = k => m = n
      BY <1>2 DEF ReservedOnce, HolderInv
    <2> QED
      BY <2>1, <2>2, <2>3 DEF HolderInv
  <1>11. /\ Reserved(l)' <=> Remains(l)
         /\ \A k \in Lane \ {l} : Reserved(k)' <=> Reserved(k)
    <2>1. Reserved(l)' <=> Remains(l)
      BY <1>5, <1>6, <1>7, <1>8 DEF Reserved
    <2>2. \A k \in Lane \ {l} : Reserved(k)' <=> Reserved(k)
      BY <1>6, <1>7, <1>8 DEF Reserved
    <2> QED
      BY <2>1, <2>2
  <1>12. ReservationInv'
    BY <1>2, <1>9, <1>11 DEF ReservedOnce, ReservationInv, AcceptsSchedule
  <1>13. DrainInv'
    BY <1>3, <1>8, <1>9 DEF ReservedOnce, DrainInv
  <1> QED
    BY <1>10, <1>12, <1>13 DEF ReservedOnce

\* The work items the pool destroys are reservations of a scheduler that discards.
LEMMA JoinReserves ==
  ASSUME TypeOK, ReservedOnce, ModeInv, NEW c \in Caller, StopJoin(c)
  PROVE  ReservedOnce'
  <1>1. UNCHANGED <<laneState, state, workerPc, workerLane, postPc, postLane>>
    BY DEF StopJoin, schedVars, laneVars, drainVars, postVars
  <1>2. /\ \A v \in Worker, l \in Lane : /\ Reserves(v, l)' <=> Reserves(v, l)
                                         /\ InDrain(v, l)' <=> InDrain(v, l)
        /\ \A d \in Caller, l \in Lane : Promises(d, l)' <=> Promises(d, l)
    BY <1>1 DEF Reserves, InDrain, Promises
  <1>3. CASE stopMode = "Discard"
    <2>1. ready' = << >>
      BY <1>3 DEF StopJoin
    <2>2. ~AcceptsSchedule'
      BY <1>1, <1>3 DEF StopJoin, ModeInv, AcceptsSchedule
    <2> QED
      BY <1>1, <1>2, <2>1, <2>2, ReservationGivenUp
  <1>4. CASE stopMode # "Discard"
    <2>1. ready' = ready
      BY <1>4 DEF StopJoin
    <2> QED
      BY <1>1, <1>2, <2>1, QuietReservations DEF AcceptsSchedule
  <1> QED
    BY <1>3, <1>4

LEMMA ReservationNext ==
  ASSUME SchedulerInv, [Next]_vars
  PROVE  ReservedOnce'
  <1> USE DEF SchedulerInv
  <1>1. ASSUME NEW c \in Caller, PostStep(c) PROVE ReservedOnce'
    BY <1>1, QuietPosts, PublishReserves, PostSchedules DEF PostStep
  <1>2. ASSUME NEW c \in Caller, StopStep(c) PROVE ReservedOnce'
    BY <1>2, QuietStops, JoinReserves DEF StopStep
  <1>3. ASSUME NEW w \in Worker, WorkerStep(w) PROVE ReservedOnce'
    <2>1. CASE DrainCheck(w)
      BY <2>1, QuietDrains, CheckReserves
    <2> QED
      BY <1>3, <2>1, QuietDrains, TakeReserves, BeginReserves, EndReserves, DrainReschedules
         DEF WorkerStep
  <1>4. ASSUME NEW c \in Caller, NEW l \in Lane, NEW m \in Message, PostEnter(c, l, m)
        PROVE  ReservedOnce'
    BY <1>4, QuietPosts
  <1>5. ASSUME NEW c \in Caller, NEW mode \in {"Drain", "Discard"}, StopEnter(c, mode)
        PROVE  ReservedOnce'
    BY <1>5, QuietStops
  <1>6. CASE UNCHANGED vars
    <2>1. UNCHANGED <<ready, laneState, state, workerPc, workerLane, postPc, postLane>>
      BY <1>6 DEF vars, schedVars, laneVars, poolVars, drainVars, postVars
    <2>2. /\ \A v \in Worker, l \in Lane : /\ Reserves(v, l)' <=> Reserves(v, l)
                                           /\ InDrain(v, l)' <=> InDrain(v, l)
          /\ \A d \in Caller, l \in Lane : Promises(d, l)' <=> Promises(d, l)
      BY <2>1 DEF Reserves, InDrain, Promises
    <2> QED
      BY <2>1, <2>2, QuietReservations DEF AcceptsSchedule
  <1> QED
    BY <1>1, <1>2, <1>3, <1>4, <1>5, <1>6 DEF Next
-----------------------------------------------------------------------------
(***************************************************************************)
(* The phases of Stop                                                      *)
(***************************************************************************)
LEMMA StopperAlone ==
  ASSUME ModeInv, NEW c \in Caller, stopPc[c] # "idle"
  PROVE  /\ \A d \in Caller \ {c} : stopPc[d] = "idle"
         /\ state \in {"StoppingDrain", "StoppingDiscard"}
         /\ stopMode = (IF state = "StoppingDrain" THEN "Drain" ELSE "Discard")
         /\ PostsOver <=> stopPc[c] \in AfterPosts
         /\ DrainsOver <=> stopPc[c] \in AfterDrains
         /\ PoolTold <=> stopPc[c] \in AfterTold
         /\ Joined <=> stopPc[c] \in AfterJoin
         /\ InStop({"finish"}) <=> stopPc[c] = "finish"
  BY DEF ModeInv, InStop, PostsOver, DrainsOver, PoolTold, Joined, AfterPosts, AfterDrains,
         AfterTold, AfterJoin

\* Where Stop is, after the one caller inside it has moved.
LEMMA StopperMoves ==
  ASSUME TypeOK, NEW c \in Caller, \A d \in Caller \ {c} : stopPc[d] = "idle",
         NEW phase, stopPc' = [stopPc EXCEPT ![c] = phase]
  PROVE  /\ stopPc'[c] = phase /\ \A d \in Caller \ {c} : stopPc'[d] = "idle"
         /\ PostsOver' <=> (state' = "Stopped" \/ phase \in AfterPosts)
         /\ DrainsOver' <=> (state' = "Stopped" \/ phase \in AfterDrains)
         /\ PoolTold' <=> (state' = "Stopped" \/ phase \in AfterTold)
         /\ Joined' <=> (state' = "Stopped" \/ phase \in AfterJoin)
         /\ InStop({"finish"})' <=> phase = "finish"
  <1>1. stopPc'[c] = phase /\ \A d \in Caller \ {c} : stopPc'[d] = "idle"
    BY DEF TypeOK
  <1> QED
    BY <1>1 DEF InStop, PostsOver, DrainsOver, PoolTold, Joined, AfterPosts, AfterDrains,
                AfterTold, AfterJoin

\* Outside the steps of Stop itself nothing Stop waits on is undone.
PostEnters   == \E c \in Caller, l \in Lane, m \in Message : PostEnter(c, l, m)
PostOrWork   == PostEnters \/ (\E c \in Caller : PostStep(c)) \/ (\E w \in Worker : WorkerStep(w))

LEMMA PostOrWorkFrame ==
  PostOrWork => UNCHANGED <<state, poolState, stopVars, laneAlive>>
  <1>1. PostEnters => UNCHANGED <<state, poolState, stopVars, laneAlive>>
    BY DEF PostEnters, PostEnter, laneVars, poolVars
  <1>2. ASSUME NEW c \in Caller, PostStep(c) PROVE UNCHANGED <<state, poolState, stopVars, laneAlive>>
    BY <1>2 DEF PostStep, PostRefused, PostPublish, PostSchedule, PostAssert, PostLeave,
                schedVars, laneVars, poolVars
  <1>3. ASSUME NEW w \in Worker, WorkerStep(w) PROVE UNCHANGED <<state, poolState, stopVars, laneAlive>>
    BY <1>3 DEF WorkerStep, WorkerTake, WorkerExit, DrainCheck, DrainEnter, DrainReschedule,
                DrainAssert, DrainLeave, LaneBegin, LaneTake, LaneCall, LaneReturn, LaneStop,
                LaneEnd, schedVars, laneVars, poolVars
  <1> QED
    BY <1>1, <1>2, <1>3 DEF PostOrWork

LEMMA ModeNext == TypeOK /\ ModeInv /\ [Next]_vars => ModeInv'
  <1> SUFFICES ASSUME TypeOK, ModeInv, [Next]_vars PROVE ModeInv'
    OBVIOUS
  <1>1. ASSUME UNCHANGED <<state, poolState, stopVars>> PROVE ModeInv'
    BY <1>1 DEF ModeInv, PoolTold, InStop, stopVars
  <1>2. ASSUME NEW c \in Caller, NEW mode \in {"Drain", "Discard"}, StopEnter(c, mode)
        PROVE  ModeInv'
    <2>1. /\ state = "Running" /\ \A d \in Caller : stopPc[d] = "idle"
          /\ stopPc' = [stopPc EXCEPT ![c] = "posts"] /\ stopMode' = mode
          /\ state' = IF mode = "Drain" THEN "StoppingDrain" ELSE "StoppingDiscard"
          /\ poolState' = poolState
      BY <1>2 DEF StopEnter, ModeInv, poolVars
    <2>2. /\ stopPc'[c] = "posts" /\ \A d \in Caller \ {c} : stopPc'[d] = "idle"
          /\ ~PoolTold'
      BY <2>1, StopperMoves DEF AfterTold
    <2>3. ~PoolTold
      BY <2>1 DEF PoolTold, InStop, AfterTold
    <2> QED
      BY <2>1, <2>2, <2>3 DEF ModeInv
  <1>3. ASSUME NEW c \in Caller, StopWaited(c) PROVE ModeInv'
    <2> DEFINE phase == IF stopPc[c] = "posts" /\ stopMode = "Drain" THEN "drains" ELSE "pool"
    <2>1. /\ stopPc[c] \in {"posts", "drains"} /\ stopPc' = [stopPc EXCEPT ![c] = phase]
          /\ UNCHANGED <<state, poolState, stopMode>>
      BY <1>3 DEF StopWaited, schedVars, poolVars
    <2> HIDE DEF phase
    <2>2. /\ stopPc'[c] = phase /\ \A d \in Caller \ {c} : stopPc'[d] = "idle"
          /\ PoolTold' <=> (state' = "Stopped" \/ phase \in AfterTold)
      BY <2>1, StopperAlone, StopperMoves
    <2>3. phase \in {"drains", "pool"} /\ (phase = "drains" => stopMode = "Drain")
      BY DEF phase
    <2>4. PoolTold' <=> PoolTold
      BY <2>1, <2>2, <2>3, StopperAlone DEF AfterTold
    <2> QED
      BY <2>1, <2>2, <2>3, <2>4, StopperAlone DEF ModeInv
  <1>4. ASSUME NEW c \in Caller, StopPool(c) PROVE ModeInv'
    <2>1. /\ stopPc[c] = "pool" /\ stopPc' = [stopPc EXCEPT ![c] = "join"]
          /\ UNCHANGED <<state, stopMode>> /\ poolState' # "Running"
      BY <1>4 DEF StopPool, schedVars
    <2>2. /\ stopPc'[c] = "join" /\ \A d \in Caller \ {c} : stopPc'[d] = "idle"
          /\ PoolTold'
      BY <2>1, StopperAlone, StopperMoves DEF AfterTold
    <2> QED
      BY <2>1, <2>2, StopperAlone DEF ModeInv, PoolTold
  <1>5. ASSUME NEW c \in Caller, StopJoin(c) \/ StopPoolDone(c) \/ StopReset(c) PROVE ModeInv'
    <2>1. PICK phase \in {"poolDone", "reset", "finish"} :
             /\ stopPc[c] \in {"join", "poolDone", "reset"}
             /\ stopPc' = [stopPc EXCEPT ![c] = phase]
             /\ UNCHANGED <<state, stopMode>>
             /\ poolState' \in {poolState, "Stopped"}
      BY <1>5 DEF StopJoin, StopPoolDone, StopReset, schedVars, poolVars
    <2>2. /\ stopPc'[c] = phase /\ \A d \in Caller \ {c} : stopPc'[d] = "idle"
          /\ PoolTold'
      BY <2>1, StopperAlone, StopperMoves DEF AfterTold
    <2>3. PoolTold
      BY <2>1, StopperAlone DEF AfterTold
    <2> QED
      BY <2>1, <2>2, <2>3, StopperAlone DEF ModeInv, PoolTold
  <1>6. ASSUME NEW c \in Caller, StopFinish(c) PROVE ModeInv'
    <2>1. /\ stopPc[c] = "finish" /\ stopPc' = [stopPc EXCEPT ![c] = "idle"]
          /\ state' = "Stopped" /\ UNCHANGED <<poolState, stopMode>>
      BY <1>6 DEF StopFinish, poolVars
    <2>2. \A d \in Caller : stopPc'[d] = "idle"
      BY <2>1, StopperAlone, StopperMoves
    <2>3. PoolTold
      BY <2>1, StopperAlone DEF AfterTold
    <2> QED
      BY <2>1, <2>2, <2>3, StopperAlone DEF ModeInv, PoolTold
  <1>7. ASSUME NEW c \in Caller, StopSleep(c) PROVE ModeInv'
    BY <1>1, <1>7 DEF StopSleep, poolVars
  <1>8. CASE UNCHANGED vars
    BY <1>1, <1>8 DEF vars, schedVars, poolVars
  <1> QED
    BY <1>1, <1>2, <1>3, <1>4, <1>5, <1>6, <1>7, <1>8, PostOrWorkFrame
       DEF Next, StopStep, PostOrWork, PostEnters

\* While a thread is in TryPost, Stop waits for it; while a worker holds a lane, a Stop that
\* drains waits for it and no Stop has joined it.
LEMMA StopWaits ==
  ASSUME TypeOK, CountInv, PhaseInv
  PROVE  /\ (\E c \in Caller : postPc[c] # "idle") => ~PostsOver
         /\ (\E w \in Worker : workerPc[w] \notin {"ready", "exited"})
               => ~Joined /\ ~(DrainsOver /\ stopMode = "Drain")
         /\ DrainsOver => PostsOver
         /\ Joined => DrainsOver
  <1>1. ASSUME PostsOver PROVE \A c \in Caller : postPc[c] = "idle"
    <2>1. IsFiniteSet(Posters) /\ Cardinality(Posters) = 0
      BY <1>1 DEF PhaseInv, CountInv
    <2>2. Posters = {}
      BY <2>1, FS_EmptySet
    <2> QED
      BY <2>2 DEF Posters
  <1>2. Joined => DrainsOver
    BY DEF Joined, DrainsOver, InStop, AfterJoin, AfterDrains
  <1>3. DrainsOver => PostsOver
    BY DEF PostsOver, DrainsOver, InStop, AfterPosts, AfterDrains
  <1> QED
    BY <1>1, <1>2, <1>3 DEF PhaseInv

\* When the counts are zero and the lanes quiescent, no worker is on its way to a lane.
LEMMA DrainComplete ==
  ASSUME TypeOK, ThreadInv, CountInv, ReservedOnce, IsDrainComplete
  PROVE  /\ \A w \in Worker : workerPc[w] \in {"ready", "exited"}
         /\ ready = << >>
  <1>1. Active = {} /\ \A l \in Lane : laneState[l] = "Idle" /\ laneQueue[l] = << >>
    BY FS_EmptySet DEF CountInv, IsDrainComplete, IsQuiescent
  <1>2. \A l \in Lane : ~Reserved(l)
    BY <1>1 DEF ReservedOnce, ReservationInv
  <1>3. ASSUME NEW w \in Worker PROVE workerPc[w] \in {"ready", "exited"}
    <2>1. workerPc[w] \notin Counted
      BY <1>1 DEF Active
    <2>2. workerPc[w] \notin {"canDrain", "enter"}
      BY <1>2 DEF Reserved, Reserves, ThreadInv, HasLane
    <2> QED
      BY <2>1, <2>2 DEF TypeOK, Counted
  <1>4. ready = << >>
    <2> SUFFICES ASSUME ready # << >> PROVE FALSE
      OBVIOUS
    <2>1. Len(ready) \in Nat /\ Len(ready) >= 1 /\ ready[1] \in Lane
      BY DEF TypeOK
    <2>2. Queued(ready[1])
      BY <2>1 DEF Queued
    <2> QED
      BY <1>2, <2>1, <2>2 DEF Reserved
  <1> QED
    BY <1>3, <1>4

LEMMA PhaseQuiet ==
  ASSUME PhaseInv, UNCHANGED <<state, stopPc, stopMode, laneAlive>>,
         PostsOver => inFlightPosts' = inFlightPosts,
         DrainsOver /\ stopMode = "Drain" =>
            /\ \A w \in Worker : workerPc'[w] \in {"ready", "exited"}
            /\ UNCHANGED <<ready, laneState, laneQueue>>,
         Joined => ready' = ready /\ \A w \in Worker : workerPc'[w] = "exited"
  PROVE  PhaseInv'
  <1>1. /\ PostsOver' <=> PostsOver
        /\ DrainsOver' <=> DrainsOver
        /\ Joined' <=> Joined
        /\ InStop({"finish"})' <=> InStop({"finish"})
    BY DEF PostsOver, DrainsOver, Joined, InStop
  <1> QED
    BY <1>1 DEF PhaseInv

LEMMA PhaseOfPosts ==
  ASSUME TypeOK, CountInv, ModeInv, PhaseInv,
         PostEnters \/ \E c \in Caller : PostStep(c)
  PROVE  PhaseInv'
  <1>1. UNCHANGED <<state, stopPc, stopMode, laneAlive>>
    BY PostOrWorkFrame DEF PostOrWork, stopVars
  <1>2. ~PostsOver
    <2>1. CASE PostEnters
      BY <2>1 DEF PostEnters, PostEnter, PostsOver, InStop, AfterPosts, ModeInv
    <2>2. ASSUME NEW c \in Caller, PostStep(c) PROVE postPc[c] # "idle"
      BY <2>2 DEF PostStep, PostRefused, PostPublish, PostSchedule, PostAssert, PostLeave
    <2> QED
      BY <2>1, <2>2, StopWaits
  <1> QED
    BY <1>1, <1>2, StopWaits, PhaseQuiet

LEMMA PhaseOfWorkers ==
  ASSUME TypeOK, CountInv, PhaseInv, NEW w \in Worker, WorkerStep(w)
  PROVE  PhaseInv'
  <1>1. UNCHANGED <<state, stopPc, stopMode, laneAlive>>
    BY PostOrWorkFrame DEF PostOrWork, stopVars
  <1>2. inFlightPosts' = inFlightPosts
    BY WorkOrStopPosts DEF WorkOrStop
  <1>3. CASE WorkerExit(w)
    <2>1. /\ workerPc' = [workerPc EXCEPT ![w] = "exited"]
          /\ UNCHANGED <<ready, laneState, laneQueue>>
      BY <1>3 DEF WorkerExit, laneVars, poolVars
    <2> QED
      BY <1>1, <1>2, <2>1, PhaseQuiet DEF PhaseInv, TypeOK
  <1>4. CASE ~WorkerExit(w)
    <2>1. workerPc[w] \notin {"ready", "exited"} \/ ready # << >>
      BY <1>4 DEF WorkerStep, WorkerTake, DrainCheck, DrainEnter, DrainReschedule,
                  DrainAssert, DrainLeave, LaneBegin, LaneTake, LaneCall, LaneReturn, LaneStop,
                  LaneEnd
    <2>2. ~Joined /\ ~(DrainsOver /\ stopMode = "Drain")
      BY <2>1, StopWaits DEF PhaseInv
    <2> QED
      BY <1>1, <1>2, <2>2, PhaseQuiet
  <1> QED
    BY <1>3, <1>4

LEMMA PhaseOfStop ==
  ASSUME SchedulerInv, NEW c \in Caller,
         StopStep(c) \/ \E mode \in {"Drain", "Discard"} : StopEnter(c, mode)
  PROVE  PhaseInv'
  <1> USE DEF SchedulerInv
  <1>1. CASE StopSleep(c)
    <2>1. UNCHANGED <<state, stopPc, stopMode, laneAlive, inFlightPosts, workerPc, ready, laneState,
                      laneQueue>>
      BY <1>1 DEF StopSleep, stopVars, laneVars, poolVars
    <2> QED
      BY <2>1, PhaseQuiet DEF PhaseInv
  <1>2. ASSUME NEW mode \in {"Drain", "Discard"}, StopEnter(c, mode) PROVE PhaseInv'
    <2>1. /\ stopPc' = [stopPc EXCEPT ![c] = "posts"] /\ state' # "Stopped"
          /\ \A d \in Caller : stopPc[d] = "idle" /\ state = "Running" /\ laneAlive' = laneAlive
      BY <1>2 DEF StopEnter, ModeInv, laneVars
    <2>2. ~PostsOver' /\ ~DrainsOver' /\ ~Joined'
      BY <2>1, StopperMoves DEF AfterPosts, AfterDrains, AfterJoin
    <2>3. laneAlive
      BY <2>1 DEF PhaseInv, InStop, TypeOK
    <2> QED
      BY <2>1, <2>2, <2>3 DEF PhaseInv
  <1>3. CASE StopWaited(c)
    <2>1. /\ stopPc[c] \in {"posts", "drains"} /\ WaitOver(c)
          /\ stopPc' = [stopPc EXCEPT ![c] = IF stopPc[c] = "posts" /\ stopMode = "Drain"
                                               THEN "drains" ELSE "pool"]
          /\ UNCHANGED <<state, inFlightPosts, laneState, laneQueue, laneAlive, ready, workerPc,
                         stopMode>>
      BY <1>3 DEF StopWaited, schedVars, laneVars, poolVars
    <2>2. PICK phase \in {"drains", "pool"} :
             /\ stopPc' = [stopPc EXCEPT ![c] = phase]
             /\ phase = "pool" /\ stopMode = "Drain" => stopPc[c] = "drains"
      BY <2>1
    <2>3. /\ state' # "Stopped" /\ ~Joined' /\ laneAlive
          /\ DrainsOver' => phase = "pool"
      <3>1. /\ state' # "Stopped" /\ laneAlive
            /\ \A d \in Caller \ {c} : stopPc[d] = "idle"
        BY <2>1, StopperAlone DEF PhaseInv
      <3> QED
        BY <2>2, <3>1, StopperMoves DEF AfterDrains, AfterJoin
    <2>4. inFlightPosts = 0
      BY <2>1, StopperAlone DEF WaitOver, NoPosts, PhaseInv, AfterPosts
    <2>5. DrainsOver' /\ stopMode = "Drain" => IsDrainComplete
      BY <2>1, <2>2, <2>3 DEF WaitOver
    <2>6. DrainsOver' /\ stopMode = "Drain" =>
             /\ \A w \in Worker : workerPc[w] \in {"ready", "exited"}
             /\ ready = << >>
             /\ \A l \in Lane : laneState[l] = "Idle" /\ laneQueue[l] = << >>
      BY <2>5, DrainComplete DEF IsDrainComplete, IsQuiescent
    <2> QED
      BY <2>1, <2>3, <2>4, <2>6 DEF PhaseInv
  <1>4. CASE StopPool(c)
    <2>1. /\ stopPc[c] = "pool" /\ stopPc' = [stopPc EXCEPT ![c] = "join"]
          /\ UNCHANGED <<state, inFlightPosts, laneState, laneQueue, laneAlive, ready, workerPc,
                         stopMode>>
      BY <1>4 DEF StopPool, schedVars, laneVars
    <2>2. PostsOver /\ DrainsOver /\ ~Joined' /\ laneAlive
      <3>1. /\ state' # "Stopped" /\ laneAlive /\ PostsOver /\ DrainsOver
            /\ \A d \in Caller \ {c} : stopPc[d] = "idle"
        BY <2>1, StopperAlone DEF AfterPosts, AfterDrains, PhaseInv
      <3> QED
        BY <2>1, <3>1, StopperMoves DEF AfterJoin
    <2> QED
      BY <2>1, <2>2 DEF PhaseInv
  <1>5. CASE StopJoin(c)
    <2>1. /\ stopPc[c] = "join" /\ stopPc' = [stopPc EXCEPT ![c] = "poolDone"]
          /\ \A w \in Worker : workerPc[w] = "exited"
          /\ ready' = IF stopMode = "Discard" THEN << >> ELSE ready
          /\ UNCHANGED <<state, inFlightPosts, laneState, laneQueue, laneAlive, workerPc, stopMode>>
      BY <1>5 DEF StopJoin, schedVars, laneVars
    <2>2. PostsOver /\ DrainsOver /\ laneAlive /\ stopMode \in {"Drain", "Discard"}
      BY <2>1, StopperAlone DEF AfterPosts, AfterDrains, PhaseInv
    <2>3. ready' = << >>
      BY <2>1, <2>2 DEF PhaseInv
    <2> QED
      BY <2>1, <2>2, <2>3 DEF PhaseInv
  <1>6. CASE StopPoolDone(c)
    <2>1. /\ stopPc[c] = "poolDone"
          /\ UNCHANGED <<state, inFlightPosts, laneState, laneQueue, laneAlive, ready, workerPc,
                         stopMode>>
      BY <1>6 DEF StopPoolDone, schedVars, laneVars
    <2>2. PostsOver /\ DrainsOver /\ Joined /\ laneAlive
      BY <2>1, StopperAlone DEF AfterPosts, AfterDrains, AfterJoin, PhaseInv
    <2> QED
      BY <2>1, <2>2 DEF PhaseInv
  <1>7. CASE StopReset(c)
    <2>1. /\ stopPc[c] = "reset" /\ stopPc' = [stopPc EXCEPT ![c] = "finish"]
          /\ laneQueue' = [l \in Lane |-> << >>]
          /\ UNCHANGED <<state, inFlightPosts, laneState, ready, workerPc, stopMode>>
      BY <1>7 DEF StopReset, schedVars, poolVars
    <2>2. PostsOver /\ DrainsOver /\ Joined /\ InStop({"finish"})'
      BY <2>1, StopperAlone, StopperMoves DEF AfterPosts, AfterDrains, AfterJoin
    <2> QED
      BY <2>1, <2>2 DEF PhaseInv
  <1>8. CASE StopFinish(c)
    <2>1. /\ stopPc[c] = "finish" /\ state' = "Stopped"
          /\ UNCHANGED <<inFlightPosts, laneState, laneQueue, laneAlive, ready, workerPc, stopMode>>
      BY <1>8 DEF StopFinish, laneVars, poolVars
    <2>2. PostsOver /\ DrainsOver /\ Joined
      BY <2>1, StopperAlone DEF AfterPosts, AfterDrains, AfterJoin
    <2> QED
      BY <2>1, <2>2 DEF PhaseInv
  <1> QED
    BY <1>1, <1>2, <1>3, <1>4, <1>5, <1>6, <1>7, <1>8 DEF StopStep

LEMMA PhaseNext == SchedulerInv /\ [Next]_vars => PhaseInv'
  <1> SUFFICES ASSUME SchedulerInv, [Next]_vars PROVE PhaseInv'
    OBVIOUS
  <1>1. CASE UNCHANGED vars
    <2>1. UNCHANGED <<state, stopPc, stopMode, laneAlive, inFlightPosts, workerPc, ready, laneState,
                      laneQueue>>
      BY <1>1 DEF vars, schedVars, stopVars, laneVars, poolVars
    <2> QED
      BY <2>1, PhaseQuiet DEF SchedulerInv, PhaseInv
  <1> QED
    BY <1>1, PhaseOfPosts, PhaseOfWorkers, PhaseOfStop DEF SchedulerInv, Next, PostEnters
-----------------------------------------------------------------------------
(***************************************************************************)
(* The answers of TryScheduleLane                                          *)
(***************************************************************************)
LEMMA AssertionsNext == SchedulerInv /\ ScheduleAssertions /\ [Next]_vars => ScheduleAssertions'
  <1> SUFFICES ASSUME SchedulerInv, ScheduleAssertions, [Next]_vars PROVE ScheduleAssertions'
    OBVIOUS
  <1> USE DEF SchedulerInv
  <1>t. /\ state' \in {"Running", "StoppingDrain", "StoppingDiscard", "Stopped"}
        /\ AcceptsSchedule <=> state \notin {"StoppingDiscard", "Stopped"}
        /\ AcceptsSchedule' <=> state' \notin {"StoppingDiscard", "Stopped"}
    <2>1. TypeOK'
      BY TypeNext
    <2> QED
      BY <2>1 DEF TypeOK, AcceptsSchedule
  <1>0. ASSUME UNCHANGED scheduleResult, ~AcceptsSchedule => ~AcceptsSchedule',
               \A c \in Caller : postPc'[c] = "assert" => postPc[c] = "assert",
               \A w \in Worker : workerPc'[w] = "assert" => workerPc[w] = "assert"
        PROVE  ScheduleAssertions'
    BY <1>0, <1>t DEF ScheduleAssertions
  <1>1. ASSUME NEW c \in Caller, PostSchedule(c) PROVE ScheduleAssertions'
    <2>1. /\ postPc[c] = "schedule"
          /\ postPc' = [postPc EXCEPT ![c] = IF ScheduleAnswer = "SUCCESS" THEN "leave" ELSE "assert"]
          /\ scheduleResult' = [scheduleResult EXCEPT ![c] = ScheduleAnswer]
          /\ UNCHANGED <<state, workerPc>>
      BY <1>1 DEF PostSchedule, TryScheduleLane, schedVars
    <2>2. \/ scheduleResult'[c] = "SUCCESS"
          \/ scheduleResult'[c] = "INVALID_STATE" /\ ~AcceptsSchedule
      BY <1>1, PostSchedules
    <2>3. ScheduleAnswer = scheduleResult'[c]
      BY <2>1 DEF TypeOK
    <2>4. c \in Worker => workerPc[c] # "assert"
      BY <2>1 DEF ThreadInv
    <2>5. \A d \in Caller : /\ scheduleResult'[d] # "CAPACITY_EXCEEDED"
                            /\ postPc'[d] = "assert" => ~AcceptsSchedule
      BY <1>t, <2>1, <2>2, <2>3 DEF ScheduleAssertions, TypeOK
    <2>6. \A w \in Worker : w # c => scheduleResult'[w] = scheduleResult[w]
      BY <2>1 DEF TypeOK, Caller
    <2> QED
      BY <1>t, <2>1, <2>4, <2>5, <2>6 DEF ScheduleAssertions
  <1>2. ASSUME NEW w \in Worker, DrainReschedule(w) PROVE ScheduleAssertions'
    <2>1. /\ workerPc' = [workerPc EXCEPT ![w] = IF ScheduleAnswer = "SUCCESS" THEN "leave" ELSE "assert"]
          /\ scheduleResult' = [scheduleResult EXCEPT ![w] = ScheduleAnswer]
          /\ UNCHANGED <<state, postPc>>
      BY <1>2 DEF DrainReschedule, TryScheduleLane, schedVars, postVars
    <2>2. \/ scheduleResult'[w] = "SUCCESS"
          \/ scheduleResult'[w] = "INVALID_STATE" /\ ~AcceptsSchedule
      BY <1>2, DrainReschedules
    <2>3. ScheduleAnswer = scheduleResult'[w]
      BY <2>1 DEF TypeOK, Caller
    <2>4. \A d \in Caller : scheduleResult'[d] # "CAPACITY_EXCEEDED"
      BY <2>1, <2>2, <2>3 DEF ScheduleAssertions, TypeOK
    <2>5. workerPc'[w] = "assert" => scheduleResult'[w] = "INVALID_STATE" /\ ~AcceptsSchedule
      BY <2>1, <2>2, <2>3 DEF TypeOK
    <2>6. \A v \in Worker \ {w} : /\ scheduleResult'[v] = scheduleResult[v]
                                  /\ workerPc'[v] = workerPc[v]
      BY <2>1 DEF TypeOK, Caller
    <2> QED
      BY <1>t, <2>1, <2>4, <2>5, <2>6 DEF ScheduleAssertions
  <1>3. ASSUME NEW c \in Caller, PostStep(c), ~PostSchedule(c) PROVE ScheduleAssertions'
    <2>1. /\ UNCHANGED <<scheduleResult, state, workerPc>>
          /\ \A d \in Caller : postPc'[d] = "assert" => postPc[d] = "assert"
      BY <1>3 DEF PostStep, PostRefused, PostPublish, PostAssert, PostLeave, TypeOK, schedVars
    <2> QED
      BY <1>0, <2>1 DEF AcceptsSchedule
  <1>4. ASSUME NEW w \in Worker, WorkerStep(w), ~DrainReschedule(w) PROVE ScheduleAssertions'
    <2>1. UNCHANGED <<scheduleResult, state, postPc>>
      BY <1>4 DEF WorkerStep, WorkerTake, WorkerExit, DrainCheck, DrainEnter, DrainAssert,
                  DrainLeave, LaneBegin, LaneTake, LaneCall, LaneReturn, LaneStop, LaneEnd,
                  schedVars, postVars
    <2>2. \A v \in Worker : workerPc'[v] = "assert" => workerPc[v] = "assert"
      <3>1. CASE LaneBegin(w)
        BY <3>1, BeginDrains DEF TypeOK, ReservedOnce
      <3>2. CASE ~LaneBegin(w)
        BY <1>4, <3>2 DEF WorkerStep, WorkerTake, WorkerExit, DrainCheck, DrainEnter, DrainAssert,
                          DrainLeave, LaneTake, LaneCall, LaneReturn, LaneStop, LaneEnd, TypeOK
      <3> QED
        BY <3>1, <3>2
    <2> QED
      BY <1>0, <2>1, <2>2 DEF AcceptsSchedule
  <1>5. ASSUME NEW c \in Caller,
               StopStep(c) \/ \E mode \in {"Drain", "Discard"} : StopEnter(c, mode)
        PROVE  ScheduleAssertions'
    <2>1. UNCHANGED <<scheduleResult, workerPc, postPc>>
      BY <1>5 DEF StopStep, StopEnter, StopSleep, StopWaited, StopPool, StopJoin, StopPoolDone,
                  StopReset, StopFinish, postVars
    <2>2. ~AcceptsSchedule => ~AcceptsSchedule'
      BY <1>5 DEF StopStep, StopEnter, StopSleep, StopWaited, StopPool, StopJoin, StopPoolDone,
                  StopReset, StopFinish, schedVars, AcceptsSchedule
    <2> QED
      BY <1>0, <2>1, <2>2
  <1>6. ASSUME NEW c \in Caller, NEW l \in Lane, NEW m \in Message, PostEnter(c, l, m)
        PROVE  ScheduleAssertions'
    <2>1. /\ UNCHANGED <<scheduleResult, state, workerPc>>
          /\ \A d \in Caller : postPc'[d] = "assert" => postPc[d] = "assert"
      BY <1>6 DEF PostEnter, TypeOK
    <2> QED
      BY <1>0, <2>1 DEF AcceptsSchedule
  <1>7. CASE UNCHANGED vars
    BY <1>0, <1>7 DEF vars, schedVars, postVars, AcceptsSchedule
  <1> QED
    BY <1>1, <1>2, <1>3, <1>4, <1>5, <1>6, <1>7 DEF Next
-----------------------------------------------------------------------------
(***************************************************************************)
(* The order of the messages                                               *)
(***************************************************************************)
LEMMA AppendLast ==
  ASSUME NEW S, NEW s \in Seq(S), NEW m \in S
  PROVE  Append(s, m) = s \o << m >>
  OBVIOUS

\* A message appended to the queue is the last of all.
LEMMA AppendToQueue ==
  ASSUME NEW first \in Seq(Message), NEW queue \in Seq(Message), NEW m \in Message
  PROVE  Append(first \o queue, m) = first \o Append(queue, m)
  <1>1. << m >> \in Seq(Message) /\ first \o queue \in Seq(Message)
    OBVIOUS
  <1>2. /\ Append(first \o queue, m) = (first \o queue) \o << m >>
        /\ Append(queue, m) = queue \o << m >>
    BY <1>1, AppendLast
  <1> QED
    BY <1>1, <1>2, ConcatAssociative

\* The message taken is the first of the queue.
LEMMA HeadInHand ==
  ASSUME NEW S, NEW queue \in Seq(S), queue # << >>
  PROVE  queue = << Head(queue) >> \o Tail(queue)
  <1>1. /\ Head(queue) \in S /\ Tail(queue) \in Seq(S) /\ Len(Tail(queue)) = Len(queue) - 1
        /\ \A i \in 1..Len(Tail(queue)) : Tail(queue)[i] = queue[i + 1]
    BY HeadTailProperties
  <1>2. PICK len \in Nat : Len(queue) = len + 1 /\ Len(Tail(queue)) = len
    <2>1. Len(Tail(queue)) \in Nat /\ Len(queue) \in Nat
      BY <1>1
    <2>2. Len(queue) = Len(Tail(queue)) + 1
      BY <1>1, <2>1
    <2> QED
      BY <2>1, <2>2
  <1>3. << Head(queue) >> \in Seq(S) /\ Len(<< Head(queue) >>) = 1 /\ << Head(queue) >>[1] = queue[1]
    BY <1>1
  <1> DEFINE joined == << Head(queue) >> \o Tail(queue)
  <1>4. /\ joined \in Seq(S) /\ Len(joined) = 1 + len
        /\ \A i \in 1..(1 + len) : joined[i] = IF i <= 1 THEN << Head(queue) >>[i] ELSE Tail(queue)[i - 1]
    BY <1>1, <1>2, <1>3, ConcatProperties
  <1>5. \A i \in 1..(1 + len) : joined[i] = queue[i]
    <2> TAKE i \in 1..(1 + len)
    <2>1. CASE i = 1
      BY <1>3, <1>4, <2>1
    <2>2. CASE i # 1
      <3>1. i - 1 \in 1..len /\ (i - 1) + 1 = i
        BY <2>2
      <3>2. Tail(queue)[i - 1] = queue[i]
        BY <1>1, <1>2, <3>1
      <3> QED
        BY <1>4, <2>2, <3>2
    <2> QED
      BY <2>1, <2>2
  <1> HIDE DEF joined
  <1>6. joined = queue
    BY <1>2, <1>4, <1>5, SeqEqual
  <1> QED
    BY <1>6 DEF joined

\* The message in hand becomes the last one handled.
LEMMA HandIsDone ==
  ASSUME NEW first \in Seq(Message), NEW queue \in Seq(Message), NEW m \in Message
  PROVE  first \o (<< m >> \o queue) = Append(first, m) \o queue
  <1>1. << m >> \in Seq(Message) /\ Append(first, m) = first \o << m >>
    BY AppendLast
  <1> QED
    BY <1>1, ConcatAssociative

\* A worker that handles a message of a lane is the one inside the lane's Drain.
LEMMA OneHandler ==
  ASSUME ReservedOnce, NEW l \in Lane, NEW w \in Worker, InDrain(w, l)
  PROVE  \A v \in Worker : Handles(v, l) => v = w
  BY DEF ReservedOnce, DrainInv, InDrain, Handles, HasMessage

\* A step of a worker that neither takes nor returns a message nor begins a drain leaves
\* every message in the hand it is in.
LEMMA OtherWorkerSteps ==
  ASSUME TypeOK, NEW w \in Worker, WorkerStep(w), ~LaneTake(w), ~LaneReturn(w), ~LaneBegin(w)
  PROVE  /\ UNCHANGED <<laneQueue, handled, current>>
         /\ \A v \in Worker, k \in Lane : Handles(v, k)' <=> Handles(v, k)
  <1> DEFINE Quiet == /\ UNCHANGED <<laneQueue, handled, current>>
                      /\ HasMessage(w)' <=> HasMessage(w)
                      /\ \A v \in Worker \ {w} : workerPc'[v] = workerPc[v]
                      /\ \A v \in Worker : (v # w \/ HasMessage(w)) => workerLane'[v] = workerLane[v]
  <1>t. /\ \E pcs : workerPc \in [Worker -> pcs]
        /\ \E lanes : workerLane \in [Worker -> lanes]
    BY DEF TypeOK
  <1>1. CASE WorkerTake(w) \/ WorkerExit(w)
    <2> Quiet
      BY <1>t, <1>1 DEF WorkerTake, WorkerExit, laneVars, drainVars, history, HasMessage
    <2> QED
      BY DEF Handles, HasMessage
  <1>2. CASE DrainCheck(w) \/ DrainEnter(w)
    <2> Quiet
      BY <1>t, <1>2 DEF DrainCheck, DrainEnter, laneVars, drainVars, history, HasMessage
    <2> QED
      BY DEF Handles, HasMessage
  <1>3. CASE DrainReschedule(w) \/ DrainAssert(w) \/ DrainLeave(w)
    <2> Quiet
      BY <1>t, <1>3 DEF DrainReschedule, DrainAssert, DrainLeave, laneVars, drainVars, history,
                  HasMessage
    <2> QED
      BY DEF Handles, HasMessage
  <1>4. CASE LaneCall(w) \/ LaneStop(w)
    <2> Quiet
      BY <1>t, <1>4 DEF LaneCall, LaneStop, laneVars, drainVars, history, HasMessage
    <2> QED
      BY DEF Handles, HasMessage
  <1>5. CASE LaneEnd(w)
    <2> Quiet
      BY <1>t, <1>5 DEF LaneEnd, drainVars, history, HasMessage
    <2> QED
      BY DEF Handles, HasMessage
  <1> QED
    BY <1>1, <1>2, <1>3, <1>4, <1>5 DEF WorkerStep

LEMMA OrderQuiet ==
  ASSUME OrderInv, UNCHANGED <<laneQueue, accepted, handled>>,
         laneAlive' \/ stopMode' = "Drain" => laneAlive \/ stopMode = "Drain",
         \A w \in Worker, l \in Lane : /\ Handles(w, l)' <=> Handles(w, l)
                                       /\ Handles(w, l) => current'[w] = current[w]
  PROVE  OrderInv'
  BY DEF OrderInv

LEMMA OrderOfPosts ==
  ASSUME TypeOK, ThreadInv, CountInv, PhaseInv, OrderInv, NEW c \in Caller, PostStep(c)
  PROVE  OrderInv'
  <1>1. UNCHANGED <<stopMode, laneAlive, workerPc, workerLane, current>>
    BY DEF PostStep, PostRefused, PostPublish, PostSchedule, PostAssert, PostLeave, stopVars,
           laneVars, drainVars
  <1>2. \A w \in Worker, l \in Lane : Handles(w, l)' <=> Handles(w, l)
    BY <1>1 DEF Handles, HasMessage
  <1>3. CASE PostPublish(c)
    <2>1. PICK l \in Lane, m \in Message : l = postLane[c] /\ m = postMessage[c]
      BY <1>3 DEF PostPublish, ThreadInv
    <2>2. /\ laneQueue' = [laneQueue EXCEPT ![l] = Append(laneQueue[l], m)]
          /\ accepted' = [accepted EXCEPT ![l] = Append(accepted[l], m)]
          /\ handled' = handled
      BY <1>3, <2>1 DEF PostPublish
    <2>3. /\ laneQueue'[l] = Append(laneQueue[l], m) /\ accepted'[l] = Append(accepted[l], m)
          /\ \A k \in Lane \ {l} : laneQueue'[k] = laneQueue[k] /\ accepted'[k] = accepted[k]
      BY <2>2 DEF TypeOK
    <2>4. /\ laneQueue[l] \in Seq(Message) /\ handled[l] \in Seq(Message)
          /\ accepted[l] \in Seq(Message) /\ m \in Message
      BY <2>1 DEF TypeOK
    <2>5. ASSUME NEW rest \in Seq(Message), accepted[l] = handled[l] \o rest
          PROVE  accepted'[l] = handled[l] \o Append(rest, m)
      <3>1. Append(handled[l] \o rest, m) = handled[l] \o Append(rest, m)
        BY <2>1, <2>4, <2>5, AppendToQueue, Zenon
      <3> QED
        BY <2>3, <2>5, <3>1, Zenon
    <2>6. ASSUME NEW w \in Worker, Handles(w, l), laneAlive \/ stopMode = "Drain"
          PROVE  accepted'[l] = handled[l] \o (<< current[w] >> \o laneQueue'[l])
      <3>1. current[w] \in Message
        BY <2>6 DEF Handles, ThreadInv
      <3>2. << current[w] >> \in Seq(Message) /\ << current[w] >> \o laneQueue[l] \in Seq(Message)
        BY <2>4, <3>1, ConcatProperties
      <3>3. accepted'[l] = handled[l] \o Append(<< current[w] >> \o laneQueue[l], m)
        BY <2>5, <2>6, <3>2 DEF OrderInv
      <3>4. Append(<< current[w] >> \o laneQueue[l], m) = << current[w] >> \o Append(laneQueue[l], m)
        <4>1. PICK hand \in Seq(Message) : hand = << current[w] >>
          BY <3>2
        <4>2. Append(hand \o laneQueue[l], m) = hand \o Append(laneQueue[l], m)
          BY <2>1, <2>4, <4>1, AppendToQueue, Zenon
        <4> QED
          BY <4>1, <4>2
      <3> QED
        BY <2>3, <3>3, <3>4
    <2>7. ASSUME \A w \in Worker : ~Handles(w, l), laneAlive \/ stopMode = "Drain"
          PROVE  accepted'[l] = handled[l] \o laneQueue'[l]
      BY <2>3, <2>4, <2>5, <2>7 DEF OrderInv
    <2>8. ASSUME NEW k \in Lane \ {l}, laneAlive \/ stopMode = "Drain"
          PROVE  /\ \A w \in Worker : Handles(w, k) =>
                        accepted'[k] = handled[k] \o (<< current[w] >> \o laneQueue'[k])
                 /\ (\A w \in Worker : ~Handles(w, k)) => accepted'[k] = handled[k] \o laneQueue'[k]
      BY <2>3, <2>8 DEF OrderInv
    <2>9. ASSUME NEW k \in Lane, laneAlive \/ stopMode = "Drain"
          PROVE  /\ \A w \in Worker : Handles(w, k)' =>
                        accepted'[k] = handled'[k] \o (<< current'[w] >> \o laneQueue'[k])
                 /\ (\A w \in Worker : ~Handles(w, k)') =>
                        accepted'[k] = handled'[k] \o laneQueue'[k]
      <3>1. CASE k = l
        BY <1>1, <1>2, <2>2, <2>6, <2>7, <2>9, <3>1
      <3>2. CASE k # l
        BY <1>1, <1>2, <2>2, <2>8, <2>9, <3>2
      <3> QED
        BY <3>1, <3>2
    <2> QED
      BY <1>1, <2>9 DEF OrderInv
  <1>4. CASE ~PostPublish(c)
    <2>1. UNCHANGED <<laneQueue, accepted, handled>>
      BY <1>4 DEF PostStep, PostRefused, PostSchedule, PostAssert, PostLeave, laneVars, history
    <2> QED
      BY <1>1, <1>2, <2>1, OrderQuiet
  <1> QED
    BY <1>3, <1>4

LEMMA OrderOfWorkers ==
  ASSUME SchedulerInv, OrderInv, NEW w \in Worker, WorkerStep(w)
  PROVE  OrderInv'
  <1> USE DEF SchedulerInv
  <1>1. UNCHANGED <<stopMode, laneAlive, accepted>>
    BY DEF WorkerStep, WorkerTake, WorkerExit, DrainCheck, DrainEnter, DrainReschedule,
           DrainAssert, DrainLeave, LaneBegin, LaneTake, LaneCall, LaneReturn, LaneStop, LaneEnd,
           stopVars, laneVars, history
  <1>2. CASE LaneTake(w)
    <2>1. PICK l \in Lane : l = workerLane[w] /\ workerPc[w] = "loop" /\ laneQueue[l] # << >>
      BY <1>2 DEF LaneTake, ThreadInv, HasLane, Counted
    <2>2. /\ laneQueue'[l] = Tail(laneQueue[l]) /\ \A k \in Lane \ {l} : laneQueue'[k] = laneQueue[k]
          /\ current'[w] = Head(laneQueue[l])
          /\ \A v \in Worker \ {w} : current'[v] = current[v]
          /\ handled' = handled
      BY <1>2, <2>1 DEF LaneTake, TypeOK, history
    <2>3. \A v \in Worker, k \in Lane : Handles(v, k)' <=> Handles(v, k) \/ (v = w /\ k = l)
      BY <1>2, <2>1 DEF LaneTake, Handles, HasMessage, TypeOK
    <2>4. \A v \in Worker : ~Handles(v, l)
      BY <2>1, OneHandler DEF InDrain, Handles, HasMessage
    <2>5. \A k \in Lane : ~Handles(w, k)
      BY <2>1 DEF Handles, HasMessage
    <2>6. laneQueue[l] = << current'[w] >> \o laneQueue'[l]
      BY <2>1, <2>2, HeadInHand DEF TypeOK
    <2>7. ASSUME laneAlive \/ stopMode = "Drain"
          PROVE  accepted[l] = handled[l] \o (<< current'[w] >> \o laneQueue'[l])
      BY <2>4, <2>6, <2>7 DEF OrderInv
    <2> QED
      BY <1>1, <2>2, <2>3, <2>4, <2>5, <2>7 DEF OrderInv
  <1>3. CASE LaneReturn(w)
    <2>1. PICK l \in Lane : l = workerLane[w] /\ workerPc[w] = "calling"
      BY <1>3 DEF LaneReturn, ThreadInv, HasLane, Counted
    <2>2. /\ handled'[l] = Append(handled[l], current[w])
          /\ \A k \in Lane \ {l} : handled'[k] = handled[k]
          /\ \A v \in Worker \ {w} : current'[v] = current[v]
          /\ laneQueue' = laneQueue
      BY <1>3, <2>1 DEF LaneReturn, TypeOK, laneVars
    <2>3. \A v \in Worker, k \in Lane : Handles(v, k)' <=> Handles(v, k) /\ v # w
      BY <1>3, <2>1 DEF LaneReturn, Handles, HasMessage, TypeOK
    <2>4. Handles(w, l) /\ \A v \in Worker : Handles(v, l) => v = w
      BY <2>1, OneHandler DEF InDrain, Handles, HasMessage
    <2>5. \A k \in Lane : Handles(w, k) => k = l
      BY <2>1 DEF Handles
    <2>6. current[w] \in Message /\ handled[l] \in Seq(Message) /\ laneQueue[l] \in Seq(Message)
      BY <2>4 DEF Handles, ThreadInv, TypeOK
    <2>7. ASSUME laneAlive \/ stopMode = "Drain"
          PROVE  accepted[l] = handled'[l] \o laneQueue[l]
      <3>1. accepted[l] = handled[l] \o (<< current[w] >> \o laneQueue[l])
        BY <2>4, <2>7 DEF OrderInv
      <3>2. handled[l] \o (<< current[w] >> \o laneQueue[l]) = Append(handled[l], current[w]) \o laneQueue[l]
        BY <2>6, HandIsDone
      <3> QED
        BY <2>2, <3>1, <3>2
    <2> QED
      BY <1>1, <2>2, <2>3, <2>4, <2>5, <2>7 DEF OrderInv
  <1>4. CASE LaneBegin(w)
    <2>1. UNCHANGED <<laneQueue, handled, current, workerLane>>
          /\ workerPc[w] = "begin" /\ workerPc' = [workerPc EXCEPT ![w] = "loop"]
      BY <1>4, BeginDrains DEF ReservedOnce, history
    <2>2. \A v \in Worker, k \in Lane : Handles(v, k)' <=> Handles(v, k)
      BY <2>1 DEF Handles, HasMessage, TypeOK
    <2> QED
      BY <1>1, <2>1, <2>2, OrderQuiet
  <1>5. CASE ~LaneTake(w) /\ ~LaneReturn(w) /\ ~LaneBegin(w)
    BY <1>1, <1>5, OtherWorkerSteps, OrderQuiet
  <1> QED
    BY <1>2, <1>3, <1>4, <1>5

LEMMA OrderNext == SchedulerInv /\ OrderInv /\ [Next]_vars => OrderInv'
  <1> SUFFICES ASSUME SchedulerInv, OrderInv, [Next]_vars PROVE OrderInv'
    OBVIOUS
  <1> USE DEF SchedulerInv
  <1>1. ASSUME NEW c \in Caller, StopStep(c) PROVE OrderInv'
    <2>1. UNCHANGED <<stopMode, accepted, handled, workerPc, workerLane, current>>
          /\ (laneAlive' => laneAlive)
      BY <1>1 DEF StopStep, StopSleep, StopWaited, StopPool, StopJoin, StopPoolDone, StopReset,
                  StopFinish, stopVars, laneVars, drainVars, history
    <2>2. \A w \in Worker, l \in Lane : Handles(w, l)' <=> Handles(w, l)
      BY <2>1 DEF Handles, HasMessage
    <2>3. CASE StopReset(c)
      <3>1. stopPc[c] = "reset" /\ laneAlive' = FALSE /\ laneQueue' = [l \in Lane |-> << >>]
        BY <2>3 DEF StopReset
      <3>2. DrainsOver
        BY <3>1, StopperAlone DEF AfterDrains
      <3>3. stopMode = "Drain" => laneQueue' = laneQueue
        BY <3>1, <3>2 DEF PhaseInv, TypeOK
      <3> QED
        BY <2>1, <2>2, <3>1, <3>3 DEF OrderInv
    <2>4. CASE ~StopReset(c)
      <3>1. laneQueue' = laneQueue
        BY <1>1, <2>4 DEF StopStep, StopSleep, StopWaited, StopPool, StopJoin, StopPoolDone,
                          StopFinish, laneVars
      <3> QED
        BY <2>1, <2>2, <3>1, OrderQuiet
    <2> QED
      BY <2>3, <2>4
  <1>2. ASSUME NEW c \in Caller, NEW mode \in {"Drain", "Discard"}, StopEnter(c, mode)
        PROVE  OrderInv'
    <2>1. UNCHANGED <<laneQueue, accepted, handled, workerPc, workerLane, current>>
      BY <1>2 DEF StopEnter, laneVars, drainVars, history
    <2>2. \A w \in Worker, l \in Lane : Handles(w, l)' <=> Handles(w, l)
      BY <2>1 DEF Handles, HasMessage
    <2>3. laneAlive
      BY <1>2 DEF StopEnter, PhaseInv, InStop, ModeInv, TypeOK
    <2> QED
      BY <2>1, <2>2, <2>3, OrderQuiet
  <1>3. ASSUME NEW c \in Caller, NEW l \in Lane, NEW m \in Message, PostEnter(c, l, m)
        PROVE  OrderInv'
    <2>1. UNCHANGED <<laneQueue, accepted, handled, workerPc, workerLane, current, laneAlive, stopMode>>
      BY <1>3 DEF PostEnter, laneVars, drainVars, stopVars, history
    <2>2. \A v \in Worker, k \in Lane : Handles(v, k)' <=> Handles(v, k)
      BY <2>1 DEF Handles, HasMessage
    <2> QED
      BY <2>1, <2>2, OrderQuiet
  <1>4. CASE UNCHANGED vars
    <2>1. UNCHANGED <<laneQueue, accepted, handled, workerPc, workerLane, current, laneAlive, stopMode>>
      BY <1>4 DEF vars, laneVars, drainVars, stopVars, history
    <2>2. \A v \in Worker, k \in Lane : Handles(v, k)' <=> Handles(v, k)
      BY <2>1 DEF Handles, HasMessage
    <2> QED
      BY <2>1, <2>2, OrderQuiet
  <1> QED
    BY <1>1, <1>2, <1>3, <1>4, OrderOfPosts, OrderOfWorkers DEF Next
-----------------------------------------------------------------------------
(***************************************************************************)
(* The theorems                                                            *)
(***************************************************************************)
LEMMA InitInv == Init => Inv
  <1> SUFFICES ASSUME Init PROVE Inv
    OBVIOUS
  <1>1. TypeOK
    <2>1. 0 \in 0..MaxMessagesPerDrain /\ 0 \in Nat
      BY SchedulerAssumption DEF IsValidCreateInfo
    <2>2. << >> \in Seq(Message) /\ << >> \in Seq(Lane)
      BY EmptySeq
    <2> QED
      BY <2>1, <2>2 DEF Init, TypeOK
  <1>2. ThreadInv
    BY SchedulerAssumption DEF Init, ThreadInv, HasLane, Counted, HasMessage, Caller
  <1>3. CountInv
    <2>1. Posters = {} /\ Active = {}
      BY DEF Init, Posters, Active, Counted
    <2> QED
      BY <2>1, FS_EmptySet DEF Init, CountInv
  <1>4. /\ \A l \in Lane : ~Queued(l)
        /\ \A l \in Lane, w \in Worker : ~Reserves(w, l) /\ ~InDrain(w, l) /\ ~Handles(w, l)
        /\ \A l \in Lane, c \in Caller : ~Promises(c, l)
        /\ \A m, n \in 1..Len(ready) : m = n
    <2>1. Len(ready) = 0
      BY DEF Init
    <2>2. \A n \in 1..Len(ready) : FALSE
      BY <2>1
    <2> QED
      BY <2>2 DEF Init, Queued, Reserves, InDrain, Handles, HasMessage, Promises
  <1>5. ReservedOnce
    BY <1>4 DEF Init, ReservedOnce, HolderInv, ReservationInv, Reserved, DrainInv
  <1>6. ModeInv /\ PhaseInv
    BY DEF Init, ModeInv, PhaseInv, PostsOver, DrainsOver, PoolTold, Joined, InStop, AfterPosts,
           AfterDrains, AfterTold, AfterJoin
  <1>7. ScheduleAssertions
    BY DEF Init, ScheduleAssertions, Caller
  <1>8. OrderInv
    <2>1. << >> \o << >> = << >>
      BY EmptySeq, ConcatEmptySeq
    <2> QED
      BY <1>4, <2>1 DEF Init, OrderInv
  <1> QED
    BY <1>1, <1>2, <1>3, <1>5, <1>6, <1>7, <1>8 DEF Inv, SchedulerInv

LEMMA NextInv == Inv /\ [Next]_vars => Inv'
  <1> SUFFICES ASSUME Inv, [Next]_vars PROVE Inv'
    OBVIOUS
  <1>1. SchedulerInv'
    BY TypeNext, ThreadNext, CountNext, ReservationNext, ModeNext, PhaseNext
       DEF Inv, SchedulerInv, ReservedOnce
  <1> QED
    BY <1>1, AssertionsNext, OrderNext DEF Inv

\* Inv holds in every reachable state of the scheduler.
THEOREM SpecInv == Spec => []Inv
  BY InitInv, NextInv, PTL DEF Spec

\* readyCapacity >= workLaneCount is enough, and the two assertions of the code hold, for any
\* number of lanes, workers and clients.
THEOREM SchedulingNeverFails == Spec => []ScheduleAssertions
  <1>1. Inv => ScheduleAssertions
    BY DEF Inv
  <1> QED
    BY <1>1, SpecInv, PTL

\* A set whose elements are all equal, and its number of elements.
LEMMA AtMostOne ==
  ASSUME NEW S, \A x, y \in S : x = y
  PROVE  Cardinality(S) = IF S = {} THEN 0 ELSE 1
  <1>1. CASE S = {}
    BY <1>1, FS_EmptySet
  <1>2. CASE S # {}
    <2>1. PICK x : S = {x}
      BY <1>2
    <2> QED
      BY <1>2, <2>1, FS_Singleton
  <1> QED
    BY <1>1, <1>2

\* No lane is drained twice at once, queued twice or forgotten: each scheduled lane has exactly
\* one party that will see it drained; inFlightPosts_ and activeDrains_ are the numbers of
\* threads they stand for.
THEOREM LanesAreReservedOnce == Spec => []SchedulerConsistent
  <1>1. ASSUME Inv PROVE SchedulerConsistent
    <2> USE <1>1 DEF Inv, SchedulerInv, ReservedOnce
    <2>1. LaneSerial
      BY DEF LaneSerial, DrainInv
    <2>2. ASSUME NEW l \in Lane
          PROVE  LET tokens == Cardinality(Entries(l)) + Cardinality(Drainers(l))
                               + Cardinality(Promisers(l))
                 IN  /\ tokens <= 1
                     /\ tokens = 1 => laneState[l] = "Scheduled"
                     /\ laneState[l] = "Scheduled" /\ AcceptsSchedule => tokens = 1
      <3>1. DOMAIN ready = 1..Len(ready)
        BY DEF TypeOK
      <3>2. /\ Entries(l) # {} <=> Queued(l)
            /\ Drainers(l) # {} <=> \E w \in Worker : Reserves(w, l)
            /\ Promisers(l) # {} <=> \E c \in Caller : Promises(c, l)
        BY <3>1 DEF Entries, Queued, Drainers, Reserves, Promisers, Promises
      <3>3. /\ \A m, n \in Entries(l) : m = n
            /\ \A v, w \in Drainers(l) : v = w
            /\ \A c, d \in Promisers(l) : c = d
        BY <3>1 DEF Entries, Drainers, Reserves, Promisers, Promises, HolderInv
      <3>4. /\ Cardinality(Entries(l)) = IF Queued(l) THEN 1 ELSE 0
            /\ Cardinality(Drainers(l)) = IF \E w \in Worker : Reserves(w, l) THEN 1 ELSE 0
            /\ Cardinality(Promisers(l)) = IF \E c \in Caller : Promises(c, l) THEN 1 ELSE 0
        BY <3>2, <3>3, AtMostOne
      <3>5. /\ ~(Queued(l) /\ \E w \in Worker : Reserves(w, l))
            /\ ~(Queued(l) /\ \E c \in Caller : Promises(c, l))
            /\ ~((\E w \in Worker : Reserves(w, l)) /\ \E c \in Caller : Promises(c, l))
        BY DEF HolderInv
      <3> QED
        BY <3>4, <3>5 DEF ReservationInv, Reserved
    <2>3. CountsAgree
      BY DEF CountsAgree, CountInv
    <2> QED
      BY <2>1, <2>2, <2>3 DEF SchedulerConsistent, OneReservation
  <1> QED
    BY <1>1, SpecInv, PTL

\* Stop destroys nothing that is in use; a Stop that drains returns only when each accepted
\* message has been handled, in the order of acceptance.
THEOREM StopTakesNothingAway == Spec => []StopIsSafe
  <1>1. ASSUME Inv PROVE StopIsSafe
    <2> USE <1>1 DEF Inv, SchedulerInv
    <2>1. NoUseAfterReset
      <3> SUFFICES ASSUME ~laneAlive PROVE PostsOver /\ Joined
        <4>1. ASSUME PostsOver, Joined, NEW c \in Caller PROVE postPc[c] \notin {"publish", "schedule"}
          BY <4>1, StopWaits
        <4> QED
          BY <4>1 DEF NoUseAfterReset, PhaseInv
      <3> QED
        BY DEF PhaseInv, PostsOver, Joined, InStop, AfterPosts, AfterJoin
    <2>2. ASSUME stopMode = "Drain", state = "Stopped" PROVE handled = accepted
      <3>1. Joined /\ DrainsOver
        BY <2>2 DEF Joined, DrainsOver
      <3>2. ASSUME NEW l \in Lane PROVE accepted[l] = handled[l]
        <4>1. laneQueue[l] = << >> /\ \A w \in Worker : ~Handles(w, l)
          BY <2>2, <3>1 DEF PhaseInv, Handles, HasMessage
        <4>2. accepted[l] = handled[l] \o << >>
          BY <2>2, <4>1 DEF OrderInv
        <4>3. handled[l] \in Seq(Message)
          BY DEF TypeOK
        <4> QED
          BY <4>2, <4>3, ConcatEmptySeq
      <3> QED
        BY <3>2 DEF TypeOK
    <2>3. ASSUME stopMode = "Drain", NEW c \in Caller, stopPc[c] \in {"pool", "join"}
          PROVE  \A w \in Worker : workerPc[w] \in {"ready", "exited"}
      <3>1. DrainsOver
        BY <2>3 DEF DrainsOver, InStop, AfterDrains
      <3> QED
        BY <2>3, <3>1 DEF PhaseInv
    <2> QED
      BY <2>1, <2>2, <2>3 DEF StopIsSafe, DrainLosesNothing
  <1> QED
    BY <1>1, SpecInv, PTL
-----------------------------------------------------------------------------
(***************************************************************************)
(* Every lane is a serial mailbox                                          *)
(***************************************************************************)
LEMMA RunningNow ==
  ASSUME ReservedOnce, NEW l \in Lane
  PROVE  /\ \A w \in Worker : Handles(w, l) => RunningMessage(l) = current[w]
         /\ (\A w \in Worker : ~Handles(w, l)) => RunningMessage(l) = NoMessage
  <1>1. \A w \in Worker : Handles(w, l)
                            <=> (workerLane[w] = l /\ workerPc[w] \in {"popped", "calling"})
    BY DEF Handles, HasMessage
  <1>2. \A v, w \in Worker : Handles(v, l) /\ Handles(w, l) => v = w
    BY OneHandler DEF Handles, HasMessage, InDrain
  <1>3. ASSUME NEW w \in Worker, Handles(w, l) PROVE RunningMessage(l) = current[w]
    <2>1. (CHOOSE v \in Worker : workerLane[v] = l /\ workerPc[v] \in {"popped", "calling"}) = w
      BY <1>1, <1>2, <1>3
    <2> QED
      BY <1>1, <1>3, <2>1 DEF RunningMessage
  <1> QED
    BY <1>1, <1>3 DEF RunningMessage

LEMMA RunningNext ==
  ASSUME ReservedOnce', NEW l \in Lane
  PROVE  /\ \A w \in Worker : Handles(w, l)' => RunningMessage(l)' = current'[w]
         /\ (\A w \in Worker : ~Handles(w, l)') => RunningMessage(l)' = NoMessage
  <1>1. \A w \in Worker : Handles(w, l)'
                            <=> (workerLane'[w] = l /\ workerPc'[w] \in {"popped", "calling"})
    BY DEF Handles, HasMessage
  <1>2. \A v, w \in Worker : Handles(v, l)' /\ Handles(w, l)' => v = w
    BY DEF Handles, HasMessage, InDrain, ReservedOnce, DrainInv
  <1>3. ASSUME NEW w \in Worker, Handles(w, l)' PROVE RunningMessage(l)' = current'[w]
    <2>1. (CHOOSE v \in Worker : workerLane'[v] = l /\ workerPc'[v] \in {"popped", "calling"}) = w
      BY <1>1, <1>2, <1>3
    <2> QED
      BY <1>1, <1>3, <2>1 DEF RunningMessage
  <1> QED
    BY <1>1, <1>3 DEF RunningMessage

LEMMA RunningKept ==
  ASSUME ReservedOnce, ReservedOnce', NEW l \in Lane,
         \A w \in Worker : /\ Handles(w, l)' <=> Handles(w, l)
                           /\ Handles(w, l) => current'[w] = current[w]
  PROVE  RunningMessage(l)' = RunningMessage(l)
  BY RunningNow, RunningNext

running == [l \in Lane |-> RunningMessage(l)]
mailboxes == <<laneQueue, running, handled, ~laneAlive>>

LEMMA MailboxesUntouched ==
  ASSUME ReservedOnce, ReservedOnce', UNCHANGED <<laneQueue, handled, laneAlive>>,
         \A w \in Worker, l \in Lane : /\ Handles(w, l)' <=> Handles(w, l)
                                       /\ Handles(w, l) => current'[w] = current[w]
  PROVE  UNCHANGED mailboxes
  <1>1. running' = running
    BY RunningKept DEF running
  <1> QED
    BY <1>1 DEF mailboxes

LEMMA MailboxInit == Init => Mailboxes!Init
  <1> SUFFICES ASSUME Init PROVE Mailboxes!Init
    OBVIOUS
  <1>1. \A l \in Lane : RunningMessage(l) = NoMessage
    BY DEF Init, RunningMessage
  <1> QED
    BY <1>1 DEF Init, Mailboxes!Init

LEMMA PostsAreAccepts ==
  ASSUME SchedulerInv, ReservedOnce', NEW c \in Caller, PostStep(c)
  PROVE  Mailboxes!Next \/ UNCHANGED mailboxes
  <1> USE DEF SchedulerInv
  <1>1. UNCHANGED <<handled, laneAlive, workerPc, workerLane, current>>
    BY DEF PostStep, PostRefused, PostPublish, PostSchedule, PostAssert, PostLeave,
           laneVars, drainVars, history
  <1>2. \A w \in Worker, l \in Lane : Handles(w, l)' <=> Handles(w, l)
    BY <1>1 DEF Handles, HasMessage
  <1>3. CASE PostPublish(c)
    <2>1. PICK l \in Lane, m \in Message : l = postLane[c] /\ m = postMessage[c]
      BY <1>3 DEF PostPublish, ThreadInv
    <2>2. laneQueue' = [laneQueue EXCEPT ![l] = Append(@, m)]
      BY <1>3, <2>1 DEF PostPublish
    <2>3. laneAlive
      <3>1. ~PostsOver
        BY <1>3, StopWaits DEF PostPublish
      <3> QED
        BY <3>1 DEF PhaseInv, PostsOver, InStop, AfterPosts
    <2>4. running' = running
      BY <1>1, <1>2, RunningKept DEF running
    <2>5. Mailboxes!Accept(l, m)
      BY <1>1, <2>2, <2>3, <2>4 DEF Mailboxes!Accept, running
    <2> QED
      BY <2>5 DEF Mailboxes!Next
  <1>4. CASE ~PostPublish(c)
    <2>1. laneQueue' = laneQueue
      BY <1>4 DEF PostStep, PostRefused, PostSchedule, PostAssert, PostLeave, laneVars
    <2> QED
      BY <1>1, <1>2, <2>1, MailboxesUntouched
  <1> QED
    BY <1>3, <1>4

LEMMA DrainsAreBeginsAndEnds ==
  ASSUME SchedulerInv, ReservedOnce', NEW w \in Worker, WorkerStep(w)
  PROVE  Mailboxes!Next \/ UNCHANGED mailboxes
  <1> USE DEF SchedulerInv
  <1>1. laneAlive' = laneAlive
    BY DEF WorkerStep, WorkerTake, WorkerExit, DrainCheck, DrainEnter, DrainReschedule,
           DrainAssert, DrainLeave, LaneBegin, LaneTake, LaneCall, LaneReturn, LaneStop, LaneEnd,
           laneVars
  <1>2. CASE LaneTake(w)
    <2>1. PICK l \in Lane : l = workerLane[w] /\ workerPc[w] = "loop" /\ laneQueue[l] # << >>
      BY <1>2 DEF LaneTake, ThreadInv, HasLane, Counted
    <2>2. /\ laneQueue' = [laneQueue EXCEPT ![l] = Tail(@)]
          /\ current' = [current EXCEPT ![w] = Head(laneQueue[l])]
          /\ handled' = handled
      BY <1>2, <2>1 DEF LaneTake, history
    <2>3. \A v \in Worker, k \in Lane : Handles(v, k)' <=> Handles(v, k) \/ (v = w /\ k = l)
      BY <1>2, <2>1 DEF LaneTake, Handles, HasMessage, TypeOK
    <2>4. RunningMessage(l) = NoMessage
      BY <2>1, OneHandler, RunningNow DEF InDrain, Handles, HasMessage
    <2>5. RunningMessage(l)' = Head(laneQueue[l])
      BY <2>2, <2>3, RunningNext DEF TypeOK
    <2>6. \A k \in Lane \ {l} : RunningMessage(k)' = RunningMessage(k)
      <3> TAKE k \in Lane \ {l}
      <3>1. ~Handles(w, k)
        BY <2>1 DEF Handles
      <3> QED
        BY <2>2, <2>3, <3>1, RunningKept DEF TypeOK
    <2>7. laneAlive
      <3>1. ~Joined
        BY <2>1, StopWaits
      <3> QED
        BY <3>1 DEF PhaseInv, Joined, InStop, AfterJoin
    <2>8. running' = [running EXCEPT ![l] = Head(laneQueue[l])]
      BY <2>5, <2>6 DEF running
    <2>9. Mailboxes!Begin(l)
      BY <1>1, <2>1, <2>2, <2>4, <2>7, <2>8 DEF Mailboxes!Begin, running
    <2> QED
      BY <2>9 DEF Mailboxes!Next
  <1>3. CASE LaneReturn(w)
    <2>1. PICK l \in Lane : l = workerLane[w] /\ workerPc[w] = "calling"
      BY <1>3 DEF LaneReturn, ThreadInv, HasLane, Counted
    <2>2. /\ handled' = [handled EXCEPT ![l] = Append(@, current[w])]
          /\ \A v \in Worker \ {w} : current'[v] = current[v]
          /\ laneQueue' = laneQueue
      BY <1>3, <2>1 DEF LaneReturn, TypeOK, laneVars
    <2>3. \A v \in Worker, k \in Lane : Handles(v, k)' <=> Handles(v, k) /\ v # w
      BY <1>3, <2>1 DEF LaneReturn, Handles, HasMessage, TypeOK
    <2>4. Handles(w, l) /\ \A v \in Worker : Handles(v, l) => v = w
      BY <2>1, OneHandler DEF InDrain, Handles, HasMessage
    <2>5. RunningMessage(l) = current[w] /\ current[w] # NoMessage
      <3>1. current[w] \in Message
        BY <2>4 DEF Handles, ThreadInv
      <3> QED
        BY <2>4, <3>1, RunningNow, SchedulerAssumption
    <2>6. RunningMessage(l)' = NoMessage
      BY <2>3, <2>4, RunningNext
    <2>7. \A k \in Lane \ {l} : RunningMessage(k)' = RunningMessage(k)
      <3> TAKE k \in Lane \ {l}
      <3>1. ~Handles(w, k)
        BY <2>1 DEF Handles
      <3> QED
        BY <2>2, <2>3, <3>1, RunningKept
    <2>8. running' = [running EXCEPT ![l] = NoMessage]
      BY <2>6, <2>7 DEF running
    <2>9. Mailboxes!End(l)
      BY <1>1, <2>2, <2>5, <2>8 DEF Mailboxes!End, running
    <2> QED
      BY <2>9 DEF Mailboxes!Next
  <1>4. CASE LaneBegin(w)
    <2>1. UNCHANGED <<laneQueue, handled, current, workerLane>>
          /\ workerPc[w] = "begin" /\ workerPc' = [workerPc EXCEPT ![w] = "loop"]
      BY <1>4, BeginDrains DEF ReservedOnce, history
    <2>2. \A v \in Worker, k \in Lane : Handles(v, k)' <=> Handles(v, k)
      BY <2>1 DEF Handles, HasMessage, TypeOK
    <2> QED
      BY <1>1, <2>1, <2>2, MailboxesUntouched
  <1>5. CASE ~LaneTake(w) /\ ~LaneReturn(w) /\ ~LaneBegin(w)
    BY <1>1, <1>5, OtherWorkerSteps, MailboxesUntouched
  <1> QED
    BY <1>2, <1>3, <1>4, <1>5

LEMMA ResetDiscards ==
  ASSUME SchedulerInv, ReservedOnce', NEW c \in Caller, StopStep(c)
  PROVE  Mailboxes!Next \/ UNCHANGED mailboxes
  <1> USE DEF SchedulerInv
  <1>1. UNCHANGED <<handled, workerPc, workerLane, current>>
    BY DEF StopStep, StopSleep, StopWaited, StopPool, StopJoin, StopPoolDone, StopReset,
           StopFinish, drainVars, history
  <1>2. \A w \in Worker, l \in Lane : Handles(w, l)' <=> Handles(w, l)
    BY <1>1 DEF Handles, HasMessage
  <1>3. CASE StopReset(c)
    <2>1. stopPc[c] = "reset" /\ laneAlive' = FALSE /\ laneQueue' = [l \in Lane |-> << >>]
      BY <1>3 DEF StopReset
    <2>2. Joined
      BY <2>1, StopperAlone DEF AfterJoin
    <2>3. \A w \in Worker, l \in Lane : ~Handles(w, l)
      BY <2>2 DEF PhaseInv, Handles, HasMessage
    <2>4. \A l \in Lane : RunningMessage(l) = NoMessage
      BY <2>3, RunningNow
    <2>5. running' = running
      BY <1>1, <1>2, RunningKept DEF running
    <2>6. Mailboxes!Discard
      BY <1>1, <2>1, <2>4, <2>5 DEF Mailboxes!Discard, running
    <2> QED
      BY <2>6 DEF Mailboxes!Next
  <1>4. CASE ~StopReset(c)
    <2>1. UNCHANGED <<laneQueue, laneAlive>>
      BY <1>4 DEF StopStep, StopSleep, StopWaited, StopPool, StopJoin, StopPoolDone, StopFinish,
                  laneVars
    <2> QED
      BY <1>1, <1>2, <2>1, MailboxesUntouched
  <1> QED
    BY <1>3, <1>4

\* Whatever the lanes, capacities, batch sizes, workers and clients: a publisher that posts to
\* a lane of the scheduler has a serial mailbox.
THEOREM SchedulerImplementsMailboxes == Spec => ImplementsMailboxes
  <1>1. ASSUME Inv, Inv', [Next]_vars PROVE [Mailboxes!Next]_mailboxes
    <2> USE <1>1
    <2>1. ASSUME UNCHANGED <<laneQueue, handled, laneAlive, workerPc, workerLane, current>>
          PROVE  UNCHANGED mailboxes
      <3>1. \A w \in Worker, l \in Lane : Handles(w, l)' <=> Handles(w, l)
        BY <2>1 DEF Handles, HasMessage
      <3> QED
        BY <2>1, <3>1, MailboxesUntouched DEF Inv, SchedulerInv
    <2>2. ASSUME NEW c \in Caller, NEW l \in Lane, NEW m \in Message, PostEnter(c, l, m)
          PROVE  UNCHANGED mailboxes
      BY <2>1, <2>2 DEF PostEnter, laneVars, drainVars, history
    <2>3. ASSUME NEW c \in Caller, NEW mode \in {"Drain", "Discard"}, StopEnter(c, mode)
          PROVE  UNCHANGED mailboxes
      BY <2>1, <2>3 DEF StopEnter, laneVars, drainVars, history
    <2>4. CASE UNCHANGED vars
      BY <2>1, <2>4 DEF vars, laneVars, drainVars, history
    <2>5. SchedulerInv /\ ReservedOnce'
      BY DEF Inv, SchedulerInv
    <2> QED
      BY <2>2, <2>3, <2>4, <2>5, PostsAreAccepts, DrainsAreBeginsAndEnds, ResetDiscards DEF Next
  <1> QED
    BY <1>1, MailboxInit, SpecInv, PTL
       DEF Spec, ImplementsMailboxes, Mailboxes!Spec, mailboxes, running
=============================================================================
