--------------------------- MODULE WorkerScheduler ---------------------------
(***************************************************************************)
(* TkWorkerScheduler: a fixed set of work lanes over one worker pool.      *)
(* TryPost publishes a message in a lane and, when the lane was idle,      *)
(* gives the lane to the pool; a worker drains a bounded batch and gives   *)
(* the lane back when messages remain; Stop waits for the posts in flight, *)
(* for the lanes when it drains, then for the pool.                        *)
(*                                                                         *)
(* A critical section of the scheduler's mutex is one step.  A lane is     *)
(* seen as SerialWorkLane shows it from outside: TryPublish is one step,   *)
(* Drain is its two critical sections and, between them, one TryPop and    *)
(* one callback after the other.  The pool is seen as WorkerPool shows it  *)
(* (its condition variable and its joins are that module's subject).       *)
(* A callback runs on a worker and may post and call Stop.                 *)
(*                                                                         *)
(* An operator commented "variant" is a wrong form of the definition after *)
(* it, kept to see that a property notices it.                             *)
(***************************************************************************)
EXTENDS Naturals, Sequences, FiniteSets

CONSTANTS Client,       \* threads outside the scheduler that use it
          Worker, Lane,
          Message, NoMessage, NoLane,
          LaneCapacity, ReadyCapacity, MaxMessagesPerDrain

Caller == Client \union Worker

\* IsValidCreateInfo (that capacities are powers of two is the rings' affair)
IsValidCreateInfo ==
    /\ LaneCapacity \in Nat /\ LaneCapacity >= 2
    /\ MaxMessagesPerDrain \in Nat \ {0}
    /\ ReadyCapacity \in Nat
    /\ IsFiniteSet(Lane)
    /\ Cardinality(Lane) <= ReadyCapacity

ASSUME SchedulerAssumption ==
    /\ IsValidCreateInfo
    /\ Client \cap Worker = {}
    /\ NoMessage \notin Message
    /\ NoLane \notin Lane

VARIABLES
    state,          \* "Running", "StoppingDrain", "StoppingDiscard", "Stopped"
    inFlightPosts, activeDrains,
    asleep,         \* callers of Stop blocked in condition_.wait
    laneState, laneQueue, laneAlive,
    poolState, ready,
    workerPc, workerLane, current, drained,
    postPc, postLane, postMessage,
    scheduleResult, \* caller -> what its last TryScheduleLane answered
    stopPc,
    stopMode,       \* the mode of the Stop that took effect, or "none"
    accepted,       \* history: lane -> messages published, in order
    handled         \* history: lane -> messages whose callback returned

schedVars  == <<state, inFlightPosts, activeDrains, asleep>>
laneVars   == <<laneState, laneQueue, laneAlive>>
poolVars   == <<poolState, ready>>
drainVars  == <<workerLane, current, drained>>
postVars   == <<postPc, postLane, postMessage>>
stopVars   == <<stopPc, stopMode>>
history    == <<accepted, handled>>
vars == <<schedVars, laneVars, poolVars, workerPc, drainVars, postVars,
          scheduleResult, stopVars, history>>
-----------------------------------------------------------------------------
Init ==
    /\ state = "Running"
    /\ inFlightPosts = 0 /\ activeDrains = 0
    /\ asleep = {}
    /\ laneState = [l \in Lane |-> "Idle"]
    /\ laneQueue = [l \in Lane |-> << >>]
    /\ laneAlive = TRUE
    /\ poolState = "Running"
    /\ ready = << >>
    /\ workerPc = [w \in Worker |-> "ready"]
    /\ workerLane = [w \in Worker |-> NoLane]
    /\ current = [w \in Worker |-> NoMessage]
    /\ drained = [w \in Worker |-> 0]
    /\ postPc = [c \in Caller |-> "idle"]
    /\ postLane = [c \in Caller |-> NoLane]
    /\ postMessage = [c \in Caller |-> NoMessage]
    /\ scheduleResult = [c \in Caller |-> "SUCCESS"]
    /\ stopPc = [c \in Caller |-> "idle"]
    /\ stopMode = "none"
    /\ accepted = [l \in Lane |-> << >>]
    /\ handled = [l \in Lane |-> << >>]

NotifyAll == asleep' = {}

\* Who can call TryPost and Stop: a client, and a callback.
CanCall(c) ==
    /\ postPc[c] = "idle" /\ stopPc[c] = "idle"
    /\ c \in Client \union {w \in Worker : workerPc[w] = "calling"}
-----------------------------------------------------------------------------
(***************************************************************************)
(* TryScheduleLane: the lane's work item is given to the pool, with the    *)
(* scheduler's mutex held.                                                 *)
(***************************************************************************)
AcceptsScheduleRunning == state = "Running"          \* variant: not while draining

AcceptsSchedule == state \in {"Running", "StoppingDrain"}

ScheduleAnswer ==
    IF ~AcceptsSchedule \/ poolState # "Running" THEN "INVALID_STATE"
    ELSE IF Len(ready) >= ReadyCapacity THEN "CAPACITY_EXCEEDED"
    ELSE "SUCCESS"

TryScheduleLane(c, l) ==
    /\ scheduleResult' = [scheduleResult EXCEPT ![c] = ScheduleAnswer]
    /\ ready' = IF ScheduleAnswer = "SUCCESS" THEN Append(ready, l) ELSE ready
-----------------------------------------------------------------------------
(***************************************************************************)
(* TryPost                                                                 *)
(***************************************************************************)
Unposted(m) ==
    /\ \A l \in Lane : \A n \in DOMAIN accepted[l] : accepted[l][n] # m
    /\ \A c \in Caller : postMessage[c] # m

\* In any other state the answer is TK_ERROR_INVALID_STATE.
PostEnter(c, l, m) ==
    /\ CanCall(c)
    /\ Unposted(m)
    /\ state = "Running"
    /\ inFlightPosts' = inFlightPosts + 1
    /\ postPc' = [postPc EXCEPT ![c] = "publish"]
    /\ postLane' = [postLane EXCEPT ![c] = l]
    /\ postMessage' = [postMessage EXCEPT ![c] = m]
    /\ UNCHANGED <<state, activeDrains, asleep, laneVars, poolVars, workerPc,
                   drainVars, scheduleResult, stopVars, history>>

\* The slot of a message that a worker is moving out is still taken.
LaneFull(l) ==
    Len(laneQueue[l])
      + (IF \E w \in Worker : workerPc[w] = "popped" /\ workerLane[w] = l
         THEN 1 ELSE 0) >= LaneCapacity

ShouldScheduleTwice(l) == laneState[l] # "Draining"  \* variant: scheduled again
ShouldScheduleDraining(l) == laneState[l] # "Scheduled"   \* variant: while draining

ShouldSchedule(l) == laneState[l] = "Idle"

\* TkSerialWorkLane::TryPublish answers TK_ERROR_CAPACITY_EXCEEDED.
PostRefused(c) ==
    /\ postPc[c] = "publish"
    /\ LaneFull(postLane[c])
    /\ postPc' = [postPc EXCEPT ![c] = "leave"]
    /\ UNCHANGED <<schedVars, laneVars, poolVars, workerPc, drainVars, postLane,
                   postMessage, scheduleResult, stopVars, history>>

\* TkSerialWorkLane::TryPublish accepts: from here on TryPost answers SUCCESS.
PostPublish(c) ==
    /\ postPc[c] = "publish"
    /\ ~LaneFull(postLane[c])
    /\ laneQueue' = [laneQueue EXCEPT ![postLane[c]] = Append(@, postMessage[c])]
    /\ accepted' = [accepted EXCEPT ![postLane[c]] = Append(@, postMessage[c])]
    /\ laneState' = [laneState EXCEPT ![postLane[c]] =
                        IF ShouldSchedule(postLane[c]) THEN "Scheduled" ELSE @]
    /\ postPc' = [postPc EXCEPT ![c] =
                     IF ShouldSchedule(postLane[c]) THEN "schedule" ELSE "leave"]
    /\ UNCHANGED <<schedVars, laneAlive, poolVars, workerPc, drainVars, postLane,
                   postMessage, scheduleResult, stopVars, handled>>

PostSchedule(c) ==
    /\ postPc[c] = "schedule"
    /\ TryScheduleLane(c, postLane[c])
    /\ postPc' = [postPc EXCEPT ![c] =
                     IF ScheduleAnswer = "SUCCESS" THEN "leave" ELSE "assert"]
    /\ UNCHANGED <<schedVars, laneVars, poolState, workerPc, drainVars, postLane,
                   postMessage, stopVars, history>>

\* The mutex is taken again for the assertion (ScheduleAssertions).
PostAssert(c) ==
    /\ postPc[c] = "assert"
    /\ postPc' = [postPc EXCEPT ![c] = "leave"]
    /\ UNCHANGED <<schedVars, laneVars, poolVars, workerPc, drainVars, postLane,
                   postMessage, scheduleResult, stopVars, history>>

PostLeave(c) ==
    /\ postPc[c] = "leave"
    /\ inFlightPosts' = inFlightPosts - 1
    /\ NotifyAll
    /\ postPc' = [postPc EXCEPT ![c] = "idle"]
    /\ postLane' = [postLane EXCEPT ![c] = NoLane]
    /\ postMessage' = [postMessage EXCEPT ![c] = NoMessage]
    /\ UNCHANGED <<state, activeDrains, laneVars, poolVars, workerPc, drainVars,
                   scheduleResult, stopVars, history>>
-----------------------------------------------------------------------------
(***************************************************************************)
(* The pool's worker, and DrainLane, the work item it runs                 *)
(***************************************************************************)
WorkerTake(w) ==
    /\ workerPc[w] = "ready"
    /\ poolState \in {"Running", "StoppingDrain"}
    /\ ready # << >>
    /\ workerLane' = [workerLane EXCEPT ![w] = Head(ready)]
    /\ ready' = Tail(ready)
    /\ workerPc' = [workerPc EXCEPT ![w] = "canDrain"]
    /\ UNCHANGED <<schedVars, laneVars, poolState, current, drained, postVars,
                   scheduleResult, stopVars, history>>

WorkerExit(w) ==
    /\ workerPc[w] = "ready"
    /\ \/ poolState \in {"StoppingDiscard", "Stopped"}
       \/ poolState = "StoppingDrain" /\ ready = << >>
    /\ workerPc' = [workerPc EXCEPT ![w] = "exited"]
    /\ UNCHANGED <<schedVars, laneVars, poolVars, drainVars, postVars,
                   scheduleResult, stopVars, history>>

CanDrain == state \in {"Running", "StoppingDrain"}

\* CanDrain, in a critical section of its own; the item returns if it may not.
DrainCheck(w) ==
    /\ workerPc[w] = "canDrain"
    /\ workerPc' = [workerPc EXCEPT ![w] = IF CanDrain THEN "enter" ELSE "ready"]
    /\ workerLane' = [workerLane EXCEPT ![w] = IF CanDrain THEN @ ELSE NoLane]
    /\ UNCHANGED <<schedVars, laneVars, poolVars, current, drained, postVars,
                   scheduleResult, stopVars, history>>

DrainEnter(w) ==
    /\ workerPc[w] = "enter"
    /\ activeDrains' = activeDrains + 1
    /\ workerPc' = [workerPc EXCEPT ![w] = "begin"]
    /\ UNCHANGED <<state, inFlightPosts, asleep, laneVars, poolVars, drainVars,
                   postVars, scheduleResult, stopVars, history>>

\* TkSerialWorkLane::Drain enters, or answers TK_ERROR_INVALID_STATE.
LaneBegin(w) ==
    /\ workerPc[w] = "begin"
    /\ IF laneState[workerLane[w]] = "Scheduled"
       THEN /\ laneState' = [laneState EXCEPT ![workerLane[w]] = "Draining"]
            /\ workerPc' = [workerPc EXCEPT ![w] = "loop"]
            /\ drained' = [drained EXCEPT ![w] = 0]
       ELSE /\ workerPc' = [workerPc EXCEPT ![w] = "leave"]
            /\ UNCHANGED <<laneState, drained>>
    /\ UNCHANGED <<schedVars, laneQueue, laneAlive, poolVars, workerLane, current,
                   postVars, scheduleResult, stopVars, history>>

BatchLeft(w) == drained[w] < MaxMessagesPerDrain

LaneTake(w) ==
    /\ workerPc[w] = "loop"
    /\ BatchLeft(w)
    /\ laneQueue[workerLane[w]] # << >>
    /\ current' = [current EXCEPT ![w] = Head(laneQueue[workerLane[w]])]
    /\ laneQueue' = [laneQueue EXCEPT ![workerLane[w]] = Tail(@)]
    /\ workerPc' = [workerPc EXCEPT ![w] = "popped"]
    /\ UNCHANGED <<schedVars, laneState, laneAlive, poolVars, workerLane, drained,
                   postVars, scheduleResult, stopVars, history>>

LaneCall(w) ==
    /\ workerPc[w] = "popped"
    /\ workerPc' = [workerPc EXCEPT ![w] = "calling"]
    /\ UNCHANGED <<schedVars, laneVars, poolVars, drainVars, postVars,
                   scheduleResult, stopVars, history>>

LaneReturn(w) ==
    /\ workerPc[w] = "calling"
    /\ postPc[w] = "idle" /\ stopPc[w] = "idle"
    /\ handled' = [handled EXCEPT ![workerLane[w]] = Append(@, current[w])]
    /\ current' = [current EXCEPT ![w] = NoMessage]
    /\ drained' = [drained EXCEPT ![w] = @ + 1]
    /\ workerPc' = [workerPc EXCEPT ![w] = "loop"]
    /\ UNCHANGED <<schedVars, laneVars, poolVars, workerLane, postVars,
                   scheduleResult, stopVars, accepted>>

LaneStop(w) ==
    /\ workerPc[w] = "loop"
    /\ ~BatchLeft(w) \/ laneQueue[workerLane[w]] = << >>
    /\ workerPc' = [workerPc EXCEPT ![w] = "leaving"]
    /\ UNCHANGED <<schedVars, laneVars, poolVars, drainVars, postVars,
                   scheduleResult, stopVars, history>>

RemainsNever(l) == FALSE                             \* variant: no second look

\* TkSerialWorkLane::Drain leaves: is there more to do?
Remains(l) == laneQueue[l] # << >>

LaneEnd(w) ==
    /\ workerPc[w] = "leaving"
    /\ laneState' = [laneState EXCEPT ![workerLane[w]] =
                        IF Remains(workerLane[w]) THEN "Scheduled" ELSE "Idle"]
    /\ workerPc' = [workerPc EXCEPT ![w] =
                       IF Remains(workerLane[w]) THEN "reschedule" ELSE "leave"]
    /\ UNCHANGED <<schedVars, laneQueue, laneAlive, poolVars, drainVars, postVars,
                   scheduleResult, stopVars, history>>

DrainReschedule(w) ==
    /\ workerPc[w] = "reschedule"
    /\ TryScheduleLane(w, workerLane[w])
    /\ workerPc' = [workerPc EXCEPT ![w] =
                       IF ScheduleAnswer = "SUCCESS" THEN "leave" ELSE "assert"]
    /\ UNCHANGED <<schedVars, laneVars, poolState, drainVars, postVars, stopVars,
                   history>>

DrainAssert(w) ==
    /\ workerPc[w] = "assert"
    /\ workerPc' = [workerPc EXCEPT ![w] = "leave"]
    /\ UNCHANGED <<schedVars, laneVars, poolVars, drainVars, postVars,
                   scheduleResult, stopVars, history>>

DrainLeave(w) ==
    /\ workerPc[w] = "leave"
    /\ activeDrains' = activeDrains - 1
    /\ NotifyAll
    /\ workerPc' = [workerPc EXCEPT ![w] = "ready"]
    /\ workerLane' = [workerLane EXCEPT ![w] = NoLane]
    /\ UNCHANGED <<state, inFlightPosts, laneVars, poolVars, current, drained,
                   postVars, scheduleResult, stopVars, history>>
-----------------------------------------------------------------------------
(***************************************************************************)
(* Stop                                                                    *)
(***************************************************************************)
IsCurrentDrainCallbackUnknown(c) == FALSE            \* variant: check missing

\* The thread-local CurrentDrainScheduler: set while a worker is inside Drain.
IsCurrentDrainCallback(c) ==
    c \in {w \in Worker : workerPc[w] \in {"begin", "loop", "popped", "calling",
                                           "leaving", "reschedule", "assert"}}

\* In a callback, or while stopping, the answer is TK_ERROR_INVALID_STATE; once
\* Stopped it is TK_SUCCESS: nothing changes in those cases.
StopEnter(c, mode) ==
    /\ CanCall(c)
    /\ ~IsCurrentDrainCallback(c)
    /\ state = "Running"
    /\ state' = IF mode = "Drain" THEN "StoppingDrain" ELSE "StoppingDiscard"
    /\ stopMode' = mode
    /\ stopPc' = [stopPc EXCEPT ![c] = "posts"]
    /\ UNCHANGED <<inFlightPosts, activeDrains, asleep, laneVars, poolVars, workerPc,
                   drainVars, postVars, scheduleResult, history>>

NoPostsUnchecked == TRUE                             \* variant: no wait for posts

NoPosts == inFlightPosts = 0

IsQuiescent(l) == laneState[l] = "Idle" /\ laneQueue[l] = << >>

IsDrainCompleteByCount == activeDrains = 0           \* variant: lanes not asked

IsDrainComplete == activeDrains = 0 /\ \A l \in Lane : IsQuiescent(l)

\* What condition_.wait is waiting for.
WaitOver(c) == IF stopPc[c] = "posts" THEN NoPosts ELSE IsDrainComplete

\* condition_.wait finds its predicate false and sleeps.
StopSleep(c) ==
    /\ stopPc[c] \in {"posts", "drains"}
    /\ c \notin asleep
    /\ ~WaitOver(c)
    /\ asleep' = asleep \union {c}
    /\ UNCHANGED <<state, inFlightPosts, activeDrains, laneVars, poolVars, workerPc,
                   drainVars, postVars, scheduleResult, stopVars, history>>

StopWaited(c) ==
    /\ stopPc[c] \in {"posts", "drains"}
    /\ c \notin asleep
    /\ WaitOver(c)
    /\ stopPc' = [stopPc EXCEPT ![c] =
                     IF stopPc[c] = "posts" /\ stopMode = "Drain" THEN "drains"
                                                                  ELSE "pool"]
    /\ UNCHANGED <<schedVars, laneVars, poolVars, workerPc, drainVars, postVars,
                   scheduleResult, stopMode, history>>

\* TkWorkerPool::Stop sets the pool's state and wakes its workers,
StopPool(c) ==
    /\ stopPc[c] = "pool"
    /\ poolState = "Running"
    /\ poolState' = IF stopMode = "Drain" THEN "StoppingDrain" ELSE "StoppingDiscard"
    /\ stopPc' = [stopPc EXCEPT ![c] = "join"]
    /\ UNCHANGED <<schedVars, laneVars, ready, workerPc, drainVars, postVars,
                   scheduleResult, stopMode, history>>

\* joins them and, when it discards, destroys the work items left.
StopJoin(c) ==
    /\ stopPc[c] = "join"
    /\ \A w \in Worker : workerPc[w] = "exited"
    /\ ready' = IF stopMode = "Discard" THEN << >> ELSE ready
    /\ stopPc' = [stopPc EXCEPT ![c] = "poolDone"]
    /\ UNCHANGED <<schedVars, laneVars, poolState, workerPc, drainVars, postVars,
                   scheduleResult, stopMode, history>>

StopPoolDone(c) ==
    /\ stopPc[c] = "poolDone"
    /\ poolState' = "Stopped"
    /\ stopPc' = [stopPc EXCEPT ![c] = "reset"]
    /\ UNCHANGED <<schedVars, laneVars, ready, workerPc, drainVars, postVars,
                   scheduleResult, stopMode, history>>

\* The lanes are destroyed, with the messages still in them.
StopReset(c) ==
    /\ stopPc[c] = "reset"
    /\ laneAlive' = FALSE
    /\ laneQueue' = [l \in Lane |-> << >>]
    /\ stopPc' = [stopPc EXCEPT ![c] = "finish"]
    /\ UNCHANGED <<schedVars, laneState, poolVars, workerPc, drainVars, postVars,
                   scheduleResult, stopMode, history>>

StopFinish(c) ==
    /\ stopPc[c] = "finish"
    /\ state' = "Stopped"
    /\ NotifyAll
    /\ stopPc' = [stopPc EXCEPT ![c] = "idle"]
    /\ UNCHANGED <<inFlightPosts, activeDrains, laneVars, poolVars, workerPc,
                   drainVars, postVars, scheduleResult, stopMode, history>>
-----------------------------------------------------------------------------
PostStep(c) == PostRefused(c) \/ PostPublish(c) \/ PostSchedule(c) \/ PostAssert(c)
               \/ PostLeave(c)

WorkerStep(w) ==
    \/ WorkerTake(w) \/ WorkerExit(w)
    \/ DrainCheck(w) \/ DrainEnter(w) \/ DrainReschedule(w) \/ DrainAssert(w)
    \/ DrainLeave(w)
    \/ LaneBegin(w) \/ LaneTake(w) \/ LaneCall(w) \/ LaneReturn(w) \/ LaneStop(w)
    \/ LaneEnd(w)

StopStep(c) == StopSleep(c) \/ StopWaited(c) \/ StopPool(c) \/ StopJoin(c)
               \/ StopPoolDone(c) \/ StopReset(c) \/ StopFinish(c)

Next ==
    \/ \E c \in Caller, l \in Lane, m \in Message : PostEnter(c, l, m)
    \/ \E c \in Caller, mode \in {"Drain", "Discard"} : StopEnter(c, mode)
    \/ \E c \in Caller : PostStep(c) \/ StopStep(c)
    \/ \E w \in Worker : WorkerStep(w)

Spec == Init /\ [][Next]_vars

\* Threads inside the scheduler and its workers keep running; callbacks return.
\* Nobody is obliged to post or to stop.
FairSpec ==
    /\ Spec
    /\ \A c \in Caller : WF_vars(PostStep(c)) /\ WF_vars(StopStep(c))
    /\ \A w \in Worker : WF_vars(WorkerStep(w))
-----------------------------------------------------------------------------
TypeOK ==
    /\ state \in {"Running", "StoppingDrain", "StoppingDiscard", "Stopped"}
    /\ inFlightPosts \in Nat /\ activeDrains \in Nat
    /\ asleep \in SUBSET Caller
    /\ laneState \in [Lane -> {"Idle", "Scheduled", "Draining"}]
    /\ laneQueue \in [Lane -> Seq(Message)]
    /\ laneAlive \in BOOLEAN
    /\ poolState \in {"Running", "StoppingDrain", "StoppingDiscard", "Stopped"}
    /\ ready \in Seq(Lane)
    /\ workerPc \in [Worker -> {"ready", "canDrain", "enter", "begin", "loop", "popped",
                                "calling", "leaving", "reschedule", "assert", "leave",
                                "exited"}]
    /\ workerLane \in [Worker -> Lane \union {NoLane}]
    /\ current \in [Worker -> Message \union {NoMessage}]
    /\ drained \in [Worker -> 0..MaxMessagesPerDrain]
    /\ postPc \in [Caller -> {"idle", "publish", "schedule", "assert", "leave"}]
    /\ postLane \in [Caller -> Lane \union {NoLane}]
    /\ postMessage \in [Caller -> Message \union {NoMessage}]
    /\ scheduleResult \in [Caller -> {"SUCCESS", "INVALID_STATE", "CAPACITY_EXCEEDED"}]
    /\ stopPc \in [Caller -> {"idle", "posts", "drains", "pool", "join", "poolDone",
                              "reset", "finish"}]
    /\ stopMode \in {"none", "Drain", "Discard"}
    /\ accepted \in [Lane -> Seq(Message)]
    /\ handled \in [Lane -> Seq(Message)]

\* A worker between the two critical sections of a lane's Drain.
InDrain(w, l) == workerLane[w] = l
                 /\ workerPc[w] \in {"loop", "popped", "calling", "leaving"}

\* Two workers never drain the same lane: its callback, and the single-consumer
\* side of its ring, run outside every mutex.
LaneSerial ==
    \A l \in Lane : \A v, w \in Worker : InDrain(v, l) /\ InDrain(w, l) => v = w

\* Who will see that a scheduled lane is drained: its entry in the ready queue,
\* the worker that took the entry, or the thread about to give it to the pool.
Entries(l)   == {n \in DOMAIN ready : ready[n] = l}
Drainers(l)  == {w \in Worker : workerLane[w] = l
                    /\ workerPc[w] \in {"canDrain", "enter", "begin", "reschedule"}}
Promisers(l) == {c \in Caller : postLane[c] = l /\ postPc[c] = "schedule"}

\* A Scheduled lane has exactly one of them until a Stop(Discard), and a lane
\* that is not Scheduled has none: no lane is queued twice, none is forgotten.
OneReservation ==
    \A l \in Lane :
        LET tokens == Cardinality(Entries(l)) + Cardinality(Drainers(l))
                      + Cardinality(Promisers(l))
        IN  /\ tokens <= 1
            /\ tokens = 1 => laneState[l] = "Scheduled"
            /\ laneState[l] = "Scheduled" /\ AcceptsSchedule => tokens = 1

\* The threads inside TryPost past its first critical section, and the workers between
\* the two critical sections of DrainLane.
Posters == {c \in Caller : postPc[c] # "idle"}
Counted == {"begin", "loop", "popped", "calling", "leaving", "reschedule", "assert", "leave"}
Active  == {w \in Worker : workerPc[w] \in Counted}

\* Each post and each drain is counted once, on every path, and taken off once: Stop
\* waits for these counters, and waits for nobody that is not there.
CountsAgree ==
    inFlightPosts = Cardinality(Posters) /\ activeDrains = Cardinality(Active)

SchedulerConsistent == TypeOK /\ LaneSerial /\ OneReservation /\ CountsAgree

\* readyCapacity >= workLaneCount is enough: the ring of the pool never refuses
\* a lane, however posts, drains and rescheduling interleave.  And the assertions
\* of TryPost and DrainLane hold: scheduling fails only when a Discard has
\* begun, and for a drain only with TK_ERROR_INVALID_STATE.
ScheduleAssertions ==
    /\ \A c \in Caller : scheduleResult[c] # "CAPACITY_EXCEEDED"
    /\ \A c \in Caller : postPc[c] = "assert" => state \in {"StoppingDiscard", "Stopped"}
    /\ \A w \in Worker : workerPc[w] = "assert" =>
          /\ scheduleResult[w] = "INVALID_STATE"
          /\ state \in {"StoppingDiscard", "Stopped"}

\* The lanes are destroyed without a lock: nobody may be using one.
NoUseAfterReset ==
    ~laneAlive => /\ \A c \in Caller : postPc[c] \notin {"publish", "schedule"}
                  /\ \A w \in Worker : workerPc[w] = "exited"
                  /\ ready = << >>

\* When Stop(Drain) is over each accepted message has been handled.  A worker that
\* has passed CanDrain may not have counted itself in activeDrains yet; Stop goes
\* on to the pool only when there is no such worker.
DrainLosesNothing ==
    stopMode = "Drain" =>
        /\ state = "Stopped" => handled = accepted
        /\ (\E c \in Caller : stopPc[c] \in {"pool", "join"}) =>
              \A w \in Worker : workerPc[w] \in {"ready", "exited"}

\* Stop, in either mode, takes nothing away from a thread that still uses it or has
\* been told that its message was accepted.
StopIsSafe == NoUseAfterReset /\ DrainLosesNothing

\* Seen from a publisher, every lane is a serial mailbox.
RunningMessage(l) ==
    IF \E w \in Worker : workerLane[w] = l /\ workerPc[w] \in {"popped", "calling"}
    THEN current[CHOOSE w \in Worker : workerLane[w] = l
                                       /\ workerPc[w] \in {"popped", "calling"}]
    ELSE NoMessage

Mailboxes == INSTANCE SerialMailbox WITH
                 Box <- Lane, pending <- laneQueue, done <- handled,
                 running <- [l \in Lane |-> RunningMessage(l)], closed <- ~laneAlive

ImplementsMailboxes == Mailboxes!Spec

\* Each accepted message is eventually handled, or its lane is discarded.
AcceptedIsHandled ==
    \A l \in Lane, m \in Message :
        (\E n \in DOMAIN accepted[l] : accepted[l][n] = m)
        ~> (stopMode = "Discard" \/ \E n \in DOMAIN handled[l] : handled[l][n] = m)

\* Stop returns, in either mode, whoever posts meanwhile.
StopReturns == \A c \in Caller : stopPc[c] # "idle" ~> stopPc[c] = "idle"
=============================================================================
