----------------------------- MODULE WorkerPool -----------------------------
(***************************************************************************)
(* TkWorkerPool: workers that wait on a condition variable for work items  *)
(* in a bounded ready queue, and the ways to stop them.  The ready queue   *)
(* is a TkBoundedMpmcQueue, but the pool touches it only with its mutex    *)
(* held, so it is a plain bounded sequence here.  One critical section is  *)
(* one step; notify_one, notify_all, the joins and the task's own code run *)
(* outside the mutex and are steps of their own.                           *)
(*                                                                         *)
(* A task may itself call TrySchedule and Stop.  The model starts in       *)
(* Start, just after the state became Running.                             *)
(*                                                                         *)
(* An operator commented "variant" is a wrong form of the definition after *)
(* it, kept to see that a property notices it.                             *)
(***************************************************************************)
EXTENDS Naturals, Sequences, FiniteSets

CONSTANTS Client,       \* threads outside the pool that use it
          Worker,       \* the pool's threads
          Item, NoItem, \* work items, each scheduled at most once
          Capacity      \* readyCapacity

Caller == Client \union Worker

\* Create answers TK_ERROR_INVALID_ARGUMENT for a pool without workers or slots.
ASSUME PoolAssumption ==
    /\ Capacity \in Nat \ {0}
    /\ IsFiniteSet(Worker) /\ Worker # {}
    /\ NoItem \notin Item
    /\ Client \cap Worker = {}

VARIABLES
    state,          \* "Running", "StoppingDrain", "StoppingDiscard", "Stopped"
    readyQueue,
    queuedCount,
    creation,       \* where Start is: "spawning", "abortNotify", "abortJoin",
                    \* "failed" or "created"
    workerPc,       \* worker -> "unborn", "check", "waiting", "invoke",
                    \*           "running" or "exited"
    holding,        \* worker -> the item it has popped, or NoItem
    stopPc,         \* caller -> where it is in Stop
    stopMode,       \* the mode of the Stop that took effect, or "none"
    notifications,  \* calls of notify_one still to be made
    accepted,       \* history: items TrySchedule took
    invocations,    \* history: item -> calls of its invoke function
    destructions    \* history: item -> calls of its destroy function

vars == <<state, readyQueue, queuedCount, creation, workerPc, holding, stopPc,
          stopMode, notifications, accepted, invocations, destructions>>

stopVars == <<stopPc, stopMode>>
history  == <<accepted, invocations, destructions>>
queueVars == <<readyQueue, queuedCount>>
-----------------------------------------------------------------------------
Init ==
    /\ state = "Running"
    /\ readyQueue = << >>
    /\ queuedCount = 0
    /\ creation = "spawning"
    /\ workerPc = [w \in Worker |-> "unborn"]
    /\ holding = [w \in Worker |-> NoItem]
    /\ stopPc = [c \in Caller |-> "idle"]
    /\ stopMode = "none"
    /\ notifications = 0
    /\ accepted = {}
    /\ invocations = [i \in Item |-> 0]
    /\ destructions = [i \in Item |-> 0]

WakeNone == UNCHANGED workerPc                        \* variant: no notify_all

\* notify_all: every waiting worker goes back to its predicate.
WakeAll == workerPc' = [w \in Worker |-> IF workerPc[w] = "waiting" THEN "check"
                                                                    ELSE workerPc[w]]

\* The thread objects of the pool: their threads can be joined when they exit.
Joinable(w) == workerPc[w] \in {"unborn", "exited"}
AllJoined == \A w \in Worker : Joinable(w)
-----------------------------------------------------------------------------
(***************************************************************************)
(* Start, as called by Create                                              *)
(***************************************************************************)
Spawn(w) ==
    /\ creation = "spawning"
    /\ workerPc[w] = "unborn"
    /\ workerPc' = [workerPc EXCEPT ![w] = "check"]
    /\ UNCHANGED <<state, queueVars, creation, holding, stopVars, notifications, history>>

\* Create returns the pool.
SpawnDone ==
    /\ creation = "spawning"
    /\ \A w \in Worker : workerPc[w] # "unborn"
    /\ creation' = "created"
    /\ UNCHANGED <<state, queueVars, workerPc, holding, stopVars, notifications, history>>

\* The construction of a thread throws: AbortStart.
SpawnFails ==
    /\ creation = "spawning"
    /\ \E w \in Worker : workerPc[w] = "unborn"
    /\ state' = "StoppingDiscard"
    /\ creation' = "abortNotify"
    /\ UNCHANGED <<queueVars, workerPc, holding, stopVars, notifications, history>>

AbortNotify ==
    /\ creation = "abortNotify"
    /\ WakeAll
    /\ creation' = "abortJoin"
    /\ UNCHANGED <<state, queueVars, holding, stopVars, notifications, history>>

AbortJoin ==
    /\ creation = "abortJoin"
    /\ AllJoined
    /\ state' = "Stopped"
    /\ creation' = "failed"
    /\ UNCHANGED <<queueVars, workerPc, holding, stopVars, notifications, history>>
-----------------------------------------------------------------------------
(***************************************************************************)
(* TrySchedule.  When it answers TK_ERROR_INVALID_STATE (not Running) or   *)
(* TK_ERROR_CAPACITY_EXCEEDED (ring full) nothing changes and the item     *)
(* stays with the caller.                                                  *)
(***************************************************************************)
\* Who can call into the pool: its clients, and a task it is running.
CanCall(c) ==
    /\ creation = "created"
    /\ stopPc[c] = "idle"
    /\ c \in Client \union {w \in Worker : workerPc[w] = "running"}

AcceptsWorkUntilStopped == state # "Stopped"          \* variant: accepts late

AcceptsWork == state = "Running"

Fits == Len(readyQueue) < Capacity

AnnouncedIfFirst ==                        \* variant: only for an empty queue
    IF queuedCount = 0 THEN notifications + 1 ELSE notifications

\* One call of notify_one for every item.
Announced == notifications + 1

TrySchedule(c, i) ==
    /\ CanCall(c)
    /\ i \notin accepted
    /\ AcceptsWork
    /\ Fits
    /\ readyQueue' = Append(readyQueue, i)
    /\ queuedCount' = queuedCount + 1
    /\ notifications' = Announced
    /\ accepted' = accepted \union {i}
    /\ UNCHANGED <<state, creation, workerPc, holding, stopVars, invocations, destructions>>

NotifyOneLost ==                           \* variant: nobody wakes
    /\ notifications > 0
    /\ notifications' = notifications - 1
    /\ UNCHANGED <<state, queueVars, creation, workerPc, holding, stopVars, history>>

NotifyOne ==
    /\ notifications > 0
    /\ notifications' = notifications - 1
    /\ IF \E w \in Worker : workerPc[w] = "waiting"
       THEN \E w \in Worker : /\ workerPc[w] = "waiting"
                              /\ workerPc' = [workerPc EXCEPT ![w] = "check"]
       ELSE UNCHANGED workerPc
    /\ UNCHANGED <<state, queueVars, creation, holding, stopVars, history>>
-----------------------------------------------------------------------------
(***************************************************************************)
(* WorkerMain                                                              *)
(***************************************************************************)
\* The predicate of condition_.wait.
MayProceed == queuedCount # 0 \/ state # "Running"

LeavesWhenStopping == state # "Running" \/ queuedCount = 0   \* variant: no drain

\* The two returns of the loop.
Leaves == state \in {"StoppingDiscard", "Stopped"} \/ queuedCount = 0

\* What a successful TryPop leaves in the ring, and the count beside it.
Rest == Tail(readyQueue)

CountKept == queuedCount                              \* variant: not decremented

CountAfterPop == queuedCount - 1

WorkerWait(w) ==
    /\ workerPc[w] = "check"
    /\ ~MayProceed
    /\ workerPc' = [workerPc EXCEPT ![w] = "waiting"]
    /\ UNCHANGED <<state, queueVars, creation, holding, stopVars, notifications, history>>

\* A condition variable may wake a thread that nobody notified.
SpuriousWake(w) ==
    /\ workerPc[w] = "waiting"
    /\ workerPc' = [workerPc EXCEPT ![w] = "check"]
    /\ UNCHANGED <<state, queueVars, creation, holding, stopVars, notifications, history>>

WorkerExit(w) ==
    /\ workerPc[w] = "check"
    /\ MayProceed
    /\ Leaves
    /\ workerPc' = [workerPc EXCEPT ![w] = "exited"]
    /\ UNCHANGED <<state, queueVars, creation, holding, stopVars, notifications, history>>

\* TryPop cannot fail here (CountMatchesQueue); if it did the loop would go
\* round with nothing changed.
WorkerTake(w) ==
    /\ workerPc[w] = "check"
    /\ MayProceed
    /\ ~Leaves
    /\ readyQueue # << >>
    /\ holding' = [holding EXCEPT ![w] = Head(readyQueue)]
    /\ readyQueue' = Rest
    /\ queuedCount' = CountAfterPop
    /\ workerPc' = [workerPc EXCEPT ![w] = "invoke"]
    /\ UNCHANGED <<state, creation, stopVars, notifications, history>>

\* TkWorkItem::Invoke, outside the mutex.
WorkerInvoke(w) ==
    /\ workerPc[w] = "invoke"
    /\ invocations' = [invocations EXCEPT ![holding[w]] = @ + 1]
    /\ workerPc' = [workerPc EXCEPT ![w] = "running"]
    /\ UNCHANGED <<state, queueVars, creation, holding, stopVars, notifications,
                   accepted, destructions>>

\* The task returns and the item, going out of scope, is destroyed.
WorkerReturn(w) ==
    /\ workerPc[w] = "running"
    /\ stopPc[w] = "idle"
    /\ destructions' = [destructions EXCEPT ![holding[w]] = @ + 1]
    /\ holding' = [holding EXCEPT ![w] = NoItem]
    /\ workerPc' = [workerPc EXCEPT ![w] = "check"]
    /\ UNCHANGED <<state, queueVars, creation, stopVars, notifications, accepted, invocations>>
-----------------------------------------------------------------------------
(***************************************************************************)
(* Stop.  Called on a worker, or while another Stop is under way, it       *)
(* answers TK_ERROR_INVALID_STATE; once Stopped, TK_SUCCESS: in those      *)
(* cases nothing changes.  Every Create that fails after Start, and the    *)
(* destructor, are a Stop(Discard) of the owner.                           *)
(***************************************************************************)

IsCurrentWorker(c) == c \in Worker

StopEnter(c, mode) ==
    /\ CanCall(c)
    /\ ~IsCurrentWorker(c)
    /\ state = "Running"
    /\ state' = IF mode = "Drain" THEN "StoppingDrain" ELSE "StoppingDiscard"
    /\ stopPc' = [stopPc EXCEPT ![c] = "notifyAll"]
    /\ stopMode' = mode
    /\ UNCHANGED <<queueVars, creation, workerPc, holding, notifications, history>>

StopNotify(c) ==
    /\ stopPc[c] = "notifyAll"
    /\ WakeAll
    /\ stopPc' = [stopPc EXCEPT ![c] = "join"]
    /\ UNCHANGED <<state, queueVars, creation, holding, stopMode, notifications, history>>

\* JoinWorkers has joined the last worker.
StopJoin(c) ==
    /\ stopPc[c] = "join"
    /\ AllJoined
    /\ stopPc' = [stopPc EXCEPT ![c] = IF stopMode = "Discard" THEN "discard"
                                                               ELSE "finish"]
    /\ UNCHANGED <<state, queueVars, creation, workerPc, holding, stopMode,
                   notifications, history>>

\* One round of DiscardQueued: an item is popped and goes out of scope.
StopDiscardOne(c) ==
    /\ stopPc[c] = "discard"
    /\ queuedCount # 0
    /\ readyQueue # << >>
    /\ readyQueue' = Rest
    /\ queuedCount' = CountAfterPop
    /\ destructions' = [destructions EXCEPT ![Head(readyQueue)] = @ + 1]
    /\ UNCHANGED <<state, creation, workerPc, holding, stopVars, notifications,
                   accepted, invocations>>

StopDiscardDone(c) ==
    /\ stopPc[c] = "discard"
    /\ queuedCount = 0
    /\ stopPc' = [stopPc EXCEPT ![c] = "finish"]
    /\ UNCHANGED <<state, queueVars, creation, workerPc, holding, stopMode,
                   notifications, history>>

StopFinish(c) ==
    /\ stopPc[c] = "finish"
    /\ state' = "Stopped"
    /\ stopPc' = [stopPc EXCEPT ![c] = "idle"]
    /\ UNCHANGED <<queueVars, creation, workerPc, holding, stopMode,
                   notifications, history>>
-----------------------------------------------------------------------------
CreationStep == SpawnDone \/ AbortNotify \/ AbortJoin \/ \E w \in Worker : Spawn(w)

WorkerStep(w) == WorkerWait(w) \/ WorkerExit(w) \/ WorkerTake(w)
                 \/ WorkerInvoke(w) \/ WorkerReturn(w)

StopStep(c) == StopNotify(c) \/ StopJoin(c) \/ StopDiscardOne(c)
               \/ StopDiscardDone(c) \/ StopFinish(c)

Next ==
    \/ CreationStep \/ SpawnFails
    \/ NotifyOne
    \/ \E c \in Caller, i \in Item : TrySchedule(c, i)
    \/ \E w \in Worker : WorkerStep(w) \/ SpuriousWake(w)
    \/ \E c \in Caller, mode \in {"Drain", "Discard"} : StopEnter(c, mode)
    \/ \E c \in Caller : StopStep(c)

Spec == Init /\ [][Next]_vars

\* Threads that can run do run; a task returns.  Nobody is obliged to call the
\* pool, and no spurious wakeup is ever counted on.
FairSpec ==
    /\ Spec
    /\ WF_vars(CreationStep) /\ WF_vars(NotifyOne)
    /\ \A w \in Worker : WF_vars(WorkerStep(w))
    /\ \A c \in Caller : WF_vars(StopStep(c))
-----------------------------------------------------------------------------
TypeOK ==
    /\ state \in {"Running", "StoppingDrain", "StoppingDiscard", "Stopped"}
    /\ readyQueue \in Seq(Item)
    /\ queuedCount \in 0..Capacity
    /\ creation \in {"spawning", "abortNotify", "abortJoin", "failed", "created"}
    /\ workerPc \in [Worker -> {"unborn", "check", "waiting", "invoke",
                                "running", "exited"}]
    /\ holding \in [Worker -> Item \union {NoItem}]
    /\ stopPc \in [Caller -> {"idle", "notifyAll", "join", "discard", "finish"}]
    /\ stopMode \in {"none", "Drain", "Discard"}
    /\ notifications \in Nat
    /\ accepted \in SUBSET Item
    /\ invocations \in [Item -> Nat]
    /\ destructions \in [Item -> Nat]

\* The count the workers sleep on is the number of items in the ring, so no
\* worker spins on a failing TryPop and none sleeps beside a queued item.
CountMatchesQueue == queuedCount = Len(readyQueue)

Queued(i) == \E n \in DOMAIN readyQueue : readyQueue[n] = i
Held(i)   == \E w \in Worker : holding[w] = i

\* An accepted item is in exactly one place: once in the ring, or in the hands
\* of one worker, or destroyed.  It is invoked at most once, destroyed at most
\* once, and not invoked again by the worker that holds it.
ItemAccounting ==
    /\ \A m, n \in DOMAIN readyQueue : readyQueue[m] = readyQueue[n] => m = n
    /\ \A v, w \in Worker : holding[v] = holding[w] /\ holding[v] # NoItem => v = w
    /\ \A i \in Item :
          /\ ~(Queued(i) /\ Held(i))
          /\ Queued(i) \/ Held(i) => destructions[i] = 0
          /\ i \in accepted <=> Queued(i) \/ Held(i) \/ destructions[i] = 1
          /\ destructions[i] <= 1
          /\ invocations[i] <= 1
          /\ invocations[i] = 1 => ~Queued(i) /\ i \in accepted
    /\ \A w \in Worker : workerPc[w] = "invoke" => invocations[holding[w]] = 0

\* No queued item waits while a worker sleeps: a sleeping worker means that for
\* each queued item a notification is on its way or a worker is about to look.
WorkConserving ==
    state \in {"Running", "StoppingDrain"} /\ (\E w \in Worker : workerPc[w] = "waiting")
        => Len(readyQueue) <= notifications
                              + Cardinality({w \in Worker : workerPc[w] = "check"})

\* Once the state is Stopped no task runs, none is queued and no worker is
\* left; after Stop(Drain) each accepted item has been invoked.  A pool whose
\* creation failed is Stopped too: it has joined the workers it had started.
StoppedMeansDone ==
    /\ state = "Stopped" =>
          /\ AllJoined
          /\ \A i \in accepted : destructions[i] = 1
          /\ stopMode = "Drain" => \A i \in accepted : invocations[i] = 1
    /\ creation = "failed" => state = "Stopped" /\ AllJoined /\ accepted = {}

\* The two records of the queue, the workers and the fate of the items agree, and
\* what Stop leaves behind is what it promises.
PoolConsistent == TypeOK /\ CountMatchesQueue /\ ItemAccounting /\ StoppedMeansDone

\* The pool keeps its promise to its owner (TaskPool).
Tasks == INSTANCE TaskPool WITH
    Task <- Item,
    fate <- [i \in Item |-> IF Queued(i) THEN "queued"
                            ELSE IF Held(i) THEN "running" ELSE "out"],
    phase <- CASE state = "Running" -> "open"
               [] state = "StoppingDrain" -> "draining"
               [] state = "StoppingDiscard" -> "discarding"
               [] state = "Stopped" -> "closed"

ImplementsTaskPool == Tasks!Spec

\* Each accepted item is eventually destroyed: no wakeup is lost, whether the
\* pool goes on running, drains or discards.
AcceptedIsFinished ==
    \A i \in Item : i \in accepted ~> destructions[i] = 1

\* Stop returns, and creation comes to an end: no one waits for ever.
CallsReturn ==
    /\ \A c \in Caller : stopPc[c] # "idle" ~> stopPc[c] = "idle"
    /\ <>(creation \in {"created", "failed"})
=============================================================================
