-------------------------- MODULE WorkerPool_proofs --------------------------
(***************************************************************************)
(* Proofs about WorkerPool, for any clients, workers, items and capacity.  *)
(* PoolConsistent is not inductive: the inductive invariant Inv adds what  *)
(* a worker has in hand in each of its states (HoldInv), what each phase   *)
(* of creation and of Stop may rely on (CreationInv, StopInv), and that a  *)
(* worker leaves a draining pool only when its queue is empty (ExitInv).   *)
(***************************************************************************)
EXTENDS WorkerPool, FiniteSetTheorems, SequenceTheorems, TLAPS

(***************************************************************************)
(* The invariant                                                           *)
(***************************************************************************)
Busy(w) == workerPc[w] \in {"invoke", "running"}

\* A worker has an item in hand while it is busy with it and at no other time.
HoldInv ==
    \A w \in Worker : /\ Busy(w) => holding[w] \in Item
                      /\ ~Busy(w) => holding[w] = NoItem
                      /\ workerPc[w] = "running" => invocations[holding[w]] = 1

\* An item is destroyed without being invoked only by a Stop that discards.
DroppedInv == \A i \in Item : destructions[i] = 1 => invocations[i] = 1 \/ stopMode = "Discard"

Aborting == creation \in {"abortNotify", "abortJoin", "failed"}

\* Until Create has returned nobody can call the pool.
CreationInv ==
    /\ creation # "created" => /\ accepted = {} /\ stopMode = "none"
                               /\ \A c \in Caller : stopPc[c] = "idle"
    /\ creation = "created" => \A w \in Worker : workerPc[w] # "unborn"
    /\ creation = "spawning" => state = "Running"
    /\ creation \in {"abortNotify", "abortJoin"} => state = "StoppingDiscard"
    /\ creation = "failed" => state = "Stopped" /\ AllJoined

\* One caller stops the pool; it goes on from the joins only when every worker is gone, and
\* ends only when the queue is empty.
StopInv ==
    /\ \A c, d \in Caller : stopPc[c] # "idle" /\ stopPc[d] # "idle" => c = d
    /\ \A c \in Caller :
          /\ stopPc[c] # "idle" => state \in {"StoppingDrain", "StoppingDiscard"}
          /\ stopPc[c] \in {"discard", "finish"} => AllJoined
          /\ stopPc[c] = "discard" => stopMode = "Discard"
          /\ stopPc[c] = "finish" => queuedCount = 0
    /\ state = "Running" => stopMode = "none"
    /\ state = "StoppingDrain" => stopMode = "Drain"
    /\ state = "StoppingDiscard" /\ creation = "created" => stopMode = "Discard"
    /\ state = "Stopped" => AllJoined /\ queuedCount = 0

\* No worker leaves a running pool, nor a draining one with items queued.
ExitInv ==
    \A w \in Worker : workerPc[w] = "exited" =>
        state # "Running" /\ (state = "StoppingDrain" => queuedCount = 0)

Inv == TypeOK /\ CountMatchesQueue /\ ItemAccounting /\ HoldInv /\ DroppedInv /\ CreationInv
       /\ StopInv /\ ExitInv
-----------------------------------------------------------------------------
(***************************************************************************)
(* A queue of different elements                                           *)
(***************************************************************************)
LEMMA TailOfDistinct ==
  ASSUME NEW S, NEW q \in Seq(S), q # << >>,
         \A m, n \in DOMAIN q : q[m] = q[n] => m = n
  PROVE  /\ Head(q) \in S /\ Tail(q) \in Seq(S) /\ Len(Tail(q)) = Len(q) - 1
         /\ \A m, n \in DOMAIN Tail(q) : Tail(q)[m] = Tail(q)[n] => m = n
         /\ \E n \in DOMAIN q : q[n] = Head(q)
         /\ \A x : (\E n \in DOMAIN Tail(q) : Tail(q)[n] = x)
                     <=> (\E n \in DOMAIN q : q[n] = x) /\ x # Head(q)
  <1>1. PICK len \in Nat : Len(q) = len + 1
    <2>1. Len(q) \in Nat /\ Len(q) # 0
      BY EmptySeq
    <2>2. Len(q) - 1 \in Nat /\ Len(q) = (Len(q) - 1) + 1
      BY <2>1
    <2> QED
      BY <2>2
  <1>2. /\ Head(q) \in S /\ Tail(q) \in Seq(S) /\ Len(Tail(q)) = Len(q) - 1
        /\ \A i \in 1..Len(Tail(q)) : Tail(q)[i] = q[i + 1]
    BY HeadTailProperties
  <1>3. /\ Head(q) = q[1] /\ DOMAIN q = 1..(len + 1)
        /\ DOMAIN Tail(q) = 1..len /\ \A i \in 1..len : Tail(q)[i] = q[i + 1]
    BY <1>1, <1>2
  <1>4. \A i \in 1..len : i + 1 \in 1..(len + 1) /\ i + 1 # 1
    OBVIOUS
  <1>5. ASSUME NEW m \in 1..len, NEW n \in 1..len, Tail(q)[m] = Tail(q)[n] PROVE m = n
    <2>1. m + 1 = n + 1
      BY <1>3, <1>4, <1>5
    <2> QED
      BY <2>1
  <1>6. ASSUME NEW n \in 1..len PROVE Tail(q)[n] # Head(q) /\ \E k \in DOMAIN q : q[k] = Tail(q)[n]
    BY <1>3, <1>4
  <1>7. ASSUME NEW k \in 1..(len + 1), q[k] # Head(q)
        PROVE  \E n \in 1..len : Tail(q)[n] = q[k]
    <2>1. k # 1
      BY <1>3, <1>7
    <2>2. k - 1 \in 1..len /\ (k - 1) + 1 = k
      BY <2>1
    <2> QED
      BY <1>3, <2>2
  <1>8. 1 \in DOMAIN q /\ q[1] = Head(q)
    BY <1>3
  <1>9. \A m, n \in DOMAIN Tail(q) : Tail(q)[m] = Tail(q)[n] => m = n
    BY <1>3, <1>5
  <1>10. ASSUME NEW x
         PROVE  (\E n \in DOMAIN Tail(q) : Tail(q)[n] = x)
                  <=> (\E n \in DOMAIN q : q[n] = x) /\ x # Head(q)
    <2>1. (\E n \in DOMAIN Tail(q) : Tail(q)[n] = x)
            => (\E n \in DOMAIN q : q[n] = x) /\ x # Head(q)
      BY <1>3, <1>6
    <2>2. (\E n \in DOMAIN q : q[n] = x) /\ x # Head(q)
            => \E n \in DOMAIN Tail(q) : Tail(q)[n] = x
      BY <1>3, <1>7
    <2> QED
      BY <2>1, <2>2
  <1> QED
    BY <1>2, <1>8, <1>9, <1>10

LEMMA AppendToDistinct ==
  ASSUME NEW q \in Seq(Item), NEW e \in Item,
         \A m, n \in DOMAIN q : q[m] = q[n] => m = n,
         \A n \in DOMAIN q : q[n] # e
  PROVE  /\ \A m, n \in DOMAIN Append(q, e) : Append(q, e)[m] = Append(q, e)[n] => m = n
         /\ \A x : (\E n \in DOMAIN Append(q, e) : Append(q, e)[n] = x)
                     <=> (\E n \in DOMAIN q : q[n] = x) \/ x = e
  <1>1. PICK len \in Nat : Len(q) = len
    OBVIOUS
  <1>2. PICK r : r = Append(q, e)
    OBVIOUS
  <1>3. /\ DOMAIN q = 1..len /\ DOMAIN r = 1..(len + 1) /\ r[len + 1] = e
        /\ \A i \in 1..len : r[i] = q[i]
    BY <1>1, <1>2
  <1>4. \A i \in 1..(len + 1) : i \in 1..len \/ i = len + 1
    OBVIOUS
  <1>5. \A i \in 1..len : i \in 1..(len + 1)
    OBVIOUS
  <1>6. len + 1 \in 1..(len + 1)
    OBVIOUS
  <1>7. \A m, n \in DOMAIN r : r[m] = r[n] => m = n
    BY <1>3, <1>4
  <1>8. \A x : (\E n \in DOMAIN r : r[n] = x) <=> (\E n \in DOMAIN q : q[n] = x) \/ x = e
    BY <1>3, <1>4, <1>5, <1>6
  <1> QED
    BY <1>2, <1>7, <1>8
-----------------------------------------------------------------------------
(***************************************************************************)
(* The items                                                               *)
(***************************************************************************)
ItemsInv == CountMatchesQueue /\ ItemAccounting /\ HoldInv /\ DroppedInv

LEMMA TypeNext == TypeOK /\ ItemsInv /\ [Next]_vars => TypeOK'
  <1> SUFFICES ASSUME TypeOK, ItemsInv, [Next]_vars PROVE TypeOK'
    OBVIOUS
  <1>0. /\ Capacity \in Nat
        /\ \A w \in Worker : w \in Caller
    BY PoolAssumption DEF Caller
  <1>1. CASE CreationStep \/ SpawnFails
    BY <1>1 DEF CreationStep, SpawnFails, SpawnDone, AbortNotify, AbortJoin, Spawn, WakeAll, TypeOK,
                queueVars, stopVars, history
  <1>2. CASE NotifyOne
    BY <1>2 DEF NotifyOne, TypeOK, queueVars, stopVars, history
  <1>3. ASSUME NEW c \in Caller, NEW i \in Item, TrySchedule(c, i) PROVE TypeOK'
    <2>1. Len(readyQueue) = queuedCount /\ Len(readyQueue) < Capacity
      BY <1>3 DEF TrySchedule, Fits, ItemsInv, CountMatchesQueue
    <2>2. queuedCount' \in 0..Capacity
      BY <1>0, <1>3, <2>1 DEF TrySchedule, TypeOK
    <2> QED
      BY <1>3, <2>2 DEF TrySchedule, Announced, TypeOK, stopVars
  <1>4. ASSUME NEW w \in Worker, WorkerTake(w) PROVE TypeOK'
    <2>1. readyQueue \in Seq(Item) /\ readyQueue # << >>
      BY <1>4 DEF WorkerTake, TypeOK
    <2>2. Head(readyQueue) \in Item /\ Tail(readyQueue) \in Seq(Item)
      BY <2>1, HeadTailProperties
    <2>3. queuedCount' \in 0..Capacity
      BY <1>0, <1>4 DEF WorkerTake, Leaves, CountAfterPop, TypeOK
    <2> QED
      BY <1>4, <2>2, <2>3 DEF WorkerTake, Rest, TypeOK, stopVars, history
  <1>5. ASSUME NEW w \in Worker, WorkerInvoke(w) \/ WorkerReturn(w) PROVE TypeOK'
    <2>1. holding[w] \in Item
      BY <1>5 DEF WorkerInvoke, WorkerReturn, ItemsInv, HoldInv, Busy
    <2>2. invocations[holding[w]] + 1 \in Nat /\ destructions[holding[w]] + 1 \in Nat
      BY <2>1 DEF TypeOK
    <2>3. CASE WorkerInvoke(w)
      <3>1. invocations' = [invocations EXCEPT ![holding[w]] = invocations[holding[w]] + 1]
        BY <2>1, <2>3 DEF WorkerInvoke, TypeOK
      <3>2. invocations' \in [Item -> Nat]
        BY <2>1, <2>2, <3>1 DEF TypeOK
      <3> QED
        BY <2>3, <3>2 DEF WorkerInvoke, TypeOK, queueVars, stopVars
    <2>4. CASE WorkerReturn(w)
      <3>1. destructions' = [destructions EXCEPT ![holding[w]] = destructions[holding[w]] + 1]
        BY <2>1, <2>4 DEF WorkerReturn, TypeOK
      <3>2. destructions' \in [Item -> Nat]
        BY <2>1, <2>2, <3>1 DEF TypeOK
      <3> QED
        BY <2>4, <3>2 DEF WorkerReturn, TypeOK, queueVars, stopVars
    <2> QED
      BY <1>5, <2>3, <2>4
  <1>6. ASSUME NEW w \in Worker, WorkerWait(w) \/ WorkerExit(w) \/ SpuriousWake(w) PROVE TypeOK'
    BY <1>6 DEF WorkerWait, WorkerExit, SpuriousWake, TypeOK, queueVars, stopVars, history
  <1>7. ASSUME NEW c \in Caller, NEW mode \in {"Drain", "Discard"}, StopEnter(c, mode) PROVE TypeOK'
    BY <1>7 DEF StopEnter, TypeOK, queueVars, history
  <1>8. ASSUME NEW c \in Caller, StopDiscardOne(c) PROVE TypeOK'
    <2>1. readyQueue \in Seq(Item) /\ readyQueue # << >>
      BY <1>8 DEF StopDiscardOne, TypeOK
    <2>2. Head(readyQueue) \in Item /\ Tail(readyQueue) \in Seq(Item)
      BY <2>1, HeadTailProperties
    <2>3. queuedCount' \in 0..Capacity
      BY <1>0, <1>8 DEF StopDiscardOne, CountAfterPop, TypeOK
    <2>4. destructions' \in [Item -> Nat] /\ readyQueue' \in Seq(Item)
      BY <1>8, <2>2 DEF StopDiscardOne, Rest, TypeOK
    <2>5. UNCHANGED <<state, creation, workerPc, holding, stopPc, stopMode, notifications, accepted,
                      invocations>>
      BY <1>8 DEF StopDiscardOne, stopVars
    <2> QED
      BY <2>3, <2>4, <2>5 DEF TypeOK
  <1>9. ASSUME NEW c \in Caller,
               StopNotify(c) \/ StopJoin(c) \/ StopDiscardDone(c) \/ StopFinish(c)
        PROVE  TypeOK'
    BY <1>9 DEF StopNotify, StopJoin, StopDiscardDone, StopFinish, WakeAll, TypeOK, queueVars,
                history
  <1>10. CASE UNCHANGED vars
    BY <1>10 DEF vars, TypeOK
  <1> QED
    BY <1>1, <1>2, <1>3, <1>4, <1>5, <1>6, <1>7, <1>8, <1>9, <1>10 DEF Next, WorkerStep, StopStep
-----------------------------------------------------------------------------
\* ItemAccounting in parts: the queue, the hands of the workers, and each item.
QueueDistinct == \A m, n \in DOMAIN readyQueue : readyQueue[m] = readyQueue[n] => m = n
HeldOnce == \A v, w \in Worker : holding[v] = holding[w] /\ holding[v] # NoItem => v = w
ItemRule(i) == /\ ~(Queued(i) /\ Held(i))
               /\ Queued(i) \/ Held(i) => destructions[i] = 0
               /\ i \in accepted <=> Queued(i) \/ Held(i) \/ destructions[i] = 1
               /\ destructions[i] <= 1
               /\ invocations[i] <= 1
               /\ invocations[i] = 1 => ~Queued(i) /\ i \in accepted
               /\ destructions[i] = 1 => invocations[i] = 1 \/ stopMode = "Discard"
HandRule(w) == /\ workerPc[w] = "invoke" => invocations[holding[w]] = 0
               /\ Busy(w) => holding[w] \in Item
               /\ ~Busy(w) => holding[w] = NoItem
               /\ workerPc[w] = "running" => invocations[holding[w]] = 1

ItemsParts == /\ CountMatchesQueue /\ QueueDistinct /\ HeldOnce
              /\ \A i \in Item : ItemRule(i)
              /\ \A w \in Worker : HandRule(w)

LEMMA ItemsInvParts == ItemsInv <=> ItemsParts
  <1>1. ItemsInv => ItemsParts
    BY DEF ItemsParts, ItemsInv, ItemAccounting, HoldInv, DroppedInv, QueueDistinct, HeldOnce, ItemRule, HandRule
  <1>2. ASSUME ItemsParts PROVE ItemsInv
    <2>1. ItemAccounting
      BY <1>2 DEF ItemsParts, ItemAccounting, QueueDistinct, HeldOnce, ItemRule, HandRule
    <2>2. HoldInv /\ DroppedInv
      BY <1>2 DEF ItemsParts, HoldInv, DroppedInv, ItemRule, HandRule
    <2> QED
      BY <1>2, <2>1, <2>2 DEF ItemsParts, ItemsInv
  <1> QED
    BY <1>1, <1>2

\* The first item leaves the ring, and the count with it.
LEMMA FirstLeaves ==
  ASSUME TypeOK, CountMatchesQueue, QueueDistinct, readyQueue # << >>,
         readyQueue' = Tail(readyQueue), queuedCount' = queuedCount - 1
  PROVE  /\ CountMatchesQueue' /\ QueueDistinct'
         /\ Head(readyQueue) \in Item /\ Queued(Head(readyQueue))
         /\ \A i \in Item : Queued(i)' <=> Queued(i) /\ i # Head(readyQueue)
  <1>1. readyQueue \in Seq(Item)
    BY DEF TypeOK
  <1>2. \A m, n \in DOMAIN readyQueue : readyQueue[m] = readyQueue[n] => m = n
    BY DEF QueueDistinct
  <1>3. /\ Head(readyQueue) \in Item /\ Len(Tail(readyQueue)) = Len(readyQueue) - 1
        /\ \A m, n \in DOMAIN Tail(readyQueue) : Tail(readyQueue)[m] = Tail(readyQueue)[n] => m = n
        /\ \E n \in DOMAIN readyQueue : readyQueue[n] = Head(readyQueue)
        /\ \A x : (\E n \in DOMAIN Tail(readyQueue) : Tail(readyQueue)[n] = x)
                    <=> (\E n \in DOMAIN readyQueue : readyQueue[n] = x) /\ x # Head(readyQueue)
    BY <1>1, <1>2, TailOfDistinct, Zenon
  <1>4. CountMatchesQueue'
    BY <1>3 DEF CountMatchesQueue
  <1>5. QueueDistinct'
    BY <1>3, Zenon DEF QueueDistinct
  <1>6. Queued(Head(readyQueue))
    BY <1>3, Zenon DEF Queued
  <1>7. \A i \in Item : Queued(i)' <=> Queued(i) /\ i # Head(readyQueue)
    BY <1>3, Zenon DEF Queued
  <1> QED
    BY <1>3, <1>4, <1>5, <1>6, <1>7

\* A step that leaves the ring, the hands and the records of the items alone.
LEMMA ItemsQuiet ==
  ASSUME ItemsInv, UNCHANGED <<queueVars, holding, history>>,
         \A w \in Worker : workerPc'[w] = workerPc[w] \/ (~Busy(w) /\ ~Busy(w)'),
         stopMode' = stopMode \/ stopMode = "none"
  PROVE  ItemsInv'
  <1>1. CountMatchesQueue' /\ QueueDistinct' /\ HeldOnce'
    BY ItemsInvParts DEF ItemsParts, CountMatchesQueue, QueueDistinct, HeldOnce, queueVars
  <1>2. ASSUME NEW i \in Item PROVE ItemRule(i)'
    <2>1. ItemRule(i)
      BY ItemsInvParts DEF ItemsParts
    <2> QED
      BY <2>1 DEF ItemRule, Queued, Held, queueVars, history
  <1>3. ASSUME NEW w \in Worker PROVE HandRule(w)'
    <2>1. HandRule(w)
      BY ItemsInvParts DEF ItemsParts
    <2> QED
      BY <2>1 DEF HandRule, Busy, history
  <1> QED
    <2>1. ItemsParts'
      BY <1>1, <1>2, <1>3 DEF ItemsParts
    <2> QED
      BY <2>1, ItemsInvParts, PTL

LEMMA ScheduleItems ==
  ASSUME TypeOK, ItemsInv, NEW c \in Caller, NEW i \in Item, TrySchedule(c, i)
  PROVE  /\ ItemsInv' /\ ~Queued(i) /\ ~Held(i)
         /\ \A k \in Item : Queued(k)' <=> Queued(k) \/ k = i
         /\ \A k \in Item : Held(k)' <=> Held(k)
  <1>1. /\ readyQueue' = Append(readyQueue, i) /\ queuedCount' = queuedCount + 1
        /\ accepted' = accepted \union {i} /\ i \notin accepted
        /\ holding' = holding /\ workerPc' = workerPc /\ stopMode' = stopMode
        /\ invocations' = invocations /\ destructions' = destructions
    BY DEF TrySchedule, stopVars
  <1>2. /\ CountMatchesQueue /\ QueueDistinct /\ HeldOnce
        /\ \A k \in Item : ItemRule(k)
        /\ \A w \in Worker : HandRule(w)
    BY ItemsInvParts DEF ItemsParts
  <1>3. ~Queued(i) /\ ~Held(i) /\ destructions[i] # 1 /\ invocations[i] # 1
    BY <1>1, <1>2 DEF ItemRule
  <1>4. destructions[i] = 0 /\ invocations[i] = 0
    BY <1>2, <1>3 DEF TypeOK, ItemRule
  <1>5. readyQueue \in Seq(Item) /\ \A n \in DOMAIN readyQueue : readyQueue[n] # i
    BY <1>3 DEF Queued, TypeOK
  <1>6. \A m, n \in DOMAIN readyQueue : readyQueue[m] = readyQueue[n] => m = n
    BY <1>2 DEF QueueDistinct
  <1>7. /\ \A m, n \in DOMAIN Append(readyQueue, i) :
             Append(readyQueue, i)[m] = Append(readyQueue, i)[n] => m = n
        /\ \A x : (\E n \in DOMAIN Append(readyQueue, i) : Append(readyQueue, i)[n] = x)
                    <=> (\E n \in DOMAIN readyQueue : readyQueue[n] = x) \/ x = i
    BY <1>5, <1>6, AppendToDistinct, Zenon
  <1>8. QueueDistinct'
    BY <1>1, <1>7, Zenon DEF QueueDistinct
  <1>9. \A k \in Item : Queued(k)' <=> Queued(k) \/ k = i
    BY <1>1, <1>7, Zenon DEF Queued
  <1>10. CountMatchesQueue'
    <2>1. Len(Append(readyQueue, i)) = Len(readyQueue) + 1
      BY <1>5
    <2> QED
      BY <1>1, <1>2, <2>1 DEF CountMatchesQueue
  <1>11. HeldOnce' /\ \A k \in Item : Held(k)' <=> Held(k)
    BY <1>1, <1>2 DEF HeldOnce, Held
  <1>12. ASSUME NEW k \in Item PROVE ItemRule(k)'
    <2>1. ItemRule(k) /\ (Queued(k)' <=> Queued(k) \/ k = i) /\ (Held(k)' <=> Held(k))
      BY <1>2, <1>9, <1>11
    <2> QED
      BY <1>1, <1>3, <1>4, <2>1 DEF ItemRule
  <1>13. ASSUME NEW w \in Worker PROVE HandRule(w)'
    BY <1>1, <1>2 DEF HandRule, Busy
  <1> QED
    <2>1. ItemsParts'
      BY <1>8, <1>10, <1>11, <1>12, <1>13 DEF ItemsParts
    <2>2. ItemsInv'
      BY <2>1, ItemsInvParts, PTL
    <2> QED
      BY <2>2, <1>3, <1>9, <1>11

\* What becomes of an item when a worker takes it, returns it, or Stop drops it.
ItemTaken(i) == /\ Queued(i)
                /\ \A k \in Item : Queued(k)' <=> Queued(k) /\ k # i
                /\ \A k \in Item : Held(k)' <=> Held(k) \/ k = i
ItemReturned(i) == /\ Held(i) /\ ~Queued(i)
                   /\ \A k \in Item : Queued(k)' <=> Queued(k)
                   /\ \A k \in Item : Held(k)' <=> Held(k) /\ k # i
ItemDropped(i) == /\ Queued(i) /\ ~Held(i)
                  /\ \A k \in Item : Queued(k)' <=> Queued(k) /\ k # i
                  /\ \A k \in Item : Held(k)' <=> Held(k)

LEMMA TakeItems ==
  ASSUME TypeOK, ItemsInv, NEW w \in Worker, WorkerTake(w)
  PROVE  ItemsInv' /\ \E i \in Item : ItemTaken(i)
  <1>1. /\ readyQueue # << >> /\ workerPc[w] = "check"
        /\ readyQueue' = Tail(readyQueue) /\ queuedCount' = queuedCount - 1
        /\ stopMode' = stopMode /\ accepted' = accepted
        /\ invocations' = invocations /\ destructions' = destructions
        /\ holding' = [holding EXCEPT ![w] = Head(readyQueue)]
        /\ workerPc' = [workerPc EXCEPT ![w] = "invoke"]
    BY DEF WorkerTake, Rest, CountAfterPop, stopVars, history
  <1>2. /\ CountMatchesQueue /\ QueueDistinct /\ HeldOnce
        /\ \A k \in Item : ItemRule(k)
        /\ \A v \in Worker : HandRule(v)
    BY ItemsInvParts DEF ItemsParts
  <1>3. PICK i : i = Head(readyQueue)
    OBVIOUS
  <1>4. /\ CountMatchesQueue' /\ QueueDistinct' /\ i \in Item /\ Queued(i)
        /\ \A k \in Item : Queued(k)' <=> Queued(k) /\ k # i
    BY <1>1, <1>2, <1>3, FirstLeaves
  <1>5. /\ holding'[w] = i /\ workerPc'[w] = "invoke" /\ holding[w] = NoItem
        /\ \A v \in Worker \ {w} : holding'[v] = holding[v] /\ workerPc'[v] = workerPc[v]
    BY <1>1, <1>2, <1>3 DEF TypeOK, HandRule, Busy
  <1>6. /\ i # NoItem /\ ~Held(i) /\ destructions[i] = 0 /\ i \in accepted /\ invocations[i] # 1
    BY <1>2, <1>4, PoolAssumption DEF ItemRule
  <1>7. invocations[i] = 0
    BY <1>2, <1>4, <1>6 DEF TypeOK, ItemRule
  <1>8. \A k \in Item : Held(k)' <=> Held(k) \/ k = i
    <2>1. NoItem \notin Item
      BY PoolAssumption
    <2> QED
      BY <1>5, <2>1 DEF Held
  <1>9. HeldOnce'
    BY <1>2, <1>5, <1>6 DEF HeldOnce, Held
  <1>10. ASSUME NEW k \in Item PROVE ItemRule(k)'
    <2>1. /\ ItemRule(k) /\ (Queued(k)' <=> Queued(k) /\ k # i) /\ (Held(k)' <=> Held(k) \/ k = i)
      BY <1>2, <1>4, <1>8
    <2> QED
      BY <1>1, <1>4, <1>6, <1>7, <2>1 DEF ItemRule
  <1>11. ASSUME NEW v \in Worker PROVE HandRule(v)'
    BY <1>1, <1>2, <1>4, <1>5, <1>7 DEF HandRule, Busy
  <1> QED
    <2>1. ItemsParts'
      BY <1>4, <1>9, <1>10, <1>11 DEF ItemsParts
    <2>2. ItemsInv'
      BY <2>1, ItemsInvParts, PTL
    <2> QED
      BY <2>2, <1>4, <1>8 DEF ItemTaken

LEMMA InvokeItems ==
  ASSUME TypeOK, ItemsInv, NEW w \in Worker, WorkerInvoke(w)
  PROVE  ItemsInv'
  <1>1. /\ workerPc[w] = "invoke" /\ readyQueue' = readyQueue /\ queuedCount' = queuedCount
        /\ stopMode' = stopMode /\ accepted' = accepted /\ destructions' = destructions
        /\ holding' = holding /\ workerPc' = [workerPc EXCEPT ![w] = "running"]
        /\ invocations' = [invocations EXCEPT ![holding[w]] = @ + 1]
    BY DEF WorkerInvoke, queueVars, stopVars
  <1>2. /\ CountMatchesQueue /\ QueueDistinct /\ HeldOnce
        /\ \A k \in Item : ItemRule(k)
        /\ \A v \in Worker : HandRule(v)
    BY ItemsInvParts DEF ItemsParts
  <1>3. PICK i : i = holding[w]
    OBVIOUS
  <1>4. i \in Item /\ invocations[i] = 0 /\ Held(i)
    BY <1>1, <1>2, <1>3 DEF HandRule, Busy, Held
  <1>5. i \in accepted /\ ~Queued(i) /\ destructions[i] = 0
    BY <1>2, <1>4 DEF ItemRule
  <1>6. invocations'[i] = 1 /\ \A k \in Item \ {i} : invocations'[k] = invocations[k]
    BY <1>1, <1>3, <1>4 DEF TypeOK
  <1>7. workerPc'[w] = "running" /\ \A v \in Worker \ {w} : workerPc'[v] = workerPc[v]
    BY <1>1 DEF TypeOK
  <1>8. CountMatchesQueue' /\ QueueDistinct' /\ HeldOnce'
    BY <1>1, <1>2 DEF CountMatchesQueue, QueueDistinct, HeldOnce
  <1>9. ASSUME NEW k \in Item PROVE ItemRule(k)'
    <2>1. ItemRule(k) /\ (Queued(k)' <=> Queued(k)) /\ (Held(k)' <=> Held(k))
      BY <1>1, <1>2 DEF Queued, Held
    <2> QED
      BY <1>1, <1>4, <1>5, <1>6, <2>1 DEF ItemRule
  <1>10. ASSUME NEW v \in Worker PROVE HandRule(v)'
    <2>1. HandRule(v)
      BY <1>2
    <2>2. CASE v = w
      BY <1>1, <1>3, <1>4, <1>6, <1>7, <2>2 DEF HandRule, Busy
    <2>3. CASE v # w
      <3>1. Busy(v) => holding[v] \in Item \ {i}
        BY <1>2, <1>3, <1>4, <2>1, <2>3, PoolAssumption DEF HandRule, HeldOnce
      <3> QED
        BY <1>1, <1>6, <1>7, <2>1, <2>3, <3>1 DEF HandRule, Busy
    <2> QED
      BY <2>2, <2>3
  <1> QED
    <2>1. ItemsParts'
      BY <1>8, <1>9, <1>10 DEF ItemsParts
    <2> QED
      BY <2>1, ItemsInvParts, PTL

LEMMA ReturnItems ==
  ASSUME TypeOK, ItemsInv, NEW w \in Worker, WorkerReturn(w)
  PROVE  ItemsInv' /\ \E i \in Item : ItemReturned(i)
  <1>1. /\ workerPc[w] = "running" /\ readyQueue' = readyQueue /\ queuedCount' = queuedCount
        /\ stopMode' = stopMode /\ accepted' = accepted /\ invocations' = invocations
        /\ holding' = [holding EXCEPT ![w] = NoItem]
        /\ workerPc' = [workerPc EXCEPT ![w] = "check"]
        /\ destructions' = [destructions EXCEPT ![holding[w]] = @ + 1]
    BY DEF WorkerReturn, queueVars, stopVars
  <1>2. /\ CountMatchesQueue /\ QueueDistinct /\ HeldOnce
        /\ \A k \in Item : ItemRule(k)
        /\ \A v \in Worker : HandRule(v)
    BY ItemsInvParts DEF ItemsParts
  <1>3. PICK i : i = holding[w]
    OBVIOUS
  <1>4. i \in Item /\ invocations[i] = 1 /\ Held(i) /\ i # NoItem
    BY <1>1, <1>2, <1>3, PoolAssumption DEF HandRule, Busy, Held
  <1>5. i \in accepted /\ ~Queued(i) /\ destructions[i] = 0
    BY <1>2, <1>4 DEF ItemRule
  <1>6. destructions'[i] = 1 /\ \A k \in Item \ {i} : destructions'[k] = destructions[k]
    BY <1>1, <1>3, <1>4, <1>5 DEF TypeOK
  <1>7. /\ workerPc'[w] = "check" /\ holding'[w] = NoItem
        /\ \A v \in Worker \ {w} : workerPc'[v] = workerPc[v] /\ holding'[v] = holding[v]
    BY <1>1 DEF TypeOK
  <1>8. CountMatchesQueue' /\ QueueDistinct' /\ HeldOnce'
    BY <1>1, <1>2, <1>7 DEF CountMatchesQueue, QueueDistinct, HeldOnce
  <1>9. \A v \in Worker \ {w} : holding[v] # i
    BY <1>2, <1>3, <1>4 DEF HeldOnce
  <1>10. \A k \in Item : Held(k)' <=> Held(k) /\ k # i
    <2>1. NoItem \notin Item
      BY PoolAssumption
    <2> QED
      BY <1>3, <1>7, <1>9, <2>1 DEF Held
  <1>11. ASSUME NEW k \in Item PROVE ItemRule(k)'
    <2>1. ItemRule(k) /\ (Queued(k)' <=> Queued(k)) /\ (Held(k)' <=> Held(k) /\ k # i)
      BY <1>1, <1>2, <1>10 DEF Queued
    <2> QED
      BY <1>1, <1>4, <1>5, <1>6, <2>1 DEF ItemRule
  <1>12. ASSUME NEW v \in Worker PROVE HandRule(v)'
    BY <1>1, <1>2, <1>7 DEF HandRule, Busy
  <1> QED
    <2>1. ItemsParts'
      BY <1>8, <1>11, <1>12 DEF ItemsParts
    <2>2. ItemsInv'
      BY <2>1, ItemsInvParts, PTL
    <2> QED
      BY <2>2, <1>1, <1>4, <1>5, <1>10 DEF ItemReturned, Queued

LEMMA DiscardItems ==
  ASSUME TypeOK, ItemsInv, StopInv, NEW c \in Caller, StopDiscardOne(c)
  PROVE  ItemsInv' /\ \E i \in Item : ItemDropped(i)
  <1>1. /\ readyQueue # << >> /\ readyQueue' = Tail(readyQueue) /\ queuedCount' = queuedCount - 1
        /\ stopMode' = stopMode /\ stopMode = "Discard" /\ accepted' = accepted
        /\ invocations' = invocations /\ holding' = holding /\ workerPc' = workerPc
        /\ destructions' = [destructions EXCEPT ![Head(readyQueue)] = @ + 1]
    BY DEF StopDiscardOne, StopInv, Rest, CountAfterPop, stopVars
  <1>2. /\ CountMatchesQueue /\ QueueDistinct /\ HeldOnce
        /\ \A k \in Item : ItemRule(k)
        /\ \A v \in Worker : HandRule(v)
    BY ItemsInvParts DEF ItemsParts
  <1>3. PICK i : i = Head(readyQueue)
    OBVIOUS
  <1>4. /\ CountMatchesQueue' /\ QueueDistinct' /\ i \in Item /\ Queued(i)
        /\ \A k \in Item : Queued(k)' <=> Queued(k) /\ k # i
    BY <1>1, <1>2, <1>3, FirstLeaves
  <1>5. i \in accepted /\ ~Held(i) /\ destructions[i] = 0
    BY <1>2, <1>4 DEF ItemRule
  <1>6. destructions'[i] = 1 /\ \A k \in Item \ {i} : destructions'[k] = destructions[k]
    BY <1>1, <1>3, <1>4, <1>5 DEF TypeOK
  <1>7. HeldOnce' /\ \A k \in Item : Held(k)' <=> Held(k)
    BY <1>1, <1>2 DEF HeldOnce, Held
  <1>8. ASSUME NEW k \in Item PROVE ItemRule(k)'
    <2>1. ItemRule(k) /\ (Queued(k)' <=> Queued(k) /\ k # i) /\ (Held(k)' <=> Held(k))
      BY <1>2, <1>4, <1>7
    <2> QED
      BY <1>1, <1>4, <1>5, <1>6, <2>1 DEF ItemRule
  <1>9. ASSUME NEW v \in Worker PROVE HandRule(v)'
    BY <1>1, <1>2 DEF HandRule, Busy
  <1> QED
    <2>1. ItemsParts'
      BY <1>4, <1>7, <1>8, <1>9 DEF ItemsParts
    <2>2. ItemsInv'
      BY <2>1, ItemsInvParts, PTL
    <2> QED
      BY <2>2, <1>4, <1>5, <1>7 DEF ItemDropped

LEMMA ItemsNext == TypeOK /\ ItemsInv /\ StopInv /\ [Next]_vars => ItemsInv'
  <1> SUFFICES ASSUME TypeOK, ItemsInv, StopInv, [Next]_vars PROVE ItemsInv'
    OBVIOUS
  <1>1. CASE CreationStep \/ SpawnFails \/ NotifyOne
    <2>1. /\ UNCHANGED <<queueVars, holding, history>> /\ stopMode' = stopMode
          /\ \A w \in Worker : workerPc'[w] = workerPc[w] \/ (~Busy(w) /\ ~Busy(w)')
      BY <1>1 DEF CreationStep, SpawnFails, SpawnDone, AbortNotify, AbortJoin, Spawn, WakeAll,
                  NotifyOne, TypeOK, Busy, queueVars, stopVars, history
    <2> QED
      BY <2>1, ItemsQuiet
  <1>2. ASSUME NEW w \in Worker, WorkerWait(w) \/ WorkerExit(w) \/ SpuriousWake(w) PROVE ItemsInv'
    <2>1. /\ UNCHANGED <<queueVars, holding, history>> /\ stopMode' = stopMode
          /\ \A v \in Worker : workerPc'[v] = workerPc[v] \/ (~Busy(v) /\ ~Busy(v)')
      BY <1>2 DEF WorkerWait, WorkerExit, SpuriousWake, TypeOK, Busy, queueVars, stopVars, history
    <2> QED
      BY <2>1, ItemsQuiet
  <1>3. ASSUME NEW c \in Caller, NEW mode \in {"Drain", "Discard"}, StopEnter(c, mode)
        PROVE  ItemsInv'
    <2>1. /\ UNCHANGED <<queueVars, holding, history>> /\ stopMode = "none"
          /\ \A v \in Worker : workerPc'[v] = workerPc[v]
      BY <1>3 DEF StopEnter, StopInv, queueVars, history
    <2> QED
      BY <2>1, ItemsQuiet
  <1>4. ASSUME NEW c \in Caller,
               StopNotify(c) \/ StopJoin(c) \/ StopDiscardDone(c) \/ StopFinish(c)
        PROVE  ItemsInv'
    <2>1. /\ UNCHANGED <<queueVars, holding, history>> /\ stopMode' = stopMode
          /\ \A v \in Worker : workerPc'[v] = workerPc[v] \/ (~Busy(v) /\ ~Busy(v)')
      BY <1>4 DEF StopNotify, StopJoin, StopDiscardDone, StopFinish, WakeAll, TypeOK, Busy,
                  queueVars, history
    <2> QED
      BY <2>1, ItemsQuiet
  <1>5. CASE UNCHANGED vars
    <2>1. /\ UNCHANGED <<queueVars, holding, history>> /\ stopMode' = stopMode
          /\ \A v \in Worker : workerPc'[v] = workerPc[v]
      BY <1>5 DEF vars, queueVars, history
    <2> QED
      BY <2>1, ItemsQuiet
  <1> QED
    BY <1>1, <1>2, <1>3, <1>4, <1>5, ScheduleItems, TakeItems, InvokeItems, ReturnItems,
       DiscardItems DEF Next, WorkerStep, StopStep
-----------------------------------------------------------------------------
(***************************************************************************)
(* Creation, Stop and the workers that leave                               *)
(***************************************************************************)
LEMMA NothingAccepted == TypeOK /\ ItemsInv /\ accepted = {} => queuedCount = 0
  <1> SUFFICES ASSUME TypeOK, ItemsInv, accepted = {}, queuedCount # 0 PROVE FALSE
    OBVIOUS
  <1>1. ItemsParts
    BY ItemsInvParts
  <1>2. readyQueue \in Seq(Item) /\ Len(readyQueue) # 0
    BY <1>1 DEF ItemsParts, CountMatchesQueue, TypeOK
  <1>3. 1 \in DOMAIN readyQueue /\ readyQueue[1] \in Item
    BY <1>2
  <1>4. Queued(readyQueue[1])
    BY <1>3 DEF Queued
  <1> QED
    BY <1>1, <1>3, <1>4 DEF ItemsParts, ItemRule

\* Once Start has stopped spawning, workers that are all gone stay gone.
LEMMA JoinedStays ==
  ASSUME TypeOK, [Next]_vars, AllJoined, creation # "spawning"
  PROVE  AllJoined'
  <1>1. \A w \in Worker : workerPc[w] \in {"unborn", "exited"}
    BY DEF AllJoined, Joinable
  <1>2. CASE CreationStep \/ SpawnFails
    <2>1. \A w \in Worker : workerPc'[w] = workerPc[w]
      BY <1>1, <1>2 DEF CreationStep, SpawnFails, SpawnDone, AbortNotify, AbortJoin, Spawn, WakeAll
    <2> QED
      BY <1>1, <2>1 DEF AllJoined, Joinable
  <1>3. CASE NotifyOne
    BY <1>1, <1>3 DEF NotifyOne, AllJoined, Joinable
  <1>4. ASSUME NEW c \in Caller, NEW i \in Item, TrySchedule(c, i) PROVE AllJoined'
    BY <1>1, <1>4 DEF TrySchedule, AllJoined, Joinable
  <1>5. ASSUME NEW w \in Worker, WorkerStep(w) \/ SpuriousWake(w) PROVE AllJoined'
    BY <1>1, <1>5 DEF WorkerStep, WorkerWait, WorkerExit, WorkerTake, WorkerInvoke, WorkerReturn,
                      SpuriousWake
  <1>6. ASSUME NEW c \in Caller, NEW mode \in {"Drain", "Discard"}, StopEnter(c, mode)
        PROVE  AllJoined'
    BY <1>1, <1>6 DEF StopEnter, AllJoined, Joinable
  <1>7. ASSUME NEW c \in Caller, StopStep(c) PROVE AllJoined'
    <2>1. \A w \in Worker : workerPc'[w] = workerPc[w]
      BY <1>1, <1>7 DEF StopStep, StopNotify, StopJoin, StopDiscardOne, StopDiscardDone, StopFinish,
                        WakeAll
    <2> QED
      BY <1>1, <2>1 DEF AllJoined, Joinable
  <1>8. CASE UNCHANGED vars
    BY <1>1, <1>8 DEF vars, AllJoined, Joinable
  <1> QED
    BY <1>2, <1>3, <1>4, <1>5, <1>6, <1>7, <1>8 DEF Next

LEMMA CreationNext == TypeOK /\ CreationInv /\ [Next]_vars => CreationInv'
  <1> SUFFICES ASSUME TypeOK, CreationInv, [Next]_vars PROVE CreationInv'
    OBVIOUS
  <1>0. creation = "failed" => AllJoined'
    BY JoinedStays DEF CreationInv
  <1>1. CASE CreationStep \/ SpawnFails
    <2>1. CASE SpawnDone
      BY <2>1 DEF SpawnDone, CreationInv, stopVars, history
    <2>2. CASE AbortNotify
      BY <2>2 DEF AbortNotify, CreationInv, stopVars, history
    <2>3. CASE AbortJoin
      BY <2>3 DEF AbortJoin, CreationInv, AllJoined, Joinable, stopVars, history
    <2>4. CASE SpawnFails
      BY <2>4 DEF SpawnFails, CreationInv, stopVars, history
    <2>5. ASSUME NEW w \in Worker, Spawn(w) PROVE CreationInv'
      BY <2>5 DEF Spawn, CreationInv, stopVars, history
    <2> QED
      BY <1>1, <2>1, <2>2, <2>3, <2>4, <2>5 DEF CreationStep
  <1>2. CASE NotifyOne
    <2>1. \A w \in Worker : workerPc'[w] = "unborn" => workerPc[w] = "unborn"
      BY <1>2 DEF NotifyOne, TypeOK
    <2> QED
      BY <1>0, <1>2, <2>1 DEF NotifyOne, CreationInv, stopVars, history
  <1>3. ASSUME NEW c \in Caller, NEW i \in Item, TrySchedule(c, i) PROVE CreationInv'
    BY <1>3 DEF TrySchedule, CanCall, CreationInv
  <1>4. ASSUME NEW w \in Worker, WorkerStep(w) \/ SpuriousWake(w) PROVE CreationInv'
    <2>1. /\ \A v \in Worker : workerPc'[v] = "unborn" => workerPc[v] = "unborn"
          /\ UNCHANGED <<state, creation, stopPc, stopMode, accepted>>
      BY <1>4 DEF WorkerStep, WorkerWait, WorkerExit, WorkerTake, WorkerInvoke, WorkerReturn,
                  SpuriousWake, TypeOK, stopVars, history
    <2> QED
      BY <1>0, <2>1 DEF CreationInv
  <1>5. ASSUME NEW c \in Caller, NEW mode \in {"Drain", "Discard"}, StopEnter(c, mode)
        PROVE  CreationInv'
    BY <1>5 DEF StopEnter, CanCall, CreationInv
  <1>6. ASSUME NEW c \in Caller, StopStep(c) PROVE CreationInv'
    <2>1. creation = "created" /\ creation' = "created"
      BY <1>6 DEF StopStep, StopNotify, StopJoin, StopDiscardOne, StopDiscardDone, StopFinish,
                  CreationInv
    <2>2. \A v \in Worker : workerPc'[v] = "unborn" => workerPc[v] = "unborn"
      BY <1>6 DEF StopStep, StopNotify, StopJoin, StopDiscardOne, StopDiscardDone, StopFinish,
                  WakeAll
    <2> QED
      BY <2>1, <2>2 DEF CreationInv
  <1>7. CASE UNCHANGED vars
    BY <1>0, <1>7 DEF vars, CreationInv
  <1> QED
    BY <1>1, <1>2, <1>3, <1>4, <1>5, <1>6, <1>7 DEF Next

\* When a Stop(Drain) has joined every worker nothing is queued.
LEMMA DrainedWhenJoined ==
  ASSUME CreationInv, StopInv, ExitInv, NEW c \in Caller, StopJoin(c), stopMode # "Discard"
  PROVE  queuedCount = 0
  <1>1. creation = "created" /\ stopPc[c] = "join" /\ AllJoined
    BY DEF StopJoin, CreationInv
  <1>2. state = "StoppingDrain"
    BY <1>1 DEF StopInv
  <1>3. PICK w \in Worker : TRUE
    BY PoolAssumption
  <1>4. workerPc[w] = "exited"
    BY <1>1 DEF CreationInv, AllJoined, Joinable
  <1> QED
    BY <1>2, <1>4 DEF ExitInv

LEMMA StopNext ==
  ASSUME TypeOK, ItemsInv, CreationInv, StopInv, ExitInv, [Next]_vars PROVE StopInv'
  <1>0. /\ state = "Stopped" => AllJoined'
        /\ \A c \in Caller : stopPc[c] \in {"discard", "finish"} => AllJoined'
    <2>1. AllJoined /\ creation # "spawning" => AllJoined'
      BY JoinedStays
    <2>2. state = "Stopped" => AllJoined /\ creation # "spawning"
      BY DEF CreationInv, StopInv
    <2>3. \A c \in Caller : stopPc[c] \in {"discard", "finish"} => AllJoined /\ creation # "spawning"
      BY DEF CreationInv, StopInv
    <2> QED
      BY <2>1, <2>2, <2>3
  <1>1. CASE CreationStep \/ SpawnFails
    <2>1. CASE SpawnDone
      BY <1>0, <2>1 DEF SpawnDone, CreationInv, StopInv, stopVars, queueVars
    <2>2. CASE AbortNotify
      BY <1>0, <2>2 DEF AbortNotify, CreationInv, StopInv, stopVars, queueVars
    <2>3. CASE AbortJoin
      <3>1. queuedCount = 0 /\ AllJoined'
        BY <2>3, NothingAccepted, JoinedStays DEF AbortJoin, CreationInv
      <3> QED
        BY <2>3, <3>1 DEF AbortJoin, CreationInv, StopInv, stopVars, queueVars
    <2>4. CASE SpawnFails
      BY <2>4 DEF SpawnFails, CreationInv, StopInv, stopVars, queueVars
    <2>5. ASSUME NEW w \in Worker, Spawn(w) PROVE StopInv'
      BY <1>0, <2>5 DEF Spawn, CreationInv, StopInv, stopVars, queueVars
    <2> QED
      BY <1>1, <2>1, <2>2, <2>3, <2>4, <2>5 DEF CreationStep
  <1>2. CASE NotifyOne
    BY <1>0, <1>2 DEF NotifyOne, StopInv, stopVars, queueVars
  <1>3. ASSUME NEW c \in Caller, NEW i \in Item, TrySchedule(c, i) PROVE StopInv'
    BY <1>3 DEF TrySchedule, AcceptsWork, StopInv, stopVars
  <1>4. ASSUME NEW w \in Worker, WorkerWait(w) \/ WorkerExit(w) \/ WorkerInvoke(w) \/ WorkerReturn(w)
                                 \/ SpuriousWake(w)
        PROVE  StopInv'
    <2>1. UNCHANGED <<state, creation, stopPc, stopMode, queuedCount>>
      BY <1>4 DEF WorkerWait, WorkerExit, WorkerInvoke, WorkerReturn, SpuriousWake, queueVars,
                  stopVars
    <2> QED
      BY <1>0, <2>1 DEF StopInv
  <1>5. ASSUME NEW w \in Worker, WorkerTake(w) PROVE StopInv'
    <2>1. /\ UNCHANGED <<state, creation, stopPc, stopMode>>
          /\ state # "Stopped" /\ ~AllJoined
      BY <1>5 DEF WorkerTake, Leaves, AllJoined, Joinable, stopVars
    <2> QED
      BY <2>1 DEF StopInv
  <1>6. ASSUME NEW c \in Caller, NEW mode \in {"Drain", "Discard"}, StopEnter(c, mode) PROVE StopInv'
    <2>1. /\ creation' = "created" /\ stopMode' = mode
          /\ \A d \in Caller : stopPc[d] = "idle"
          /\ stopPc' = [stopPc EXCEPT ![c] = "notifyAll"]
          /\ mode = "Drain" => state' = "StoppingDrain"
          /\ mode = "Discard" => state' = "StoppingDiscard"
      BY <1>6 DEF StopEnter, CanCall, StopInv
    <2>2. \A d \in Caller : stopPc'[d] = IF d = c THEN "notifyAll" ELSE "idle"
      BY <2>1 DEF TypeOK
    <2> QED
      BY <2>1, <2>2 DEF StopInv
  <1>7. ASSUME NEW c \in Caller, StopNotify(c) PROVE StopInv'
    <2>1. /\ UNCHANGED <<state, creation, stopMode, queuedCount>>
          /\ stopPc[c] = "notifyAll" /\ stopPc'[c] = "join"
          /\ \A d \in Caller \ {c} : stopPc'[d] = stopPc[d]
      BY <1>7 DEF StopNotify, TypeOK, queueVars
    <2> QED
      BY <1>0, <2>1 DEF StopInv
  <1>8. ASSUME NEW c \in Caller, StopJoin(c) PROVE StopInv'
    <2>1. /\ UNCHANGED <<state, creation, stopMode, queuedCount, workerPc>>
          /\ stopPc[c] = "join" /\ AllJoined
          /\ stopPc'[c] = IF stopMode = "Discard" THEN "discard" ELSE "finish"
          /\ \A d \in Caller \ {c} : stopPc'[d] = stopPc[d]
      BY <1>8 DEF StopJoin, TypeOK, queueVars
    <2>2. AllJoined'
      BY <2>1 DEF AllJoined, Joinable
    <2>3. stopMode # "Discard" => queuedCount = 0
      BY <1>8, DrainedWhenJoined
    <2>4. /\ stopPc'[c] \in {"discard", "finish"}
          /\ stopPc'[c] = "discard" => stopMode = "Discard"
          /\ stopPc'[c] = "finish" => queuedCount = 0
      BY <2>1, <2>3
    <2> QED
      BY <2>1, <2>2, <2>4 DEF StopInv
  <1>9. ASSUME NEW c \in Caller, StopDiscardOne(c) PROVE StopInv'
    <2>1. /\ UNCHANGED <<state, creation, stopPc, stopMode>>
          /\ stopPc[c] = "discard" /\ state # "Stopped"
      BY <1>9 DEF StopDiscardOne, StopInv, stopVars
    <2>2. \A d \in Caller : stopPc[d] # "finish"
      BY <2>1 DEF StopInv
    <2> QED
      BY <1>0, <2>1, <2>2 DEF StopInv
  <1>10. ASSUME NEW c \in Caller, StopDiscardDone(c) PROVE StopInv'
    <2>1. /\ UNCHANGED <<state, creation, stopMode, queuedCount>>
          /\ stopPc[c] = "discard" /\ stopPc'[c] = "finish" /\ queuedCount = 0
          /\ \A d \in Caller \ {c} : stopPc'[d] = stopPc[d]
      BY <1>10 DEF StopDiscardDone, TypeOK, queueVars
    <2> QED
      BY <1>0, <2>1 DEF StopInv
  <1>11. ASSUME NEW c \in Caller, StopFinish(c) PROVE StopInv'
    <2>1. /\ UNCHANGED <<creation, stopMode, queuedCount>> /\ state' = "Stopped"
          /\ stopPc[c] = "finish" /\ stopPc'[c] = "idle" /\ queuedCount = 0
          /\ \A d \in Caller \ {c} : stopPc'[d] = stopPc[d]
      BY <1>11 DEF StopFinish, StopInv, TypeOK, queueVars
    <2>2. \A d \in Caller : stopPc'[d] = "idle"
      BY <2>1 DEF StopInv
    <2> QED
      BY <1>0, <2>1, <2>2 DEF StopInv
  <1>12. CASE UNCHANGED vars
    BY <1>0, <1>12 DEF vars, StopInv
  <1> QED
    BY <1>1, <1>2, <1>3, <1>4, <1>5, <1>6, <1>7, <1>8, <1>9, <1>10, <1>11, <1>12
       DEF Next, WorkerStep, StopStep

LEMMA ExitNext ==
  ASSUME TypeOK, CreationInv, StopInv, ExitInv, [Next]_vars PROVE ExitInv'
  <1>1. CASE CreationStep \/ SpawnFails
    <2>1. \A w \in Worker : workerPc'[w] = "exited" => workerPc[w] = "exited"
      BY <1>1 DEF CreationStep, SpawnFails, SpawnDone, AbortNotify, AbortJoin, Spawn, WakeAll, TypeOK
    <2>2. /\ queuedCount' = queuedCount
          /\ state' = state \/ state' \in {"StoppingDiscard", "Stopped"}
      BY <1>1 DEF CreationStep, SpawnFails, SpawnDone, AbortNotify, AbortJoin, Spawn, queueVars
    <2> QED
      BY <2>1, <2>2 DEF ExitInv
  <1>2. CASE NotifyOne
    <2>1. \A w \in Worker : workerPc'[w] = "exited" => workerPc[w] = "exited"
      BY <1>2 DEF NotifyOne, TypeOK
    <2> QED
      BY <1>2, <2>1 DEF NotifyOne, ExitInv, queueVars
  <1>3. ASSUME NEW c \in Caller, NEW i \in Item, TrySchedule(c, i) PROVE ExitInv'
    BY <1>3 DEF TrySchedule, AcceptsWork, ExitInv
  <1>4. ASSUME NEW w \in Worker, WorkerExit(w) PROVE ExitInv'
    <2>1. /\ state' = state /\ queuedCount' = queuedCount
          /\ \A v \in Worker \ {w} : workerPc'[v] = workerPc[v]
          /\ state # "Running" /\ (state = "StoppingDrain" => queuedCount = 0)
      BY <1>4 DEF WorkerExit, MayProceed, Leaves, TypeOK, queueVars
    <2> QED
      BY <2>1 DEF ExitInv
  <1>5. ASSUME NEW w \in Worker, WorkerTake(w) PROVE ExitInv'
    <2>1. /\ state' = state /\ queuedCount # 0
          /\ \A v \in Worker : workerPc'[v] = "exited" => workerPc[v] = "exited"
      BY <1>5 DEF WorkerTake, Leaves, TypeOK
    <2> QED
      BY <2>1 DEF ExitInv
  <1>6. ASSUME NEW w \in Worker, WorkerWait(w) \/ WorkerInvoke(w) \/ WorkerReturn(w) \/ SpuriousWake(w)
        PROVE  ExitInv'
    <2>1. /\ state' = state /\ queuedCount' = queuedCount
          /\ \A v \in Worker : workerPc'[v] = "exited" => workerPc[v] = "exited"
      BY <1>6 DEF WorkerWait, WorkerInvoke, WorkerReturn, SpuriousWake, TypeOK, queueVars
    <2> QED
      BY <2>1 DEF ExitInv
  <1>7. ASSUME NEW c \in Caller, NEW mode \in {"Drain", "Discard"}, StopEnter(c, mode) PROVE ExitInv'
    BY <1>7 DEF StopEnter, ExitInv
  <1>8. ASSUME NEW c \in Caller, StopNotify(c) PROVE ExitInv'
    <2>1. /\ state' = state /\ queuedCount' = queuedCount
          /\ \A v \in Worker : workerPc'[v] = "exited" => workerPc[v] = "exited"
      BY <1>8 DEF StopNotify, WakeAll, queueVars
    <2> QED
      BY <2>1 DEF ExitInv
  <1>9. ASSUME NEW c \in Caller, StopJoin(c) \/ StopDiscardDone(c) \/ StopFinish(c) PROVE ExitInv'
    <2>1. /\ state' = state \/ state' = "Stopped"
          /\ queuedCount' = queuedCount /\ workerPc' = workerPc
      BY <1>9 DEF StopJoin, StopDiscardDone, StopFinish, queueVars
    <2> QED
      BY <2>1 DEF ExitInv
  <1>10. ASSUME NEW c \in Caller, StopDiscardOne(c) PROVE ExitInv'
    BY <1>10 DEF StopDiscardOne, ExitInv
  <1>11. CASE UNCHANGED vars
    BY <1>11 DEF vars, ExitInv
  <1> QED
    BY <1>1, <1>2, <1>3, <1>4, <1>5, <1>6, <1>7, <1>8, <1>9, <1>10, <1>11
       DEF Next, WorkerStep, StopStep
-----------------------------------------------------------------------------
(***************************************************************************)
(* The invariant of the specification                                      *)
(***************************************************************************)
LEMMA InitInv == Init => Inv
  <1> SUFFICES ASSUME Init PROVE Inv
    OBVIOUS
  <1>1. /\ << >> \in Seq(Item) /\ Len(<< >>) = 0 /\ 0 \in 0..Capacity
        /\ DOMAIN << >> = {}
    BY PoolAssumption
  <1>2. TypeOK
    BY <1>1 DEF Init, TypeOK
  <1>3. CountMatchesQueue
    BY <1>1 DEF Init, CountMatchesQueue
  <1>4. (\A i \in Item : ~Queued(i) /\ ~Held(i))
    BY <1>1, PoolAssumption DEF Init, Queued, Held
  <1>5. ItemAccounting
    BY <1>1, <1>4 DEF Init, ItemAccounting
  <1>6. HoldInv /\ DroppedInv /\ CreationInv /\ StopInv /\ ExitInv
    BY DEF Init, HoldInv, DroppedInv, CreationInv, StopInv, ExitInv, Busy
  <1> QED
    BY <1>2, <1>3, <1>5, <1>6 DEF Inv

LEMMA NextInv == Inv /\ [Next]_vars => Inv'
  <1> SUFFICES ASSUME Inv, [Next]_vars PROVE Inv'
    OBVIOUS
  <1>1. TypeOK /\ ItemsInv /\ CreationInv /\ StopInv /\ ExitInv
    BY DEF Inv, ItemsInv
  <1>2. TypeOK' /\ ItemsInv' /\ CreationInv' /\ StopInv' /\ ExitInv'
    BY <1>1, TypeNext, ItemsNext, CreationNext, StopNext, ExitNext
  <1> QED
    BY <1>2 DEF Inv, ItemsInv

\* The inductive invariant holds in every reachable state of the pool, whatever its clients,
\* its number of workers and its capacity.
THEOREM SpecInv == Spec => []Inv
  <1>1. Init => Inv
    BY InitInv
  <1>2. Inv /\ [Next]_vars => Inv'
    BY NextInv
  <1> QED
    BY <1>1, <1>2, PTL DEF Spec

LEMMA StoppedIsDone == Inv => StoppedMeansDone
  <1> SUFFICES ASSUME Inv PROVE StoppedMeansDone
    OBVIOUS
  <1>1. TypeOK /\ ItemsParts /\ CreationInv /\ StopInv
    BY ItemsInvParts DEF Inv, ItemsInv
  <1>2. ASSUME state = "Stopped", NEW i \in accepted
        PROVE  destructions[i] = 1 /\ (stopMode = "Drain" => invocations[i] = 1)
    <2>1. i \in Item /\ AllJoined /\ queuedCount = 0
      BY <1>1, <1>2 DEF TypeOK, StopInv
    <2>2. Len(readyQueue) = 0 /\ readyQueue \in Seq(Item)
      BY <1>1, <2>1 DEF ItemsParts, CountMatchesQueue, TypeOK
    <2>3. ~Queued(i)
      BY <2>2 DEF Queued
    <2>4. \A w \in Worker : holding[w] = NoItem
      BY <1>1, <2>1 DEF AllJoined, Joinable, ItemsParts, HandRule, Busy
    <2>5. ~Held(i)
      BY <2>1, <2>4, PoolAssumption DEF Held
    <2> QED
      BY <1>1, <1>2, <2>1, <2>3, <2>5 DEF ItemsParts, ItemRule
  <1>3. state = "Stopped" => AllJoined
    BY <1>1 DEF StopInv
  <1>4. creation = "failed" => state = "Stopped" /\ AllJoined /\ accepted = {}
    BY <1>1 DEF CreationInv
  <1> QED
    BY <1>2, <1>3, <1>4 DEF StoppedMeansDone

\* The ring and its count agree, every accepted item is in exactly one place and is invoked and
\* destroyed at most once, and a stopped pool has no worker and no item left; after Stop(Drain)
\* each item has been invoked.
THEOREM PoolKeepsItsBooks == Spec => []PoolConsistent
  <1>1. Inv => PoolConsistent
    BY StoppedIsDone DEF Inv, PoolConsistent
  <1> QED
    BY <1>1, SpecInv, PTL
-----------------------------------------------------------------------------
(***************************************************************************)
(* No item waits beside a sleeping worker                                  *)
(***************************************************************************)
Checking == {w \in Worker : workerPc[w] = "check"}
Waiting == {w \in Worker : workerPc[w] = "waiting"}

LEMMA CountingWorkers ==
  ASSUME NEW A \in SUBSET Worker
  PROVE  /\ IsFiniteSet(A) /\ Cardinality(A) \in Nat
         /\ \A w \in Worker \ A : Cardinality(A \union {w}) = Cardinality(A) + 1
         /\ \A w \in A : Cardinality(A \ {w}) = Cardinality(A) - 1
  <1>1. IsFiniteSet(A)
    BY PoolAssumption, FS_Subset
  <1> QED
    BY <1>1, FS_CardinalityType, FS_AddElement, FS_RemoveElement

\* WorkConserving in the terms of the proof; Len(readyQueue) is queuedCount.
Conserved == state \in {"Running", "StoppingDrain"} /\ Waiting # {}
               => queuedCount <= notifications + Cardinality(Checking)

LEMMA ConservedNext ==
  ASSUME TypeOK, CreationInv, StopInv, Conserved, [Next]_vars
  PROVE  Conserved'
  <1>0. /\ queuedCount \in Nat /\ notifications \in Nat /\ Cardinality(Checking) \in Nat
        /\ \A w \in Worker \ Checking :
             Cardinality(Checking \union {w}) = Cardinality(Checking) + 1
        /\ \A w \in Checking : Cardinality(Checking \ {w}) = Cardinality(Checking) - 1
    <2>1. Checking \in SUBSET Worker
      BY DEF Checking
    <2> QED
      BY <2>1, CountingWorkers, PoolAssumption DEF TypeOK
  <1>1. Cardinality(Checking') \in Nat
    <2>1. Checking' \in SUBSET Worker
      BY DEF Checking
    <2> QED
      BY <2>1, CountingWorkers
  \* A worker sets out to look at the queue.
  <1>2. ASSUME NEW w \in Worker, workerPc[w] # "check", workerPc' = [workerPc EXCEPT ![w] = "check"],
               state' = state, queuedCount' = queuedCount,
               \/ notifications' = notifications
               \/ notifications' = notifications - 1 /\ notifications > 0
        PROVE  Conserved'
    <2>1. Checking' = Checking \union {w} /\ Waiting' \subseteq Waiting
      BY <1>2 DEF Checking, Waiting, TypeOK
    <2>2. Cardinality(Checking') = Cardinality(Checking) + 1
      BY <1>0, <1>2, <2>1 DEF Checking
    <2> QED
      BY <1>0, <1>2, <2>1, <2>2 DEF Conserved
  \* Nothing the claim depends on changes.
  <1>3. ASSUME Checking' = Checking, Waiting' = Waiting, queuedCount' = queuedCount,
               notifications' = notifications, state' \in {"Running", "StoppingDrain"} => state' = state
                                                             \/ state = "Running"
        PROVE  Conserved'
    BY <1>3 DEF Conserved
  <1>4. ASSUME Waiting' = {} PROVE Conserved'
    BY <1>4 DEF Conserved
  <1>5. ASSUME state' \notin {"Running", "StoppingDrain"} PROVE Conserved'
    BY <1>5 DEF Conserved
  <1>6. ASSUME queuedCount' = 0, notifications' \in Nat PROVE Conserved'
    BY <1>1, <1>6 DEF Conserved
  <1>7. CASE CreationStep \/ SpawnFails
    <2>1. CASE SpawnDone
      BY <1>3, <2>1 DEF SpawnDone, Checking, Waiting, queueVars
    <2>2. CASE AbortNotify
      BY <1>5, <2>2 DEF AbortNotify, CreationInv
    <2>3. CASE AbortJoin
      BY <1>5, <2>3 DEF AbortJoin
    <2>4. CASE SpawnFails
      BY <1>5, <2>4 DEF SpawnFails
    <2>5. ASSUME NEW w \in Worker, Spawn(w) PROVE Conserved'
      BY <1>2, <2>5 DEF Spawn, queueVars
    <2> QED
      BY <1>7, <2>1, <2>2, <2>3, <2>4, <2>5 DEF CreationStep
  <1>8. CASE NotifyOne
    <2>1. CASE \E w \in Worker : workerPc[w] = "waiting"
      <3>1. PICK w \in Worker : /\ workerPc[w] = "waiting"
                                /\ workerPc' = [workerPc EXCEPT ![w] = "check"]
        BY <1>8, <2>1 DEF NotifyOne
      <3> QED
        BY <1>2, <1>8, <3>1 DEF NotifyOne, queueVars
    <2>2. CASE ~ \E w \in Worker : workerPc[w] = "waiting"
      <3>1. Waiting' = {}
        BY <1>8, <2>2 DEF NotifyOne, Waiting
      <3> QED
        BY <1>4, <3>1
    <2> QED
      BY <2>1, <2>2
  <1>9. ASSUME NEW c \in Caller, NEW i \in Item, TrySchedule(c, i) PROVE Conserved'
    <2>1. /\ Checking' = Checking /\ Waiting' = Waiting /\ state' = state
          /\ queuedCount' = queuedCount + 1 /\ notifications' = notifications + 1
      BY <1>9 DEF TrySchedule, Announced, Checking, Waiting
    <2> QED
      BY <1>0, <2>1 DEF Conserved
  <1>10. ASSUME NEW w \in Worker, WorkerWait(w) PROVE Conserved'
    <2>1. queuedCount' = 0 /\ notifications' \in Nat
      BY <1>10 DEF WorkerWait, MayProceed, TypeOK, queueVars
    <2> QED
      BY <1>6, <2>1
  <1>11. ASSUME NEW w \in Worker, SpuriousWake(w) PROVE Conserved'
    BY <1>2, <1>11 DEF SpuriousWake, queueVars
  <1>12. ASSUME NEW w \in Worker, WorkerExit(w) PROVE Conserved'
    <2>1. \/ state' \notin {"Running", "StoppingDrain"}
          \/ queuedCount' = 0 /\ notifications' \in Nat
      BY <1>12 DEF WorkerExit, Leaves, TypeOK, queueVars
    <2> QED
      BY <1>5, <1>6, <2>1
  <1>13. ASSUME NEW w \in Worker, WorkerTake(w) PROVE Conserved'
    <2>1. /\ w \in Checking /\ state' = state /\ queuedCount' = queuedCount - 1
          /\ notifications' = notifications /\ workerPc' = [workerPc EXCEPT ![w] = "invoke"]
      BY <1>13 DEF WorkerTake, CountAfterPop, Checking
    <2>2. Checking' = Checking \ {w} /\ Waiting' = Waiting
      BY <2>1 DEF Checking, Waiting, TypeOK
    <2>3. Cardinality(Checking') = Cardinality(Checking) - 1
      BY <1>0, <2>1, <2>2
    <2> QED
      BY <1>0, <2>1, <2>2, <2>3 DEF Conserved
  <1>14. ASSUME NEW w \in Worker, WorkerInvoke(w) PROVE Conserved'
    <2>1. Checking' = Checking /\ Waiting' = Waiting
      BY <1>14 DEF WorkerInvoke, Checking, Waiting, TypeOK
    <2> QED
      BY <1>3, <1>14, <2>1 DEF WorkerInvoke, queueVars
  <1>15. ASSUME NEW w \in Worker, WorkerReturn(w) PROVE Conserved'
    BY <1>2, <1>15 DEF WorkerReturn, queueVars
  <1>16. ASSUME NEW c \in Caller, NEW mode \in {"Drain", "Discard"}, StopEnter(c, mode)
         PROVE  Conserved'
    <2>1. Checking' = Checking /\ Waiting' = Waiting
      BY <1>16 DEF StopEnter, Checking, Waiting
    <2> QED
      BY <1>3, <1>16, <2>1 DEF StopEnter, queueVars
  <1>17. ASSUME NEW c \in Caller, StopNotify(c) PROVE Conserved'
    <2>1. Waiting' = {}
      BY <1>17 DEF StopNotify, WakeAll, Waiting
    <2> QED
      BY <1>4, <2>1
  <1>18. ASSUME NEW c \in Caller, StopJoin(c) \/ StopDiscardDone(c) PROVE Conserved'
    <2>1. Checking' = Checking /\ Waiting' = Waiting
      BY <1>18 DEF StopJoin, StopDiscardDone, Checking, Waiting
    <2> QED
      BY <1>3, <1>18, <2>1 DEF StopJoin, StopDiscardDone, queueVars
  <1>19. ASSUME NEW c \in Caller, StopDiscardOne(c) PROVE Conserved'
    <2>1. state' \notin {"Running", "StoppingDrain"}
      BY <1>19 DEF StopDiscardOne, StopInv
    <2> QED
      BY <1>5, <2>1
  <1>20. ASSUME NEW c \in Caller, StopFinish(c) PROVE Conserved'
    BY <1>5, <1>20 DEF StopFinish
  <1>21. CASE UNCHANGED vars
    <2>1. Checking' = Checking /\ Waiting' = Waiting
      BY <1>21 DEF vars, Checking, Waiting
    <2> QED
      BY <1>3, <1>21, <2>1 DEF vars
  <1> QED
    BY <1>7, <1>8, <1>9, <1>10, <1>11, <1>12, <1>13, <1>14, <1>15, <1>16, <1>17, <1>18, <1>19,
       <1>20, <1>21 DEF Next, WorkerStep, StopStep

\* While a worker sleeps in a running or draining pool, each queued item has a notification on
\* its way or a worker about to look: no wakeup is lost.
THEOREM NoLostWakeup == Spec => []WorkConserving
  <1>1. Init => Conserved
    BY DEF Init, Conserved, Waiting
  <1>2. Inv /\ Conserved /\ [Next]_vars => Conserved'
    BY ConservedNext DEF Inv
  <1>3. Inv /\ Conserved => WorkConserving
    BY DEF Inv, CountMatchesQueue, Conserved, WorkConserving, Checking, Waiting
  <1> QED
    BY <1>1, <1>2, <1>3, SpecInv, PTL DEF Spec
-----------------------------------------------------------------------------
(***************************************************************************)
(* The pool keeps its promise to its owner                                 *)
(***************************************************************************)
Fate(i) == IF Queued(i) THEN "queued" ELSE IF Held(i) THEN "running" ELSE "out"
fates == [i \in Item |-> Fate(i)]
phaseNow == CASE state = "Running" -> "open"
              [] state = "StoppingDrain" -> "draining"
              [] state = "StoppingDiscard" -> "discarding"
              [] state = "Stopped" -> "closed"

LEMMA PhaseIs == /\ state = "Running" => phaseNow = "open"
                 /\ state = "StoppingDrain" => phaseNow = "draining"
                 /\ state = "StoppingDiscard" => phaseNow = "discarding"
                 /\ state = "Stopped" => phaseNow = "closed"
  BY DEF phaseNow

LEMMA PhaseIsNext == /\ state' = "Running" => phaseNow' = "open"
                     /\ state' = "StoppingDrain" => phaseNow' = "draining"
                     /\ state' = "StoppingDiscard" => phaseNow' = "discarding"
                     /\ state' = "Stopped" => phaseNow' = "closed"
  BY DEF phaseNow

LEMMA FatesKept ==
  ASSUME readyQueue' = readyQueue, holding' = holding PROVE fates' = fates
  BY DEF fates, Fate, Queued, Held

LEMMA PoolStep ==
  ASSUME Inv, [Next]_vars
  PROVE  [Tasks!Next]_<<fates, phaseNow>>
  <1>t. TypeOK /\ ItemsInv /\ CreationInv /\ StopInv
    BY DEF Inv, ItemsInv
  <1>0. ASSUME state' = state PROVE phaseNow' = phaseNow
    BY <1>0 DEF phaseNow
  <1>1. ASSUME state' = state, readyQueue' = readyQueue, holding' = holding
        PROVE  UNCHANGED <<fates, phaseNow>>
    BY <1>0, <1>1, FatesKept
  \* An item moves while the phase stays what it is.
  <1>2. ASSUME NEW i \in Item, NEW from, NEW to, Fate(i) = from, Fate(i)' = to,
               \A k \in Item \ {i} : Fate(k)' = Fate(k)
        PROVE  fates[i] = from /\ fates' = [fates EXCEPT ![i] = to]
    BY <1>2 DEF fates
  <1>3. ASSUME NEW c \in Caller, NEW i \in Item, TrySchedule(c, i) PROVE Tasks!Next
    <2>1. state = "Running" /\ state' = state
      BY <1>3 DEF TrySchedule, AcceptsWork
    <2>2. Fate(i) = "out" /\ Fate(i)' = "queued" /\ \A k \in Item \ {i} : Fate(k)' = Fate(k)
      BY <1>t, <1>3, ScheduleItems DEF Fate
    <2>3. Tasks!Accept(i)
      BY <1>0, <1>2, <2>1, <2>2, PhaseIs DEF Tasks!Accept, Tasks!Move, fates, Fate, phaseNow
    <2> QED
      BY <2>3 DEF Tasks!Next
  <1>4. ASSUME NEW w \in Worker, WorkerTake(w) PROVE Tasks!Next
    <2>1. state \in {"Running", "StoppingDrain"} /\ state' = state
      BY <1>t, <1>4 DEF WorkerTake, Leaves, TypeOK
    <2>2. PICK i \in Item : ItemTaken(i)
      BY <1>t, <1>4, TakeItems
    <2>3. Fate(i) = "queued" /\ Fate(i)' = "running" /\ \A k \in Item \ {i} : Fate(k)' = Fate(k)
      BY <2>2 DEF ItemTaken, Fate
    <2>4. Tasks!Run(i)
      BY <1>0, <1>2, <2>1, <2>3, PhaseIs DEF Tasks!Run, Tasks!Move, fates, Fate, phaseNow
    <2> QED
      BY <2>4 DEF Tasks!Next
  <1>5. ASSUME NEW w \in Worker, WorkerReturn(w) PROVE Tasks!Next
    <2>1. state' = state
      BY <1>5 DEF WorkerReturn
    <2>2. PICK i \in Item : ItemReturned(i)
      BY <1>t, <1>5, ReturnItems
    <2>3. Fate(i) = "running" /\ Fate(i)' = "out" /\ \A k \in Item \ {i} : Fate(k)' = Fate(k)
      BY <2>2 DEF ItemReturned, Fate
    <2>4. Tasks!Complete(i)
      BY <1>0, <1>2, <2>1, <2>3 DEF Tasks!Complete, Tasks!Move, fates, Fate, phaseNow
    <2> QED
      BY <2>4 DEF Tasks!Next
  <1>6. ASSUME NEW c \in Caller, StopDiscardOne(c) PROVE Tasks!Next
    <2>1. state = "StoppingDiscard" /\ state' = state
      BY <1>t, <1>6 DEF StopDiscardOne, StopInv
    <2>2. PICK i \in Item : ItemDropped(i)
      BY <1>t, <1>6, DiscardItems
    <2>3. Fate(i) = "queued" /\ Fate(i)' = "out" /\ \A k \in Item \ {i} : Fate(k)' = Fate(k)
      BY <2>2 DEF ItemDropped, Fate
    <2>4. Tasks!Drop(i)
      BY <1>0, <1>2, <2>1, <2>3, PhaseIs DEF Tasks!Drop, Tasks!Move, fates, Fate, phaseNow
    <2> QED
      BY <2>4 DEF Tasks!Next
  <1>7. ASSUME state = "Running", state' \in {"StoppingDrain", "StoppingDiscard"},
               readyQueue' = readyQueue, holding' = holding
        PROVE  Tasks!Next
    <2>1. Tasks!Close
      BY <1>7, FatesKept, PhaseIs, PhaseIsNext DEF Tasks!Close, fates, Fate, phaseNow
    <2> QED
      BY <2>1 DEF Tasks!Next
  <1>8. ASSUME state \in {"StoppingDrain", "StoppingDiscard"}, state' = "Stopped",
               readyQueue' = readyQueue, holding' = holding, AllJoined, queuedCount = 0
        PROVE  Tasks!Next
    <2>1. \A i \in Item : Fate(i) = "out"
      <3>1. ItemsParts
        BY <1>t, ItemsInvParts
      <3>2. Len(readyQueue) = 0 /\ readyQueue \in Seq(Item)
        BY <1>t, <1>8, <3>1 DEF ItemsParts, CountMatchesQueue, TypeOK
      <3>3. \A i \in Item : ~Queued(i)
        BY <3>2 DEF Queued
      <3>4. \A w \in Worker : holding[w] = NoItem
        BY <1>8, <3>1 DEF AllJoined, Joinable, ItemsParts, HandRule, Busy
      <3>5. \A i \in Item : ~Held(i)
        BY <3>4, PoolAssumption DEF Held
      <3> QED
        BY <3>3, <3>5 DEF Fate
    <2>2. Tasks!Shut
      BY <1>8, <2>1, FatesKept, PhaseIs, PhaseIsNext DEF Tasks!Shut, fates, Fate, phaseNow
    <2> QED
      BY <2>2 DEF Tasks!Next
  <1>9. CASE CreationStep \/ SpawnFails \/ NotifyOne
    <2>1. CASE SpawnDone \/ AbortNotify \/ NotifyOne \/ \E w \in Worker : Spawn(w)
      BY <1>1, <2>1 DEF SpawnDone, AbortNotify, NotifyOne, Spawn, queueVars
    <2>2. CASE AbortJoin
      <3>1. state = "StoppingDiscard" /\ AllJoined /\ queuedCount = 0
        BY <1>t, <2>2, NothingAccepted DEF AbortJoin, CreationInv
      <3> QED
        BY <1>8, <2>2, <3>1 DEF AbortJoin, queueVars
    <2>3. CASE SpawnFails
      BY <1>t, <1>7, <2>3 DEF SpawnFails, CreationInv, queueVars
    <2> QED
      BY <1>9, <2>1, <2>2, <2>3 DEF CreationStep
  <1>10. ASSUME NEW w \in Worker, WorkerWait(w) \/ WorkerExit(w) \/ WorkerInvoke(w) \/ SpuriousWake(w)
         PROVE  UNCHANGED <<fates, phaseNow>>
    BY <1>1, <1>10 DEF WorkerWait, WorkerExit, WorkerInvoke, SpuriousWake, queueVars
  <1>11. ASSUME NEW c \in Caller, NEW mode \in {"Drain", "Discard"}, StopEnter(c, mode)
         PROVE  Tasks!Next
    BY <1>7, <1>11 DEF StopEnter, queueVars
  <1>12. ASSUME NEW c \in Caller, StopNotify(c) \/ StopJoin(c) \/ StopDiscardDone(c)
         PROVE  UNCHANGED <<fates, phaseNow>>
    BY <1>1, <1>12 DEF StopNotify, StopJoin, StopDiscardDone, queueVars
  <1>13. ASSUME NEW c \in Caller, StopFinish(c) PROVE Tasks!Next
    BY <1>t, <1>8, <1>13 DEF StopFinish, StopInv, queueVars
  <1>14. CASE UNCHANGED vars
    BY <1>1, <1>14 DEF vars
  <1> QED
    BY <1>3, <1>4, <1>5, <1>6, <1>9, <1>10, <1>11, <1>12, <1>13, <1>14
       DEF Next, WorkerStep, StopStep

\* An owner that schedules work on the pool has what TaskPool promises: each accepted task is
\* queued, run and completed, or dropped by a Stop(Discard); and a closed pool has none left.
THEOREM PoolImplementsTaskPool == Spec => ImplementsTaskPool
  <1>1. Init => Tasks!Init
    <2> SUFFICES ASSUME Init PROVE Tasks!Init
      OBVIOUS
    <2>1. \A i \in Item : Fate(i) = "out"
      <3>1. DOMAIN << >> = {}
        OBVIOUS
      <3> QED
        BY <3>1, PoolAssumption DEF Init, Fate, Queued, Held
    <2>2. phaseNow = "open"
      BY PhaseIs DEF Init
    <2> QED
      BY <2>1, <2>2 DEF Tasks!Init, Fate, phaseNow
  <1> QED
    BY <1>1, PoolStep, SpecInv, PTL
       DEF Spec, ImplementsTaskPool, Tasks!Spec, fates, Fate, phaseNow
=============================================================================
