-------------------------- MODULE BoundedMpmcQueue --------------------------
(***************************************************************************)
(* TkBoundedMpmcQueue: the lock-free ring that carries a lane's messages   *)
(* and the pool's ready work.  Every atomic access of TryPush and TryPop   *)
(* is a step of its own.  The relaxed loads of the two positions and, when *)
(* StaleReads holds, the loads of a slot's sequence may return any value   *)
(* the variable has had so far (more than C++ coherence allows); a         *)
(* compare-exchange acts on the latest value and may fail spuriously, as   *)
(* compare_exchange_weak may.                                              *)
(*                                                                         *)
(* An operator commented "variant" is a wrong form of the definition after *)
(* it, kept to see that a property notices it.                             *)
(*                                                                         *)
(* Positions are natural numbers: the wrap of std::size_t after 2^64       *)
(* operations is not modelled here.                                        *)
(***************************************************************************)
EXTENDS Integers, Sequences

CONSTANTS Thread,       \* threads that call TryPush and TryPop
          Item,         \* the values pushed, each one pushed at most once
          NoItem,       \* raw storage: no object lives there
          Capacity,     \* slots of the ring
          StaleReads    \* may a load return a value already overwritten?

\* A power of two, at least 2 (the upper bound is about memory only).
IsValidCapacity(c) == c >= 2 /\ \E k \in 1..c : c = 2^k

ASSUME CapacityAssumption ==
    /\ Capacity \in Nat
    /\ IsValidCapacity(Capacity)

ASSUME ItemAssumption == NoItem \notin Item /\ StaleReads \in BOOLEAN

VARIABLES
    enqueuePosition, dequeuePosition,
    sequence,   \* slot -> its sequence number
    storage,    \* slot -> the object in it, or NoItem
    pc,         \* thread -> where it is inside TryPush or TryPop
    position,   \* thread -> the local variable position
    item,       \* thread -> the value it is pushing, or has popped
    log,        \* history: the item of each position won by a push, in order
    returned,   \* history: item -> how many TryPop calls returned it
    alive       \* FALSE once the destructor has run

vars == <<enqueuePosition, dequeuePosition, sequence, storage, pc, position,
          item, log, returned, alive>>
-----------------------------------------------------------------------------
Slots == 0..(Capacity - 1)

\* position & capacityMask_
SlotOf(p) == p % Capacity

SequenceDifference(s, p) == s - p

\* What a relaxed load of a position may return.
Seen(counter) == IF StaleReads THEN 0..counter ELSE {counter}

\* What a load of slot i's sequence may return: the values it has taken are
\* i, i+1, i+Capacity, i+Capacity+1, ... up to the present one.
SeenSequence(i) ==
    IF StaleReads
    THEN {s \in i..sequence[i] : s % Capacity \in {i, (i + 1) % Capacity}}
    ELSE {sequence[i]}

FreedSequenceShort(p) == p + Capacity - 1              \* variant: off by one

\* The value a consumer leaves in the slot: free for the next lap.
FreedSequence(p) == p + Capacity

\* The value a producer leaves in the slot: holds the item of position p.
ReadySequence(p) == p + 1

PushSpots == {"pushLoad", "pushCas", "pushWrite", "pushPublish"}
PopSpots  == {"popLoad", "popCas", "popMove", "popRelease"}

Init ==
    /\ enqueuePosition = 0
    /\ dequeuePosition = 0
    /\ sequence = [i \in Slots |-> i]
    /\ storage  = [i \in Slots |-> NoItem]
    /\ pc       = [t \in Thread |-> "idle"]
    /\ position = [t \in Thread |-> 0]
    /\ item     = [t \in Thread |-> NoItem]
    /\ log      = << >>
    /\ returned = [v \in Item |-> 0]
    /\ alive    = TRUE

Goto(t, spot) == pc' = [pc EXCEPT ![t] = spot]

shared  == <<enqueuePosition, dequeuePosition, sequence, storage>>
history == <<log, returned, alive>>
-----------------------------------------------------------------------------
(***************************************************************************)
(* TryPush                                                                 *)
(***************************************************************************)
Unused(v) == (\A i \in DOMAIN log : log[i] # v) /\ (\A t \in Thread : item[t] # v)

StartPush(t, v) ==
    /\ alive
    /\ pc[t] = "idle"
    /\ Unused(v)
    /\ \E p \in Seen(enqueuePosition) : position' = [position EXCEPT ![t] = p]
    /\ item' = [item EXCEPT ![t] = v]
    /\ Goto(t, "pushLoad")
    /\ UNCHANGED <<shared, history>>

\* The slot is free for this position: try to win it.
PushReady(t) ==
    /\ pc[t] = "pushLoad"
    /\ \E s \in SeenSequence(SlotOf(position[t])) :
          SequenceDifference(s, position[t]) = 0
    /\ Goto(t, "pushCas")
    /\ UNCHANGED <<shared, history, position, item>>

\* The slot still belongs to the previous lap: return false.
PushFull(t) ==
    /\ pc[t] = "pushLoad"
    /\ \E s \in SeenSequence(SlotOf(position[t])) :
          SequenceDifference(s, position[t]) < 0
    /\ Goto(t, "idle")
    /\ item' = [item EXCEPT ![t] = NoItem]
    /\ UNCHANGED <<shared, history, position>>

PushBehindStuck(t) ==                      \* variant: position not loaded again
    /\ pc[t] = "pushLoad"
    /\ \E s \in SeenSequence(SlotOf(position[t])) :
          SequenceDifference(s, position[t]) > 0
    /\ UNCHANGED vars

\* Another producer has won this position: load it again.
PushBehind(t) ==
    /\ pc[t] = "pushLoad"
    /\ \E s \in SeenSequence(SlotOf(position[t])) :
          SequenceDifference(s, position[t]) > 0
    /\ \E p \in Seen(enqueuePosition) : position' = [position EXCEPT ![t] = p]
    /\ UNCHANGED <<shared, history, pc, item>>

PushCasWinBlind(t) ==                      \* variant: exchange without compare
    /\ pc[t] = "pushCas"
    /\ enqueuePosition' = position[t] + 1
    /\ log' = Append(log, item[t])
    /\ Goto(t, "pushWrite")
    /\ UNCHANGED <<dequeuePosition, sequence, storage, position, item,
                   returned, alive>>

PushCasWin(t) ==
    /\ pc[t] = "pushCas"
    /\ enqueuePosition = position[t]
    /\ enqueuePosition' = position[t] + 1
    /\ log' = Append(log, item[t])
    /\ Goto(t, "pushWrite")
    /\ UNCHANGED <<dequeuePosition, sequence, storage, position, item,
                   returned, alive>>

PushCasFail(t) ==
    /\ pc[t] = "pushCas"
    /\ \E p \in Seen(enqueuePosition) : position' = [position EXCEPT ![t] = p]
    /\ Goto(t, "pushLoad")
    /\ UNCHANGED <<shared, history, item>>

\* Placement new in the slot.
PushWrite(t) ==
    /\ pc[t] = "pushWrite"
    /\ storage' = [storage EXCEPT ![SlotOf(position[t])] = item[t]]
    /\ Goto(t, "pushPublish")
    /\ UNCHANGED <<enqueuePosition, dequeuePosition, sequence, position, item, history>>

PushPublish(t) ==
    /\ pc[t] = "pushPublish"
    /\ sequence' = [sequence EXCEPT ![SlotOf(position[t])] = ReadySequence(position[t])]
    /\ item' = [item EXCEPT ![t] = NoItem]
    /\ Goto(t, "idle")
    /\ UNCHANGED <<enqueuePosition, dequeuePosition, storage, position, history>>
-----------------------------------------------------------------------------
(***************************************************************************)
(* TryPop                                                                  *)
(***************************************************************************)
StartPop(t) ==
    /\ alive
    /\ pc[t] = "idle"
    /\ \E p \in Seen(dequeuePosition) : position' = [position EXCEPT ![t] = p]
    /\ Goto(t, "popLoad")
    /\ UNCHANGED <<shared, history, item>>

PopReady(t) ==
    /\ pc[t] = "popLoad"
    /\ \E s \in SeenSequence(SlotOf(position[t])) :
          SequenceDifference(s, position[t] + 1) = 0
    /\ Goto(t, "popCas")
    /\ UNCHANGED <<shared, history, position, item>>

PopEmpty(t) ==
    /\ pc[t] = "popLoad"
    /\ \E s \in SeenSequence(SlotOf(position[t])) :
          SequenceDifference(s, position[t] + 1) < 0
    /\ Goto(t, "idle")
    /\ UNCHANGED <<shared, history, position, item>>

PopBehind(t) ==
    /\ pc[t] = "popLoad"
    /\ \E s \in SeenSequence(SlotOf(position[t])) :
          SequenceDifference(s, position[t] + 1) > 0
    /\ \E p \in Seen(dequeuePosition) : position' = [position EXCEPT ![t] = p]
    /\ UNCHANGED <<shared, history, pc, item>>

PopCasWinBlind(t) ==                       \* variant: exchange without compare
    /\ pc[t] = "popCas"
    /\ dequeuePosition' = position[t] + 1
    /\ Goto(t, "popMove")
    /\ UNCHANGED <<enqueuePosition, sequence, storage, position, item, history>>

PopCasWin(t) ==
    /\ pc[t] = "popCas"
    /\ dequeuePosition = position[t]
    /\ dequeuePosition' = position[t] + 1
    /\ Goto(t, "popMove")
    /\ UNCHANGED <<enqueuePosition, sequence, storage, position, item, history>>

PopCasFail(t) ==
    /\ pc[t] = "popCas"
    /\ \E p \in Seen(dequeuePosition) : position' = [position EXCEPT ![t] = p]
    /\ Goto(t, "popLoad")
    /\ UNCHANGED <<shared, history, item>>

\* Move the object out and destroy what is left of it.
PopMove(t) ==
    /\ pc[t] = "popMove"
    /\ item' = [item EXCEPT ![t] = storage[SlotOf(position[t])]]
    /\ storage' = [storage EXCEPT ![SlotOf(position[t])] = NoItem]
    /\ Goto(t, "popRelease")
    /\ UNCHANGED <<enqueuePosition, dequeuePosition, sequence, position, history>>

PopRelease(t) ==
    /\ pc[t] = "popRelease"
    /\ sequence' = [sequence EXCEPT ![SlotOf(position[t])] = FreedSequence(position[t])]
    /\ returned' = IF item[t] \in Item THEN [returned EXCEPT ![item[t]] = @ + 1]
                                       ELSE returned
    /\ item' = [item EXCEPT ![t] = NoItem]
    /\ Goto(t, "idle")
    /\ UNCHANGED <<enqueuePosition, dequeuePosition, storage, position, log, alive>>
-----------------------------------------------------------------------------
RemainingButFirst == (dequeuePosition + 1)..(enqueuePosition - 1)   \* variant

\* The positions whose objects the destructor destroys.
Remaining == dequeuePosition..(enqueuePosition - 1)

\* The destructor; its caller guarantees that no operation is under way.
Destroy ==
    /\ alive
    /\ \A t \in Thread : pc[t] = "idle"
    /\ storage' = [i \in Slots |-> IF \E p \in Remaining : SlotOf(p) = i
                                   THEN NoItem ELSE storage[i]]
    /\ alive' = FALSE
    /\ UNCHANGED <<enqueuePosition, dequeuePosition, sequence, pc, position,
                   item, log, returned>>

PushStep(t) == PushReady(t) \/ PushFull(t) \/ PushBehind(t) \/ PushCasWin(t)
               \/ PushCasFail(t) \/ PushWrite(t) \/ PushPublish(t)

PopStep(t) == PopReady(t) \/ PopEmpty(t) \/ PopBehind(t) \/ PopCasWin(t)
              \/ PopCasFail(t) \/ PopMove(t) \/ PopRelease(t)

Next ==
    \/ \E t \in Thread, v \in Item : StartPush(t, v)
    \/ \E t \in Thread : StartPop(t) \/ PushStep(t) \/ PopStep(t)
    \/ Destroy

Spec == Init /\ [][Next]_vars

\* A thread inside an operation keeps running, and a compare-exchange that can
\* succeed again and again is not refused by the hardware for ever.
FairSpec ==
    /\ Spec
    /\ \A t \in Thread : /\ WF_vars(PushStep(t) \/ PopStep(t))
                         /\ SF_vars(PushCasWin(t))
                         /\ SF_vars(PopCasWin(t))
-----------------------------------------------------------------------------
TypeOK ==
    /\ enqueuePosition \in Nat
    /\ dequeuePosition \in Nat
    /\ sequence \in [Slots -> Nat]
    /\ storage \in [Slots -> Item \union {NoItem}]
    /\ pc \in [Thread -> {"idle"} \union PushSpots \union PopSpots]
    /\ position \in [Thread -> Nat]
    /\ item \in [Thread -> Item \union {NoItem}]
    /\ log \in Seq(Item)
    /\ returned \in [Item -> Nat]
    /\ alive \in BOOLEAN

\* Threads between winning a position and releasing its slot.
Holding(t) == pc[t] \in {"pushWrite", "pushPublish", "popMove", "popRelease"}

\* The storage of a slot is written, read and destroyed by one thread at a
\* time: TryPush and TryPop touch it with no lock, so two holders of a slot
\* would be a data race on the object.
SlotExclusion ==
    \A t, u \in Thread :
        t # u /\ Holding(t) /\ Holding(u) => SlotOf(position[t]) # SlotOf(position[u])

\* Placement new never lands on a live object, and the object a consumer moves
\* from is alive and is the one pushed at the consumer's position.
ObjectLifetime ==
    \A t \in Thread :
        /\ pc[t] = "pushWrite" => storage[SlotOf(position[t])] = NoItem
        /\ pc[t] = "popMove" => storage[SlotOf(position[t])] = log[position[t] + 1]

\* No item is returned twice, and once the destructor has run each item that
\* was ever accepted has been returned or destroyed: none is left in a slot.
Conservation ==
    /\ \A v \in Item : returned[v] <= 1
    /\ ~alive => /\ \A i \in Slots : storage[i] = NoItem
                 /\ \A n \in 1..dequeuePosition : returned[log[n]] = 1

\* Who has won position p and not yet released its slot.
Producing(p) == \E t \in Thread : pc[t] \in {"pushWrite", "pushPublish"} /\ position[t] = p
Consuming(p) == \E t \in Thread : pc[t] \in {"popMove", "popRelease"} /\ position[t] = p

\* The positions are never more than a lap apart, and from them and the threads alone
\* follow every slot's sequence and, at rest, its content.  The slot of a position between
\* the two holds that position's item, unless its producer is still at work and has
\* left the sequence as it found it.  The slot of a position of the next lap is free for
\* it and empty, unless the consumer of the lap before is still at work.
SequencesAgree ==
    /\ enqueuePosition - dequeuePosition \in 0..Capacity
    /\ \A p \in dequeuePosition..(enqueuePosition - 1) :
          LET i == SlotOf(p)
          IN  IF Producing(p) THEN sequence[i] = p
              ELSE sequence[i] = p + 1 /\ (alive => storage[i] = log[p + 1])
    /\ \A p \in enqueuePosition..(dequeuePosition + Capacity - 1) :
          LET i == SlotOf(p)
          IN  IF Consuming(p - Capacity) THEN sequence[i] = p - Capacity + 1
              ELSE sequence[i] = p /\ storage[i] = NoItem

\* The positions, the sequences, the threads and the objects in the slots agree at all times.
RingConsistent == TypeOK /\ SequencesAgree /\ ObjectLifetime /\ Conservation

\* Seen from outside, the ring is a bounded FIFO queue: a push takes effect
\* when it wins its position, a pop when it wins its own.
Fifo == INSTANCE BoundedFifo WITH
            queue <- SubSeq(log, dequeuePosition + 1, enqueuePosition),
            delivered <- SubSeq(log, 1, dequeuePosition)

ImplementsFifo == Fifo!Spec

OthersIdle(t) == \A u \in Thread \ {t} : pc[u] = "idle"

\* With no other operation under way, TryPush answers false only when the ring
\* holds Capacity items and TryPop only when it holds none.  (With operations
\* under way either may answer false early: a stalled consumer keeps its slot.)
RefusalJustified ==
    [][\A t \in Thread : OthersIdle(t) =>
          /\ PushFull(t) => enqueuePosition - dequeuePosition = Capacity
          /\ PopEmpty(t) => enqueuePosition = dequeuePosition]_vars

\* Every operation returns: no thread is caught for ever in a retry loop.
OperationsFinish == \A t \in Thread : pc[t] # "idle" ~> pc[t] = "idle"
=============================================================================
