----------------------- MODULE BoundedMpmcQueue_proofs -----------------------
(***************************************************************************)
(* Proofs about BoundedMpmcQueue, for any threads and items and any        *)
(* capacity that is a power of two, with stale loads allowed.  Everything  *)
(* follows from one inductive invariant, Inv.  Its core ties a slot's      *)
(* sequence to the thread that holds the slot: whoever won a position      *)
(* finds the sequence unchanged until it releases the slot itself.         *)
(***************************************************************************)
EXTENDS BoundedMpmcQueue, SequenceTheorems, TLAPS

PushHolding(t) == pc[t] \in {"pushWrite", "pushPublish"}
PopHolding(t)  == pc[t] \in {"popMove", "popRelease"}
Offering(t)    == pc[t] \in {"pushLoad", "pushCas"}

\* The two positions stay within one lap, and the log has one item per push.
PositionsInv ==
    /\ dequeuePosition <= enqueuePosition
    /\ enqueuePosition <= dequeuePosition + Capacity
    /\ Len(log) = enqueuePosition

\* What a thread's local position says about the ring: a loaded position is
\* never ahead, and what justified a compare-exchange stays justified, since a
\* sequence only grows.
LocalInv ==
    \A t \in Thread :
        LET here == sequence[SlotOf(position[t])]
        IN  /\ Offering(t) => position[t] <= enqueuePosition
            /\ pc[t] \in {"popLoad", "popCas"} => position[t] <= dequeuePosition
            /\ pc[t] = "pushCas" => position[t] <= here
            /\ pc[t] = "popCas" => position[t] + 1 <= here
            /\ PushHolding(t) => /\ here = position[t]
                                 /\ dequeuePosition <= position[t]
                                 /\ position[t] < enqueuePosition
            /\ PopHolding(t) => /\ here = position[t] + 1
                                /\ position[t] < dequeuePosition
                                /\ enqueuePosition <= position[t] + Capacity

\* A position is won by one producer and by one consumer.
WinnerInv ==
    \A t, u \in Thread :
        /\ PushHolding(t) /\ PushHolding(u) /\ position[t] = position[u] => t = u
        /\ PopHolding(t) /\ PopHolding(u) /\ position[t] = position[u] => t = u

\* A slot whose sequence is a position of its own waits for that position's
\* producer, or is in that producer's hands.
FreeInv ==
    \A i \in Slots : SlotOf(sequence[i]) = i =>
        /\ sequence[i] < dequeuePosition + Capacity
        /\ \/ enqueuePosition <= sequence[i]
           \/ \E t \in Thread : PushHolding(t) /\ position[t] = sequence[i]
        /\ \/ storage[i] = NoItem
           \/ \E t \in Thread : pc[t] = "pushPublish" /\ position[t] = sequence[i]

\* Any other sequence is one past a position of the slot: the item of that
\* position waits there, or is in its consumer's hands.
ReadyInv ==
    \A i \in Slots : SlotOf(sequence[i]) # i =>
        /\ 0 < sequence[i] /\ SlotOf(sequence[i] - 1) = i
        /\ sequence[i] <= enqueuePosition
        /\ \/ dequeuePosition < sequence[i]
           \/ \E t \in Thread : PopHolding(t) /\ position[t] + 1 = sequence[i]
        /\ alive => \/ storage[i] = log[sequence[i]]
                    \/ \E t \in Thread : pc[t] = "popRelease" /\ position[t] + 1 = sequence[i]

\* An item on offer is in no position yet and offered by no other thread; a
\* won position is the place of the winner's item in the log; a written item
\* is in the winner's slot, and a moved one no longer is.
ItemInv ==
    /\ \A t \in Thread :
          /\ Offering(t) => /\ item[t] \in Item
                            /\ \A n \in 1..Len(log) : log[n] # item[t]
                            /\ \A u \in Thread \ {t} : item[u] # item[t]
          /\ PushHolding(t) => item[t] = log[position[t] + 1]
          /\ pc[t] = "pushPublish" => storage[SlotOf(position[t])] = item[t]
          /\ pc[t] = "popRelease" => /\ item[t] = log[position[t] + 1]
                                     /\ storage[SlotOf(position[t])] = NoItem
    /\ \A m, n \in 1..Len(log) : log[m] = log[n] => m = n

\* A popped item is counted when its consumer has released the slot, not before.
ReturnedInv ==
    /\ \A v \in Item : (\A n \in 1..Len(log) : log[n] # v) => returned[v] = 0
    /\ \A n \in 1..Len(log) :
          returned[log[n]] =
              IF /\ n <= dequeuePosition
                 /\ \A t \in Thread : ~(PopHolding(t) /\ position[t] + 1 = n)
              THEN 1 ELSE 0

\* The destructor ran with no operation under way and left no object behind.
DestroyedInv ==
    ~alive => /\ \A t \in Thread : pc[t] = "idle"
              /\ \A i \in Slots : storage[i] = NoItem

Inv == TypeOK /\ PositionsInv /\ LocalInv /\ WinnerInv /\ FreeInv /\ ReadyInv
       /\ ItemInv /\ ReturnedInv /\ DestroyedInv
-----------------------------------------------------------------------------
(***************************************************************************)
(* Arithmetic of the slots                                                 *)
(***************************************************************************)
LEMMA CapacityFacts == Capacity \in Nat /\ Capacity >= 2
  BY CapacityAssumption DEF IsValidCapacity

\* Every position has a slot.
LEMMA SlotOfPosition == \A p \in Nat : SlotOf(p) \in Slots /\ SlotOf(p) \in Nat
  BY CapacityFacts, Z3 DEF SlotOf, Slots

\* The first lap uses slot i for position i.
LEMMA SlotOfFirstLap == \A i \in Slots : i \in Nat /\ SlotOf(i) = i
  BY CapacityFacts, Z3 DEF SlotOf, Slots

\* A position is a number of whole laps and its slot.
LEMMA LapAndSlot ==
  ASSUME NEW p \in Nat
  PROVE  \E lap \in Nat : p = (Capacity * lap) + SlotOf(p)
  <1>1. p \div Capacity \in Nat /\ p = (Capacity * (p \div Capacity)) + (p % Capacity)
    BY CapacityFacts, Z3
  <1> QED
    BY <1>1 DEF SlotOf

\* Whole laps do not move the slot, ...
LEMMA SlotIsUnique ==
  ASSUME NEW lap \in Nat, NEW r \in 0..(Capacity - 1)
  PROVE  SlotOf((Capacity * lap) + r) = r
  <1>1. PICK other \in Nat : (Capacity * lap) + r = (Capacity * other) + SlotOf((Capacity * lap) + r)
    <2>1. (Capacity * lap) + r \in Nat
      BY CapacityFacts
    <2> QED
      BY <2>1, LapAndSlot
  <1>2. SlotOf((Capacity * lap) + r) \in 0..(Capacity - 1)
    BY CapacityFacts, SlotOfPosition DEF Slots
  <1>3. PICK s \in 0..(Capacity - 1) : s = SlotOf((Capacity * lap) + r)
    BY <1>2
  <1>4. Capacity * lap \in Nat /\ Capacity * other \in Nat
    BY CapacityFacts
  <1>5. (Capacity * lap) + r = (Capacity * other) + s
    BY <1>1, <1>3
  <1>6. lap = other
    <2>1. CASE lap + 1 <= other
      <3>1. Capacity * (lap + 1) <= Capacity * other
        BY <2>1, CapacityFacts, Z3
      <3>2. Capacity * (lap + 1) = (Capacity * lap) + Capacity
        BY CapacityFacts, Z3
      <3> QED
        BY <3>1, <3>2, <1>4, <1>5, CapacityFacts
    <2>2. CASE other + 1 <= lap
      <3>1. Capacity * (other + 1) <= Capacity * lap
        BY <2>2, CapacityFacts, Z3
      <3>2. Capacity * (other + 1) = (Capacity * other) + Capacity
        BY CapacityFacts, Z3
      <3> QED
        BY <3>1, <3>2, <1>4, <1>5, CapacityFacts
    <2> QED
      BY <2>1, <2>2
  <1> QED
    BY <1>3, <1>4, <1>5, <1>6

\* ... so the next lap comes back to the same slot, ...
LEMMA SlotOfNextLap == \A p \in Nat : SlotOf(p + Capacity) = SlotOf(p)
  <1> SUFFICES ASSUME NEW p \in Nat PROVE SlotOf(p + Capacity) = SlotOf(p)
    OBVIOUS
  <1>1. PICK lap \in Nat : p = (Capacity * lap) + SlotOf(p)
    BY LapAndSlot
  <1>2. PICK r \in 0..(Capacity - 1) : r = SlotOf(p)
    BY SlotOfPosition DEF Slots
  <1>3. Capacity * lap \in Nat /\ Capacity * (lap + 1) = (Capacity * lap) + Capacity
    BY CapacityFacts, Z3
  <1>4. p + Capacity = (Capacity * (lap + 1)) + r
    <2>1. p = (Capacity * lap) + r
      BY <1>1, <1>2
    <2> QED
      BY <2>1, <1>3, CapacityFacts
  <1>5. SlotOf((Capacity * (lap + 1)) + r) = r
    BY SlotIsUnique
  <1> QED
    BY <1>2, <1>4, <1>5

\* ... no two positions less than a lap apart share one, ...
LEMMA SameSlotApart ==
  ASSUME NEW p \in Nat, NEW q \in Nat, SlotOf(p) = SlotOf(q), p < q
  PROVE  p + Capacity <= q
  <1>1. PICK a \in Nat : p = (Capacity * a) + SlotOf(p)
    BY LapAndSlot
  <1>2. PICK b \in Nat : q = (Capacity * b) + SlotOf(q)
    BY LapAndSlot
  <1>3. PICK r \in Nat : r = SlotOf(p)
    BY SlotOfPosition
  <1>4. Capacity * a \in Nat /\ Capacity * b \in Nat
    BY CapacityFacts
  <1>5. (Capacity * a) + r = p /\ (Capacity * b) + r = q
    BY <1>1, <1>2, <1>3
  <1>6. a + 1 <= b
    <2>1. CASE b <= a
      <3>1. Capacity * b <= Capacity * a
        BY <2>1, CapacityFacts, Z3
      <3> QED
        BY <3>1, <1>4, <1>5
    <2> QED
      BY <2>1
  <1>7. Capacity * (a + 1) <= Capacity * b
    BY <1>6, CapacityFacts, Z3
  <1>8. Capacity * (a + 1) = (Capacity * a) + Capacity
    BY CapacityFacts, Z3
  <1> QED
    BY <1>4, <1>5, <1>7, <1>8, CapacityFacts

\* ... and in particular neighbours do not, since a ring has two slots or more.
LEMMA NeighboursApart == \A p \in Nat : SlotOf(p + 1) # SlotOf(p)
  <1> SUFFICES ASSUME NEW p \in Nat, SlotOf(p + 1) = SlotOf(p) PROVE FALSE
    OBVIOUS
  <1>1. p + Capacity <= p + 1
    BY SameSlotApart
  <1> QED
    BY <1>1, CapacityFacts
-----------------------------------------------------------------------------
(***************************************************************************)
(* What a step may rely on                                                 *)
(***************************************************************************)
\* A load returns a value the variable has or has had: never a later one.
LEMMA LoadedIsPast ==
  /\ \A n \in Nat : \A p \in Seen(n) : p \in Nat /\ p <= n
  /\ TypeOK => \A i \in Slots : \A s \in SeenSequence(i) : s \in Nat /\ s <= sequence[i]
  BY SlotOfFirstLap DEF Seen, SeenSequence, TypeOK

\* The exchange that wins a position to push to finds the slot free for it,
\* and less than a lap behind the consumers.
LEMMA PushWinsFreeSlot ==
  ASSUME Inv, NEW t \in Thread, pc[t] = "pushCas", enqueuePosition = position[t]
  PROVE  /\ sequence[SlotOf(position[t])] = position[t]
         /\ position[t] < dequeuePosition + Capacity
  <1> DEFINE i == SlotOf(position[t])
  <1>1. /\ enqueuePosition \in Nat /\ dequeuePosition \in Nat
        /\ position[t] \in Nat /\ i \in Slots /\ sequence[i] \in Nat
    BY SlotOfPosition DEF Inv, TypeOK
  <1>2. position[t] <= sequence[i]
    BY DEF Inv, LocalInv
  <1>3. CASE SlotOf(sequence[i]) = i
    <2>1. sequence[i] < dequeuePosition + Capacity /\ dequeuePosition <= enqueuePosition
      BY <1>1, <1>3 DEF Inv, FreeInv, PositionsInv
    <2>2. position[t] < sequence[i] => position[t] + Capacity <= sequence[i]
      BY <1>1, <1>3, SameSlotApart
    <2> QED
      BY <1>1, <1>2, <2>1, <2>2, CapacityFacts
  <1>4. CASE SlotOf(sequence[i]) # i
    <2>1. 0 < sequence[i] /\ SlotOf(sequence[i] - 1) = i /\ sequence[i] <= enqueuePosition
      BY <1>1, <1>4 DEF Inv, ReadyInv
    <2>2. sequence[i] = position[t]
      BY <1>1, <1>2, <2>1
    <2> QED
      BY <2>2, <1>4
  <1> QED
    BY <1>3, <1>4

\* The exchange that wins a position to pop from finds its item published.
LEMMA PopWinsReadySlot ==
  ASSUME Inv, NEW t \in Thread, pc[t] = "popCas", dequeuePosition = position[t]
  PROVE  /\ sequence[SlotOf(position[t])] = position[t] + 1
         /\ position[t] < enqueuePosition
  <1> DEFINE i == SlotOf(position[t])
  <1>1. /\ enqueuePosition \in Nat /\ dequeuePosition \in Nat
        /\ position[t] \in Nat /\ i \in Slots /\ sequence[i] \in Nat
    BY SlotOfPosition DEF Inv, TypeOK
  <1>2. position[t] + 1 <= sequence[i]
    BY DEF Inv, LocalInv
  <1>3. CASE SlotOf(sequence[i]) = i
    <2>1. sequence[i] < dequeuePosition + Capacity
      BY <1>1, <1>3 DEF Inv, FreeInv
    <2>2. position[t] + Capacity <= sequence[i]
      BY <1>1, <1>2, <1>3, SameSlotApart
    <2> QED
      BY <1>1, <2>1, <2>2, CapacityFacts
  <1>4. CASE SlotOf(sequence[i]) # i
    <2>1. 0 < sequence[i] /\ SlotOf(sequence[i] - 1) = i /\ sequence[i] <= enqueuePosition
      BY <1>1, <1>4 DEF Inv, ReadyInv
    <2>2. PICK q \in Nat : q = sequence[i] - 1
      BY <1>1, <2>1
    <2>3. position[t] <= q /\ q < enqueuePosition
      BY <1>1, <1>2, <2>1, <2>2
    <2>4. SlotOf(q) = SlotOf(position[t])
      BY <2>1, <2>2
    <2>5. position[t] < q => position[t] + Capacity <= q
      BY <1>1, <2>4, SameSlotApart
    <2>6. enqueuePosition <= dequeuePosition + Capacity
      BY DEF Inv, PositionsInv
    <2>7. q = position[t]
      BY <1>1, <2>3, <2>5, <2>6, CapacityFacts
    <2> QED
      BY <1>1, <2>1, <2>2, <2>3, <2>7
  <1> QED
    BY <1>3, <1>4

\* Two threads that hold slots hold different ones: two producers or two
\* consumers of a slot would have won the same position, and the sequence
\* that a producer sees there is not the one a consumer sees.
LEMMA HoldersApart ==
  ASSUME Inv, NEW t \in Thread, NEW u \in Thread, t # u, Holding(t), Holding(u)
  PROVE  SlotOf(position[t]) # SlotOf(position[u])
  <1> SUFFICES ASSUME SlotOf(position[t]) = SlotOf(position[u]) PROVE FALSE
    OBVIOUS
  <1>1. position[t] \in Nat /\ position[u] \in Nat
    BY DEF Inv, TypeOK
  <1>2. /\ PushHolding(t) => sequence[SlotOf(position[t])] = position[t]
        /\ PopHolding(t) => sequence[SlotOf(position[t])] = position[t] + 1
        /\ PushHolding(u) => sequence[SlotOf(position[u])] = position[u]
        /\ PopHolding(u) => sequence[SlotOf(position[u])] = position[u] + 1
    BY DEF Inv, LocalInv
  <1>3. position[t] # position[u] + 1 /\ position[u] # position[t] + 1
    BY <1>1, NeighboursApart
  <1>4. (PushHolding(t) \/ PopHolding(t)) /\ (PushHolding(u) \/ PopHolding(u))
    BY DEF Holding, PushHolding, PopHolding
  <1>5. \/ PushHolding(t) /\ PushHolding(u) /\ position[t] = position[u]
        \/ PopHolding(t) /\ PopHolding(u) /\ position[t] = position[u]
    BY <1>1, <1>2, <1>3, <1>4
  <1> QED
    BY <1>5 DEF Inv, WinnerInv
LEMMA InitInv == Init => Inv
  <1> SUFFICES ASSUME Init PROVE Inv
    OBVIOUS
  <1> USE DEF Init
  <1>1. /\ Slots \subseteq Nat /\ \A i \in Slots : SlotOf(i) = i /\ 0 <= i /\ i < Capacity
        /\ Capacity \in Nat
    BY SlotOfFirstLap, CapacityFacts DEF Slots
  <1>2. TypeOK
    BY <1>1 DEF TypeOK
  <1>3. PositionsInv /\ LocalInv /\ WinnerInv
    BY <1>1 DEF PositionsInv, LocalInv, WinnerInv, Offering, PushHolding, PopHolding
  <1>4. FreeInv /\ ReadyInv
    BY <1>1 DEF FreeInv, ReadyInv
  <1>5. ItemInv /\ ReturnedInv /\ DestroyedInv
    BY DEF ItemInv, ReturnedInv, DestroyedInv, Offering, PushHolding
  <1> QED
    BY <1>2, <1>3, <1>4, <1>5 DEF Inv
-----------------------------------------------------------------------------
(***************************************************************************)
(* Steps that change nothing but the thread's own locals                   *)
(***************************************************************************)
Quiet(t) ==
    /\ UNCHANGED <<enqueuePosition, dequeuePosition, sequence, storage, log, returned, alive>>
    /\ alive
    /\ ~Holding(t) /\ ~Holding(t)'
    /\ \A u \in Thread \ {t} :
          pc'[u] = pc[u] /\ position'[u] = position[u] /\ item'[u] = item[u]

LEMMA QuietKeeps ==
  ASSUME Inv, NEW t \in Thread, Quiet(t)
  PROVE  PositionsInv' /\ WinnerInv' /\ FreeInv' /\ ReadyInv' /\ ReturnedInv' /\ DestroyedInv'
  <1>1. \A u \in Thread : /\ PushHolding(u)' <=> PushHolding(u)
                          /\ PopHolding(u)' <=> PopHolding(u)
                          /\ PushHolding(u) \/ PopHolding(u) => u # t /\ position'[u] = position[u]
                          /\ pc'[u] = "pushPublish" <=> pc[u] = "pushPublish"
                          /\ pc'[u] = "popRelease" <=> pc[u] = "popRelease"
    BY DEF Quiet, Holding, PushHolding, PopHolding
  <1>2. UNCHANGED <<enqueuePosition, dequeuePosition, sequence, storage, log, returned, alive>>
        /\ alive
    BY DEF Quiet
  <1>3. PositionsInv' /\ DestroyedInv'
    BY <1>2 DEF Inv, PositionsInv, DestroyedInv
  <1>4. WinnerInv'
    BY <1>1 DEF Inv, WinnerInv
  <1>5. FreeInv'
    BY <1>1, <1>2 DEF Inv, FreeInv, PushHolding
  <1>6. ReadyInv'
    BY <1>1, <1>2 DEF Inv, ReadyInv, PopHolding
  <1>7. ReturnedInv'
    BY <1>1, <1>2 DEF Inv, ReturnedInv
  <1> QED
    BY <1>3, <1>4, <1>5, <1>6, <1>7

Load(t) == PushReady(t) \/ PushFull(t) \/ PushBehind(t) \/ PushCasFail(t)
           \/ PopReady(t) \/ PopEmpty(t) \/ PopBehind(t) \/ PopCasFail(t)

LEMMA LoadIsQuiet ==
  ASSUME Inv, NEW t \in Thread, Load(t) \/ StartPop(t) \/ \E v \in Item : StartPush(t, v)
  PROVE  Quiet(t)
  <1> USE DEF Inv, TypeOK, DestroyedInv, Goto, shared, history, Quiet, Holding
  <1>1. CASE \E v \in Item : StartPush(t, v)
    BY <1>1 DEF StartPush
  <1>2. CASE StartPop(t)
    BY <1>2 DEF StartPop
  <1>3. CASE PushReady(t)
    BY <1>3 DEF PushReady
  <1>4. CASE PushFull(t)
    BY <1>4 DEF PushFull
  <1>5. CASE PushBehind(t)
    BY <1>5 DEF PushBehind
  <1>6. CASE PushCasFail(t)
    BY <1>6 DEF PushCasFail
  <1>7. CASE PopReady(t)
    BY <1>7 DEF PopReady
  <1>8. CASE PopEmpty(t)
    BY <1>8 DEF PopEmpty
  <1>9. CASE PopBehind(t)
    BY <1>9 DEF PopBehind
  <1>10. CASE PopCasFail(t)
    BY <1>10 DEF PopCasFail
  <1> QED
    BY <1>1, <1>2, <1>3, <1>4, <1>5, <1>6, <1>7, <1>8, <1>9, <1>10 DEF Load

\* A load leaves a position that is not ahead, and a thread that goes on to
\* the exchange has seen the sequence it needs.
LEMMA LoadKeepsLocals ==
  ASSUME Inv, NEW t \in Thread, Load(t) \/ StartPop(t) \/ \E v \in Item : StartPush(t, v)
  PROVE  TypeOK' /\ LocalInv' /\ ItemInv'
  <1>1. Quiet(t) /\ UNCHANGED <<enqueuePosition, dequeuePosition, sequence, log>>
    BY LoadIsQuiet DEF Quiet
  <1>2. /\ \A p \in Seen(enqueuePosition) : p \in Nat /\ p <= enqueuePosition
        /\ \A p \in Seen(dequeuePosition) : p \in Nat /\ p <= dequeuePosition
        /\ \A s \in SeenSequence(SlotOf(position[t])) :
              s \in Nat /\ s <= sequence[SlotOf(position[t])]
        /\ position[t] \in Nat
    BY LoadedIsPast, SlotOfPosition DEF Inv, TypeOK
  <1>3. TypeOK'
    <2> USE <1>2 DEF Inv, TypeOK, Goto, shared, history, PushSpots, PopSpots
    <2>1. CASE \E v \in Item : StartPush(t, v)
      BY <2>1 DEF StartPush
    <2>2. CASE StartPop(t)
      BY <2>2 DEF StartPop
    <2>3. CASE Load(t)
      BY <2>3 DEF Load, PushReady, PushFull, PushBehind, PushCasFail,
                  PopReady, PopEmpty, PopBehind, PopCasFail
    <2> QED
      BY <2>1, <2>2, <2>3
  <1>4. /\ Offering(t)' => position'[t] <= enqueuePosition
        /\ pc'[t] \in {"popLoad", "popCas"} => position'[t] <= dequeuePosition
        /\ pc'[t] = "pushCas" => position'[t] <= sequence[SlotOf(position'[t])]
        /\ pc'[t] = "popCas" => position'[t] + 1 <= sequence[SlotOf(position'[t])]
    <2> USE <1>2 DEF Inv, TypeOK, Goto, shared, history, LocalInv, Offering, SequenceDifference
    <2>1. CASE \E v \in Item : StartPush(t, v)
      BY <2>1 DEF StartPush
    <2>2. CASE StartPop(t)
      BY <2>2 DEF StartPop
    <2>3. CASE PushReady(t)
      BY <2>3 DEF PushReady
    <2>4. CASE PopReady(t)
      BY <2>4 DEF PopReady
    <2>5. CASE PushFull(t) \/ PushBehind(t) \/ PushCasFail(t)
      BY <2>5 DEF PushFull, PushBehind, PushCasFail
    <2>6. CASE PopEmpty(t) \/ PopBehind(t) \/ PopCasFail(t)
      BY <2>6 DEF PopEmpty, PopBehind, PopCasFail
    <2> QED
      BY <2>1, <2>2, <2>3, <2>4, <2>5, <2>6 DEF Load
  <1>5. LocalInv'
    BY <1>1, <1>4 DEF Inv, LocalInv, Quiet, Holding, PushHolding, PopHolding, Offering
  <1>6. ItemInv'
    <2>1. \/ item'[t] = item[t] /\ (Offering(t)' => Offering(t))
          \/ item'[t] = NoItem /\ ~Offering(t)'
          \/ Unused(item'[t]) /\ item'[t] \in Item
      BY DEF Inv, TypeOK, Goto, shared, history, Offering, Load, StartPush, StartPop,
             PushReady, PushFull, PushBehind, PushCasFail,
             PopReady, PopEmpty, PopBehind, PopCasFail
    <2>2. Len(log) \in Nat /\ DOMAIN log = 1..Len(log)
      BY DEF Inv, TypeOK
    <2> QED
      BY <1>1, <2>1, <2>2, ItemAssumption
         DEF Inv, ItemInv, Quiet, Holding, PushHolding, Offering, Unused
  <1> QED
    BY <1>3, <1>5, <1>6-----------------------------------------------------------------------------
(***************************************************************************)
(* Steps of a thread that wins, holds or releases a slot                   *)
(***************************************************************************)
LEMMA PushCasWinKeeps ==
  ASSUME Inv, NEW t \in Thread, PushCasWin(t)
  PROVE  Inv'
  <1> DEFINE i == SlotOf(position[t])
  <1>1. /\ pc[t] = "pushCas" /\ enqueuePosition = position[t]
        /\ pc' = [pc EXCEPT ![t] = "pushWrite"]
        /\ enqueuePosition' = enqueuePosition + 1
        /\ log' = Append(log, item[t])
        /\ UNCHANGED <<dequeuePosition, sequence, storage, position, item, returned, alive>>
    BY DEF PushCasWin, Goto
  <1>2. /\ sequence[i] = position[t] /\ position[t] < dequeuePosition + Capacity
        /\ i \in Slots
    BY <1>1, PushWinsFreeSlot, SlotOfPosition DEF Inv, TypeOK
  <1>t. /\ enqueuePosition \in Nat /\ dequeuePosition \in Nat /\ Capacity \in Nat
        /\ sequence \in [Slots -> Nat] /\ position \in [Thread -> Nat]
        /\ pc \in [Thread -> {"idle"} \union PushSpots \union PopSpots]
        /\ log \in Seq(Item) /\ Len(log) = enqueuePosition /\ item[t] \in Item
        /\ returned \in [Item -> Nat] /\ alive
    BY <1>1, CapacityFacts DEF Inv, TypeOK, PositionsInv, ItemInv, Offering, DestroyedInv
  <1>l. /\ log' \in Seq(Item) /\ Len(log') = Len(log) + 1
        /\ \A n \in 1..Len(log) : log'[n] = log[n]
        /\ log'[Len(log) + 1] = item[t]
    BY <1>1, <1>t
  <1>e. \A n \in 1..Len(log') : \/ n \in 1..Len(log) /\ log'[n] = log[n]
                                \/ n = Len(log) + 1 /\ log'[n] = item[t]
    BY <1>t, <1>l
  <1>p. \A u \in Thread : /\ PushHolding(u)' <=> PushHolding(u) \/ u = t
                          /\ PopHolding(u)' <=> PopHolding(u)
                          /\ u = t => ~PopHolding(u) /\ ~PushHolding(u) /\ pc'[u] = "pushWrite"
                          /\ u # t => pc'[u] = pc[u]
    BY <1>1, <1>t DEF PushHolding, PopHolding
  <1>h. /\ \A u \in Thread : PushHolding(u) => position[u] < enqueuePosition
        /\ \A u \in Thread : PopHolding(u) => position[u] < dequeuePosition
        /\ dequeuePosition <= enqueuePosition
    BY DEF Inv, LocalInv, PositionsInv
  <1>3. TypeOK'
    BY <1>1, <1>t, <1>l DEF Inv, TypeOK, PushSpots
  <1>4. PositionsInv'
    BY <1>1, <1>2, <1>t, <1>l DEF Inv, PositionsInv
  <1>5. LocalInv'
    <2>1. ASSUME NEW u \in Thread, PopHolding(u)
          PROVE  enqueuePosition + 1 <= position[u] + Capacity
      <3>1. /\ enqueuePosition <= position[u] + Capacity /\ position[u] \in Nat
            /\ sequence[SlotOf(position[u])] = position[u] + 1
        BY <1>t, <2>1 DEF Inv, LocalInv
      <3>2. SUFFICES ASSUME enqueuePosition = position[u] + Capacity PROVE FALSE
        BY <1>t, <3>1
      <3>3. SlotOf(enqueuePosition) = SlotOf(position[u])
        BY <3>1, <3>2, SlotOfNextLap
      <3>4. sequence[SlotOf(position[u])] = position[u] + Capacity
        BY <1>1, <1>2, <3>2, <3>3
      <3> QED
        BY <1>t, <3>1, <3>4, CapacityFacts
    <2> QED
      BY <1>1, <1>2, <1>t, <1>p, <1>h, <2>1 DEF Inv, LocalInv, Offering, PushHolding
  <1>6. WinnerInv'
    BY <1>1, <1>t, <1>p, <1>h DEF Inv, WinnerInv
  <1>7. FreeInv'
    <2> SUFFICES ASSUME NEW j \in Slots, SlotOf(sequence[j]) = j
                 PROVE  /\ sequence[j] < dequeuePosition + Capacity
                        /\ \/ enqueuePosition + 1 <= sequence[j]
                           \/ \E u \in Thread : PushHolding(u)' /\ position[u] = sequence[j]
                        /\ \/ storage[j] = NoItem
                           \/ \E u \in Thread : pc'[u] = "pushPublish" /\ position[u] = sequence[j]
      BY <1>1 DEF FreeInv
    <2>1. /\ sequence[j] < dequeuePosition + Capacity
          /\ \/ enqueuePosition <= sequence[j]
             \/ \E u \in Thread : PushHolding(u) /\ position[u] = sequence[j]
          /\ \/ storage[j] = NoItem
             \/ \E u \in Thread : pc[u] = "pushPublish" /\ position[u] = sequence[j]
      BY DEF Inv, FreeInv
    <2>2. \/ enqueuePosition + 1 <= sequence[j]
          \/ \E u \in Thread : PushHolding(u)' /\ position[u] = sequence[j]
      BY <1>1, <1>t, <1>p, <2>1
    <2>3. \A u \in Thread : pc[u] = "pushPublish" => pc'[u] = "pushPublish"
      BY <1>1, <1>p
    <2> QED
      BY <2>1, <2>2, <2>3
  <1>8. ReadyInv'
    <2> SUFFICES ASSUME NEW j \in Slots, SlotOf(sequence[j]) # j
                 PROVE  /\ 0 < sequence[j] /\ SlotOf(sequence[j] - 1) = j
                        /\ sequence[j] <= enqueuePosition + 1
                        /\ \/ dequeuePosition < sequence[j]
                           \/ \E u \in Thread : PopHolding(u)' /\ position[u] + 1 = sequence[j]
                        /\ \/ storage[j] = log'[sequence[j]]
                           \/ \E u \in Thread : pc'[u] = "popRelease" /\ position[u] + 1 = sequence[j]
      BY <1>1 DEF ReadyInv
    <2>1. /\ 0 < sequence[j] /\ SlotOf(sequence[j] - 1) = j
          /\ sequence[j] <= enqueuePosition
          /\ \/ dequeuePosition < sequence[j]
             \/ \E u \in Thread : PopHolding(u) /\ position[u] + 1 = sequence[j]
          /\ \/ storage[j] = log[sequence[j]]
             \/ \E u \in Thread : pc[u] = "popRelease" /\ position[u] + 1 = sequence[j]
      BY <1>t DEF Inv, ReadyInv
    <2>2. \A u \in Thread : pc[u] = "popRelease" => pc'[u] = "popRelease"
      BY <1>1, <1>p
    <2>3. log'[sequence[j]] = log[sequence[j]] /\ sequence[j] <= enqueuePosition + 1
      BY <1>t, <1>l, <2>1
    <2> QED
      BY <1>p, <2>1, <2>2, <2>3
  <1>9. ItemInv'
    <2>1. \A n \in 1..Len(log) : log[n] # item[t]
      BY <1>1 DEF Inv, ItemInv, Offering
    <2>2. \A m, n \in 1..Len(log') : log'[m] = log'[n] => m = n
      BY <1>e, <2>1 DEF Inv, ItemInv
    <2>3. ASSUME NEW u \in Thread, Offering(u)'
          PROVE  /\ item[u] \in Item /\ \A n \in 1..Len(log') : log'[n] # item[u]
                 /\ \A w \in Thread \ {u} : item[w] # item[u]
      <3>1. Offering(u) /\ u # t
        BY <1>p, <2>3 DEF Offering
      <3>2. item[u] \in Item /\ (\A w \in Thread \ {u} : item[w] # item[u])
            /\ \A n \in 1..Len(log) : log[n] # item[u]
        BY <3>1 DEF Inv, ItemInv
      <3> QED
        BY <1>e, <3>1, <3>2
    <2>4. ASSUME NEW u \in Thread, PushHolding(u)' \/ pc'[u] = "popRelease"
          PROVE  item[u] = log'[position[u] + 1]
      <3>1. CASE u = t
        BY <1>1, <1>t, <1>l, <3>1
      <3>2. CASE u # t
        <4>1. PushHolding(u) \/ (pc[u] = "popRelease" /\ PopHolding(u))
          BY <1>p, <2>4, <3>2 DEF PopHolding
        <4>2. item[u] = log[position[u] + 1] /\ position[u] < enqueuePosition /\ position[u] \in Nat
          BY <1>t, <1>h, <4>1 DEF Inv, ItemInv
        <4> QED
          BY <1>t, <1>l, <4>2
      <3> QED
        BY <3>1, <3>2
    <2>5. ASSUME NEW u \in Thread
          PROVE  /\ pc'[u] = "pushPublish" => storage[SlotOf(position[u])] = item[u]
                 /\ pc'[u] = "popRelease" => storage[SlotOf(position[u])] = NoItem
      BY <1>p, <2>5 DEF Inv, ItemInv
    <2> QED
      BY <1>1, <2>2, <2>3, <2>4, <2>5 DEF ItemInv, Offering
  <1>10. ReturnedInv'
    <2>1. \A n \in 1..Len(log) : log[n] # item[t]
      BY <1>1 DEF Inv, ItemInv, Offering
    <2>2. returned[item[t]] = 0
      BY <1>t, <2>1 DEF Inv, ReturnedInv
    <2>3. ASSUME NEW n \in 1..Len(log')
          PROVE  returned[log'[n]] =
                    IF /\ n <= dequeuePosition
                       /\ \A u \in Thread : ~(PopHolding(u)' /\ position[u] + 1 = n)
                    THEN 1 ELSE 0
      <3>1. CASE n \in 1..Len(log)
        BY <1>p, <1>l, <3>1 DEF Inv, ReturnedInv
      <3>2. CASE n = Len(log) + 1
        BY <1>t, <1>h, <1>l, <2>2, <3>2
      <3> QED
        BY <1>t, <1>l, <3>1, <3>2
    <2>4. \A v \in Item : (\A n \in 1..Len(log') : log'[n] # v) => returned[v] = 0
      BY <1>t, <1>l DEF Inv, ReturnedInv
    <2> QED
      BY <1>1, <2>3, <2>4 DEF ReturnedInv
  <1>11. DestroyedInv'
    BY <1>1, <1>t DEF DestroyedInv
  <1> QED
    BY <1>3, <1>4, <1>5, <1>6, <1>7, <1>8, <1>9, <1>10, <1>11 DEF Inv
LEMMA PushWriteKeeps ==
  ASSUME Inv, NEW t \in Thread, PushWrite(t)
  PROVE  Inv'
  <1> DEFINE i == SlotOf(position[t])
  <1>1. /\ pc[t] = "pushWrite" /\ PushHolding(t)
        /\ pc' = [pc EXCEPT ![t] = "pushPublish"]
        /\ storage' = [storage EXCEPT ![i] = item[t]]
        /\ UNCHANGED <<enqueuePosition, dequeuePosition, sequence, position, item, log,
                       returned, alive>>
    BY DEF PushWrite, Goto, PushHolding, history
  <1>t. /\ position \in [Thread -> Nat] /\ sequence \in [Slots -> Nat] /\ i \in Slots
        /\ storage \in [Slots -> Item \union {NoItem}] /\ item \in [Thread -> Item \union {NoItem}]
        /\ pc \in [Thread -> {"idle"} \union PushSpots \union PopSpots] /\ alive
    BY <1>1, SlotOfPosition DEF Inv, TypeOK, DestroyedInv
  <1>2. sequence[i] = position[t] /\ SlotOf(sequence[i]) = i
    BY <1>1 DEF Inv, LocalInv
  <1>p. /\ \A u \in Thread : /\ PushHolding(u)' <=> PushHolding(u)
                             /\ PopHolding(u)' <=> PopHolding(u)
                             /\ Offering(u)' <=> Offering(u)
                             /\ u # t => pc'[u] = pc[u]
        /\ pc'[t] = "pushPublish"
    BY <1>1, <1>t DEF PushHolding, PopHolding, Offering
  <1>s. /\ storage'[i] = item[t]
        /\ \A j \in Slots \ {i} : storage'[j] = storage[j]
    BY <1>1, <1>t
  <1>3. TypeOK'
    BY <1>1, <1>t DEF Inv, TypeOK, PushSpots
  <1>4. PositionsInv' /\ WinnerInv' /\ ReturnedInv'
    BY <1>1, <1>p DEF Inv, PositionsInv, WinnerInv, ReturnedInv
  <1>o. \A u \in Thread \ {t} : Holding(u) => /\ SlotOf(position[u]) \in Slots
                                              /\ SlotOf(position[u]) # i
    BY <1>1, <1>t, HoldersApart, SlotOfPosition DEF Holding
  <1>5. LocalInv' /\ DestroyedInv'
    BY <1>1, <1>t, <1>p DEF Inv, LocalInv, DestroyedInv
  <1>8. ItemInv'
    <2>1. ASSUME NEW u \in Thread
          PROVE  /\ pc'[u] = "pushPublish" => storage'[SlotOf(position[u])] = item[u]
                 /\ pc'[u] = "popRelease" => storage'[SlotOf(position[u])] = NoItem
      BY <1>p, <1>o, <1>s DEF Inv, ItemInv, Holding
    <2>2. \A u \in Thread : pc'[u] = "popRelease" => pc[u] = "popRelease"
      BY <1>p
    <2> QED
      BY <1>1, <1>p, <2>1, <2>2 DEF Inv, ItemInv
  <1>6. FreeInv'
    <2> SUFFICES ASSUME NEW j \in Slots, SlotOf(sequence[j]) = j
                 PROVE  \/ storage'[j] = NoItem
                        \/ \E u \in Thread : pc'[u] = "pushPublish" /\ position[u] = sequence[j]
      BY <1>1, <1>p DEF Inv, FreeInv
    <2>1. CASE j = i
      BY <1>p, <1>2, <2>1
    <2>2. CASE j # i
      BY <1>1, <1>p, <1>s, <2>2 DEF Inv, FreeInv
    <2> QED
      BY <2>1, <2>2
  <1>7. ReadyInv'
    BY <1>1, <1>2, <1>p, <1>s DEF Inv, ReadyInv
  <1> QED
    BY <1>3, <1>4, <1>5, <1>6, <1>7, <1>8 DEF Inv

LEMMA PushPublishKeeps ==
  ASSUME Inv, NEW t \in Thread, PushPublish(t)
  PROVE  Inv'
  <1> DEFINE i == SlotOf(position[t])
  <1>1. /\ pc[t] = "pushPublish" /\ PushHolding(t)
        /\ pc' = [pc EXCEPT ![t] = "idle"]
        /\ sequence' = [sequence EXCEPT ![i] = position[t] + 1]
        /\ item' = [item EXCEPT ![t] = NoItem]
        /\ UNCHANGED <<enqueuePosition, dequeuePosition, storage, position, log, returned, alive>>
    BY DEF PushPublish, Goto, PushHolding, history, ReadySequence
  <1>t. /\ position \in [Thread -> Nat] /\ sequence \in [Slots -> Nat] /\ i \in Slots
        /\ storage \in [Slots -> Item \union {NoItem}] /\ item \in [Thread -> Item \union {NoItem}]
        /\ pc \in [Thread -> {"idle"} \union PushSpots \union PopSpots] /\ alive
        /\ enqueuePosition \in Nat /\ dequeuePosition \in Nat
    BY <1>1, SlotOfPosition DEF Inv, TypeOK, DestroyedInv
  <1>2. /\ sequence[i] = position[t] /\ SlotOf(sequence[i]) = i
        /\ position[t] < enqueuePosition /\ dequeuePosition <= position[t]
        /\ storage[i] = item[t] /\ item[t] = log[position[t] + 1]
    BY <1>1 DEF Inv, LocalInv, ItemInv
  <1>p. /\ \A u \in Thread : /\ PushHolding(u)' <=> PushHolding(u) /\ u # t
                             /\ PopHolding(u)' <=> PopHolding(u)
                             /\ Offering(u)' <=> Offering(u)
                             /\ u # t => pc'[u] = pc[u] /\ item'[u] = item[u]
                             /\ Holding(u) <=> PushHolding(u) \/ PopHolding(u)
        /\ pc'[t] = "idle" /\ item'[t] = NoItem /\ ~PopHolding(t)
    BY <1>1, <1>t DEF PushHolding, PopHolding, Offering, Holding
  <1>s. /\ sequence'[i] = position[t] + 1
        /\ \A j \in Slots \ {i} : sequence'[j] = sequence[j]
        /\ \A j \in Slots : sequence[j] <= sequence'[j]
    BY <1>1, <1>t, <1>2
  <1>o. \A u \in Thread \ {t} : /\ SlotOf(position[u]) \in Slots
                                /\ Holding(u) => SlotOf(position[u]) # i
    BY <1>1, <1>t, <1>p, HoldersApart, SlotOfPosition
  <1>q. /\ SlotOf(sequence'[i]) # i
        /\ sequence'[i] \in Nat /\ 0 < sequence'[i] /\ sequence'[i] - 1 = position[t]
    BY <1>s, <1>t, NeighboursApart
  <1>3. TypeOK'
    BY <1>1, <1>t DEF Inv, TypeOK
  <1>4. PositionsInv' /\ WinnerInv' /\ ReturnedInv' /\ DestroyedInv'
    BY <1>1, <1>t, <1>p DEF Inv, PositionsInv, WinnerInv, ReturnedInv, DestroyedInv
  <1>5. LocalInv'
    <2> SUFFICES ASSUME NEW u \in Thread, u # t
                 PROVE  LET here == sequence'[SlotOf(position[u])]
                        IN  /\ pc[u] = "pushCas" => position[u] <= here
                            /\ pc[u] = "popCas" => position[u] + 1 <= here
                            /\ PushHolding(u) => here = position[u]
                            /\ PopHolding(u) => here = position[u] + 1
      BY <1>1, <1>p DEF Inv, LocalInv, Offering
    <2>1. /\ PushHolding(u) \/ PopHolding(u) =>
                sequence'[SlotOf(position[u])] = sequence[SlotOf(position[u])]
          /\ sequence[SlotOf(position[u])] <= sequence'[SlotOf(position[u])]
          /\ sequence[SlotOf(position[u])] \in Nat /\ sequence'[SlotOf(position[u])] \in Nat
          /\ position[u] \in Nat
      BY <1>3, <1>t, <1>p, <1>s, <1>o DEF TypeOK
    <2> QED
      BY <2>1 DEF Inv, LocalInv
  <1>6. FreeInv'
    <2> SUFFICES ASSUME NEW j \in Slots, SlotOf(sequence'[j]) = j
                 PROVE  /\ sequence'[j] < dequeuePosition + Capacity
                        /\ \/ enqueuePosition <= sequence'[j]
                           \/ \E u \in Thread : PushHolding(u)' /\ position[u] = sequence'[j]
                        /\ \/ storage[j] = NoItem
                           \/ \E u \in Thread : pc'[u] = "pushPublish" /\ position[u] = sequence'[j]
      BY <1>1 DEF FreeInv
    <2>1. j # i /\ sequence'[j] = sequence[j]
      BY <1>q, <1>s
    <2>2. position[t] # sequence[j]
      BY <2>1
    <2> QED
      BY <1>p, <2>1, <2>2 DEF Inv, FreeInv
  <1>7. ReadyInv'
    <2> SUFFICES ASSUME NEW j \in Slots, SlotOf(sequence'[j]) # j
                 PROVE  /\ 0 < sequence'[j] /\ SlotOf(sequence'[j] - 1) = j
                        /\ sequence'[j] <= enqueuePosition
                        /\ \/ dequeuePosition < sequence'[j]
                           \/ \E u \in Thread : PopHolding(u) /\ position[u] + 1 = sequence'[j]
                        /\ \/ storage[j] = log[sequence'[j]]
                           \/ \E u \in Thread : pc'[u] = "popRelease" /\ position[u] + 1 = sequence'[j]
      BY <1>1, <1>p DEF ReadyInv
    <2>1. CASE j # i
      <3>1. sequence'[j] = sequence[j] /\ \A u \in Thread : pc[u] = "popRelease" => pc'[u] = "popRelease"
        BY <1>1, <1>p, <1>s, <2>1
      <3> QED
        BY <1>t, <3>1 DEF Inv, ReadyInv
    <2>2. CASE j = i
      <3>1. storage[i] = log[sequence'[i]]
        BY <1>2, <1>s
      <3>2. sequence'[i] <= enqueuePosition /\ dequeuePosition < sequence'[i]
        BY <1>2, <1>s, <1>t
      <3> QED
        BY <1>q, <2>2, <3>1, <3>2
    <2> QED
      BY <2>1, <2>2
  <1>8. ItemInv'
    <2>1. ASSUME NEW u \in Thread, Offering(u)'
          PROVE  /\ item'[u] \in Item /\ \A n \in 1..Len(log) : log[n] # item'[u]
                 /\ \A w \in Thread \ {u} : item'[w] # item'[u]
      <3>1. /\ Offering(u) /\ u # t /\ item'[u] = item[u]
            /\ item[u] \in Item /\ \A n \in 1..Len(log) : log[n] # item[u]
            /\ \A w \in Thread \ {u} : item[w] # item[u]
        BY <1>1, <1>p, <2>1 DEF Inv, ItemInv, Offering
      <3> QED
        BY <1>p, <3>1, ItemAssumption
    <2>2. \A u \in Thread : PushHolding(u)' \/ pc'[u] \in {"pushPublish", "popRelease"} =>
              /\ u # t /\ item'[u] = item[u] /\ pc'[u] = pc[u]
              /\ PushHolding(u)' => PushHolding(u)
      BY <1>p
    <2> QED
      BY <1>1, <2>1, <2>2 DEF Inv, ItemInv
  <1> QED
    BY <1>3, <1>4, <1>5, <1>6, <1>7, <1>8 DEF Inv
LEMMA PopCasWinKeeps ==
  ASSUME Inv, NEW t \in Thread, PopCasWin(t)
  PROVE  Inv'
  <1> DEFINE i == SlotOf(position[t])
  <1>1. /\ pc[t] = "popCas" /\ dequeuePosition = position[t]
        /\ pc' = [pc EXCEPT ![t] = "popMove"]
        /\ dequeuePosition' = dequeuePosition + 1
        /\ UNCHANGED <<enqueuePosition, sequence, storage, position, item, log, returned, alive>>
    BY DEF PopCasWin, Goto, history
  <1>2. sequence[i] = position[t] + 1 /\ position[t] < enqueuePosition
    BY <1>1, PopWinsReadySlot
  <1>t. /\ enqueuePosition \in Nat /\ dequeuePosition \in Nat /\ Capacity \in Nat
        /\ sequence \in [Slots -> Nat] /\ position \in [Thread -> Nat] /\ i \in Slots
        /\ pc \in [Thread -> {"idle"} \union PushSpots \union PopSpots]
        /\ Len(log) = enqueuePosition /\ alive
    BY <1>1, CapacityFacts, SlotOfPosition DEF Inv, TypeOK, PositionsInv, DestroyedInv
  <1>p. /\ \A u \in Thread : /\ PopHolding(u)' <=> PopHolding(u) \/ u = t
                             /\ PushHolding(u)' <=> PushHolding(u)
                             /\ Offering(u)' <=> Offering(u)
                             /\ u # t => pc'[u] = pc[u]
        /\ pc'[t] = "popMove" /\ ~PopHolding(t) /\ ~PushHolding(t)
    BY <1>1, <1>t DEF PushHolding, PopHolding, Offering
  <1>h. /\ \A u \in Thread : PopHolding(u) => position[u] < dequeuePosition
        /\ \A u \in Thread : PushHolding(u) =>
              /\ dequeuePosition <= position[u]
              /\ sequence[SlotOf(position[u])] = position[u]
    BY DEF Inv, LocalInv
  <1>3. TypeOK'
    BY <1>1, <1>t DEF Inv, TypeOK, PopSpots
  <1>4. PositionsInv' /\ DestroyedInv'
    BY <1>1, <1>2, <1>t DEF Inv, PositionsInv, DestroyedInv
  <1>5. LocalInv'
    <2>1. ASSUME NEW u \in Thread, PushHolding(u) PROVE dequeuePosition + 1 <= position[u]
      <3>1. position[u] # dequeuePosition
        BY <1>1, <1>2, <1>h, <1>t, <2>1
      <3> QED
        BY <1>h, <1>t, <2>1, <3>1
    <2>2. \A u \in Thread : /\ pc'[u] \in {"popLoad", "popCas"} => pc[u] \in {"popLoad", "popCas"}
                            /\ pc'[u] = "popCas" => pc[u] = "popCas"
                            /\ pc'[u] = "pushCas" => pc[u] = "pushCas"
      BY <1>1, <1>p
    <2> QED
      BY <1>1, <1>2, <1>t, <1>p, <2>1, <2>2 DEF Inv, LocalInv, PositionsInv
  <1>6. WinnerInv'
    BY <1>1, <1>t, <1>p, <1>h DEF Inv, WinnerInv
  <1>7. FreeInv'
    <2>1. \A u \in Thread : pc'[u] = "pushPublish" <=> pc[u] = "pushPublish"
      BY <1>1, <1>p
    <2> QED
      BY <1>1, <1>t, <1>p, <2>1 DEF Inv, FreeInv
  <1>8. ReadyInv'
    <2> SUFFICES ASSUME NEW j \in Slots, SlotOf(sequence[j]) # j
                 PROVE  /\ \/ dequeuePosition + 1 < sequence[j]
                           \/ \E u \in Thread : PopHolding(u)' /\ position[u] + 1 = sequence[j]
                        /\ \/ storage[j] = log[sequence[j]]
                           \/ \E u \in Thread : pc'[u] = "popRelease" /\ position[u] + 1 = sequence[j]
      BY <1>1, <1>t DEF Inv, ReadyInv
    <2>1. /\ \/ dequeuePosition < sequence[j]
             \/ \E u \in Thread : PopHolding(u) /\ position[u] + 1 = sequence[j]
          /\ \/ storage[j] = log[sequence[j]]
             \/ \E u \in Thread : pc[u] = "popRelease" /\ position[u] + 1 = sequence[j]
      BY <1>t DEF Inv, ReadyInv
    <2>2. \A u \in Thread : pc[u] = "popRelease" => pc'[u] = "popRelease"
      BY <1>1, <1>p
    <2>3. sequence[j] \in Nat
      BY <1>t
    <2> QED
      BY <1>1, <1>p, <1>t, <2>1, <2>2, <2>3
  <1>9. ItemInv'
    <2>1. \A u \in Thread : /\ pc'[u] = "popRelease" => pc[u] = "popRelease"
                            /\ pc'[u] = "pushPublish" => pc[u] = "pushPublish"
      BY <1>1, <1>p
    <2> QED
      BY <1>1, <1>p, <2>1 DEF Inv, ItemInv
  <1>10. ReturnedInv'
    <2>1. ASSUME NEW n \in 1..Len(log)
          PROVE  returned[log[n]] =
                    IF /\ n <= dequeuePosition + 1
                       /\ \A u \in Thread : ~(PopHolding(u)' /\ position[u] + 1 = n)
                    THEN 1 ELSE 0
      <3>1. CASE n = dequeuePosition + 1
        BY <1>1, <1>t, <1>p, <3>1 DEF Inv, ReturnedInv
      <3>2. CASE n # dequeuePosition + 1
        BY <1>1, <1>t, <1>p, <3>2 DEF Inv, ReturnedInv
      <3> QED
        BY <3>1, <3>2
    <2> QED
      BY <1>1, <2>1 DEF Inv, ReturnedInv
  <1> QED
    BY <1>3, <1>4, <1>5, <1>6, <1>7, <1>8, <1>9, <1>10 DEF Inv

\* The consumer finds the item of its position in the slot.
LEMMA MovedItem ==
  ASSUME Inv, NEW t \in Thread, pc[t] = "popMove"
  PROVE  storage[SlotOf(position[t])] = log[position[t] + 1]
  <1> DEFINE i == SlotOf(position[t])
  <1>1. /\ position[t] \in Nat /\ i \in Slots /\ alive
        /\ sequence[i] = position[t] + 1 /\ PopHolding(t)
    BY SlotOfPosition DEF Inv, TypeOK, LocalInv, PopHolding, DestroyedInv
  <1>2. SlotOf(sequence[i]) # i
    BY <1>1, NeighboursApart
  <1>3. \/ storage[i] = log[sequence[i]]
        \/ \E u \in Thread : pc[u] = "popRelease" /\ position[u] + 1 = sequence[i]
    BY <1>1, <1>2 DEF Inv, ReadyInv
  <1>4. ASSUME NEW u \in Thread, pc[u] = "popRelease", position[u] + 1 = sequence[i]
        PROVE  FALSE
    <2>1. PopHolding(u) /\ position[u] = position[t]
      BY <1>1, <1>4 DEF PopHolding, Inv, TypeOK
    <2>2. u = t
      BY <1>1, <2>1 DEF Inv, WinnerInv
    <2> QED
      BY <1>4, <2>2
  <1> QED
    BY <1>1, <1>3, <1>4

\* The producer's slot is empty when it writes.
LEMMA WrittenSlotEmpty ==
  ASSUME Inv, NEW t \in Thread, pc[t] = "pushWrite"
  PROVE  storage[SlotOf(position[t])] = NoItem
  <1> DEFINE i == SlotOf(position[t])
  <1>1. /\ position[t] \in Nat /\ i \in Slots
        /\ sequence[i] = position[t] /\ PushHolding(t)
    BY SlotOfPosition DEF Inv, TypeOK, LocalInv, PushHolding
  <1>2. \/ storage[i] = NoItem
        \/ \E u \in Thread : pc[u] = "pushPublish" /\ position[u] = sequence[i]
    BY <1>1 DEF Inv, FreeInv
  <1>3. ASSUME NEW u \in Thread, pc[u] = "pushPublish", position[u] = sequence[i]
        PROVE  FALSE
    <2>1. PushHolding(u) /\ position[u] = position[t]
      BY <1>1, <1>3 DEF PushHolding
    <2>2. u = t
      BY <1>1, <2>1 DEF Inv, WinnerInv
    <2> QED
      BY <1>3, <2>2
  <1> QED
    BY <1>2, <1>3
LEMMA PopMoveKeeps ==
  ASSUME Inv, NEW t \in Thread, PopMove(t)
  PROVE  Inv'
  <1> DEFINE i == SlotOf(position[t])
  <1>1. /\ pc[t] = "popMove" /\ PopHolding(t) /\ Holding(t)
        /\ pc' = [pc EXCEPT ![t] = "popRelease"]
        /\ item' = [item EXCEPT ![t] = storage[i]]
        /\ storage' = [storage EXCEPT ![i] = NoItem]
        /\ UNCHANGED <<enqueuePosition, dequeuePosition, sequence, position, log, returned, alive>>
    BY DEF PopMove, Goto, PopHolding, Holding, history
  <1>t. /\ position \in [Thread -> Nat] /\ sequence \in [Slots -> Nat] /\ i \in Slots
        /\ storage \in [Slots -> Item \union {NoItem}] /\ item \in [Thread -> Item \union {NoItem}]
        /\ pc \in [Thread -> {"idle"} \union PushSpots \union PopSpots] /\ alive
        /\ enqueuePosition \in Nat /\ dequeuePosition \in Nat
        /\ Len(log) = enqueuePosition /\ log \in Seq(Item)
    BY <1>1, SlotOfPosition DEF Inv, TypeOK, DestroyedInv, PositionsInv
  <1>2. /\ sequence[i] = position[t] + 1 /\ position[t] < dequeuePosition
        /\ dequeuePosition <= enqueuePosition /\ storage[i] = log[position[t] + 1]
        /\ SlotOf(sequence[i]) # i
    BY <1>1, <1>t, MovedItem, NeighboursApart DEF Inv, LocalInv, PositionsInv
  <1>p. /\ \A u \in Thread : /\ PushHolding(u)' <=> PushHolding(u)
                             /\ PopHolding(u)' <=> PopHolding(u)
                             /\ Offering(u)' <=> Offering(u)
                             /\ Offering(u) => u # t
                             /\ u # t => pc'[u] = pc[u] /\ item'[u] = item[u]
        /\ pc'[t] = "popRelease" /\ item'[t] = log[position[t] + 1]
        /\ ~PushHolding(t)
    BY <1>1, <1>t, <1>2 DEF PushHolding, PopHolding, Offering
  <1>s. /\ storage'[i] = NoItem
        /\ \A j \in Slots \ {i} : storage'[j] = storage[j]
    BY <1>1, <1>t
  <1>o. \A u \in Thread \ {t} : Holding(u) => /\ SlotOf(position[u]) \in Slots
                                              /\ SlotOf(position[u]) # i
    BY <1>1, <1>t, HoldersApart, SlotOfPosition
  <1>3. TypeOK'
    BY <1>1, <1>t DEF Inv, TypeOK, PopSpots
  <1>4. PositionsInv' /\ WinnerInv' /\ ReturnedInv'
    BY <1>1, <1>p DEF Inv, PositionsInv, WinnerInv, ReturnedInv
  <1>5. LocalInv' /\ DestroyedInv'
    BY <1>1, <1>t, <1>p DEF Inv, LocalInv, DestroyedInv
  <1>6. FreeInv'
    <2>1. \A u \in Thread : pc[u] = "pushPublish" => pc'[u] = "pushPublish"
      BY <1>1, <1>p
    <2> QED
      BY <1>1, <1>2, <1>p, <1>s, <2>1 DEF Inv, FreeInv
  <1>7. ReadyInv'
    <2>1. \A u \in Thread : pc[u] = "popRelease" => pc'[u] = "popRelease"
      BY <1>1, <1>p
    <2> QED
      BY <1>1, <1>2, <1>p, <1>s, <2>1 DEF Inv, ReadyInv
  <1>8. ItemInv'
    <2>1. ASSUME NEW u \in Thread, Offering(u)
          PROVE  /\ item'[u] \in Item /\ \A n \in 1..Len(log) : log[n] # item'[u]
                 /\ \A w \in Thread \ {u} : item'[w] # item'[u]
      <3>1. /\ u # t /\ item'[u] = item[u]
            /\ item[u] \in Item /\ \A n \in 1..Len(log) : log[n] # item[u]
            /\ \A w \in Thread \ {u} : item[w] # item[u]
        BY <1>p, <2>1 DEF Inv, ItemInv
      <3>2. position[t] + 1 \in 1..Len(log)
        BY <1>t, <1>2
      <3> QED
        BY <1>p, <3>1, <3>2
    <2>2. ASSUME NEW u \in Thread, pc'[u] = "pushPublish"
          PROVE  storage'[SlotOf(position[u])] = item'[u]
      <3>1. u # t /\ pc[u] = "pushPublish" /\ item'[u] = item[u] /\ Holding(u)
        BY <1>p, <2>2 DEF Holding
      <3> QED
        BY <1>o, <1>s, <3>1 DEF Inv, ItemInv
    <2>3. \A u \in Thread : PushHolding(u) => item'[u] = log[position[u] + 1]
      BY <1>p DEF Inv, ItemInv
    <2>4. ASSUME NEW u \in Thread, pc'[u] = "popRelease"
          PROVE  item'[u] = log[position[u] + 1] /\ storage'[SlotOf(position[u])] = NoItem
      BY <1>p, <1>o, <1>s, <2>4 DEF Inv, ItemInv, Holding
    <2> QED
      BY <1>1, <1>p, <2>1, <2>2, <2>3, <2>4 DEF Inv, ItemInv
  <1> QED
    BY <1>3, <1>4, <1>5, <1>6, <1>7, <1>8 DEF Inv

LEMMA PopReleaseKeeps ==
  ASSUME Inv, NEW t \in Thread, PopRelease(t)
  PROVE  Inv'
  <1> DEFINE i == SlotOf(position[t])
             n == position[t] + 1
  <1>1. /\ pc[t] = "popRelease" /\ PopHolding(t) /\ Holding(t)
        /\ pc' = [pc EXCEPT ![t] = "idle"]
        /\ sequence' = [sequence EXCEPT ![i] = position[t] + Capacity]
        /\ item' = [item EXCEPT ![t] = NoItem]
        /\ UNCHANGED <<enqueuePosition, dequeuePosition, storage, position, log, alive>>
    BY DEF PopRelease, Goto, PopHolding, Holding, FreedSequence
  <1>t. /\ position \in [Thread -> Nat] /\ sequence \in [Slots -> Nat] /\ i \in Slots
        /\ storage \in [Slots -> Item \union {NoItem}] /\ item \in [Thread -> Item \union {NoItem}]
        /\ pc \in [Thread -> {"idle"} \union PushSpots \union PopSpots] /\ alive
        /\ enqueuePosition \in Nat /\ dequeuePosition \in Nat
        /\ Len(log) = enqueuePosition /\ log \in Seq(Item) /\ returned \in [Item -> Nat]
        /\ Capacity \in Nat /\ Capacity >= 2
    BY <1>1, SlotOfPosition, CapacityFacts DEF Inv, TypeOK, DestroyedInv, PositionsInv
  <1>2. /\ sequence[i] = position[t] + 1 /\ position[t] < dequeuePosition
        /\ dequeuePosition <= enqueuePosition /\ enqueuePosition <= dequeuePosition + Capacity
        /\ item[t] = log[n] /\ SlotOf(sequence[i]) # i
        /\ SlotOf(position[t] + Capacity) = i
        /\ storage[i] = NoItem /\ enqueuePosition <= position[t] + Capacity
    BY <1>1, <1>t, NeighboursApart, SlotOfNextLap DEF Inv, LocalInv, PositionsInv, ItemInv
  <1>r. /\ n \in 1..Len(log) /\ log[n] \in Item
        /\ returned' = [returned EXCEPT ![log[n]] = returned[log[n]] + 1]
    <2>1. n \in 1..Len(log)
      BY <1>t, <1>2
    <2>2. log \in Seq(Item) /\ \A k \in 1..Len(log) : log[k] \in Item
      BY <1>t
    <2>3. log[n] \in Item /\ item[t] = log[n]
      BY <1>2, <2>1, <2>2
    <2>4. returned' = [returned EXCEPT ![item[t]] = returned[item[t]] + 1]
      BY <2>3 DEF PopRelease
    <2> QED
      BY <2>1, <2>3, <2>4
  <1>p. /\ \A u \in Thread : /\ PushHolding(u)' <=> PushHolding(u)
                             /\ PopHolding(u)' <=> PopHolding(u) /\ u # t
                             /\ Offering(u)' <=> Offering(u)
                             /\ Offering(u) => u # t
                             /\ u # t => pc'[u] = pc[u] /\ item'[u] = item[u]
                             /\ Holding(u) <=> PushHolding(u) \/ PopHolding(u)
        /\ pc'[t] = "idle" /\ item'[t] = NoItem /\ ~PushHolding(t)
    BY <1>1, <1>t DEF PushHolding, PopHolding, Offering, Holding
  <1>s. /\ sequence'[i] = position[t] + Capacity
        /\ \A j \in Slots \ {i} : sequence'[j] = sequence[j]
        /\ \A j \in Slots : sequence[j] <= sequence'[j]
    BY <1>1, <1>t, <1>2
  <1>o. \A u \in Thread \ {t} : /\ SlotOf(position[u]) \in Slots
                                /\ Holding(u) => SlotOf(position[u]) # i
    BY <1>1, <1>t, HoldersApart, SlotOfPosition
  <1>3. TypeOK'
    <2>1. pc' \in [Thread -> {"idle"} \union PushSpots \union PopSpots]
      BY <1>1, <1>t
    <2>2. sequence' \in [Slots -> Nat]
      BY <1>1, <1>t
    <2>3. returned' \in [Item -> Nat]
      BY <1>r, <1>t
    <2>4. item' \in [Thread -> Item \union {NoItem}]
      BY <1>1, <1>t
    <2> QED
      BY <1>1, <2>1, <2>2, <2>3, <2>4 DEF Inv, TypeOK
  <1>4. PositionsInv' /\ WinnerInv' /\ DestroyedInv'
    BY <1>1, <1>t, <1>p DEF Inv, PositionsInv, WinnerInv, DestroyedInv
  <1>5. LocalInv'
    <2> SUFFICES ASSUME NEW u \in Thread, u # t
                 PROVE  LET here == sequence'[SlotOf(position[u])]
                        IN  /\ pc[u] = "pushCas" => position[u] <= here
                            /\ pc[u] = "popCas" => position[u] + 1 <= here
                            /\ PushHolding(u) => here = position[u]
                            /\ PopHolding(u) => here = position[u] + 1
      BY <1>1, <1>p DEF Inv, LocalInv, Offering
    <2>1. /\ PushHolding(u) \/ PopHolding(u) =>
                sequence'[SlotOf(position[u])] = sequence[SlotOf(position[u])]
          /\ sequence[SlotOf(position[u])] <= sequence'[SlotOf(position[u])]
          /\ sequence[SlotOf(position[u])] \in Nat /\ sequence'[SlotOf(position[u])] \in Nat
          /\ position[u] \in Nat
      BY <1>3, <1>t, <1>p, <1>s, <1>o DEF TypeOK
    <2> QED
      BY <2>1 DEF Inv, LocalInv
  <1>6. FreeInv'
    <2> SUFFICES ASSUME NEW j \in Slots, SlotOf(sequence'[j]) = j
                 PROVE  /\ sequence'[j] < dequeuePosition + Capacity
                        /\ \/ enqueuePosition <= sequence'[j]
                           \/ \E u \in Thread : PushHolding(u) /\ position[u] = sequence'[j]
                        /\ \/ storage[j] = NoItem
                           \/ \E u \in Thread : pc'[u] = "pushPublish" /\ position[u] = sequence'[j]
      BY <1>1, <1>p DEF FreeInv
    <2>1. CASE j # i
      <3>1. sequence'[j] = sequence[j] /\ \A u \in Thread : pc[u] = "pushPublish" => pc'[u] = "pushPublish"
        BY <1>1, <1>p, <1>s, <2>1
      <3> QED
        BY <3>1 DEF Inv, FreeInv
    <2>2. CASE j = i
      BY <1>2, <1>s, <1>t, <2>2
    <2> QED
      BY <2>1, <2>2
  <1>7. ReadyInv'
    <2> SUFFICES ASSUME NEW j \in Slots, SlotOf(sequence'[j]) # j
                 PROVE  /\ 0 < sequence'[j] /\ SlotOf(sequence'[j] - 1) = j
                        /\ sequence'[j] <= enqueuePosition
                        /\ \/ dequeuePosition < sequence'[j]
                           \/ \E u \in Thread : PopHolding(u)' /\ position[u] + 1 = sequence'[j]
                        /\ \/ storage[j] = log[sequence'[j]]
                           \/ \E u \in Thread : pc'[u] = "popRelease" /\ position[u] + 1 = sequence'[j]
      BY <1>1 DEF ReadyInv
    <2>1. j # i /\ sequence'[j] = sequence[j]
      BY <1>2, <1>s
    <2>2. position[t] + 1 # sequence[j]
      <3>1. SlotOf((position[t] + 1) - 1) = i
        BY <1>t
      <3> QED
        BY <2>1, <3>1 DEF Inv, ReadyInv
    <2>3. /\ 0 < sequence[j] /\ SlotOf(sequence[j] - 1) = j
          /\ sequence[j] <= enqueuePosition
          /\ \/ dequeuePosition < sequence[j]
             \/ \E u \in Thread : PopHolding(u) /\ position[u] + 1 = sequence[j]
          /\ \/ storage[j] = log[sequence[j]]
             \/ \E u \in Thread : pc[u] = "popRelease" /\ position[u] + 1 = sequence[j]
      BY <1>t, <2>1 DEF Inv, ReadyInv
    <2>4. \A u \in Thread : position[u] + 1 = sequence[j] =>
              /\ PopHolding(u) => PopHolding(u)'
              /\ pc[u] = "popRelease" => pc'[u] = "popRelease"
      BY <1>p, <2>2
    <2> QED
      BY <2>1, <2>3, <2>4
  <1>8. ItemInv'
    <2>1. ASSUME NEW u \in Thread, Offering(u)
          PROVE  /\ item'[u] \in Item /\ \A m \in 1..Len(log) : log[m] # item'[u]
                 /\ \A w \in Thread \ {u} : item'[w] # item'[u]
      <3>1. /\ u # t /\ item'[u] = item[u]
            /\ item[u] \in Item /\ \A m \in 1..Len(log) : log[m] # item[u]
            /\ \A w \in Thread \ {u} : item[w] # item[u]
        BY <1>p, <2>1 DEF Inv, ItemInv
      <3> QED
        BY <1>p, <3>1, ItemAssumption
    <2>2. \A u \in Thread : PushHolding(u) \/ pc'[u] \in {"pushPublish", "popRelease"} =>
              u # t /\ item'[u] = item[u] /\ pc'[u] = pc[u]
      BY <1>p
    <2> QED
      BY <1>1, <1>p, <2>1, <2>2 DEF Inv, ItemInv
  <1>9. ReturnedInv'
    <2>1. returned[log[n]] = 0
      BY <1>1, <1>r DEF Inv, ReturnedInv
    <2>2. \A u \in Thread : PopHolding(u) /\ position[u] = position[t] => u = t
      BY <1>1 DEF Inv, WinnerInv
    <2>3. ASSUME NEW m \in 1..Len(log)
          PROVE  returned'[log[m]] =
                    IF /\ m <= dequeuePosition
                       /\ \A u \in Thread : ~(PopHolding(u)' /\ position[u] + 1 = m)
                    THEN 1 ELSE 0
      <3>1. CASE m = n
        <4>1. \A u \in Thread : ~(PopHolding(u)' /\ position[u] + 1 = m)
          BY <1>p, <1>t, <2>2, <3>1
        <4> QED
          BY <1>r, <1>t, <1>2, <2>1, <3>1, <4>1
      <3>2. CASE m # n
        <4>1. log[m] # log[n] /\ returned'[log[m]] = returned[log[m]]
          BY <1>r, <1>t, <3>2 DEF Inv, ItemInv
        <4>2. \A u \in Thread : PopHolding(u)' /\ position[u] + 1 = m <=>
                                PopHolding(u) /\ position[u] + 1 = m
          BY <1>p, <3>2
        <4> QED
          BY <4>1, <4>2 DEF Inv, ReturnedInv
      <3> QED
        BY <3>1, <3>2
    <2>4. ASSUME NEW v \in Item, \A m \in 1..Len(log) : log[m] # v
          PROVE  returned'[v] = 0
      BY <1>r, <1>t, <2>4 DEF Inv, ReturnedInv
    <2> QED
      BY <1>1, <2>3, <2>4 DEF ReturnedInv
  <1> QED
    BY <1>3, <1>4, <1>5, <1>6, <1>7, <1>8, <1>9 DEF Inv
LEMMA DestroyKeeps == Inv /\ Destroy => Inv'
  <1> SUFFICES ASSUME Inv, Destroy PROVE Inv'
    OBVIOUS
  <1>1. /\ \A t \in Thread : pc[t] = "idle"
        /\ storage' = [i \in Slots |-> IF \E p \in Remaining : SlotOf(p) = i
                                       THEN NoItem ELSE storage[i]]
        /\ alive' = FALSE /\ alive
        /\ UNCHANGED <<enqueuePosition, dequeuePosition, sequence, pc, position, item,
                       log, returned>>
    BY DEF Destroy
  <1>2. \A t \in Thread : ~PushHolding(t) /\ ~PopHolding(t) /\ ~Offering(t)
                          /\ pc[t] # "pushPublish" /\ pc[t] # "popRelease"
    BY <1>1 DEF PushHolding, PopHolding, Offering
  <1>t. /\ sequence \in [Slots -> Nat] /\ storage \in [Slots -> Item \union {NoItem}]
        /\ enqueuePosition \in Nat /\ dequeuePosition \in Nat
    BY DEF Inv, TypeOK
  <1>3. ASSUME NEW i \in Slots PROVE storage'[i] = NoItem
    <2>1. CASE SlotOf(sequence[i]) = i
      <3>1. storage[i] = NoItem
        BY <1>2, <2>1 DEF Inv, FreeInv
      <3> QED
        BY <1>1, <3>1
    <2>2. CASE SlotOf(sequence[i]) # i
      <3>1. /\ 0 < sequence[i] /\ SlotOf(sequence[i] - 1) = i
            /\ sequence[i] <= enqueuePosition /\ dequeuePosition < sequence[i]
        BY <1>2, <2>2 DEF Inv, ReadyInv
      <3>2. sequence[i] - 1 \in Remaining
        BY <1>t, <3>1 DEF Remaining
      <3> QED
        BY <1>1, <3>1, <3>2
    <2> QED
      BY <2>1, <2>2
  <1>4. TypeOK'
    BY <1>1, <1>t DEF Inv, TypeOK
  <1>5. PositionsInv' /\ LocalInv' /\ WinnerInv' /\ ReturnedInv'
    BY <1>1 DEF Inv, PositionsInv, LocalInv, WinnerInv, ReturnedInv, Offering,
                PushHolding, PopHolding
  <1>6. FreeInv' /\ ReadyInv' /\ DestroyedInv'
    BY <1>1, <1>3 DEF Inv, FreeInv, ReadyInv, DestroyedInv, PushHolding, PopHolding
  <1>7. ItemInv'
    <2>1. \A t \in Thread : ~Offering(t)' /\ ~PushHolding(t)' /\ pc'[t] = "idle"
      BY <1>1 DEF Offering, PushHolding
    <2> QED
      BY <1>1, <2>1 DEF Inv, ItemInv
  <1> QED
    BY <1>4, <1>5, <1>6, <1>7 DEF Inv

LEMMA NextInv == Inv /\ [Next]_vars => Inv'
  <1> SUFFICES ASSUME Inv, [Next]_vars PROVE Inv'
    OBVIOUS
  <1>1. ASSUME NEW t \in Thread, Load(t) \/ StartPop(t) \/ \E v \in Item : StartPush(t, v)
        PROVE  Inv'
    <2>1. TypeOK' /\ LocalInv' /\ ItemInv'
      BY <1>1, LoadKeepsLocals
    <2>2. PositionsInv' /\ WinnerInv' /\ FreeInv' /\ ReadyInv' /\ ReturnedInv' /\ DestroyedInv'
      BY <1>1, LoadIsQuiet, QuietKeeps
    <2> QED
      BY <2>1, <2>2 DEF Inv
  <1>2. ASSUME NEW t \in Thread, PushCasWin(t) PROVE Inv'
    BY <1>2, PushCasWinKeeps
  <1>3. ASSUME NEW t \in Thread, PushWrite(t) PROVE Inv'
    BY <1>3, PushWriteKeeps
  <1>4. ASSUME NEW t \in Thread, PushPublish(t) PROVE Inv'
    BY <1>4, PushPublishKeeps
  <1>5. ASSUME NEW t \in Thread, PopCasWin(t) PROVE Inv'
    BY <1>5, PopCasWinKeeps
  <1>6. ASSUME NEW t \in Thread, PopMove(t) PROVE Inv'
    BY <1>6, PopMoveKeeps
  <1>7. ASSUME NEW t \in Thread, PopRelease(t) PROVE Inv'
    BY <1>7, PopReleaseKeeps
  <1>8. CASE Destroy
    BY <1>8, DestroyKeeps
  <1>9. CASE UNCHANGED vars
    <2>1. TypeOK' /\ PositionsInv' /\ LocalInv' /\ WinnerInv'
      BY <1>9 DEF vars, Inv, TypeOK, PositionsInv, LocalInv, WinnerInv, Offering,
                  PushHolding, PopHolding
    <2>2. FreeInv' /\ ReadyInv' /\ ItemInv' /\ ReturnedInv' /\ DestroyedInv'
      BY <1>9 DEF vars, Inv, FreeInv, ReadyInv, ItemInv, ReturnedInv, DestroyedInv,
                  Offering, PushHolding, PopHolding
    <2> QED
      BY <2>1, <2>2 DEF Inv
  <1> QED
    BY <1>1, <1>2, <1>3, <1>4, <1>5, <1>6, <1>7, <1>8, <1>9
       DEF Next, PushStep, PopStep, Load

LEMMA SpecInv == Spec => []Inv
  BY InitInv, NextInv, PTL DEF Spec
-----------------------------------------------------------------------------
\* No two threads are between winning a position and releasing its slot for
\* the same slot: TryPush and TryPop touch the storage without a lock, and no
\* two of them ever touch the same object at once.
THEOREM SlotsAreExclusive == Spec => []SlotExclusion
  <1>1. Inv => SlotExclusion
    BY HoldersApart DEF SlotExclusion
  <1> QED
    BY <1>1, SpecInv, PTL
-----------------------------------------------------------------------------
(***************************************************************************)
(* The sequence of a slot, from the positions and the threads              *)
(***************************************************************************)
\* A position pushed to and not popped from: its slot has no other lap's sequence.
LEMMA PushedSlot ==
  ASSUME Inv, NEW p \in dequeuePosition..(enqueuePosition - 1)
  PROVE  IF Producing(p) THEN sequence[SlotOf(p)] = p
         ELSE /\ sequence[SlotOf(p)] = p + 1
              /\ alive => storage[SlotOf(p)] = log[p + 1]
  <1> DEFINE i == SlotOf(p)
             s == sequence[i]
  <1>1. /\ enqueuePosition \in Nat /\ dequeuePosition \in Nat /\ Capacity \in Nat
        /\ enqueuePosition <= dequeuePosition + Capacity
    BY CapacityFacts DEF Inv, TypeOK, PositionsInv
  <1>2. p \in Nat /\ dequeuePosition <= p /\ p < enqueuePosition
    BY <1>1
  <1>3. i \in Slots /\ s \in Nat
    BY <1>2, SlotOfPosition DEF Inv, TypeOK
  <1>4. \A t \in Thread : position[t] \in Nat
    BY DEF Inv, TypeOK
  <1>5. \A t \in Thread : /\ PushHolding(t) => dequeuePosition <= position[t]
                          /\ PushHolding(t) => sequence[SlotOf(position[t])] = position[t]
                          /\ PopHolding(t) => position[t] < dequeuePosition
                          /\ PopHolding(t) => enqueuePosition <= position[t] + Capacity
    BY DEF Inv, LocalInv
  <1>6. Producing(p) => s = p
    BY <1>5 DEF Producing, PushHolding
  <1>7. CASE SlotOf(s) = i
    <2>1. /\ s < dequeuePosition + Capacity
          /\ enqueuePosition <= s \/ \E t \in Thread : PushHolding(t) /\ position[t] = s
      BY <1>3, <1>7 DEF Inv, FreeInv
    <2>2. s < p => s + Capacity <= p
      BY <1>2, <1>3, <1>7, SameSlotApart
    <2>3. p < s => p + Capacity <= s
      BY <1>2, <1>3, <1>7, SameSlotApart
    <2>4. ~(p < s)
      BY <1>1, <1>2, <1>3, <2>1, <2>3
    <2>5. dequeuePosition <= s
      BY <1>1, <1>2, <1>3, <1>5, <2>1
    <2>6. ~(s < p)
      BY <1>1, <1>2, <1>3, <2>2, <2>5
    <2>7. s = p
      BY <1>2, <1>3, <2>4, <2>6
    <2>8. Producing(p)
      BY <1>1, <1>2, <2>1, <2>7 DEF Producing, PushHolding
    <2> QED
      BY <2>7, <2>8
  <1>8. CASE SlotOf(s) # i
    <2>1. /\ 0 < s /\ SlotOf(s - 1) = i /\ s <= enqueuePosition
          /\ dequeuePosition < s \/ \E t \in Thread : PopHolding(t) /\ position[t] + 1 = s
          /\ alive => \/ storage[i] = log[s]
                      \/ \E t \in Thread : pc[t] = "popRelease" /\ position[t] + 1 = s
      BY <1>3, <1>8 DEF Inv, ReadyInv
    <2>2. PICK q \in Nat : q = s - 1
      BY <1>3, <2>1
    <2>3. s = q + 1
      BY <1>3, <2>2
    <2>4. SlotOf(q) = SlotOf(p)
      BY <2>1, <2>2
    <2>5. q < p => q + Capacity <= p
      BY <1>2, <2>4, SameSlotApart
    <2>6. p < q => p + Capacity <= q
      BY <1>2, <2>4, SameSlotApart
    <2>7. ~(p < q)
      BY <1>1, <1>2, <2>1, <2>3, <2>6
    <2>8. dequeuePosition <= q \/ enqueuePosition <= q + Capacity
      BY <1>1, <1>4, <1>5, <2>1, <2>3
    <2>9. ~(q < p)
      BY <1>1, <1>2, <2>5, <2>8
    <2>10. q = p
      BY <1>2, <2>7, <2>9
    <2>11. s = p + 1
      BY <2>3, <2>10
    <2>12. ASSUME alive PROVE storage[i] = log[p + 1]
      <3>1. ~ \E t \in Thread : pc[t] = "popRelease" /\ position[t] + 1 = s
        BY <1>1, <1>2, <1>4, <1>5, <2>11 DEF PopHolding
      <3> QED
        BY <2>1, <2>11, <2>12, <3>1
    <2>13. ~Producing(p)
      BY <1>2, <1>6, <2>11
    <2> QED
      BY <2>11, <2>12, <2>13
  <1> QED
    BY <1>7, <1>8

\* A position a producer may win next, now or when the consumer before it is done.
LEMMA NextSlot ==
  ASSUME Inv, NEW p \in enqueuePosition..(dequeuePosition + Capacity - 1)
  PROVE  IF Consuming(p - Capacity) THEN sequence[SlotOf(p)] = p - Capacity + 1
         ELSE sequence[SlotOf(p)] = p /\ storage[SlotOf(p)] = NoItem
  <1> DEFINE i == SlotOf(p)
             s == sequence[i]
  <1>1. /\ enqueuePosition \in Nat /\ dequeuePosition \in Nat
        /\ Capacity \in Nat /\ Capacity >= 2
        /\ dequeuePosition <= enqueuePosition
    BY CapacityFacts DEF Inv, TypeOK, PositionsInv
  <1>2. p \in Nat /\ enqueuePosition <= p /\ p < dequeuePosition + Capacity
    BY <1>1
  <1>3. i \in Slots /\ s \in Nat
    BY <1>2, SlotOfPosition DEF Inv, TypeOK
  <1>4. \A t \in Thread : position[t] \in Nat
    BY DEF Inv, TypeOK
  <1>5. \A t \in Thread : /\ PushHolding(t) => dequeuePosition <= position[t]
                          /\ PushHolding(t) => position[t] < enqueuePosition
                          /\ PopHolding(t) => sequence[SlotOf(position[t])] = position[t] + 1
                          /\ PopHolding(t) => enqueuePosition <= position[t] + Capacity
    BY DEF Inv, LocalInv
  <1>6. Consuming(p - Capacity) => s = p - Capacity + 1
    <2> SUFFICES ASSUME NEW t \in Thread, PopHolding(t), position[t] = p - Capacity
                 PROVE  s = p - Capacity + 1
      BY DEF Consuming, PopHolding
    <2>1. p = position[t] + Capacity
      BY <1>1, <1>2
    <2>2. SlotOf(p) = SlotOf(position[t])
      BY <1>4, <2>1, SlotOfNextLap
    <2> QED
      BY <1>5, <2>2
  <1>7. CASE SlotOf(s) = i
    <2>1. /\ s < dequeuePosition + Capacity
          /\ enqueuePosition <= s \/ \E t \in Thread : PushHolding(t) /\ position[t] = s
          /\ storage[i] = NoItem \/ \E t \in Thread : pc[t] = "pushPublish" /\ position[t] = s
      BY <1>3, <1>7 DEF Inv, FreeInv
    <2>2. s < p => s + Capacity <= p
      BY <1>2, <1>3, <1>7, SameSlotApart
    <2>3. p < s => p + Capacity <= s
      BY <1>2, <1>3, <1>7, SameSlotApart
    <2>4. ~(p < s)
      BY <1>1, <1>2, <1>3, <2>1, <2>3
    <2>5. dequeuePosition <= s
      BY <1>1, <1>3, <1>5, <2>1
    <2>6. ~(s < p)
      BY <1>1, <1>2, <1>3, <2>2, <2>5
    <2>7. s = p
      BY <1>2, <1>3, <2>4, <2>6
    <2>8. storage[i] = NoItem
      <3>1. ~ \E t \in Thread : pc[t] = "pushPublish" /\ position[t] = s
        BY <1>1, <1>2, <1>4, <1>5, <2>7 DEF PushHolding
      <3> QED
        BY <2>1, <3>1
    <2>9. ~Consuming(p - Capacity)
      BY <1>1, <1>2, <1>6, <2>7
    <2> QED
      BY <2>7, <2>8, <2>9
  <1>8. CASE SlotOf(s) # i
    <2>1. /\ 0 < s /\ SlotOf(s - 1) = i /\ s <= enqueuePosition
          /\ dequeuePosition < s \/ \E t \in Thread : PopHolding(t) /\ position[t] + 1 = s
      BY <1>3, <1>8 DEF Inv, ReadyInv
    <2>2. PICK q \in Nat : q = s - 1
      BY <1>3, <2>1
    <2>3. s = q + 1
      BY <1>3, <2>2
    <2>4. q < p
      BY <1>1, <1>2, <2>1, <2>3
    <2>5. q + Capacity <= p
      BY <1>2, <2>1, <2>2, <2>4, SameSlotApart
    <2>6. PICK t \in Thread : PopHolding(t) /\ position[t] + 1 = s
      BY <1>1, <1>2, <2>1, <2>3, <2>5
    <2>7. position[t] = q
      BY <1>4, <2>3, <2>6
    <2>8. PICK next \in Nat : next = q + Capacity
      BY <1>1
    <2>9. SlotOf(next) = SlotOf(p)
      BY <2>1, <2>2, <2>8, SlotOfNextLap
    <2>10. next < p => next + Capacity <= p
      BY <1>2, <2>9, SameSlotApart
    <2>11. enqueuePosition <= next
      BY <1>5, <2>6, <2>7, <2>8
    <2>12. next = p
      BY <1>1, <1>2, <2>5, <2>8, <2>10, <2>11
    <2>13. q = p - Capacity
      BY <1>1, <2>8, <2>12
    <2>14. Consuming(p - Capacity)
      BY <2>6, <2>7, <2>13 DEF Consuming, PopHolding
    <2> QED
      BY <1>6, <2>14
  <1> QED
    BY <1>7, <1>8
-----------------------------------------------------------------------------
\* Sequence numbers, positions and the threads at work agree; placement new never lands on
\* a live object, a consumer moves out the object of its own position, no item is returned
\* twice, and the destructor leaves nothing behind.
THEOREM RingIsConsistent == Spec => []RingConsistent
  <1>1. ASSUME Inv PROVE RingConsistent
    <2>1. ObjectLifetime
      BY <1>1, MovedItem, WrittenSlotEmpty DEF ObjectLifetime
    <2>2. ASSUME NEW v \in Item PROVE returned[v] <= 1
      <3>1. CASE \A n \in 1..Len(log) : log[n] # v
        BY <1>1, <3>1 DEF Inv, ReturnedInv
      <3>2. CASE \E n \in 1..Len(log) : log[n] = v
        BY <1>1, <3>2 DEF Inv, ReturnedInv
      <3> QED
        BY <3>1, <3>2
    <2>3. ASSUME ~alive, NEW n \in 1..dequeuePosition PROVE returned[log[n]] = 1
      <3>1. n \in 1..Len(log)
        BY <1>1 DEF Inv, TypeOK, PositionsInv
      <3>2. \A t \in Thread : ~PopHolding(t)
        BY <1>1, <2>3 DEF Inv, DestroyedInv, PopHolding
      <3> QED
        BY <1>1, <3>1, <3>2 DEF Inv, ReturnedInv, TypeOK
    <2>4. Conservation
      BY <1>1, <2>2, <2>3 DEF Conservation, Inv, DestroyedInv
    <2>5. enqueuePosition - dequeuePosition \in 0..Capacity
      BY <1>1, CapacityFacts DEF Inv, TypeOK, PositionsInv
    <2>6. SequencesAgree
      BY <1>1, <2>5, PushedSlot, NextSlot DEF SequencesAgree
    <2> QED
      BY <1>1, <2>1, <2>4, <2>6 DEF RingConsistent, Inv
  <1> QED
    BY <1>1, SpecInv, PTL
-----------------------------------------------------------------------------
(***************************************************************************)
(* The ring as a bounded FIFO queue                                        *)
(***************************************************************************)
\* A new entry of the log extends every window that reaches its end, ...
LEMMA WindowGrows ==
  ASSUME NEW S, NEW s \in Seq(S), NEW x \in S, NEW m \in 1..(Len(s) + 1)
  PROVE  SubSeq(Append(s, x), m, Len(s) + 1) = Append(SubSeq(s, m, Len(s)), x)
  <1> DEFINE longer == Append(s, x)
             left == SubSeq(longer, m, Len(s) + 1)
             window == SubSeq(s, m, Len(s))
  <1>1. /\ longer \in Seq(S) /\ Len(longer) = Len(s) + 1 /\ Len(s) \in Nat
        /\ \A i \in 1..Len(s) : longer[i] = s[i]
        /\ longer[Len(s) + 1] = x
    BY AppendProperties
  <1>2. PICK k \in Nat : Len(s) + 1 = m + k
    BY <1>1
  <1>3. /\ left \in Seq(S) /\ Len(left) = k + 1
        /\ \A i \in 1..(k + 1) : left[i] = longer[m + i - 1]
    <2>1. \A i \in m..(Len(s) + 1) : longer[i] \in S
      BY <1>1
    <2>2. m \in Int /\ Len(s) + 1 \in Int
      BY <1>1
    <2> HIDE DEF longer
    <2>3. /\ SubSeq(longer, m, Len(s) + 1) \in Seq(S)
          /\ Len(SubSeq(longer, m, Len(s) + 1))
                 = IF m <= Len(s) + 1 THEN (Len(s) + 1) - m + 1 ELSE 0
          /\ \A i \in 1..((Len(s) + 1) - m + 1) :
                 SubSeq(longer, m, Len(s) + 1)[i] = longer[m + i - 1]
      BY <2>1, <2>2, SubSeqProperties
    <2>4. (Len(s) + 1) - m + 1 = k + 1 /\ m <= Len(s) + 1
      BY <1>1, <1>2
    <2> QED
      BY <2>3, <2>4
  <1>4. /\ window \in Seq(S) /\ Len(window) = k
        /\ \A i \in 1..k : window[i] = s[m + i - 1]
    <2>1. \A i \in m..Len(s) : s[i] \in S
      BY <1>1
    <2>2. /\ window \in Seq(S)
          /\ Len(window) = IF m <= Len(s) THEN Len(s) - m + 1 ELSE 0
          /\ \A i \in 1..(Len(s) - m + 1) : window[i] = s[m + i - 1]
      BY <1>1, <2>1, SubSeqProperties
    <2>3. Len(s) - m + 1 = k /\ (m <= Len(s) <=> k > 0)
      BY <1>1, <1>2
    <2> QED
      BY <1>2, <2>2, <2>3
  <1> HIDE DEF left, window, longer
  <1>5. /\ Append(window, x) \in Seq(S) /\ Len(Append(window, x)) = k + 1
        /\ \A i \in 1..k : Append(window, x)[i] = window[i]
        /\ Append(window, x)[k + 1] = x
    BY <1>4, AppendProperties
  <1>6. ASSUME NEW i \in 1..(k + 1) PROVE left[i] = Append(window, x)[i]
    <2>1. CASE i \in 1..k
      <3>1. m + i - 1 \in 1..Len(s)
        BY <1>1, <1>2, <2>1
      <3> QED
        BY <1>1, <1>3, <1>4, <1>5, <2>1, <3>1
    <2>2. CASE i = k + 1
      <3>1. m + i - 1 = Len(s) + 1
        BY <1>1, <1>2, <2>2
      <3>2. left[i] = longer[Len(s) + 1]
        BY <1>3, <3>1
      <3> QED
        BY <1>1, <1>5, <2>2, <3>2
    <2>3. i \in 1..k \/ i = k + 1
      BY <1>2
    <2> QED
      BY <2>1, <2>2, <2>3
  <1>7. left = Append(window, x)
    BY <1>3, <1>5, <1>6, SeqEqual
  <1> QED
    BY <1>7 DEF left, window, longer

\* ... and leaves every window that ends before it as it was.
LEMMA WindowKept ==
  ASSUME NEW S, NEW s \in Seq(S), NEW x \in S, NEW d \in 0..Len(s)
  PROVE  SubSeq(Append(s, x), 1, d) = SubSeq(s, 1, d)
  <1>1. /\ Append(s, x) \in Seq(S) /\ Len(Append(s, x)) = Len(s) + 1
        /\ \A i \in 1..Len(s) : Append(s, x)[i] = s[i] /\ s[i] \in S
    BY AppendProperties
  <1>2. SubSeq(Append(s, x), 1, d) = [i \in 1..d |-> Append(s, x)[i]]
    BY <1>1
  <1>3. SubSeq(s, 1, d) = [i \in 1..d |-> s[i]]
    OBVIOUS
  <1> QED
    BY <1>1, <1>2, <1>3

\* Seen from outside the ring is a bounded FIFO queue: at most Capacity items,
\* delivered in the order in which their positions were won, each one once.
THEOREM RingImplementsFifo == Spec => ImplementsFifo
  <1> DEFINE waiting == SubSeq(log, dequeuePosition + 1, enqueuePosition)
             given == SubSeq(log, 1, dequeuePosition)
  <1>1. Init => Fifo!Init
    BY SubSeqEmpty DEF Init, Fifo!Init
  <1>2. ASSUME Inv, [Next]_vars PROVE [Fifo!Next]_<<waiting, given>>
    <2>t. /\ log \in Seq(Item) /\ Len(log) = enqueuePosition
          /\ enqueuePosition \in Nat /\ dequeuePosition \in Nat
          /\ dequeuePosition <= enqueuePosition
      BY <1>2 DEF Inv, TypeOK, PositionsInv
    <2>0. ASSUME UNCHANGED <<log, enqueuePosition, dequeuePosition>>
          PROVE  UNCHANGED <<waiting, given>>
      BY <2>0
    <2>1. ASSUME NEW t \in Thread, PushCasWin(t) PROVE Fifo!Next
      <3>1. /\ position[t] < dequeuePosition + Capacity /\ enqueuePosition = position[t]
            /\ log' = Append(log, item[t]) /\ item[t] \in Item
            /\ enqueuePosition' = enqueuePosition + 1 /\ dequeuePosition' = dequeuePosition
        BY <1>2, <2>1, PushWinsFreeSlot DEF PushCasWin, Inv, ItemInv, Offering
      <3>2. Len(waiting) < Capacity
        <4>1. \A i \in (dequeuePosition + 1)..enqueuePosition : log[i] \in Item
          BY <2>t
        <4>2. Len(waiting) = IF dequeuePosition + 1 <= enqueuePosition
                             THEN enqueuePosition - (dequeuePosition + 1) + 1 ELSE 0
          BY <2>t, <4>1, SubSeqProperties
        <4> QED
          BY <2>t, <3>1, <4>2, CapacityFacts
      <3>3. waiting' = Append(waiting, item[t])
        <4>1. dequeuePosition + 1 \in 1..(Len(log) + 1)
          BY <2>t
        <4>2. SubSeq(Append(log, item[t]), dequeuePosition + 1, Len(log) + 1)
                 = Append(SubSeq(log, dequeuePosition + 1, Len(log)), item[t])
          BY <2>t, <3>1, <4>1, WindowGrows
        <4> QED
          BY <2>t, <3>1, <4>2
      <3>4. given' = given
        <4>1. SubSeq(Append(log, item[t]), 1, dequeuePosition) = SubSeq(log, 1, dequeuePosition)
          BY <2>t, <3>1, WindowKept
        <4> QED
          BY <3>1, <4>1
      <3>5. Fifo!Enqueue(item[t])
        BY <3>2, <3>3, <3>4 DEF Fifo!Enqueue
      <3> QED
        BY <3>1, <3>5 DEF Fifo!Next
    <2>2. ASSUME NEW t \in Thread, PopCasWin(t) PROVE Fifo!Next
      <3>1. /\ dequeuePosition < enqueuePosition
            /\ dequeuePosition' = dequeuePosition + 1
            /\ log' = log /\ enqueuePosition' = enqueuePosition
        BY <1>2, <2>2, PopWinsReadySlot DEF PopCasWin, history
      <3>2. dequeuePosition + 1 \in 1..Len(log) /\ enqueuePosition \in (dequeuePosition + 1)..Len(log)
        BY <2>t, <3>1
      <3>3. /\ Head(waiting) = log[dequeuePosition + 1]
            /\ Tail(waiting) = SubSeq(log, dequeuePosition + 1 + 1, enqueuePosition)
        BY <2>t, <3>2, HeadTailOfSubSeq
      <3>4. waiting' = Tail(waiting)
        BY <3>1, <3>3
      <3>5. given' = Append(given, Head(waiting))
        <4>1. given' = SubSeq(log, 1, dequeuePosition + 1)
          BY <3>1
        <4>2. SubSeq(log, 1, dequeuePosition + 1)
                 = Append(SubSeq(log, 1, dequeuePosition), log[dequeuePosition + 1])
          BY <2>t, <3>2
        <4> QED
          BY <3>3, <4>1, <4>2
      <3>6. waiting # << >>
        <4>1. \A i \in (dequeuePosition + 1)..enqueuePosition : log[i] \in Item
          BY <2>t
        <4>2. Len(waiting) = IF dequeuePosition + 1 <= enqueuePosition
                             THEN enqueuePosition - (dequeuePosition + 1) + 1 ELSE 0
          BY <2>t, <4>1, SubSeqProperties
        <4>3. Len(waiting) # 0
          BY <2>t, <3>1, <4>2
        <4>4. Len(<< >>) = 0
          OBVIOUS
        <4> HIDE DEF waiting
        <4> QED
          BY <4>3, <4>4
      <3>7. Fifo!Dequeue
        BY <3>4, <3>5, <3>6 DEF Fifo!Dequeue
      <3> QED
        BY <3>7 DEF Fifo!Next
    <2>3. ASSUME NEW t \in Thread, \/ Load(t) \/ StartPop(t) \/ PushWrite(t) \/ PushPublish(t)
                                   \/ PopMove(t) \/ PopRelease(t)
                                   \/ \E v \in Item : StartPush(t, v)
          PROVE  UNCHANGED <<waiting, given>>
      <3>1. UNCHANGED <<log, enqueuePosition, dequeuePosition>>
        BY <2>3 DEF Load, PushReady, PushFull, PushBehind, PushCasFail, PopReady, PopEmpty,
                    PopBehind, PopCasFail, StartPop, PushWrite, PushPublish, PopMove,
                    PopRelease, StartPush, shared, history
      <3> QED
        BY <2>0, <3>1
    <2>4. CASE Destroy
      BY <2>0, <2>4 DEF Destroy
    <2>5. CASE UNCHANGED vars
      BY <2>0, <2>5 DEF vars
    <2> QED
      BY <1>2, <2>1, <2>2, <2>3, <2>4, <2>5 DEF Next, PushStep, PopStep, Load
  <1> QED
    BY <1>1, <1>2, SpecInv, PTL DEF Spec, ImplementsFifo, Fifo!Spec
-----------------------------------------------------------------------------
\* When every load sees the latest value and no other operation is under way,
\* TryPush answers false only for a full ring and TryPop only for an empty one.
THEOREM RefusalIsJustified == ASSUME StaleReads = FALSE
                              PROVE  Spec => RefusalJustified
  <1>1. ASSUME Inv, NEW t \in Thread, OthersIdle(t)
        PROVE  /\ PushFull(t) => enqueuePosition - dequeuePosition = Capacity
               /\ PopEmpty(t) => enqueuePosition = dequeuePosition
    <2> DEFINE i == SlotOf(position[t])
               s == sequence[i]
    <2>t. /\ enqueuePosition \in Nat /\ dequeuePosition \in Nat /\ position[t] \in Nat
          /\ i \in Slots /\ s \in Nat /\ Capacity \in Nat /\ Capacity >= 2
          /\ dequeuePosition <= enqueuePosition
          /\ enqueuePosition <= dequeuePosition + Capacity
      BY <1>1, SlotOfPosition, CapacityFacts DEF Inv, TypeOK, PositionsInv
    <2>0. SeenSequence(i) = {s}
      BY DEF SeenSequence
    <2>1. ASSUME ~Holding(t)
          PROVE  /\ SlotOf(s) = i => enqueuePosition <= s
                 /\ SlotOf(s) # i => /\ 0 < s /\ SlotOf(s - 1) = i
                                     /\ dequeuePosition < s
      <3>1. \A u \in Thread : ~PushHolding(u) /\ ~PopHolding(u)
        BY <1>1, <2>1 DEF OthersIdle, Holding, PushHolding, PopHolding
      <3> QED
        BY <1>1, <2>t, <3>1 DEF Inv, FreeInv, ReadyInv
    <2>2. ASSUME PushFull(t) PROVE enqueuePosition - dequeuePosition = Capacity
      <3>1. pc[t] = "pushLoad" /\ s < position[t]
        BY <2>0, <2>2, <2>t DEF PushFull, SequenceDifference
      <3>2. position[t] <= enqueuePosition
        BY <1>1, <3>1 DEF Inv, LocalInv, Offering
      <3>3. SlotOf(s) # i /\ 0 < s /\ SlotOf(s - 1) = i /\ dequeuePosition < s
        BY <2>1, <2>t, <3>1, <3>2 DEF Holding
      <3>4. PICK q \in Nat : q = s - 1
        BY <2>t, <3>3
      <3>5. q + Capacity <= position[t]
        BY <2>t, <3>1, <3>3, <3>4, SameSlotApart
      <3> QED
        BY <2>t, <3>2, <3>3, <3>4, <3>5
    <2>3. ASSUME PopEmpty(t) PROVE enqueuePosition = dequeuePosition
      <3>1. pc[t] = "popLoad" /\ s < position[t] + 1
        BY <2>0, <2>3, <2>t DEF PopEmpty, SequenceDifference
      <3>2. position[t] <= dequeuePosition
        BY <1>1, <3>1 DEF Inv, LocalInv
      <3>3. enqueuePosition <= s
        BY <2>1, <2>t, <3>1, <3>2 DEF Holding
      <3> QED
        BY <2>t, <3>1, <3>2, <3>3
    <2> QED
      BY <2>2, <2>3
  <1>2. ASSUME Inv
        PROVE  [\A t \in Thread : OthersIdle(t) =>
                  /\ PushFull(t) => enqueuePosition - dequeuePosition = Capacity
                  /\ PopEmpty(t) => enqueuePosition = dequeuePosition]_vars
    BY <1>1, <1>2
  <1> QED
    BY <1>2, SpecInv, PTL DEF RefusalJustified
=============================================================================
