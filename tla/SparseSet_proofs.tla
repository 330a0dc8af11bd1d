-------------------------- MODULE SparseSet_proofs --------------------------
(***************************************************************************)
(* The sparse set is the map of handles that HandleMap describes, for any  *)
(* first size, any mask and any sequence of calls.                         *)
(*                                                                         *)
(* What has to be known of the container is said of the record, not of the *)
(* variable, so that the operations can be taken one by one: the slots and *)
(* the dense array name each other (Placed, Used), the free slots form a   *)
(* list that meets each of them once and ends at the size (FreeList), and  *)
(* a slot has left every handle that was issued for it behind, but the one *)
(* in use (IssuedBefore).  The list and the dense array together have as   *)
(* many places as there are slots: this is why a position fits the bits of *)
(* a slot, and a full container has its head at its size.                  *)
(*                                                                         *)
(* Two more follow.  The component pools of the world sandbox, which have  *)
(* no generations of their own, are the maps they stand for.  A flush of   *)
(* the EntityManager, a loop of removals over handles collected before,    *)
(* removes what was marked: its recursion is shown to have a solution, by  *)
(* the least number that had none, and each removal to take one handle     *)
(* from what the set shows.                                                *)
(***************************************************************************)
EXTENDS Containers, FiniteSetTheorems, WellFoundedInduction, TLAPS

Slot == [used : BOOLEAN, packed : 0..Mask, generation : 1..(MaxGeneration + 1)]
Item == [value : Value, handle : Handle]

Slots(s) == 0..(s.size - 1)

Shape(s) ==
    /\ s = [head |-> s.head, size |-> s.size, sparse |-> s.sparse, dense |-> s.dense]
    /\ s.size \in 1..Mask
    /\ s.head \in 0..s.size
    /\ s.sparse \in [Slots(s) -> Slot]
    /\ s.dense \in Seq(Item)

\* The free slots in the order in which Add will take them: list[1] is the head.
FreeList(s, length, list) ==
    /\ length \in Nat
    /\ list \in [1..length -> Slots(s)]
    /\ length + Len(s.dense) = s.size
    /\ \A m, n \in 1..length : list[m] = list[n] => m = n
    /\ \A n \in 1..length : /\ ~s.sparse[list[n]].used
                            /\ s.sparse[list[n]].packed =
                                   (IF n < length THEN list[n + 1] ELSE s.size)
    /\ s.head = (IF length = 0 THEN s.size ELSE list[1])
    /\ \A i \in Slots(s) : ~s.sparse[i].used => \E n \in 1..length : list[n] = i

\* The slot of each value names its position ...
Placed(s) ==
    \A p \in 1..Len(s.dense) :
        /\ s.dense[p].handle.index \in Slots(s)
        /\ s.sparse[s.dense[p].handle.index] =
               [used |-> TRUE, packed |-> p - 1, generation |-> s.dense[p].handle.generation]

\* ... and each slot in use a position with its own handle.
Used(s) ==
    \A i \in Slots(s) : s.sparse[i].used =>
        /\ s.sparse[i].packed < Len(s.dense)
        /\ s.dense[s.sparse[i].packed + 1].handle =
               [index |-> i, generation |-> s.sparse[i].generation]

Sound(s) == Shape(s) /\ (\E length, list : FreeList(s, length, list)) /\ Placed(s) /\ Used(s)

IssuedBefore(s, handles) ==
    \A h \in handles : /\ h.index \in Slots(s)
                       /\ h.generation \in Nat
                       /\ h.generation <= s.sparse[h.index].generation
                       /\ h.generation = s.sparse[h.index].generation => s.sparse[h.index].used

Inv == Sound(set) /\ IssuedBefore(set, issued)
-----------------------------------------------------------------------------
LEMMA Sizes == /\ InitialSize \in Nat /\ InitialSize >= 1 /\ InitialSize <= Mask
               /\ Mask \in Nat /\ MaxGeneration \in Nat
  BY SparseSetAssumption

LEMMA SlotShape ==
  ASSUME NEW used \in BOOLEAN, NEW packed \in 0..Mask, NEW generation \in 1..(MaxGeneration + 1)
  PROVE  [used |-> used, packed |-> packed, generation |-> generation] \in Slot
  BY DEF Slot

LEMMA SlotFields ==
  ASSUME NEW s, Shape(s), NEW i \in Slots(s)
  PROVE  /\ s.sparse[i] \in Slot
         /\ s.sparse[i].used \in BOOLEAN
         /\ s.sparse[i].packed \in 0..Mask /\ s.sparse[i].packed \in Nat
         /\ s.sparse[i].generation \in 1..(MaxGeneration + 1)
         /\ s.sparse[i] = [used |-> s.sparse[i].used, packed |-> s.sparse[i].packed,
                           generation |-> s.sparse[i].generation]
  <1>1. s.sparse[i] \in Slot
    BY DEF Shape
  <1> QED
    BY <1>1 DEF Slot

LEMMA ItemFields ==
  ASSUME NEW s, Shape(s), NEW p \in 1..Len(s.dense)
  PROVE  /\ s.dense[p] \in Item /\ s.dense[p].handle \in Handle
         /\ s.dense[p].handle = [index |-> s.dense[p].handle.index,
                                 generation |-> s.dense[p].handle.generation]
         /\ s.dense[p].value \in Value
  <1>1. s.dense[p] \in Item
    BY DEF Shape
  <1> QED
    BY <1>1 DEF Item, Handle

\* Contain looks at five things; three of them follow from the first two.
LEMMA ContainIs ==
  ASSUME NEW s, Sound(s), NEW h \in Handle
  PROVE  Contain(s, h) <=> /\ h.index \in Slots(s)
                           /\ s.sparse[h.index].used
                           /\ s.sparse[h.index].generation = h.generation
  <1>1. /\ h.index \in Nat /\ h = [index |-> h.index, generation |-> h.generation]
        /\ s.size \in Nat
    BY Sizes DEF Handle, Sound, Shape
  <1>2. h.index < s.size <=> h.index \in Slots(s)
    BY <1>1 DEF Slots
  <1>3. ASSUME h.index \in Slots(s), s.sparse[h.index].used,
               s.sparse[h.index].generation = h.generation
        PROVE  /\ s.sparse[h.index].packed < Len(s.dense)
               /\ s.dense[s.sparse[h.index].packed + 1].handle = h
    BY <1>1, <1>3 DEF Sound, Used
  <1> QED
    BY <1>2, <1>3 DEF Contain
-----------------------------------------------------------------------------
(***************************************************************************)
(* The operations                                                          *)
(***************************************************************************)
\* Every slot free, linked from the first to the last.
LEMMA AllFreeSound ==
  ASSUME NEW s, Shape(s), s.head = 0, s.dense = << >>,
         \A i \in Slots(s) : ~s.sparse[i].used /\ s.sparse[i].packed = i + 1
  PROVE  Sound(s) /\ \A h \in Handle : ~Contain(s, h)
  <1>1. s.size \in Nat /\ s.size >= 1
    BY Sizes DEF Shape
  <1>2. \A i \in Slots(s) : i \in Nat /\ i < s.size
    BY <1>1 DEF Slots
  <1>3. \E length, list : FreeList(s, length, list)
    <2>1. PICK list : list = [n \in 1..s.size |-> n - 1]
      OBVIOUS
    <2>2. /\ list \in [1..s.size -> Slots(s)]
          /\ \A n \in 1..s.size : list[n] = n - 1 /\ list[n] \in Slots(s)
      BY <1>1, <2>1 DEF Slots
    <2>3. \A m, n \in 1..s.size : list[m] = list[n] => m = n
      BY <1>1, <2>2
    <2>4. ASSUME NEW n \in 1..s.size
          PROVE  /\ ~s.sparse[list[n]].used
                 /\ s.sparse[list[n]].packed = (IF n < s.size THEN list[n + 1] ELSE s.size)
      <3>1. ~s.sparse[list[n]].used /\ s.sparse[list[n]].packed = n
        <4>1. n \in Nat /\ list[n] = n - 1 /\ list[n] \in Slots(s) /\ (n - 1) + 1 = n
          BY <1>1, <2>2
        <4>2. ~s.sparse[list[n]].used /\ s.sparse[list[n]].packed = list[n] + 1
          BY <4>1
        <4> QED
          BY <4>1, <4>2
      <3>2. n < s.size => list[n + 1] = n
        BY <1>1, <2>2
      <3> QED
        BY <1>1, <3>1, <3>2
    <2>5. s.size + Len(s.dense) = s.size /\ s.head = list[1] /\ s.size # 0
      BY <1>1, <2>2
    <2>6. ASSUME NEW i \in Slots(s) PROVE \E n \in 1..s.size : list[n] = i
      <3>1. i + 1 \in 1..s.size /\ (i + 1) - 1 = i
        BY <1>1, <1>2
      <3>2. list[i + 1] = i
        BY <2>2, <3>1
      <3> QED
        BY <3>1, <3>2
    <2>7. FreeList(s, s.size, list)
      BY <1>1, <2>2, <2>3, <2>4, <2>5, <2>6 DEF FreeList
    <2> QED
      BY <2>7
  <1>4. Placed(s) /\ Used(s)
    <2>1. \A p \in 1..Len(s.dense) : FALSE
      OBVIOUS
    <2> QED
      BY <2>1 DEF Placed, Used
  <1>5. Sound(s)
    BY <1>3, <1>4 DEF Sound
  <1>6. \A h \in Handle : ~Contain(s, h)
    BY <1>5, ContainIs
  <1> QED
    BY <1>5, <1>6

LEMMA EmptySound == Sound(Empty) /\ \A h \in Handle : ~Contain(Empty, h)
  <1>1. PICK s : s = Empty
    OBVIOUS
  <1>2. /\ s.head = 0 /\ s.size = InitialSize /\ s.dense = << >>
        /\ s.sparse = [i \in 0..(InitialSize - 1) |-> FreeSlot(i + 1, 1)]
        /\ s = [head |-> s.head, size |-> s.size, sparse |-> s.sparse, dense |-> s.dense]
    BY <1>1 DEF Empty
  <1>3. /\ Slots(s) = 0..(InitialSize - 1)
        /\ \A i \in Slots(s) : i \in Nat /\ i < s.size
    BY <1>2, Sizes DEF Slots
  <1>4. ASSUME NEW i \in Slots(s)
        PROVE  /\ ~s.sparse[i].used /\ s.sparse[i].packed = i + 1
               /\ s.sparse[i] \in Slot
    <2>1. s.sparse[i] = [used |-> FALSE, packed |-> i + 1, generation |-> 1]
      BY <1>2, <1>3 DEF FreeSlot
    <2>2. i + 1 \in 0..Mask /\ 1 \in 1..(MaxGeneration + 1)
      BY <1>2, <1>3, Sizes
    <2>3. [used |-> FALSE, packed |-> i + 1, generation |-> 1] \in Slot
      BY <2>2 DEF Slot
    <2> QED
      BY <2>1, <2>3
  <1>5. Shape(s)
    <2>1. s.sparse \in [Slots(s) -> Slot]
      BY <1>2, <1>3, <1>4
    <2>2. s.size \in 1..Mask /\ s.head \in 0..s.size /\ s.dense \in Seq(Item)
      BY <1>2, <1>3, Sizes
    <2> QED
      BY <1>2, <2>1, <2>2 DEF Shape
  <1> QED
    BY <1>1, <1>2, <1>4, <1>5, AllFreeSound

\* Clear leaves every slot free, under a new generation.
LEMMA ClearedSound ==
  ASSUME NEW s, Sound(s), NEW t, t = Cleared(s), Bounded(t)
  PROVE  /\ Sound(t) /\ \A h \in Handle : ~Contain(t, h)
         /\ Slots(t) = Slots(s)
         /\ \A i \in Slots(s) : t.sparse[i].generation = s.sparse[i].generation + 1
  <1>1. /\ Shape(s) /\ s.size \in 1..Mask /\ s.size \in Nat /\ s.sparse \in [Slots(s) -> Slot]
        /\ s = [head |-> s.head, size |-> s.size, sparse |-> s.sparse, dense |-> s.dense]
    BY Sizes DEF Sound, Shape
  <1>2. /\ t.head = 0 /\ t.size = s.size /\ t.dense = << >>
        /\ t.sparse = [i \in Slots(s) |-> FreeSlot(i + 1, s.sparse[i].generation + 1)]
        /\ t = [head |-> t.head, size |-> t.size, sparse |-> t.sparse, dense |-> t.dense]
    BY <1>1 DEF Cleared
  <1>3. Slots(t) = Slots(s) /\ \A i \in Slots(s) : i \in Nat /\ i < s.size
    BY <1>1, <1>2 DEF Slots
  <1>4. ASSUME NEW i \in Slots(t)
        PROVE  /\ ~t.sparse[i].used /\ t.sparse[i].packed = i + 1
               /\ t.sparse[i].generation = s.sparse[i].generation + 1
               /\ t.sparse[i] \in Slot
    <2>1. t.sparse[i] = [used |-> FALSE, packed |-> i + 1,
                         generation |-> s.sparse[i].generation + 1]
      BY <1>2, <1>3 DEF FreeSlot
    <2>2. /\ s.sparse[i].generation \in 1..(MaxGeneration + 1)
          /\ t.sparse[i].generation <= MaxGeneration
      BY <1>1, <1>2, <1>3, SlotFields DEF Bounded
    <2>3. PICK generation : generation = s.sparse[i].generation + 1
      OBVIOUS
    <2>4. i + 1 \in 0..Mask /\ generation \in 1..(MaxGeneration + 1)
      BY <1>1, <1>3, <2>1, <2>2, <2>3, Sizes
    <2>5. [used |-> FALSE, packed |-> i + 1, generation |-> generation] \in Slot
      BY <2>4 DEF Slot
    <2> QED
      BY <2>1, <2>3, <2>5
  <1>5. Shape(t)
    <2>1. t.sparse \in [Slots(t) -> Slot]
      BY <1>2, <1>3, <1>4
    <2>2. t.head \in 0..t.size /\ t.dense \in Seq(Item)
      BY <1>1, <1>2
    <2> QED
      BY <1>1, <1>2, <2>1, <2>2 DEF Shape
  <1> QED
    BY <1>2, <1>3, <1>4, <1>5, AllFreeSound

\* Doubling the slots changes nothing that a handle can see, and leaves a slot at the head.
LEMMA ResizeSound ==
  ASSUME NEW s, Sound(s), CanResize(s), NEW t, t = ResizeSparse(s)
  PROVE  /\ Sound(t) /\ t.head < t.size
         /\ t.dense = s.dense
         /\ Slots(s) \subseteq Slots(t) /\ \A i \in Slots(s) : t.sparse[i] = s.sparse[i]
         /\ \A i \in Slots(t) \ Slots(s) : ~t.sparse[i].used
  <1>1. /\ Shape(s) /\ Placed(s) /\ Used(s)
        /\ s.size \in Nat /\ s.size >= 1 /\ s.size <= Mask /\ s.head \in Nat /\ s.head <= s.size
        /\ s.dense \in Seq(Item) /\ Len(s.dense) \in Nat
    BY Sizes DEF Sound, Shape
  <1>2. CASE s.head # s.size
    <2>1. t = s
      BY <1>2 DEF ResizeSparse
    <2> QED
      BY <1>1, <1>2, <2>1
  <1>3. CASE s.head = s.size
    <2>1. PICK length, list : FreeList(s, length, list)
      BY DEF Sound
    <2>2. length = 0 /\ Len(s.dense) = s.size
      <3>1. length # 0 => list[1] \in Slots(s) /\ s.head = list[1] /\ length \in Nat
        BY <2>1 DEF FreeList
      <3>2. \A i \in Slots(s) : i < s.size
        BY <1>1 DEF Slots
      <3>3. length = 0
        BY <1>1, <1>3, <3>1, <3>2
      <3> QED
        BY <1>1, <2>1, <3>3 DEF FreeList
    <2>3. 2 * s.size <= Mask
      BY <1>1, <1>3, Sizes DEF CanResize
    <2>4. /\ t.head = s.head /\ t.dense = s.dense /\ t.size = 2 * s.size
          /\ t.sparse = [i \in 0..(2 * s.size - 1) |->
                            IF i < s.size THEN s.sparse[i] ELSE FreeSlot(i + 1, 1)]
          /\ t = [head |-> t.head, size |-> t.size, sparse |-> t.sparse, dense |-> t.dense]
      BY <1>1, <1>3 DEF ResizeSparse, Shape
    <2>5. /\ \A i \in Slots(s) : i \in Nat /\ i < s.size
          /\ \A i \in Slots(t) : i \in Nat /\ i < 2 * s.size
          /\ Slots(s) \subseteq Slots(t)
          /\ \A i \in Slots(t) \ Slots(s) : i >= s.size
          /\ \A i \in Nat : s.size <= i /\ i < 2 * s.size => i \in Slots(t) \ Slots(s)
          /\ Slots(t) = 0..(2 * s.size - 1)
      BY <1>1, <2>4 DEF Slots
    <2>6. /\ \A i \in Slots(s) : t.sparse[i] = s.sparse[i]
          /\ \A i \in Slots(t) \ Slots(s) :
                t.sparse[i] = [used |-> FALSE, packed |-> i + 1, generation |-> 1]
      <3>1. ASSUME NEW i \in Slots(s) PROVE t.sparse[i] = s.sparse[i]
        BY <2>4, <2>5
      <3>2. ASSUME NEW i \in Slots(t) \ Slots(s)
            PROVE  t.sparse[i] = [used |-> FALSE, packed |-> i + 1, generation |-> 1]
        <4>1. i \in 0..(2 * s.size - 1) /\ i \in Nat /\ s.size \in Nat /\ ~(i < s.size)
          BY <1>1, <2>5
        <4>2. t.sparse[i] = FreeSlot(i + 1, 1)
          BY <2>4, <4>1
        <4> QED
          BY <4>2 DEF FreeSlot
      <3> QED
        BY <3>1, <3>2
    <2>7. ASSUME NEW i \in Slots(t) \ Slots(s)
          PROVE  t.sparse[i].used = FALSE /\ t.sparse[i].packed = i + 1
      <3>1. t.sparse[i] = [used |-> FALSE, packed |-> i + 1, generation |-> 1]
        BY <2>6
      <3> QED
        BY <3>1
    <2>8. Shape(t)
      <3>1. ASSUME NEW i \in Slots(t) PROVE t.sparse[i] \in Slot
        <4>1. CASE i \in Slots(s)
          BY <1>1, <2>6, <4>1, SlotFields
        <4>2. CASE i \notin Slots(s)
          <5>1. i + 1 \in 0..Mask /\ 1 \in 1..(MaxGeneration + 1)
            BY <1>1, <2>3, <2>5, Sizes
          <5>2. [used |-> FALSE, packed |-> i + 1, generation |-> 1] \in Slot
            BY <5>1 DEF Slot
          <5> QED
            BY <2>6, <4>2, <5>2
        <4> QED
          BY <4>1, <4>2
      <3>2. t.sparse \in [Slots(t) -> Slot]
        BY <2>4, <2>5, <3>1
      <3>3. t.size \in 1..Mask /\ t.head \in 0..t.size /\ t.dense \in Seq(Item)
        BY <1>1, <1>3, <2>3, <2>4, Sizes
      <3> QED
        BY <2>4, <3>2, <3>3 DEF Shape
    <2>9. \E l : FreeList(t, s.size, l)
      <3>1. PICK l : l = [n \in 1..s.size |-> s.size + n - 1]
        OBVIOUS
      <3>2. ASSUME NEW n \in 1..s.size
            PROVE  /\ l[n] = s.size + n - 1 /\ n \in Nat /\ 1 <= n /\ n <= s.size
                   /\ l[n] \in Slots(t) \ Slots(s)
        <4>1. n \in Nat /\ 1 <= n /\ n <= s.size /\ l[n] = s.size + n - 1
          BY <1>1, <3>1
        <4>2. s.size + n - 1 \in Nat /\ s.size <= s.size + n - 1 /\ s.size + n - 1 < 2 * s.size
          BY <1>1, <4>1
        <4> QED
          BY <2>5, <4>1, <4>2
      <3>3. \A m, n \in 1..s.size : l[m] = l[n] => m = n
        BY <1>1, <3>2
      <3>4. ASSUME NEW n \in 1..s.size
            PROVE  /\ ~t.sparse[l[n]].used
                   /\ t.sparse[l[n]].packed = (IF n < s.size THEN l[n + 1] ELSE t.size)
        <4>1. ~t.sparse[l[n]].used /\ t.sparse[l[n]].packed = l[n] + 1
          BY <2>7, <3>2
        <4>2. CASE n < s.size
          <5>1. n + 1 \in 1..s.size
            BY <1>1, <3>2, <4>2
          <5> QED
            BY <1>1, <3>2, <4>1, <4>2, <5>1
        <4>3. CASE ~(n < s.size)
          BY <1>1, <2>4, <3>2, <4>1, <4>3
        <4> QED
          BY <4>2, <4>3
      <3>5. t.head = l[1] /\ s.size + Len(t.dense) = t.size /\ s.size # 0
        <4>1. 1 \in 1..s.size
          BY <1>1
        <4>2. l[1] = s.size + 1 - 1
          BY <3>2, <4>1
        <4> QED
          BY <1>1, <1>3, <2>2, <2>4, <4>2
      <3>6. ASSUME NEW i \in Slots(t), ~t.sparse[i].used PROVE \E n \in 1..s.size : l[n] = i
        <4>1. i \notin Slots(s)
          <5>1. \A j \in Slots(s) : s.sparse[j].used
            BY <2>1, <2>2 DEF FreeList
          <5> QED
            BY <2>6, <3>6, <5>1
        <4>2. i \in Nat /\ s.size <= i /\ i < 2 * s.size
          BY <2>5, <4>1
        <4>3. i - s.size + 1 \in 1..s.size /\ s.size + (i - s.size + 1) - 1 = i
          BY <1>1, <4>2
        <4> QED
          BY <3>2, <4>3
      <3>7. l \in [1..s.size -> Slots(t)]
        BY <3>1, <3>2
      <3> QED
        BY <1>1, <3>3, <3>4, <3>5, <3>6, <3>7 DEF FreeList
    <2>10. Placed(t)
      BY <1>1, <2>4, <2>5, <2>6 DEF Placed
    <2>11. Used(t)
      <3>1. ASSUME NEW i \in Slots(t), t.sparse[i].used
            PROVE  /\ t.sparse[i].packed < Len(t.dense)
                   /\ t.dense[t.sparse[i].packed + 1].handle =
                          [index |-> i, generation |-> t.sparse[i].generation]
        <4>1. i \in Slots(s)
          BY <2>7, <3>1
        <4>2. t.sparse[i] = s.sparse[i] /\ t.dense = s.dense /\ s.sparse[i].used
          BY <2>4, <2>6, <3>1, <4>1
        <4> QED
          BY <1>1, <4>1, <4>2 DEF Used
      <3> QED
        BY <3>1 DEF Used
    <2>12. t.head < t.size
      BY <1>1, <1>3, <2>4
    <2> QED
      BY <2>4, <2>5, <2>6, <2>7, <2>8, <2>9, <2>10, <2>11, <2>12 DEF Sound
  <1> QED
    BY <1>2, <1>3

LEMMA MaskKeeps == ASSUME NEW n \in 0..Mask PROVE n % (Mask + 1) = n
  BY Sizes

\* What Add does to the state s: it takes the first free slot and leaves the others alone.
IsAdded(s, v, t) ==
    /\ Sound(t) /\ Slots(t) = Slots(s)
    /\ NextHandle(s) \in Handle
    /\ s.head \in Slots(s) /\ ~s.sparse[s.head].used
    /\ t.sparse[s.head].used /\ t.sparse[s.head].packed = Len(s.dense)
    /\ t.sparse[s.head].generation = s.sparse[s.head].generation
    /\ \A i \in Slots(s) \ {s.head} : t.sparse[i] = s.sparse[i]
    /\ t.dense = Append(s.dense, [value |-> v, handle |-> NextHandle(s)])

LEMMA AddedSound ==
  ASSUME NEW s, Sound(s), s.head < s.size, NEW v \in Value, NEW t, t = Added(s, v)
  PROVE  IsAdded(s, v, t)
  <1>1. /\ Shape(s) /\ Placed(s) /\ Used(s)
        /\ s.size \in Nat /\ s.size >= 1 /\ s.size <= Mask /\ s.head \in Nat
        /\ s.dense \in Seq(Item) /\ Len(s.dense) \in Nat
        /\ s.sparse \in [Slots(s) -> Slot]
    BY Sizes DEF Sound, Shape
  <1>2. PICK length, list : FreeList(s, length, list)
    BY DEF Sound
  <1>3. /\ length \in Nat /\ length >= 1 /\ length + Len(s.dense) = s.size
        /\ s.head = list[1] /\ 1 \in 1..length
        /\ \A n \in 1..length : list[n] \in Slots(s)
    <2>1. length # 0
      BY <1>1, <1>2 DEF FreeList
    <2> QED
      BY <1>2, <2>1 DEF FreeList
  <1>4. PICK head, next, generation, position :
            /\ head = s.head /\ next = s.sparse[head].packed
            /\ generation = s.sparse[head].generation /\ position = Len(s.dense)
    OBVIOUS
  <1>5. /\ head \in Slots(s) /\ head \in Nat /\ head < s.size
        /\ ~s.sparse[head].used
        /\ next = (IF 1 < length THEN list[2] ELSE s.size)
        /\ generation \in 1..(MaxGeneration + 1)
        /\ position \in Nat /\ position < s.size /\ position \in 0..Mask
    <2>1. head \in Slots(s) /\ ~s.sparse[head].used
          /\ next = (IF 1 < length THEN list[1 + 1] ELSE s.size)
      BY <1>2, <1>3, <1>4 DEF FreeList
    <2>2. position \in Nat /\ position < s.size /\ position \in 0..Mask
      BY <1>1, <1>3, <1>4, Sizes
    <2>3. generation \in 1..(MaxGeneration + 1)
      BY <1>1, <1>4, <2>1, SlotFields
    <2> QED
      BY <1>1, <1>4, <2>1, <2>2, <2>3
  <1>6. PICK h : h = NextHandle(s)
    OBVIOUS
  <1>7. /\ h = [index |-> head, generation |-> generation]
        /\ h.index = head /\ h.generation = generation /\ h \in Handle
    <2>1. head \in 0..Mask
      BY <1>1, <1>5, Sizes
    <2> QED
      BY <1>4, <1>5, <1>6, <2>1 DEF NextHandle, Handle
  <1>8. PICK item : item = [value |-> v, handle |-> h]
    OBVIOUS
  <1>9. item \in Item /\ item.handle = h /\ item.value = v
    BY <1>7, <1>8 DEF Item
  <1>10. /\ t = [head |-> t.head, size |-> t.size, sparse |-> t.sparse, dense |-> t.dense]
         /\ t.head = next /\ t.size = s.size /\ t.dense = Append(s.dense, item)
         /\ t.sparse = [s.sparse EXCEPT ![head] = UsedSlot(position, @.generation)]
    BY <1>1, <1>4, <1>6, <1>8 DEF Added, Shape
  <1>11. Slots(t) = Slots(s) /\ \A i \in Slots(s) : i \in Nat /\ i < s.size
    BY <1>1, <1>10 DEF Slots
  <1>12. /\ t.sparse[head] = [used |-> TRUE, packed |-> position, generation |-> generation]
         /\ \A i \in Slots(s) \ {head} : t.sparse[i] = s.sparse[i]
    <2>1. UsedSlot(position, generation) =
              [used |-> TRUE, packed |-> position, generation |-> generation]
      BY <1>5, MaskKeeps DEF UsedSlot
    <2> QED
      BY <1>1, <1>4, <1>5, <1>10, <2>1
  <1>13. /\ t.dense \in Seq(Item) /\ Len(t.dense) = position + 1
         /\ t.dense[position + 1] = item
         /\ \A p \in 1..position : t.dense[p] = s.dense[p]
    BY <1>1, <1>4, <1>9, <1>10
  <1>14. next \in 0..s.size
    <2>1. CASE 1 < length
      <3>1. list[2] \in Slots(s)
        BY <1>3, <2>1
      <3>2. next = list[2]
        BY <1>5, <2>1
      <3>3. next \in Nat /\ next < s.size
        BY <1>11, <3>1, <3>2
      <3> QED
        BY <1>1, <3>3
    <2>2. CASE ~(1 < length)
      BY <1>1, <1>5, <2>2
    <2> QED
      BY <2>1, <2>2
  <1>15. Shape(t)
    <2>1. [used |-> TRUE, packed |-> position, generation |-> generation] \in Slot
      BY <1>5 DEF Slot
    <2>2. \A i \in Slots(t) : t.sparse[i] \in Slot
      BY <1>1, <1>11, <1>12, <2>1
    <2>3. t.sparse \in [Slots(t) -> Slot]
      BY <1>1, <1>10, <1>11, <2>2
    <2> QED
      BY <1>1, <1>10, <1>13, <1>14, <2>3 DEF Shape
  <1>16. \E k, l : FreeList(t, k, l)
    <2>1. PICK k, l : k = length - 1 /\ l = [n \in 1..k |-> list[n + 1]]
      OBVIOUS
    <2>2. k \in Nat /\ k + 1 = length
      BY <1>3, <2>1
    <2>3. ASSUME NEW n \in 1..k
          PROVE  /\ n \in Nat /\ n + 1 \in 1..length /\ n + 1 # 1
                 /\ l[n] = list[n + 1] /\ l[n] \in Slots(t) /\ l[n] # head
                 /\ t.sparse[l[n]] = s.sparse[list[n + 1]]
      <3>1. n \in Nat /\ n + 1 \in 1..length /\ n + 1 # 1
        BY <2>2
      <3>2. l[n] = list[n + 1] /\ l[n] \in Slots(t)
        BY <1>3, <1>11, <2>1, <3>1
      <3>3. l[n] # head
        BY <1>2, <1>3, <1>4, <3>1, <3>2 DEF FreeList
      <3> QED
        BY <1>11, <1>12, <3>1, <3>2, <3>3
    <2>4. l \in [1..k -> Slots(t)]
      BY <2>1, <2>3
    <2>5. \A m, n \in 1..k : l[m] = l[n] => m = n
      <3> SUFFICES ASSUME NEW m \in 1..k, NEW n \in 1..k, l[m] = l[n] PROVE m = n
        OBVIOUS
      <3>1. list[m + 1] = list[n + 1] /\ m + 1 \in 1..length /\ n + 1 \in 1..length
        BY <2>3
      <3>2. m + 1 = n + 1
        BY <1>2, <3>1 DEF FreeList
      <3> QED
        BY <2>3, <3>2
    <2>6. ASSUME NEW n \in 1..k
          PROVE  /\ ~t.sparse[l[n]].used
                 /\ t.sparse[l[n]].packed = (IF n < k THEN l[n + 1] ELSE t.size)
      <3>1. /\ ~s.sparse[list[n + 1]].used
            /\ s.sparse[list[n + 1]].packed =
                   (IF n + 1 < length THEN list[(n + 1) + 1] ELSE s.size)
        BY <1>2, <2>3 DEF FreeList
      <3>2. n < k => n + 1 \in 1..k
        BY <2>2, <2>3
      <3>3. n < k <=> n + 1 < length
        BY <2>2, <2>3
      <3> QED
        BY <1>10, <2>3, <3>1, <3>2, <3>3
    <2>7. t.head = (IF k = 0 THEN t.size ELSE l[1])
      <3>1. CASE k = 0
        BY <1>5, <1>10, <2>2, <3>1
      <3>2. CASE k # 0
        <4>1. 1 \in 1..k /\ 1 < length /\ l[1] = list[1 + 1]
          BY <2>2, <2>3, <3>2
        <4> QED
          BY <1>5, <1>10, <3>2, <4>1
      <3> QED
        BY <3>1, <3>2
    <2>8. ASSUME NEW i \in Slots(t), ~t.sparse[i].used PROVE \E n \in 1..k : l[n] = i
      <3>1. i \in Slots(s) /\ i # head
        BY <1>11, <1>12, <2>8
      <3>2. PICK n \in 1..length : list[n] = i
        BY <1>2, <1>12, <2>8, <3>1 DEF FreeList
      <3>3. n # 1 /\ n \in Nat
        BY <1>3, <1>4, <3>1, <3>2
      <3>4. n - 1 \in 1..k /\ (n - 1) + 1 = n
        BY <2>2, <3>3
      <3> QED
        BY <2>3, <3>2, <3>4
    <2>9. k + Len(t.dense) = t.size
      <3>1. length + position = t.size
        BY <1>3, <1>4, <1>10
      <3>2. Len(t.dense) = position + 1
        BY <1>13
      <3>3. k + (position + 1) = (k + 1) + position
        BY <1>5, <2>2
      <3> QED
        BY <2>2, <3>1, <3>2, <3>3
    <2>10. FreeList(t, k, l)
      BY <2>2, <2>4, <2>5, <2>6, <2>7, <2>8, <2>9 DEF FreeList
    <2> QED
      BY <2>10
  <1>17. Placed(t)
    <2>1. ASSUME NEW p \in 1..Len(t.dense)
          PROVE  /\ t.dense[p].handle.index \in Slots(t)
                 /\ t.sparse[t.dense[p].handle.index] =
                       [used |-> TRUE, packed |-> p - 1, generation |-> t.dense[p].handle.generation]
      <3>1. CASE p = position + 1
        <4>1. t.dense[p].handle = h /\ p - 1 = position
          BY <1>5, <1>9, <1>13, <3>1
        <4> QED
          BY <1>5, <1>7, <1>11, <1>12, <4>1
      <3>2. CASE p # position + 1
        <4>1. p \in 1..position /\ p \in 1..Len(s.dense) /\ t.dense[p] = s.dense[p]
          BY <1>4, <1>5, <1>13, <3>2
        <4>2. PICK i : i = s.dense[p].handle.index
          OBVIOUS
        <4>3. i \in Slots(s) /\ s.sparse[i] = [used |-> TRUE, packed |-> p - 1,
                                               generation |-> s.dense[p].handle.generation]
          BY <1>1, <4>1, <4>2 DEF Placed
        <4>4. s.sparse[i].used
          BY <4>3
        <4>5. i # head
          BY <1>5, <4>4
        <4> QED
          BY <1>11, <1>12, <4>1, <4>2, <4>3, <4>5
      <3> QED
        BY <3>1, <3>2
    <2> QED
      BY <2>1 DEF Placed
  <1>18. Used(t)
    <2>1. ASSUME NEW i \in Slots(t), t.sparse[i].used
          PROVE  /\ t.sparse[i].packed < Len(t.dense)
                 /\ t.dense[t.sparse[i].packed + 1].handle =
                       [index |-> i, generation |-> t.sparse[i].generation]
      <3>1. CASE i = head
        <4>1. t.sparse[i].packed = position /\ t.sparse[i].generation = generation
          BY <1>12, <3>1
        <4> QED
          BY <1>5, <1>7, <1>9, <1>13, <3>1, <4>1
      <3>2. CASE i # head
        <4>1. i \in Slots(s) /\ t.sparse[i] = s.sparse[i] /\ s.sparse[i].used
          BY <1>11, <1>12, <2>1, <3>2
        <4>2. PICK q : q = s.sparse[i].packed
          OBVIOUS
        <4>3. /\ q \in Nat /\ q < Len(s.dense)
              /\ s.dense[q + 1].handle = [index |-> i, generation |-> s.sparse[i].generation]
          BY <1>1, <4>1, <4>2, SlotFields DEF Used
        <4>4. q + 1 \in 1..position /\ q < position + 1
          BY <1>4, <1>5, <4>3
        <4> QED
          BY <1>13, <4>1, <4>2, <4>3, <4>4
      <3> QED
        BY <3>1, <3>2
    <2> QED
      BY <2>1 DEF Used
  <1>19. Sound(t)
    BY <1>15, <1>16, <1>17, <1>18 DEF Sound
  <1> QED
    <2>1. /\ t.sparse[head].used /\ t.sparse[head].packed = Len(s.dense)
          /\ t.sparse[head].generation = generation
      BY <1>4, <1>12
    <2>2. head \in Slots(s) /\ ~s.sparse[head].used
      BY <1>5
    <2>3. t.dense = Append(s.dense, [value |-> v, handle |-> NextHandle(s)])
      BY <1>6, <1>8, <1>10
    <2>4. Slots(t) = Slots(s) /\ NextHandle(s) \in Handle
      BY <1>6, <1>7, <1>11
    <2>5. \A i \in Slots(s) \ {head} : t.sparse[i] = s.sparse[i]
      BY <1>12
    <2>6. head = s.head /\ generation = s.sparse[head].generation
      BY <1>4
    <2> QED
      BY <1>19, <2>1, <2>2, <2>3, <2>4, <2>5, <2>6 DEF IsAdded

\* The last value moves into the hole.
Filled(q, position) == SubSeq([q EXCEPT ![position + 1] = q[Len(q)]], 1, Len(q) - 1)

LEMMA HoleIsFilled ==
  ASSUME NEW S, NEW q \in Seq(S), NEW position \in Nat, position < Len(q),
         NEW d, d = Filled(q, position)
  PROVE  /\ d \in Seq(S) /\ Len(d) = Len(q) - 1
         /\ \A p \in 1..Len(d) : d[p] = (IF p = position + 1 THEN q[Len(q)] ELSE q[p])
  <1>1. Len(q) \in Nat /\ position + 1 \in 1..Len(q) /\ Len(q) \in 1..Len(q)
    OBVIOUS
  <1>2. PICK r : r = [q EXCEPT ![position + 1] = q[Len(q)]]
    OBVIOUS
  <1>3. /\ r \in Seq(S) /\ Len(r) = Len(q)
        /\ \A p \in 1..Len(q) : r[p] = (IF p = position + 1 THEN q[Len(q)] ELSE q[p])
    BY <1>1, <1>2
  <1>4. d = SubSeq(r, 1, Len(r) - 1)
    BY <1>2, <1>3 DEF Filled
  <1>5. /\ d \in Seq(S) /\ Len(d) = Len(r) - 1
        /\ \A p \in 1..Len(d) : d[p] = r[p]
    BY <1>1, <1>3, <1>4
  <1>6. \A p \in 1..Len(d) : p \in 1..Len(q)
    BY <1>1, <1>3, <1>5
  <1> QED
    BY <1>3, <1>5, <1>6

\* A removal counts the generation of its slot up: it stays within the bound if the handle was below it.
LEMMA RemovedBounded ==
  ASSUME NEW s, Sound(s), NEW h \in Handle, Contain(s, h),
         NEW t, t = Removed(s, h), Bounded(t)
  PROVE  h.generation <= MaxGeneration
  <1>1. /\ h.index \in Slots(s) /\ s.sparse[h.index].generation = h.generation
        /\ s.sparse \in [Slots(s) -> Slot] /\ h.generation \in Nat
    BY ContainIs DEF Sound, Shape, Handle
  <1>2. PICK position, slots :
            /\ position = s.sparse[h.index].packed
            /\ slots = IF position # Len(s.dense) - 1 THEN Relinked(s, position) ELSE s.sparse
    OBVIOUS
  <1>3. /\ t.sparse = [slots EXCEPT ![h.index] = FreeSlot(s.head, @.generation + 1)]
    BY <1>2 DEF Removed, Sound, Shape
  <1>4. DOMAIN slots = Slots(s) /\ slots[h.index].generation = h.generation
    <2>1. PICK moved : moved = s.dense[Len(s.dense)].handle.index
      OBVIOUS
    <2>2. Relinked(s, position) =
             [s.sparse EXCEPT ![moved] = UsedSlot(position, s.sparse[moved].generation)]
      BY <1>1, <2>1 DEF Relinked
    <2>3. /\ DOMAIN Relinked(s, position) = Slots(s)
          /\ Relinked(s, position)[h.index].generation = h.generation
      <3>1. CASE moved = h.index
        BY <1>1, <2>2, <3>1 DEF UsedSlot
      <3>2. CASE moved # h.index
        BY <1>1, <2>2, <3>2
      <3> QED
        BY <3>1, <3>2
    <2> QED
      BY <1>1, <1>2, <2>3
  <1>5. t.sparse[h.index].generation = h.generation + 1 /\ h.index \in DOMAIN t.sparse
    <2>1. PICK slot : slot = FreeSlot(s.head, slots[h.index].generation + 1)
      OBVIOUS
    <2>2. t.sparse = [slots EXCEPT ![h.index] = slot]
      BY <1>3, <2>1
    <2>3. t.sparse[h.index] = slot /\ DOMAIN t.sparse = DOMAIN slots
      BY <1>1, <1>4, <2>2
    <2>4. slot.generation = h.generation + 1
      BY <1>4, <2>1 DEF FreeSlot
    <2> QED
      BY <1>1, <1>4, <2>3, <2>4
  <1> QED
    BY <1>1, <1>5, Sizes DEF Bounded

\* Remove frees the slot of the handle; the other values keep their slots, though one of them
\* may get another position.
LEMMA RemovedSound ==
  ASSUME NEW s, Sound(s), NEW h \in Handle, Contain(s, h), h.generation <= MaxGeneration,
         NEW t, t = Removed(s, h)
  PROVE  /\ Sound(t) /\ Slots(t) = Slots(s) /\ h.index \in Slots(s)
         /\ ~t.sparse[h.index].used
         /\ t.sparse[h.index].generation = s.sparse[h.index].generation + 1
         /\ \A i \in Slots(s) \ {h.index} :
               /\ (t.sparse[i].used <=> s.sparse[i].used)
               /\ t.sparse[i].generation = s.sparse[i].generation
               /\ s.sparse[i].used => t.dense[t.sparse[i].packed + 1] =
                                      s.dense[s.sparse[i].packed + 1]
  <1>1. /\ Shape(s) /\ Placed(s) /\ Used(s)
        /\ s.size \in Nat /\ s.size >= 1 /\ s.size <= Mask /\ s.head \in 0..s.size
        /\ s.dense \in Seq(Item) /\ Len(s.dense) \in Nat
        /\ s.sparse \in [Slots(s) -> Slot]
        /\ s = [head |-> s.head, size |-> s.size, sparse |-> s.sparse, dense |-> s.dense]
    BY Sizes DEF Sound, Shape
  <1>2. PICK length, list : FreeList(s, length, list)
    BY DEF Sound
  <1>3. PICK hole, generation, position, count :
            /\ hole = h.index /\ generation = h.generation
            /\ position = s.sparse[hole].packed /\ count = Len(s.dense)
    OBVIOUS
  <1>4. /\ hole \in Slots(s) /\ s.sparse[hole].used /\ s.sparse[hole].generation = generation
        /\ h = [index |-> hole, generation |-> generation]
        /\ generation \in Nat
    BY <1>3, ContainIs DEF Handle
  <1>5. /\ position \in Nat /\ position < count /\ position + 1 \in 1..count
        /\ s.dense[position + 1].handle = h
        /\ count \in Nat /\ count \in 1..count /\ count <= s.size
    <2>1. position \in Nat
      BY <1>1, <1>3, <1>4, SlotFields
    <2>2. position < count /\ s.dense[position + 1].handle = h
      BY <1>1, <1>3, <1>4 DEF Used
    <2>3. count \in Nat /\ count <= s.size
      BY <1>1, <1>2, <1>3 DEF FreeList
    <2> QED
      BY <2>1, <2>2, <2>3
  <1>6. PICK moved : moved = s.dense[count].handle.index
    OBVIOUS
  <1>7. /\ moved \in Slots(s)
        /\ s.sparse[moved] = [used |-> TRUE, packed |-> count - 1,
                              generation |-> s.dense[count].handle.generation]
        /\ s.sparse[moved].used /\ s.sparse[moved].packed = count - 1
        /\ s.dense[count].handle.generation = s.sparse[moved].generation
    <2>1. /\ moved \in Slots(s)
          /\ s.sparse[moved] = [used |-> TRUE, packed |-> count - 1,
                                generation |-> s.dense[count].handle.generation]
      <3>1. Placed(s) /\ count \in 1..Len(s.dense)
        BY <1>1, <1>3, <1>5
      <3> QED
        BY <1>6, <3>1 DEF Placed
    <2> QED
      BY <2>1
  <1>8. moved = hole <=> position = count - 1
    <2>1. moved = hole => position = count - 1
      BY <1>3, <1>7
    <2>2. ASSUME position = count - 1 PROVE moved = hole
      <3>1. position + 1 = count
        BY <1>5, <2>2
      <3> QED
        BY <1>3, <1>5, <1>6, <3>1
    <2> QED
      BY <2>1, <2>2
  <1>9. PICK relinked : relinked = [used |-> TRUE, packed |-> position,
                                    generation |-> s.sparse[moved].generation]
    OBVIOUS
  <1>10. relinked = UsedSlot(position, s.sparse[moved].generation)
    <2>1. position \in 0..Mask
      BY <1>1, <1>5, Sizes
    <2> QED
      BY <1>9, <2>1, MaskKeeps DEF UsedSlot
  <1>11. PICK slots : slots = IF position # count - 1 THEN Relinked(s, position) ELSE s.sparse
    OBVIOUS
  <1>12. /\ slots \in [Slots(s) -> Slot]
         /\ \A i \in Slots(s) \ {hole} :
               slots[i] = (IF i = moved THEN relinked ELSE s.sparse[i])
         /\ slots[hole].generation = generation
    <2>1. CASE position = count - 1
      BY <1>1, <1>4, <1>8, <1>11, <2>1
    <2>2. CASE position # count - 1
      <3>1. relinked \in Slot
        <4>1. position \in 0..Mask /\ s.sparse[moved].generation \in 1..(MaxGeneration + 1)
          <5>1. s.sparse[moved].generation \in 1..(MaxGeneration + 1)
            BY <1>1, <1>7, SlotFields
          <5> QED
            BY <1>1, <1>5, <5>1, Sizes
        <4> QED
          BY <1>9, <4>1 DEF Slot
      <3>2. slots = [s.sparse EXCEPT ![moved] = relinked]
        BY <1>1, <1>3, <1>6, <1>7, <1>10, <1>11, <2>2 DEF Relinked
      <3>3. hole # moved
        BY <1>8, <2>2
      <3>4. slots \in [Slots(s) -> Slot]
        BY <1>1, <3>1, <3>2
      <3>5. \A i \in Slots(s) : slots[i] = (IF i = moved THEN relinked ELSE s.sparse[i])
        BY <1>1, <1>7, <3>2
      <3> QED
        BY <1>4, <3>3, <3>4, <3>5
    <2> QED
      BY <2>1, <2>2
  <1>13. /\ t = [head |-> t.head, size |-> t.size, sparse |-> t.sparse, dense |-> t.dense]
         /\ t.head = hole /\ t.size = s.size
         /\ t.sparse = [slots EXCEPT ![hole] = FreeSlot(s.head, @.generation + 1)]
         /\ t.dense = SubSeq([s.dense EXCEPT ![position + 1] = s.dense[count - 1 + 1]], 1, count - 1)
    BY <1>1, <1>3, <1>11 DEF Removed
  <1>14. Slots(t) = Slots(s) /\ \A i \in Slots(s) : i \in Nat /\ i < s.size
    BY <1>1, <1>13 DEF Slots
  <1>15. /\ t.sparse[hole] = [used |-> FALSE, packed |-> s.head, generation |-> generation + 1]
         /\ \A i \in Slots(s) \ {hole} :
               t.sparse[i] = (IF i = moved THEN relinked ELSE s.sparse[i])
    <2>1. t.sparse[hole] = FreeSlot(s.head, slots[hole].generation + 1)
      <3>1. slots \in [Slots(s) -> Slot] /\ hole \in Slots(s)
        BY <1>4, <1>12
      <3>2. t.sparse = [slots EXCEPT ![hole] = FreeSlot(s.head, @.generation + 1)]
        BY <1>13
      <3> QED
        BY <3>1, <3>2
    <2> QED
      BY <1>12, <1>13, <2>1 DEF FreeSlot
  <1>16. /\ ~t.sparse[hole].used /\ t.sparse[hole].packed = s.head
         /\ t.sparse[hole].generation = generation + 1
         /\ relinked.used /\ relinked.packed = position
         /\ relinked.generation = s.sparse[moved].generation
    BY <1>9, <1>15
  <1>17. /\ t.dense \in Seq(Item) /\ Len(t.dense) = count - 1
         /\ \A p \in 1..(count - 1) :
               t.dense[p] = (IF p = position + 1 THEN s.dense[count] ELSE s.dense[p])
    <2>1. t.dense = SubSeq([s.dense EXCEPT ![position + 1] = s.dense[count]], 1, count - 1)
      <3>1. count - 1 + 1 = count
        BY <1>5
      <3> QED
        BY <1>13, <3>1
    <2> QED
      <3>1. /\ t.dense \in Seq(Item) /\ Len(t.dense) = Len(s.dense) - 1
            /\ \A p \in 1..Len(t.dense) :
                  t.dense[p] = (IF p = position + 1 THEN s.dense[Len(s.dense)] ELSE s.dense[p])
        <4>1. PICK q, d : q = s.dense /\ d = t.dense
          OBVIOUS
        <4>2. q \in Seq(Item) /\ position \in Nat /\ position < Len(q)
          BY <1>1, <1>3, <1>5, <4>1
        <4>3. d = Filled(q, position)
          BY <1>3, <2>1, <4>1 DEF Filled
        <4>4. /\ d \in Seq(Item) /\ Len(d) = Len(q) - 1
              /\ \A p \in 1..Len(d) : d[p] = (IF p = position + 1 THEN q[Len(q)] ELSE q[p])
          BY <4>2, <4>3, HoleIsFilled
        <4> QED
          BY <4>1, <4>4
      <3> QED
        BY <1>3, <3>1
  <1>18. Shape(t)
    <2>1. generation + 1 \in 1..(MaxGeneration + 1)
      <3>1. generation <= MaxGeneration
        BY <1>3
      <3> QED
        BY <1>4, <3>1, Sizes
    <2>2. s.head \in 0..Mask
      BY <1>1, Sizes
    <2>3. t.sparse[hole] \in Slot
      <3>1. PICK g : g = generation + 1
        OBVIOUS
      <3>2. [used |-> FALSE, packed |-> s.head, generation |-> g] \in Slot
        BY <2>1, <2>2, <3>1 DEF Slot
      <3> QED
        BY <1>15, <3>1, <3>2
    <2>4. t.sparse \in [Slots(t) -> Slot]
      <3>1. PICK slot : slot = FreeSlot(s.head, slots[hole].generation + 1)
        OBVIOUS
      <3>2. t.sparse = [slots EXCEPT ![hole] = slot]
        BY <1>13, <3>1
      <3>3. slot \in Slot
        BY <1>4, <1>12, <2>3, <3>2
      <3> QED
        BY <1>12, <1>14, <3>2, <3>3
    <2>5. t.head \in 0..t.size /\ t.size \in 1..Mask
      BY <1>1, <1>4, <1>13, <1>14, Sizes
    <2> QED
      BY <1>13, <1>17, <2>4, <2>5 DEF Shape
  <1>19. \E k, l : FreeList(t, k, l)
    <2>1. PICK k, l : k = length + 1 /\ l = [n \in 1..k |-> IF n = 1 THEN hole ELSE list[n - 1]]
      OBVIOUS
    <2>2. length \in Nat /\ k \in Nat /\ k # 0 /\ 1 \in 1..k
      BY <1>2, <2>1 DEF FreeList
    <2>3. l[1] = hole
      BY <2>1, <2>2
    <2>4. ASSUME NEW n \in 1..k, n # 1
          PROVE  /\ n \in Nat /\ n - 1 \in 1..length /\ (n - 1) + 1 = n
                 /\ l[n] = list[n - 1] /\ l[n] \in Slots(s) /\ l[n] # hole
                 /\ ~s.sparse[l[n]].used
                 /\ t.sparse[l[n]] = s.sparse[l[n]]
      <3>1. n \in Nat /\ n - 1 \in 1..length /\ (n - 1) + 1 = n
        BY <2>1, <2>2, <2>4
      <3>2. l[n] = list[n - 1]
        BY <2>1, <2>4
      <3>3. l[n] \in Slots(s) /\ ~s.sparse[l[n]].used
        BY <1>2, <3>1, <3>2 DEF FreeList
      <3>4. l[n] # hole /\ l[n] # moved
        BY <1>4, <1>7, <3>3
      <3> QED
        BY <1>15, <3>1, <3>2, <3>3, <3>4
    <2>5. l \in [1..k -> Slots(t)]
      BY <1>4, <1>14, <2>1, <2>3, <2>4
    <2>6. \A m, n \in 1..k : l[m] = l[n] => m = n
      <3> SUFFICES ASSUME NEW m \in 1..k, NEW n \in 1..k, l[m] = l[n] PROVE m = n
        OBVIOUS
      <3>1. CASE m = 1 \/ n = 1
        BY <2>3, <2>4, <3>1
      <3>2. CASE m # 1 /\ n # 1
        <4>1. m - 1 \in 1..length /\ n - 1 \in 1..length /\ list[m - 1] = list[n - 1]
          BY <2>4, <3>2
        <4>2. m - 1 = n - 1
          BY <1>2, <4>1 DEF FreeList
        <4> QED
          BY <2>4, <3>2, <4>2
      <3> QED
        BY <3>1, <3>2
    <2>7. ASSUME NEW n \in 1..k
          PROVE  /\ ~t.sparse[l[n]].used
                 /\ t.sparse[l[n]].packed = (IF n < k THEN l[n + 1] ELSE t.size)
      <3>1. CASE n = 1
        <4>1. CASE length = 0
          <5>1. s.head = s.size
            BY <1>2, <4>1 DEF FreeList
          <5>2. ~(n < k)
            BY <2>1, <3>1, <4>1
          <5> QED
            BY <1>13, <1>16, <2>3, <3>1, <5>1, <5>2
        <4>2. CASE length # 0
          <5>1. s.head = list[1]
            BY <1>2, <4>2 DEF FreeList
          <5>2. n < k /\ 2 \in 1..k /\ n + 1 = 2 /\ 2 - 1 = 1 /\ 2 # 1
            BY <2>1, <2>2, <3>1, <4>2
          <5>3. l[2] = list[1]
            BY <2>4, <5>2
          <5> QED
            BY <1>16, <2>3, <3>1, <5>1, <5>2, <5>3
        <4> QED
          BY <4>1, <4>2
      <3>2. CASE n # 1
        <4>1. s.sparse[list[n - 1]].packed = (IF n - 1 < length THEN list[(n - 1) + 1] ELSE s.size)
          BY <1>2, <2>4, <3>2 DEF FreeList
        <4>2. n \in Nat /\ (n - 1) + 1 = n /\ l[n] = list[n - 1]
              /\ ~s.sparse[l[n]].used /\ t.sparse[l[n]] = s.sparse[l[n]]
          BY <2>4, <3>2
        <4>3. n - 1 < length <=> n < k
          BY <2>1, <2>2, <4>2
        <4>4. n < k => l[n + 1] = list[n]
          <5>1. n < k => n + 1 \in 1..k /\ n + 1 # 1 /\ (n + 1) - 1 = n
            BY <2>2, <3>2, <4>2
          <5> QED
            BY <2>4, <5>1
        <4> QED
          BY <1>13, <4>1, <4>2, <4>3, <4>4
      <3> QED
        BY <3>1, <3>2
    <2>8. ASSUME NEW i \in Slots(t), ~t.sparse[i].used PROVE \E n \in 1..k : l[n] = i
      <3>1. CASE i = hole
        BY <2>2, <2>3, <3>1
      <3>2. CASE i # hole
        <4>1. i \in Slots(s) /\ ~s.sparse[i].used
          BY <1>14, <1>15, <1>16, <2>8, <3>2
        <4>2. PICK n \in 1..length : list[n] = i
          BY <1>2, <4>1 DEF FreeList
        <4>3. n + 1 \in 1..k /\ n + 1 # 1 /\ (n + 1) - 1 = n
          BY <2>1, <2>2
        <4>4. l[n + 1] = i
          BY <2>4, <4>2, <4>3
        <4> QED
          BY <4>3, <4>4
      <3> QED
        BY <3>1, <3>2
    <2>9. k + Len(t.dense) = t.size
      <3>1. length + count = t.size
        BY <1>2, <1>3, <1>13 DEF FreeList
      <3>2. (length + 1) + (count - 1) = length + count
        BY <1>5, <2>2
      <3> QED
        BY <1>17, <2>1, <3>1, <3>2
    <2>10. FreeList(t, k, l)
      BY <1>13, <2>2, <2>3, <2>5, <2>6, <2>7, <2>8, <2>9 DEF FreeList
    <2> QED
      BY <2>10
  <1>20. Placed(t)
    <2>1. ASSUME NEW p \in 1..Len(t.dense)
          PROVE  /\ t.dense[p].handle.index \in Slots(t)
                 /\ t.sparse[t.dense[p].handle.index] =
                       [used |-> TRUE, packed |-> p - 1, generation |-> t.dense[p].handle.generation]
      <3>1. p \in 1..(count - 1) /\ p \in 1..count /\ p \in Nat /\ p # count /\ p - 1 # count - 1
        BY <1>5, <1>17
      <3>2. CASE p = position + 1
        <4>1. t.dense[p] = s.dense[count] /\ p - 1 = position /\ position # count - 1
          BY <1>5, <1>17, <3>1, <3>2
        <4>2. t.sparse[moved] = relinked
          BY <1>7, <1>8, <1>15, <4>1
        <4>3. /\ t.dense[p].handle.index = moved
              /\ t.dense[p].handle.generation = s.sparse[moved].generation
          BY <1>6, <1>7, <4>1
        <4>4. relinked = [used |-> TRUE, packed |-> p - 1,
                          generation |-> s.sparse[moved].generation]
          BY <1>9, <4>1
        <4>5. moved \in Slots(t)
          BY <1>7, <1>14
        <4> QED
          BY <4>2, <4>3, <4>4, <4>5
      <3>3. CASE p # position + 1
        <4>1. t.dense[p] = s.dense[p] /\ p - 1 # position
          BY <1>5, <1>17, <3>1, <3>3
        <4>2. PICK i : i = s.dense[p].handle.index
          OBVIOUS
        <4>3. i \in Slots(s) /\ s.sparse[i] = [used |-> TRUE, packed |-> p - 1,
                                               generation |-> s.dense[p].handle.generation]
          BY <1>1, <1>3, <3>1, <4>2 DEF Placed
        <4>4. s.sparse[i].packed = p - 1
          BY <4>3
        <4>5. i # hole /\ i # moved
          BY <1>3, <1>7, <3>1, <4>1, <4>4
        <4> QED
          BY <1>14, <1>15, <4>1, <4>2, <4>3, <4>5
      <3> QED
        BY <3>2, <3>3
    <2> QED
      BY <2>1 DEF Placed
  \* The slots in use after the removal, and where their values are.
  <1>21. ASSUME NEW i \in Slots(s), i # hole, s.sparse[i].used
         PROVE  /\ t.sparse[i].packed < count - 1
                /\ t.dense[t.sparse[i].packed + 1] = s.dense[s.sparse[i].packed + 1]
                /\ t.sparse[i].generation = s.sparse[i].generation
                /\ t.sparse[i].used
                /\ s.dense[s.sparse[i].packed + 1].handle =
                      [index |-> i, generation |-> s.sparse[i].generation]
    <2>1. PICK q : q = s.sparse[i].packed
      OBVIOUS
    <2>2. /\ q \in Nat /\ q < count
          /\ s.dense[q + 1].handle = [index |-> i, generation |-> s.sparse[i].generation]
      BY <1>1, <1>3, <1>21, <2>1, SlotFields DEF Used
    <2>3. s.dense[q + 1].handle.index = i
      BY <2>2
    <2>4. CASE i = moved
      <3>1. t.sparse[i] = relinked /\ q = count - 1 /\ q + 1 = count
        BY <1>5, <1>7, <1>15, <1>21, <2>1, <2>4
      <3>2. position # count - 1
        BY <1>8, <1>21, <2>4
      <3>3. position < count - 1 /\ position + 1 \in 1..(count - 1)
        BY <1>5, <3>2
      <3>4. t.dense[position + 1] = s.dense[count]
        BY <1>17, <3>3
      <3> QED
        BY <1>16, <2>1, <2>2, <2>4, <3>1, <3>3, <3>4
    <2>5. CASE i # moved
      <3>1. t.sparse[i] = s.sparse[i]
        BY <1>15, <1>21, <2>5
      <3>2. q # count - 1 /\ q # position
        <4>1. q + 1 # count
          BY <1>6, <2>3, <2>5
        <4>2. q # position
          BY <1>4, <1>5, <1>21, <2>3
        <4> QED
          BY <1>5, <2>2, <4>1, <4>2
      <3>3. q < count - 1 /\ q + 1 \in 1..(count - 1) /\ q + 1 # position + 1
        BY <1>5, <2>2, <3>2
      <3>4. t.dense[q + 1] = s.dense[q + 1]
        BY <1>17, <3>3
      <3> QED
        BY <1>21, <2>1, <2>2, <3>1, <3>3, <3>4
    <2> QED
      BY <2>4, <2>5
  <1>22. \A i \in Slots(s) \ {hole} : /\ (t.sparse[i].used <=> s.sparse[i].used)
                                      /\ t.sparse[i].generation = s.sparse[i].generation
    <2>1. ASSUME NEW i \in Slots(s) \ {hole}
          PROVE  /\ (t.sparse[i].used <=> s.sparse[i].used)
                 /\ t.sparse[i].generation = s.sparse[i].generation
      <3>1. CASE i = moved
        BY <1>7, <1>9, <1>15, <3>1
      <3>2. CASE i # moved
        BY <1>15, <3>2
      <3> QED
        BY <3>1, <3>2
    <2> QED
      BY <2>1
  <1>23. Used(t)
    <2>1. ASSUME NEW i \in Slots(t), t.sparse[i].used
          PROVE  /\ t.sparse[i].packed < Len(t.dense)
                 /\ t.dense[t.sparse[i].packed + 1].handle =
                       [index |-> i, generation |-> t.sparse[i].generation]
      <3>1. i \in Slots(s) /\ i # hole /\ s.sparse[i].used
        BY <1>14, <1>16, <1>22, <2>1
      <3> QED
        BY <1>17, <1>21, <3>1
    <2> QED
      BY <2>1 DEF Used
  <1>24. Sound(t)
    BY <1>18, <1>19, <1>20, <1>23 DEF Sound
  <1> QED
    BY <1>3, <1>4, <1>14, <1>16, <1>21, <1>22, <1>24
-----------------------------------------------------------------------------
(***************************************************************************)
(* What the handles see                                                    *)
(***************************************************************************)
\* Two states that find the same values under the same handles show the same map.
LEMMA SeenSame ==
  ASSUME NEW s, NEW t, NEW D,
         \A g \in Handle : Contain(t, g) <=> g \in D,
         \A g \in Handle : Contain(t, g) => TryGet(t, g) = TryGet(s, g),
         D \subseteq {g \in Handle : Contain(s, g)}
  PROVE  Seen(t) = [g \in D |-> Seen(s)[g]]
  <1>1. {g \in Handle : Contain(t, g)} = D
    OBVIOUS
  <1>2. \A g \in D : TryGet(t, g) = Seen(s)[g]
    BY DEF Seen
  <1> QED
    BY <1>1, <1>2 DEF Seen

\* Doubling the slots is not seen.
LEMMA ResizeUnseen ==
  ASSUME NEW s, Sound(s), CanResize(s), NEW t, t = ResizeSparse(s)
  PROVE  /\ \A g \in Handle : Contain(t, g) <=> Contain(s, g)
         /\ \A g \in Handle : Contain(s, g) => TryGet(t, g) = TryGet(s, g)
  <1>1. /\ Sound(t) /\ t.dense = s.dense
        /\ Slots(s) \subseteq Slots(t) /\ \A i \in Slots(s) : t.sparse[i] = s.sparse[i]
        /\ \A i \in Slots(t) \ Slots(s) : ~t.sparse[i].used
    BY ResizeSound
  <1>2. ASSUME NEW g \in Handle
        PROVE  /\ Contain(t, g) <=> Contain(s, g)
               /\ Contain(s, g) => TryGet(t, g) = TryGet(s, g)
    <2>1. Contain(t, g) <=> Contain(s, g)
      BY <1>1, ContainIs
    <2>2. Contain(s, g) => g.index \in Slots(s)
      BY ContainIs
    <2> QED
      BY <1>1, <2>1, <2>2 DEF TryGet, Entry
  <1> QED
    BY <1>2

\* After Add the new handle finds the new value and each other one what it found.
LEMMA AddSeen ==
  ASSUME NEW s, Sound(s), s.head < s.size, NEW v \in Value, NEW t, t = Added(s, v),
         NEW h, h = NextHandle(s)
  PROVE  /\ \A g \in Handle : Contain(t, g) <=> Contain(s, g) \/ g = h
         /\ ~Contain(s, h) /\ TryGet(t, h) = v
         /\ \A g \in Handle : Contain(s, g) => TryGet(t, g) = TryGet(s, g)
  <1>1. /\ Sound(t) /\ Slots(t) = Slots(s)
        /\ h \in Handle
        /\ s.head \in Slots(s) /\ ~s.sparse[s.head].used
        /\ t.sparse[s.head].used /\ t.sparse[s.head].packed = Len(s.dense)
        /\ t.sparse[s.head].generation = s.sparse[s.head].generation
        /\ \A i \in Slots(s) \ {s.head} : t.sparse[i] = s.sparse[i]
        /\ t.dense = Append(s.dense, [value |-> v, handle |-> h])
    <2>1. IsAdded(s, v, t)
      BY AddedSound
    <2> QED
      BY <2>1 DEF IsAdded
  <1>2. /\ h = [index |-> s.head, generation |-> s.sparse[s.head].generation]
        /\ h.index = s.head /\ h.generation = s.sparse[s.head].generation
    BY DEF NextHandle
  <1>3. /\ t.sparse[h.index].used /\ t.sparse[h.index].packed = Len(s.dense)
        /\ t.sparse[h.index].generation = h.generation
    BY <1>1, <1>2
  <1>4. ~Contain(s, h)
    BY <1>1, <1>2, ContainIs
  <1>5. Shape(s) /\ Used(s) /\ s.dense \in Seq(Item) /\ Len(s.dense) \in Nat
    BY DEF Sound, Shape
  <1>6. /\ t.dense[Len(s.dense) + 1] = [value |-> v, handle |-> h]
        /\ \A p \in 1..Len(s.dense) : t.dense[p] = s.dense[p]
    BY <1>1, <1>5
  <1>7. TryGet(t, h) = v
    BY <1>3, <1>6 DEF TryGet, Entry
  <1>8. ASSUME NEW g \in Handle
        PROVE  Contain(t, g) <=> Contain(s, g) \/ g = h
    <2>1. g = [index |-> g.index, generation |-> g.generation]
      BY DEF Handle
    <2>2. CASE g.index = s.head
      <3>1. Contain(t, g) <=> g.generation = h.generation
        BY <1>1, <1>2, <1>3, <2>2, ContainIs
      <3>2. g = h <=> g.generation = h.generation
        BY <1>2, <2>1, <2>2
      <3>3. ~Contain(s, g)
        BY <1>1, <2>2, ContainIs
      <3> QED
        BY <3>1, <3>2, <3>3
    <2>3. CASE g.index # s.head
      <3>1. g # h
        BY <1>2, <2>3
      <3>2. Contain(t, g) <=> Contain(s, g)
        BY <1>1, <2>3, ContainIs
      <3> QED
        BY <3>1, <3>2
    <2> QED
      BY <2>2, <2>3
  <1>9. ASSUME NEW g \in Handle, Contain(s, g) PROVE TryGet(t, g) = TryGet(s, g)
    <2>1. g.index \in Slots(s) /\ s.sparse[g.index].used
      BY <1>9, ContainIs
    <2>2. t.sparse[g.index] = s.sparse[g.index]
      BY <1>1, <2>1
    <2>3. PICK q : q = s.sparse[g.index].packed
      OBVIOUS
    <2>4. q \in Nat /\ q < Len(s.dense)
      BY <1>5, <2>1, <2>3, SlotFields DEF Used
    <2>5. t.dense[q + 1] = s.dense[q + 1]
      BY <1>5, <1>6, <2>4
    <2> QED
      BY <2>2, <2>3, <2>5 DEF TryGet, Entry
  <1> QED
    BY <1>4, <1>7, <1>8, <1>9

\* After Remove the handle finds nothing and each other one what it found.
LEMMA RemoveSeen ==
  ASSUME NEW s, Sound(s), NEW h \in Handle, Contain(s, h), h.generation <= MaxGeneration,
         NEW t, t = Removed(s, h)
  PROVE  /\ \A g \in Handle : Contain(t, g) <=> Contain(s, g) /\ g # h
         /\ \A g \in Handle : Contain(t, g) => TryGet(t, g) = TryGet(s, g)
  <1>1. /\ Sound(t) /\ Slots(t) = Slots(s) /\ h.index \in Slots(s)
        /\ ~t.sparse[h.index].used
        /\ t.sparse[h.index].generation = s.sparse[h.index].generation + 1
        /\ \A i \in Slots(s) \ {h.index} :
              /\ (t.sparse[i].used <=> s.sparse[i].used)
              /\ t.sparse[i].generation = s.sparse[i].generation
              /\ s.sparse[i].used => t.dense[t.sparse[i].packed + 1] =
                                     s.dense[s.sparse[i].packed + 1]
    BY RemovedSound
  <1>2. s.sparse[h.index].generation = h.generation
    BY ContainIs
  <1>3. ASSUME NEW g \in Handle
        PROVE  /\ Contain(t, g) <=> Contain(s, g) /\ g # h
               /\ Contain(t, g) => TryGet(t, g) = TryGet(s, g)
    <2>1. /\ g = [index |-> g.index, generation |-> g.generation]
          /\ h = [index |-> h.index, generation |-> h.generation]
      BY DEF Handle
    <2>2. CASE g.index = h.index
      <3>1. ~Contain(t, g)
        BY <1>1, <2>2, ContainIs
      <3>2. Contain(s, g) => g.generation = h.generation
        BY <1>2, <2>2, ContainIs
      <3> QED
        BY <2>1, <2>2, <3>1, <3>2
    <2>3. CASE g.index # h.index
      <3>1. Contain(t, g) <=> Contain(s, g)
        BY <1>1, <2>3, ContainIs
      <3>2. Contain(t, g) => g.index \in Slots(s) /\ s.sparse[g.index].used
        BY <3>1, ContainIs
      <3>3. Contain(t, g) => TryGet(t, g) = TryGet(s, g)
        BY <1>1, <2>3, <3>2 DEF TryGet, Entry
      <3> QED
        BY <2>3, <3>1, <3>3
    <2> QED
      BY <2>2, <2>3
  <1> QED
    BY <1>3
-----------------------------------------------------------------------------
(***************************************************************************)
(* The invariant                                                           *)
(***************************************************************************)
LEMMA GenerationIsNat ==
  ASSUME NEW s, Sound(s), NEW i \in Slots(s)
  PROVE  s.sparse[i].generation \in Nat
  <1>1. Shape(s)
    BY DEF Sound
  <1>2. s.sparse[i].generation \in 1..(MaxGeneration + 1)
    BY <1>1, SlotFields
  <1> QED
    BY <1>2, Sizes

LEMMA InitInv == Init => Inv
  BY EmptySound DEF Init, Inv, IssuedBefore

\* A state with a slot at its head gives out a handle that nobody has had.
LEMMA HandleIsNew ==
  ASSUME NEW s, Sound(s), s.head < s.size, NEW handles, IssuedBefore(s, handles)
  PROVE  NextHandle(s) \notin handles
  <1>1. PICK h : h = NextHandle(s)
    OBVIOUS
  <1>2. h.index = s.head /\ h.generation = s.sparse[s.head].generation
    BY <1>1 DEF NextHandle
  <1>3. ~s.sparse[s.head].used
    <2>1. PICK length, list : FreeList(s, length, list)
      BY DEF Sound
    <2>2. length # 0 /\ 1 \in 1..length
      BY <2>1 DEF FreeList
    <2> QED
      BY <2>1, <2>2 DEF FreeList
  <1> QED
    BY <1>1, <1>2, <1>3 DEF IssuedBefore

LEMMA AddKeeps ==
  ASSUME Inv, NEW v \in Value, Add(v)
  PROVE  Inv'
  <1>1. PICK s, t, h, handles : /\ s = ResizeSparse(set) /\ t = Added(s, v)
                                /\ h = NextHandle(s) /\ handles = issued \union {h}
    OBVIOUS
  <1>2. set' = t /\ issued' = handles
    BY <1>1 DEF Add
  <1>3. /\ Sound(s) /\ s.head < s.size
        /\ Slots(set) \subseteq Slots(s) /\ \A i \in Slots(set) : s.sparse[i] = set.sparse[i]
    BY <1>1, ResizeSound DEF Add, Inv
  <1>4. IssuedBefore(s, issued)
    BY <1>3 DEF Inv, IssuedBefore
  <1>5. /\ Sound(t) /\ Slots(t) = Slots(s) /\ h \in Handle
        /\ s.head \in Slots(s) /\ ~s.sparse[s.head].used
        /\ t.sparse[s.head].used /\ t.sparse[s.head].packed = Len(s.dense)
        /\ t.sparse[s.head].generation = s.sparse[s.head].generation
        /\ \A i \in Slots(s) \ {s.head} : t.sparse[i] = s.sparse[i]
    <2>1. IsAdded(s, v, t)
      BY <1>1, <1>3, AddedSound
    <2> QED
      BY <1>1, <2>1 DEF IsAdded
  <1>6. ASSUME NEW g \in handles
        PROVE  /\ g.index \in Slots(t) /\ g.generation \in Nat
               /\ g.generation <= t.sparse[g.index].generation
               /\ g.generation = t.sparse[g.index].generation => t.sparse[g.index].used
    <2>1. CASE g = h
      <3>1. /\ g.index = s.head /\ g.generation = s.sparse[s.head].generation
            /\ g.generation \in Nat
        BY <1>1, <1>5, <2>1 DEF NextHandle, Handle
      <3> QED
        BY <1>5, <3>1
    <2>2. CASE g \in issued
      <3>1. /\ g.index \in Slots(s) /\ g.generation \in Nat
            /\ g.generation <= s.sparse[g.index].generation
            /\ g.generation = s.sparse[g.index].generation => s.sparse[g.index].used
        BY <1>4, <2>2 DEF IssuedBefore
      <3> QED
        BY <1>5, <3>1
    <2> QED
      BY <1>1, <2>1, <2>2
  <1>7. IssuedBefore(t, handles)
    BY <1>6 DEF IssuedBefore
  <1> QED
    BY <1>2, <1>5, <1>7 DEF Inv

LEMMA NextInv == Inv /\ [Next]_vars => Inv'
  <1> SUFFICES ASSUME Inv, [Next]_vars PROVE Inv'
    OBVIOUS
  <1>1. CASE \E v \in Value : Add(v)
    BY <1>1, AddKeeps
  <1>2. CASE AddThrows
    <2>1. PICK t : t = ResizeSparse(set)
      OBVIOUS
    <2>2. /\ Sound(t) /\ Slots(set) \subseteq Slots(t)
          /\ \A i \in Slots(set) : t.sparse[i] = set.sparse[i]
      BY <1>2, <2>1, ResizeSound DEF AddThrows, Inv
    <2>3. IssuedBefore(t, issued)
      BY <2>2 DEF Inv, IssuedBefore
    <2> QED
      BY <1>2, <2>1, <2>2, <2>3 DEF AddThrows, Inv
  <1>3. CASE \E h \in Handle : Remove(h)
    <2>1. PICK h \in Handle : Remove(h)
      BY <1>3
    <2>2. PICK t : t = Removed(set, h)
      OBVIOUS
    <2>3. set' = t /\ Bounded(t) /\ issued' = issued
      BY <2>1, <2>2 DEF Remove
    <2>4. CASE ~Contain(set, h)
      BY <2>2, <2>3, <2>4 DEF Removed, Inv
    <2>5. CASE Contain(set, h)
      <3>1. /\ Sound(t) /\ Slots(t) = Slots(set) /\ h.index \in Slots(set)
            /\ ~t.sparse[h.index].used
            /\ t.sparse[h.index].generation = set.sparse[h.index].generation + 1
            /\ \A i \in Slots(set) \ {h.index} :
                  /\ (t.sparse[i].used <=> set.sparse[i].used)
                  /\ t.sparse[i].generation = set.sparse[i].generation
        <4>1. h.generation <= MaxGeneration
          BY <2>2, <2>3, <2>5, RemovedBounded DEF Inv
        <4> QED
          BY <2>2, <2>5, <4>1, RemovedSound DEF Inv
      <3>2. set.sparse[h.index].generation \in Nat
        BY <3>1, GenerationIsNat DEF Inv
      <3>3. ASSUME NEW g \in issued
            PROVE  /\ g.index \in Slots(t) /\ g.generation \in Nat
                   /\ g.generation <= t.sparse[g.index].generation
                   /\ g.generation = t.sparse[g.index].generation => t.sparse[g.index].used
        <4>1. /\ g.index \in Slots(set) /\ g.generation \in Nat
              /\ g.generation <= set.sparse[g.index].generation
              /\ g.generation = set.sparse[g.index].generation => set.sparse[g.index].used
          BY DEF Inv, IssuedBefore
        <4>2. CASE g.index = h.index
          BY <3>1, <3>2, <4>1, <4>2
        <4>3. CASE g.index # h.index
          BY <3>1, <4>1, <4>3
        <4> QED
          BY <4>2, <4>3
      <3>4. IssuedBefore(t, issued)
        BY <3>3 DEF IssuedBefore
      <3> QED
        BY <2>3, <3>1, <3>4 DEF Inv
    <2> QED
      BY <2>4, <2>5
  <1>4. CASE Clear
    <2>1. PICK t : t = Cleared(set)
      OBVIOUS
    <2>2. set' = t /\ Bounded(t) /\ issued' = issued
      BY <1>4, <2>1 DEF Clear
    <2>3. /\ Sound(t) /\ Slots(t) = Slots(set)
          /\ \A i \in Slots(set) : t.sparse[i].generation = set.sparse[i].generation + 1
      BY <2>1, <2>2, ClearedSound DEF Inv
    <2>4. ASSUME NEW g \in issued
          PROVE  /\ g.index \in Slots(t) /\ g.generation \in Nat
                 /\ g.generation <= t.sparse[g.index].generation
                 /\ g.generation = t.sparse[g.index].generation => t.sparse[g.index].used
      <3>1. /\ g.index \in Slots(set) /\ g.generation \in Nat
            /\ g.generation <= set.sparse[g.index].generation
        BY DEF Inv, IssuedBefore
      <3>2. set.sparse[g.index].generation \in Nat
        BY <3>1, GenerationIsNat DEF Inv
      <3> QED
        BY <2>3, <3>1, <3>2
    <2>5. IssuedBefore(t, issued)
      BY <2>4 DEF IssuedBefore
    <2> QED
      BY <2>2, <2>3, <2>5 DEF Inv
  <1>5. CASE UNCHANGED vars
    BY <1>5 DEF vars, Inv
  <1> QED
    BY <1>1, <1>2, <1>3, <1>4, <1>5 DEF Next

LEMMA SpecInv == Spec => []Inv
  BY InitInv, NextInv, PTL DEF Spec
-----------------------------------------------------------------------------
(***************************************************************************)
(* The refinement                                                          *)
(***************************************************************************)
LEMMA AddIsSeen ==
  ASSUME Inv, NEW v \in Value, Add(v)
  PROVE  \E h \in Handle : Handles!Add(h, v)
  <1>1. PICK s, t, h : s = ResizeSparse(set) /\ t = Added(s, v) /\ h = NextHandle(s)
    OBVIOUS
  <1>2. set' = t /\ issued' = issued \union {h}
    BY <1>1 DEF Add
  <1>3. Sound(set) /\ CanResize(set) /\ IssuedBefore(set, issued)
    BY DEF Add, Inv
  <1>4. /\ Sound(s) /\ s.head < s.size
        /\ Slots(set) \subseteq Slots(s) /\ \A i \in Slots(set) : s.sparse[i] = set.sparse[i]
    BY <1>1, <1>3, ResizeSound
  <1>5. h \notin issued /\ h \in Handle
    <2>1. IssuedBefore(s, issued)
      BY <1>3, <1>4 DEF IssuedBefore
    <2>2. NextHandle(s) \in Handle
      BY <1>1, <1>4, AddedSound DEF IsAdded
    <2> QED
      BY <1>1, <1>4, <2>1, <2>2, HandleIsNew
  <1>6. /\ \A g \in Handle : Contain(s, g) <=> Contain(set, g)
        /\ \A g \in Handle : Contain(set, g) => TryGet(s, g) = TryGet(set, g)
    BY Zenon, <1>1, <1>3, ResizeUnseen
  <1>7. /\ \A g \in Handle : Contain(t, g) <=> Contain(s, g) \/ g = h
        /\ ~Contain(s, h) /\ TryGet(t, h) = v
        /\ \A g \in Handle : Contain(s, g) => TryGet(t, g) = TryGet(s, g)
    <2>1. \A g \in Handle : Contain(t, g) <=> Contain(s, g) \/ g = h
      BY <1>1, <1>4, AddSeen
    <2>2. ~Contain(s, h) /\ TryGet(t, h) = v
      BY <1>1, <1>4, AddSeen
    <2>3. \A g \in Handle : Contain(s, g) => TryGet(t, g) = TryGet(s, g)
      BY <1>1, <1>4, AddSeen
    <2> QED
      BY <2>1, <2>2, <2>3
  <1>8. Seen(t) = [g \in DOMAIN Seen(set) \union {h} |-> IF g = h THEN v ELSE Seen(set)[g]]
    <2>1. DOMAIN Seen(set) = {g \in Handle : Contain(set, g)}
      BY DEF Seen
    <2>2. {g \in Handle : Contain(t, g)} = DOMAIN Seen(set) \union {h}
      BY <1>5, <1>6, <1>7, <2>1
    <2>3. ASSUME NEW g \in DOMAIN Seen(set) \union {h}
          PROVE  TryGet(t, g) = (IF g = h THEN v ELSE Seen(set)[g])
      <3>1. CASE g = h
        BY <1>7, <3>1
      <3>2. CASE g # h
        <4>1. g \in Handle /\ Contain(set, g)
          BY <2>1, <2>3, <3>2
        <4>2. Seen(set)[g] = TryGet(set, g)
          BY <4>1 DEF Seen
        <4> QED
          BY <1>6, <1>7, <3>2, <4>1, <4>2
      <3> QED
        BY <3>1, <3>2
    <2> QED
      BY <2>2, <2>3 DEF Seen
  <1> QED
    BY <1>2, <1>5, <1>8 DEF Handles!Add

LEMMA RemoveIsSeen ==
  ASSUME Inv, NEW h \in Handle, Remove(h)
  PROVE  \/ \E g \in DOMAIN Seen(set) : Handles!Remove(g)
         \/ UNCHANGED <<Seen(set), issued>>
  <1>1. PICK t : t = Removed(set, h)
    OBVIOUS
  <1>2. set' = t /\ Bounded(t) /\ issued' = issued /\ Sound(set)
    BY <1>1 DEF Remove, Inv
  <1>3. CASE ~Contain(set, h)
    BY <1>1, <1>2, <1>3 DEF Removed
  <1>4. CASE Contain(set, h)
    <2>1. /\ \A g \in Handle : Contain(t, g) <=> Contain(set, g) /\ g # h
          /\ \A g \in Handle : Contain(t, g) => TryGet(t, g) = TryGet(set, g)
      <3>1. h.generation <= MaxGeneration
        BY <1>1, <1>2, <1>4, RemovedBounded
      <3> QED
        BY <1>1, <1>2, <1>4, <3>1, RemoveSeen
    <2>2. PICK D : D = DOMAIN Seen(set) \ {h}
      OBVIOUS
    <2>3. DOMAIN Seen(set) = {g \in Handle : Contain(set, g)}
      BY DEF Seen
    <2>4. /\ \A g \in Handle : Contain(t, g) <=> g \in D
          /\ D \subseteq {g \in Handle : Contain(set, g)}
      BY <2>1, <2>2, <2>3
    <2>5. Seen(t) = [g \in D |-> Seen(set)[g]]
      BY <2>1, <2>4, SeenSame
    <2>6. h \in DOMAIN Seen(set)
      BY <1>4, <2>3
    <2>7. Handles!Remove(h)
      BY <1>2, <2>2, <2>5 DEF Handles!Remove, Handles!Keep
    <2> QED
      BY <2>6, <2>7
  <1> QED
    BY <1>3, <1>4

LEMMA ClearIsSeen == Inv /\ Clear => Handles!Clear
  <1> SUFFICES ASSUME Inv, Clear PROVE Handles!Clear
    OBVIOUS
  <1>1. PICK t : t = Cleared(set)
    OBVIOUS
  <1>2. set' = t /\ Bounded(t) /\ issued' = issued /\ Sound(set)
    BY <1>1 DEF Clear, Inv
  <1>3. \A g \in Handle : ~Contain(t, g)
    BY Zenon, <1>1, <1>2, ClearedSound
  <1>4. Seen(t) = [g \in {} |-> Seen(set)[g]]
    <2>1. {g \in Handle : Contain(t, g)} = {}
      BY <1>3
    <2> QED
      BY <2>1 DEF Seen
  <1> QED
    BY <1>2, <1>4 DEF Handles!Clear, Handles!Keep

LEMMA ThrowUnseen == Inv /\ AddThrows => UNCHANGED <<Seen(set), issued>>
  <1> SUFFICES ASSUME Inv, AddThrows PROVE UNCHANGED <<Seen(set), issued>>
    OBVIOUS
  <1>1. PICK t : t = ResizeSparse(set)
    OBVIOUS
  <1>2. set' = t /\ issued' = issued /\ Sound(set) /\ CanResize(set)
    BY <1>1 DEF AddThrows, Inv
  <1>3. /\ \A g \in Handle : Contain(t, g) <=> Contain(set, g)
        /\ \A g \in Handle : Contain(set, g) => TryGet(t, g) = TryGet(set, g)
    BY Zenon, <1>1, <1>2, ResizeUnseen
  <1>4. Seen(t) = Seen(set)
    <2>1. {g \in Handle : Contain(t, g)} = {g \in Handle : Contain(set, g)}
      BY <1>3
    <2> QED
      BY <1>3, <2>1 DEF Seen
  <1> QED
    BY <1>2, <1>4

\* Every step of the container is a step of the map, or none.
LEMMA MapStep == Inv /\ [Next]_vars => [Handles!Next]_<<Seen(set), issued>>
  <1> SUFFICES ASSUME Inv, [Next]_vars PROVE [Handles!Next]_<<Seen(set), issued>>
    OBVIOUS
  <1>1. CASE \E v \in Value : Add(v)
    BY <1>1, AddIsSeen DEF Handles!Next
  <1>2. CASE AddThrows
    BY <1>2, ThrowUnseen
  <1>3. CASE \E h \in Handle : Remove(h)
    BY <1>3, RemoveIsSeen DEF Handles!Next
  <1>4. CASE Clear
    BY <1>4, ClearIsSeen DEF Handles!Next
  <1>5. CASE UNCHANGED vars
    BY <1>5 DEF vars
  <1> QED
    BY <1>1, <1>2, <1>3, <1>4, <1>5 DEF Next

\* The sparse set is the map of handles of HandleMap (SparseSet::Add, Remove, Clear, Contain
\* and TryGet, through every growth and swap removal): a handle finds its own value until it is
\* removed, and nothing after.
THEOREM SetImplementsHandleMap == Spec => ImplementsHandleMap
  <1>1. Init => Handles!Init
    <2>1. Init => \A g \in Handle : ~Contain(set, g)
      BY EmptySound DEF Init
    <2>2. Init => Seen(set) = << >>
      BY <2>1 DEF Seen
    <2> QED
      BY <2>2 DEF Init, Handles!Init
  <1> QED
    BY <1>1, SpecInv, MapStep, PTL DEF Spec, ImplementsHandleMap, Handles!Spec
-----------------------------------------------------------------------------
(***************************************************************************)
(* ComponentPool, an instance beside the sparse set.  Each component's     *)
(* index leads to its place (PoolPlaced), each index in use to a component *)
(* of its own (PoolUsed); the map of the calls has for an index what the   *)
(* place it leads to holds (PoolRecorded).  As places name their index,    *)
(* two places have two, so that there are no more places than indices, and *)
(* a position never is the number that stands for Missing (PoolHasRoom).   *)
(***************************************************************************)
PoolShape ==
    /\ Pool!TypeOK
    /\ sparse = [i \in DOMAIN sparse |-> sparse[i]]
    /\ reference = [i \in Pool!Index |-> reference[i]]
    /\ Len(dense) <= MaxIndex + 1

PoolPlaced ==
    \A p \in 1..Len(dense) :
        dense[p].handle.index \in DOMAIN sparse /\ sparse[dense[p].handle.index] = p - 1

PoolUsed ==
    \A i \in DOMAIN sparse : sparse[i] # MaxIndex + 1 =>
        sparse[i] < Len(dense) /\ dense[sparse[i] + 1].handle.index = i

PoolRecorded ==
    /\ \A p \in 1..Len(dense) :
          reference[dense[p].handle.index] =
              [value |-> dense[p].value, generation |-> dense[p].handle.generation]
    /\ \A i \in Pool!Index : ~Pool!Occupied(i) => reference[i] = Pool!Unknown

PoolInv == PoolShape /\ PoolPlaced /\ PoolUsed /\ PoolRecorded

\* An entry of the dense array.
Component == [value : Value, handle : Pool!Handle]

LEMMA PoolFacts ==
  ASSUME MaxIndex \in Nat, PoolShape
  PROVE  /\ dense \in Seq(Component) /\ Len(dense) \in Nat
         /\ \A p \in 1..Len(dense) :
               /\ dense[p] = [value |-> dense[p].value, handle |-> dense[p].handle]
               /\ dense[p].value \in Value /\ dense[p].handle \in Pool!Handle
               /\ dense[p].handle = [index |-> dense[p].handle.index,
                                     generation |-> dense[p].handle.generation]
               /\ dense[p].handle.index \in Pool!Index
               /\ dense[p].handle.generation \in Nat /\ dense[p].handle.generation >= 1
         /\ DOMAIN sparse \subseteq Pool!Index
         /\ \A i \in DOMAIN sparse : sparse[i] \in Nat /\ sparse[i] <= MaxIndex + 1
  <1>1. dense \in Seq(Component) /\ Len(dense) \in Nat
    BY DEF PoolShape, Pool!TypeOK, Component
  <1>2. \A p \in 1..Len(dense) : dense[p] \in Component
    BY <1>1
  <1>3. \A h \in Pool!Handle : /\ h = [index |-> h.index, generation |-> h.generation]
                               /\ h.index \in Pool!Index
                               /\ h.generation \in Nat /\ h.generation >= 1
    BY SparseSetAssumption DEF Pool!Handle
  <1>4. DOMAIN sparse \subseteq Pool!Index
        /\ \A i \in DOMAIN sparse : sparse[i] \in Nat /\ sparse[i] <= MaxIndex + 1
    BY DEF PoolShape, Pool!TypeOK, Pool!Missing
  <1> QED
    BY <1>1, <1>2, <1>3, <1>4 DEF Component

\* A pool that has no component at an index has a place left.
LEMMA PoolHasRoom ==
  ASSUME MaxIndex \in Nat, PoolShape, PoolPlaced, NEW i \in Pool!Index, ~Pool!Occupied(i)
  PROVE  Len(dense) <= MaxIndex
  <1>1. Len(dense) \in Nat
        /\ \A p \in 1..Len(dense) : dense[p].handle.index \in Pool!Index
    BY PoolFacts
  <1>2. \A p \in 1..Len(dense) : dense[p].handle.index # i
    <2>1. SUFFICES ASSUME NEW p \in 1..Len(dense), dense[p].handle.index = i PROVE FALSE
      OBVIOUS
    <2>2. i \in DOMAIN sparse /\ sparse[i] = p - 1 /\ p - 1 # MaxIndex + 1
      BY <1>1, <2>1 DEF PoolPlaced, PoolShape
    <2> QED
      BY <2>2 DEF Pool!Occupied, Pool!Missing
  <1>3. PICK S, T : S = 1..Len(dense) /\ T = Pool!Index \ {i}
    OBVIOUS
  <1>4. PICK f : f = [p \in S |-> dense[p].handle.index]
    OBVIOUS
  <1>5. f \in [S -> T]
    BY <1>1, <1>2, <1>3, <1>4
  <1>6. \A p, q \in S : f[p] = f[q] => p = q
    <2>1. SUFFICES ASSUME NEW p \in S, NEW q \in S, f[p] = f[q] PROVE p = q
      OBVIOUS
    <2>2. p \in Nat /\ q \in Nat /\ p - 1 = q - 1
      BY <1>1, <1>3, <1>4, <2>1 DEF PoolPlaced
    <2> QED
      BY <2>2
  <1>7. f \in Injection(S, T)
    BY <1>5, <1>6 DEF Injection, IsInjective
  <1>8. IsFiniteSet(Pool!Index) /\ Cardinality(Pool!Index) = MaxIndex + 1
    BY 0 \in Int /\ MaxIndex \in Int, FS_Interval DEF Pool!Index
  <1>9. IsFiniteSet(T) /\ Cardinality(T) = MaxIndex
    <2>1. Cardinality(Pool!Index \ {i}) = Cardinality(Pool!Index) - 1 /\ IsFiniteSet(Pool!Index \ {i})
      BY <1>8, FS_RemoveElement
    <2>2. (MaxIndex + 1) - 1 = MaxIndex
      OBVIOUS
    <2> QED
      BY <1>3, <1>8, <2>1, <2>2
  <1>10. IsFiniteSet(S) /\ Cardinality(S) = Len(dense)
    BY 1 \in Int /\ Len(dense) \in Int, <1>1, <1>3, FS_Interval
  <1> QED
    BY <1>7, <1>9, <1>10, FS_Injection

\* Emplace appends a component whose index was free.
LEMMA EmplaceKeepsPool ==
  ASSUME MaxIndex \in Nat, PoolInv, NEW h \in Pool!Handle, NEW v \in Value, Pool!Emplace(h, v)
  PROVE  PoolInv'
  <1>1. PICK i, n : i = h.index /\ n = Len(dense)
    OBVIOUS
  <1>2. /\ i \in Pool!Index /\ i \in Nat /\ n \in Nat /\ n <= MaxIndex
        /\ \A p \in 1..n : p \in Nat /\ p <= n
    <2>1. i \in Pool!Index /\ ~Pool!Occupied(i)
      BY <1>1 DEF Pool!Handle, Pool!Emplace
    <2> QED
      BY <1>1, <2>1, PoolHasRoom, PoolFacts DEF PoolInv, Pool!Index
  <1>3. /\ DOMAIN sparse \subseteq Pool!Index
        /\ \A j \in DOMAIN sparse : sparse[j] \in Nat /\ sparse[j] <= MaxIndex + 1
        /\ dense \in Seq(Component)
    BY PoolFacts DEF PoolInv
  <1>4. /\ sparse' = [j \in (0..i) \union DOMAIN sparse |->
                         IF j = i THEN n ELSE IF j \in DOMAIN sparse THEN sparse[j] ELSE MaxIndex + 1]
        /\ dense' = Append(dense, [value |-> v, handle |-> h])
        /\ reference' = [j \in Pool!Index |-> IF j = i THEN [value |-> v, generation |-> h.generation]
                                                       ELSE reference[j]]
        /\ ~Pool!Occupied(i)
    <2>1. i \in (0..i) \union DOMAIN sparse
      BY <1>2
    <2>2. reference = [j \in Pool!Index |-> reference[j]]
      BY DEF PoolInv, PoolShape
    <2> QED
      BY <1>1, <1>2, <2>1, <2>2 DEF Pool!Emplace, Pool!Resized, Pool!Missing
  <1>5. /\ [value |-> v, handle |-> h] \in Component
        /\ dense' \in Seq(Component) /\ Len(dense') = n + 1
        /\ dense'[n + 1] = [value |-> v, handle |-> h]
        /\ \A p \in 1..n : dense'[p] = dense[p]
    BY <1>1, <1>3, <1>4 DEF Component
  <1>6. \A p \in 1..Len(dense') : p \in 1..n \/ p = n + 1
    BY <1>2, <1>5
  <1>7. \A p \in 1..n : /\ dense[p].handle.index \in DOMAIN sparse /\ sparse[dense[p].handle.index] = p - 1
                        /\ dense[p].handle.index # i
    <2>1. SUFFICES ASSUME NEW p \in 1..n
                   PROVE  /\ dense[p].handle.index \in DOMAIN sparse
                          /\ sparse[dense[p].handle.index] = p - 1
                          /\ dense[p].handle.index # i
      OBVIOUS
    <2>2. dense[p].handle.index \in DOMAIN sparse /\ sparse[dense[p].handle.index] = p - 1
      BY <1>1, <2>1 DEF PoolInv, PoolPlaced
    <2>3. p - 1 # MaxIndex + 1
      BY <1>2
    <2> QED
      BY <1>4, <2>2, <2>3 DEF Pool!Occupied, Pool!Missing
  <1>8. /\ DOMAIN sparse' = (0..i) \union DOMAIN sparse /\ i \in DOMAIN sparse' /\ sparse'[i] = n
        /\ \A j \in DOMAIN sparse' \ {i} :
              sparse'[j] = IF j \in DOMAIN sparse THEN sparse[j] ELSE MaxIndex + 1
    BY <1>2, <1>4
  <1>9. PoolShape'
    <2>1. DOMAIN sparse' \subseteq Pool!Index
      BY <1>2, <1>3, <1>8 DEF Pool!Index
    <2>2. \A j \in DOMAIN sparse' : sparse'[j] \in 0..(MaxIndex + 1)
      BY <1>2, <1>3, <1>8
    <2>3. n + 1 <= MaxIndex + 1
      BY <1>2
    <2>4. sparse' = [j \in DOMAIN sparse' |-> sparse'[j]]
      BY <1>4
    <2>5. reference' = [j \in Pool!Index |-> reference'[j]]
      BY <1>4
    <2> QED
      BY <1>5, <2>1, <2>2, <2>3, <2>4, <2>5 DEF PoolShape, Pool!TypeOK, Pool!Missing, Component
  <1>10. PoolPlaced'
    <2>1. ASSUME NEW p \in 1..Len(dense')
          PROVE  dense'[p].handle.index \in DOMAIN sparse' /\ sparse'[dense'[p].handle.index] = p - 1
      <3>1. CASE p = n + 1
        BY <1>1, <1>2, <1>5, <1>8, <3>1
      <3>2. CASE p \in 1..n
        BY <1>5, <1>7, <1>8, <3>2
      <3> QED
        BY <1>6, <3>1, <3>2
    <2> QED
      BY <2>1 DEF PoolPlaced
  <1>11. PoolUsed'
    <2>1. ASSUME NEW j \in DOMAIN sparse', sparse'[j] # MaxIndex + 1
          PROVE  sparse'[j] < Len(dense') /\ dense'[sparse'[j] + 1].handle.index = j
      <3>1. CASE j = i
        BY <1>1, <1>2, <1>5, <1>8, <3>1
      <3>2. CASE j # i
        <4>1. j \in DOMAIN sparse /\ sparse'[j] = sparse[j]
          BY <1>8, <2>1, <3>2
        <4>2. sparse[j] \in Nat /\ sparse[j] < n /\ dense[sparse[j] + 1].handle.index = j
          BY <1>1, <1>3, <2>1, <4>1 DEF PoolInv, PoolUsed
        <4>3. sparse[j] + 1 \in 1..n
          BY <1>2, <4>2
        <4> QED
          BY <1>2, <1>5, <4>1, <4>2, <4>3
      <3> QED
        BY <3>1, <3>2
    <2> QED
      BY <2>1 DEF PoolUsed
  <1>12. PoolRecorded'
    <2>1. ASSUME NEW p \in 1..Len(dense')
          PROVE  reference'[dense'[p].handle.index] =
                    [value |-> dense'[p].value, generation |-> dense'[p].handle.generation]
      <3>1. CASE p = n + 1
        BY <1>1, <1>2, <1>4, <1>5, <3>1
      <3>2. CASE p \in 1..n
        <4>1. dense[p].handle.index \in Pool!Index /\ dense[p].handle.index # i
          BY <1>3, <1>7, <3>2
        <4>2. reference[dense[p].handle.index] =
                 [value |-> dense[p].value, generation |-> dense[p].handle.generation]
          BY <1>1, <3>2 DEF PoolInv, PoolRecorded
        <4> QED
          BY <1>4, <1>5, <3>2, <4>1, <4>2
      <3> QED
        BY <1>6, <3>1, <3>2
    <2>2. ASSUME NEW j \in Pool!Index, ~(j \in DOMAIN sparse' /\ sparse'[j] # MaxIndex + 1)
          PROVE  reference'[j] = Pool!Unknown
      <3>1. j # i
        BY <1>2, <1>8, <2>2
      <3>2. ~Pool!Occupied(j)
        BY <1>8, <2>2, <3>1 DEF Pool!Occupied, Pool!Missing
      <3> QED
        BY <1>4, <3>1, <3>2 DEF PoolInv, PoolRecorded
    <2> QED
      BY <2>1, <2>2 DEF PoolRecorded, Pool!Occupied, Pool!Missing, Pool!Unknown
  <1> QED
    BY <1>9, <1>10, <1>11, <1>12 DEF PoolInv

\* The array grown for a component whose constructor threw has no place more in use.
LEMMA EmplaceThrowsKeepsPool ==
  ASSUME MaxIndex \in Nat, PoolInv, NEW h \in Pool!Handle, Pool!EmplaceThrows(h)
  PROVE  PoolInv'
  <1>1. PICK i : i = h.index
    OBVIOUS
  <1>2. i \in Pool!Index /\ i \in Nat /\ i <= MaxIndex
    BY <1>1 DEF Pool!Handle, Pool!Index
  <1>3. /\ DOMAIN sparse \subseteq Pool!Index
        /\ \A j \in DOMAIN sparse : sparse[j] \in Nat /\ sparse[j] <= MaxIndex + 1
    BY PoolFacts DEF PoolInv
  <1>4. /\ sparse' = [j \in (0..i) \union DOMAIN sparse |->
                         IF j \in DOMAIN sparse THEN sparse[j] ELSE MaxIndex + 1]
        /\ dense' = dense /\ reference' = reference
    BY <1>1 DEF Pool!EmplaceThrows, Pool!Resized, Pool!Missing
  <1>5. /\ DOMAIN sparse' = (0..i) \union DOMAIN sparse
        /\ \A j \in DOMAIN sparse' : sparse'[j] = IF j \in DOMAIN sparse THEN sparse[j] ELSE MaxIndex + 1
        /\ \A j \in DOMAIN sparse : j \in DOMAIN sparse'
    BY <1>4
  <1>6. PoolShape'
    <2>1. DOMAIN sparse' \subseteq Pool!Index
      BY <1>2, <1>3, <1>5 DEF Pool!Index
    <2>2. \A j \in DOMAIN sparse' : sparse'[j] \in 0..(MaxIndex + 1)
      BY <1>3, <1>5
    <2>3. sparse' = [j \in DOMAIN sparse' |-> sparse'[j]]
      BY <1>4
    <2> QED
      BY <1>4, <2>1, <2>2, <2>3 DEF PoolInv, PoolShape, Pool!TypeOK, Pool!Missing
  <1>7. PoolPlaced'
    BY <1>4, <1>5 DEF PoolInv, PoolPlaced
  <1>8. PoolUsed'
    BY <1>4, <1>5 DEF PoolInv, PoolUsed
  <1>9. \A j : ((j \in DOMAIN sparse' /\ sparse'[j] # MaxIndex + 1) <=> Pool!Occupied(j))
    BY <1>5 DEF Pool!Occupied, Pool!Missing
  <1>10. PoolRecorded'
    <2>1. \A j \in Pool!Index : ~(j \in DOMAIN sparse' /\ sparse'[j] # MaxIndex + 1) => reference[j] = Pool!Unknown
      BY <1>9 DEF PoolInv, PoolRecorded
    <2>2. \A p \in 1..Len(dense) :
             reference[dense[p].handle.index] =
                [value |-> dense[p].value, generation |-> dense[p].handle.generation]
      BY DEF PoolInv, PoolRecorded
    <2> QED
      BY <1>4, <2>1, <2>2 DEF PoolRecorded, Pool!Occupied, Pool!Missing, Pool!Unknown
  <1> QED
    BY <1>6, <1>7, <1>8, <1>10 DEF PoolInv

\* Remove fills the hole with the last component, whose index follows.
LEMMA RemoveKeepsPool ==
  ASSUME MaxIndex \in Nat, PoolInv, NEW h \in Pool!Handle, Pool!Remove(h)
  PROVE  PoolInv'
  <1>1. PICK i, n, q, m : /\ i = h.index /\ n = Len(dense) /\ q = sparse[i]
                          /\ m = dense[n].handle.index
    OBVIOUS
  <1>2. /\ DOMAIN sparse \subseteq Pool!Index
        /\ \A j \in DOMAIN sparse : sparse[j] \in Nat /\ sparse[j] <= MaxIndex + 1
        /\ dense \in Seq(Component) /\ n \in Nat /\ n <= MaxIndex + 1
        /\ \A p \in 1..n : p \in Nat /\ dense[p].handle.index \in Pool!Index
    <2>1. PoolShape
      BY DEF PoolInv
    <2>2. /\ DOMAIN sparse \subseteq Pool!Index
          /\ \A j \in DOMAIN sparse : sparse[j] \in Nat /\ sparse[j] <= MaxIndex + 1
      BY <2>1, PoolFacts
    <2>3. dense \in Seq(Component) /\ n \in Nat /\ \A p \in 1..n : dense[p].handle.index \in Pool!Index
      BY <1>1, <2>1, PoolFacts
    <2>4. n <= MaxIndex + 1
      BY <1>1, <2>1 DEF PoolShape
    <2> QED
      BY <2>2, <2>3, <2>4
  <1>3. i \in DOMAIN sparse /\ q \in Nat /\ q < n /\ n - 1 \in Nat /\ n \in 1..n
    <2>1. i \in DOMAIN sparse /\ q < n
      BY <1>1 DEF Pool!Remove, Pool!Contains
    <2>2. q \in Nat
      BY <1>1, <1>2, <2>1
    <2> QED
      BY <1>2, <2>1, <2>2
  <1>4. /\ \A p \in 1..n : dense[p].handle.index \in DOMAIN sparse /\ sparse[dense[p].handle.index] = p - 1
        /\ \A j \in DOMAIN sparse : sparse[j] # MaxIndex + 1 =>
              sparse[j] < n /\ sparse[j] + 1 \in 1..n /\ dense[sparse[j] + 1].handle.index = j
    BY <1>1, <1>2 DEF PoolInv, PoolPlaced, PoolUsed
  <1>5. m \in DOMAIN sparse /\ sparse[m] = n - 1
    BY <1>1, <1>3, <1>4
  <1>6. /\ sparse' = [j \in DOMAIN sparse |-> IF j = i THEN MaxIndex + 1 ELSE IF j = m THEN q ELSE sparse[j]]
        /\ dense' = Filled(dense, q)
        /\ reference' = [j \in Pool!Index |-> IF j = i THEN Pool!Unknown ELSE reference[j]]
    <2>1. sparse = [j \in DOMAIN sparse |-> sparse[j]] /\ reference = [j \in Pool!Index |-> reference[j]]
      BY DEF PoolInv, PoolShape
    <2>2. (n - 1) + 1 = n
      BY <1>2
    <2>3. /\ dense' = SubSeq([dense EXCEPT ![q + 1] = dense[n]], 1, n - 1)
          /\ sparse' = [sparse EXCEPT ![m] = q, ![i] = MaxIndex + 1]
          /\ reference' = [reference EXCEPT ![i] = Pool!Unknown]
      BY <1>1, <2>2 DEF Pool!Remove, Pool!Missing
    <2>4. dense' = Filled(dense, q)
      BY <1>1, <2>3 DEF Filled
    <2>5. i \in DOMAIN sparse /\ m \in DOMAIN sparse /\ i \in Pool!Index
      BY <1>2, <1>3, <1>5
    <2>6. sparse' = [j \in DOMAIN sparse |-> IF j = i THEN MaxIndex + 1 ELSE IF j = m THEN q ELSE sparse[j]]
      BY <2>1, <2>3, <2>5
    <2>7. reference' = [j \in Pool!Index |-> IF j = i THEN Pool!Unknown ELSE reference[j]]
      BY <2>1, <2>3, <2>5
    <2> QED
      BY <2>4, <2>6, <2>7
  <1>7. /\ dense' \in Seq(Component) /\ Len(dense') = n - 1
        /\ \A p \in 1..(n - 1) : dense'[p] = (IF p = q + 1 THEN dense[n] ELSE dense[p])
    <2>1. PICK d : d = Filled(dense, q)
      OBVIOUS
    <2>2. q < Len(dense)
      BY <1>1, <1>3
    <2>3. /\ d \in Seq(Component) /\ Len(d) = Len(dense) - 1
          /\ \A p \in 1..Len(d) : d[p] = (IF p = q + 1 THEN dense[Len(dense)] ELSE dense[p])
      BY <1>2, <1>3, <2>1, <2>2, HoleIsFilled
    <2> QED
      BY <1>1, <1>6, <2>1, <2>3
  <1>8. \A p \in 1..(n - 1) : p \in 1..n /\ p \in Nat /\ p - 1 # n - 1
    BY <1>2
  <1>9. dense[q + 1].handle.index = i /\ q + 1 \in 1..n /\ q # MaxIndex + 1 /\ sparse[i] = q
    BY <1>1, <1>2, <1>3, <1>4
  <1>10. PoolShape'
    <2>1. DOMAIN sparse' = DOMAIN sparse /\ sparse' = [j \in DOMAIN sparse' |-> sparse'[j]]
      BY <1>6
    <2>2. \A j \in DOMAIN sparse' : sparse'[j] \in 0..(MaxIndex + 1)
      BY <1>2, <1>3, <1>6
    <2>3. n - 1 <= MaxIndex + 1
      BY <1>2
    <2>4. reference' = [j \in Pool!Index |-> reference'[j]]
      BY <1>6
    <2> QED
      BY <1>2, <1>7, <2>1, <2>2, <2>3, <2>4 DEF PoolShape, Pool!TypeOK, Pool!Missing, Component
  <1>11. \A p \in 1..(n - 1) :
            /\ p # q + 1 => /\ dense'[p] = dense[p] /\ dense[p].handle.index # i
                            /\ dense[p].handle.index # m
            /\ p = q + 1 => dense'[p] = dense[n] /\ m # i
    <2>1. ASSUME NEW p \in 1..(n - 1), p # q + 1
          PROVE  dense'[p] = dense[p] /\ dense[p].handle.index # i /\ dense[p].handle.index # m
      <3>1. dense'[p] = dense[p] /\ sparse[dense[p].handle.index] = p - 1
        BY <1>4, <1>7, <1>8, <2>1
      <3>2. p - 1 # q /\ p - 1 # n - 1
        BY <1>3, <1>8, <2>1
      <3> QED
        BY <1>5, <1>9, <3>1, <3>2
    <2>2. ASSUME NEW p \in 1..(n - 1), p = q + 1
          PROVE  dense'[p] = dense[n] /\ m # i
      <3>1. q # n - 1
        BY <1>2, <1>3, <2>2
      <3> QED
        BY <1>5, <1>7, <1>9, <2>2, <3>1
    <2> QED
      BY <2>1, <2>2
  <1>12. PoolPlaced'
    <2>1. ASSUME NEW p \in 1..(n - 1)
          PROVE  dense'[p].handle.index \in DOMAIN sparse' /\ sparse'[dense'[p].handle.index] = p - 1
      <3>1. CASE p = q + 1
        <4>1. dense'[p].handle.index = m /\ m # i /\ q = p - 1
          BY <1>1, <1>3, <1>11, <2>1, <3>1
        <4> QED
          BY <1>5, <1>6, <4>1
      <3>2. CASE p # q + 1
        BY <1>4, <1>6, <1>8, <1>11, <2>1, <3>2
      <3> QED
        BY <3>1, <3>2
    <2> QED
      BY <1>7, <2>1 DEF PoolPlaced
  <1>13. PoolUsed'
    <2>1. ASSUME NEW j \in DOMAIN sparse', sparse'[j] # MaxIndex + 1
          PROVE  sparse'[j] < n - 1 /\ dense'[sparse'[j] + 1].handle.index = j
      <3>1. j # i /\ j \in DOMAIN sparse
        BY <1>6, <2>1
      <3>2. CASE j = m
        <4>1. sparse'[j] = q /\ q # n - 1
          <5>1. sparse'[j] = q
            BY <1>6, <3>1, <3>2
          <5>2. ASSUME q = n - 1 PROVE FALSE
            <6>1. q + 1 = n
              BY <1>2, <5>2
            <6>2. m = i
              BY <1>1, <1>9, <6>1
            <6> QED
              BY <3>1, <3>2, <6>2
          <5> QED
            BY <5>1, <5>2
        <4>2. q < n - 1 /\ q + 1 \in 1..(n - 1)
          BY <1>2, <1>3, <4>1
        <4> QED
          BY <1>1, <1>11, <3>2, <4>1, <4>2
      <3>3. CASE j # m
        <4>1. PICK r : r = sparse[j]
          OBVIOUS
        <4>2. sparse'[j] = r
          BY <1>6, <3>1, <3>3, <4>1
        <4>3. r \in Nat /\ r < n /\ r + 1 \in 1..n /\ dense[r + 1].handle.index = j
          BY <1>2, <1>4, <2>1, <3>1, <4>1, <4>2
        <4>4. r + 1 # n /\ r + 1 # q + 1
          BY <1>1, <1>9, <3>1, <3>3, <4>3
        <4>5. r < n - 1 /\ r + 1 \in 1..(n - 1)
          BY <1>2, <4>3, <4>4
        <4> QED
          BY <1>11, <4>2, <4>3, <4>4, <4>5
      <3> QED
        BY <3>2, <3>3
    <2> QED
      BY <1>7, <2>1 DEF PoolUsed
  <1>14. PoolRecorded'
    <2>1. ASSUME NEW p \in 1..(n - 1)
          PROVE  reference'[dense'[p].handle.index] =
                    [value |-> dense'[p].value, generation |-> dense'[p].handle.generation]
      <3>1. PICK r \in 1..n : dense'[p] = dense[r] /\ dense[r].handle.index # i
        BY <1>1, <1>3, <1>8, <1>11, <2>1
      <3>2. dense[r].handle.index \in Pool!Index
        BY <1>2, <3>1
      <3>3. reference'[dense[r].handle.index] = reference[dense[r].handle.index]
        BY <1>6, <3>1, <3>2
      <3>4. reference[dense[r].handle.index] =
               [value |-> dense[r].value, generation |-> dense[r].handle.generation]
        BY <1>1, <3>1 DEF PoolInv, PoolRecorded
      <3> QED
        BY <3>1, <3>3, <3>4
    <2>2. ASSUME NEW j \in Pool!Index, ~(j \in DOMAIN sparse' /\ sparse'[j] # MaxIndex + 1)
          PROVE  reference'[j] = Pool!Unknown
      <3>1. CASE j = i
        BY <1>6, <3>1
      <3>2. CASE j # i
        <4>1. ~Pool!Occupied(j)
          BY <1>6, <1>9, <1>5, <2>2, <3>2 DEF Pool!Occupied, Pool!Missing
        <4> QED
          BY <1>6, <3>2, <4>1 DEF PoolInv, PoolRecorded
      <3> QED
        BY <3>1, <3>2
    <2> QED
      BY <1>7, <2>1, <2>2 DEF PoolRecorded, Pool!Occupied, Pool!Missing, Pool!Unknown
  <1> QED
    BY <1>10, <1>12, <1>13, <1>14 DEF PoolInv

\* Clear visits the components only; that is enough, as each index in use has one.
LEMMA ClearKeepsPool ==
  ASSUME MaxIndex \in Nat, PoolInv, Pool!Clear
  PROVE  PoolInv'
  <1>1. /\ DOMAIN sparse \subseteq Pool!Index
        /\ \A j \in DOMAIN sparse : sparse[j] \in Nat /\ sparse[j] <= MaxIndex + 1
        /\ dense \in Seq(Component) /\ Len(dense) \in Nat
    BY PoolFacts DEF PoolInv
  <1>2. \A j \in DOMAIN sparse : sparse[j] # MaxIndex + 1 =>
           \E p \in DOMAIN dense : dense[p].handle.index = j
    <2>1. SUFFICES ASSUME NEW j \in DOMAIN sparse, sparse[j] # MaxIndex + 1
                   PROVE  sparse[j] + 1 \in DOMAIN dense /\ dense[sparse[j] + 1].handle.index = j
      OBVIOUS
    <2>2. sparse[j] \in Nat /\ sparse[j] < Len(dense) /\ dense[sparse[j] + 1].handle.index = j
      BY <1>1, <2>1 DEF PoolInv, PoolUsed
    <2>3. DOMAIN dense = 1..Len(dense)
      BY <1>1
    <2> QED
      BY <1>1, <2>2, <2>3
  <1>3. sparse' = [j \in DOMAIN sparse |-> MaxIndex + 1]
    BY <1>2 DEF Pool!Clear, Pool!Unlinked, Pool!Missing
  <1>4. dense' = << >> /\ reference' = [j \in Pool!Index |-> Pool!Unknown]
    BY DEF Pool!Clear
  <1>5. dense' \in Seq(Component) /\ Len(dense') = 0
    BY <1>4
  <1>6. PoolShape'
    BY <1>1, <1>3, <1>4, <1>5 DEF PoolShape, Pool!TypeOK, Pool!Missing, Component
  <1>7. PoolPlaced' /\ PoolUsed'
    BY <1>3, <1>5 DEF PoolPlaced, PoolUsed
  <1>8. PoolRecorded'
    BY <1>3, <1>4, <1>5 DEF PoolRecorded, Pool!Unknown
  <1> QED
    BY <1>6, <1>7, <1>8 DEF PoolInv

LEMMA PoolStep ==
  ASSUME MaxIndex \in Nat, PoolInv, [Pool!Next]_<<sparse, dense, reference>>
  PROVE  PoolInv'
  <1>1. ASSUME NEW h \in Pool!Handle, NEW v \in Value, Pool!Emplace(h, v)
        PROVE  PoolInv'
    BY <1>1, EmplaceKeepsPool
  <1>2. ASSUME NEW h \in Pool!Handle, Pool!EmplaceThrows(h)
        PROVE  PoolInv'
    BY <1>2, EmplaceThrowsKeepsPool
  <1>3. ASSUME NEW h \in Pool!Handle, Pool!Remove(h)
        PROVE  PoolInv'
    BY <1>3, RemoveKeepsPool
  <1>4. CASE Pool!Clear
    BY <1>4, ClearKeepsPool
  <1>5. CASE UNCHANGED <<sparse, dense, reference>>
    BY <1>5 DEF PoolInv, PoolShape, PoolPlaced, PoolUsed, PoolRecorded, Pool!TypeOK, Pool!Occupied
  <1> QED
    BY <1>1, <1>2, <1>3, <1>4, <1>5 DEF Pool!Next

\* What the calls say of an index is what its handle finds, and no other handle finds anything.
LEMMA PoolInvMatches ==
  ASSUME MaxIndex \in Nat, PoolInv
  PROVE  Pool!PoolMatchesReference
  <1>1. /\ dense \in Seq(Component) /\ Len(dense) \in Nat /\ Len(dense) <= MaxIndex + 1
        /\ \A j \in DOMAIN sparse : sparse[j] \in Nat
    BY PoolFacts DEF PoolInv, PoolShape
  <1>2. ASSUME NEW i \in Pool!Index, Pool!Occupied(i)
        PROVE  /\ sparse[i] \in Nat /\ sparse[i] < Len(dense) /\ i \in DOMAIN sparse
               /\ sparse[i] + 1 \in 1..Len(dense)
               /\ dense[sparse[i] + 1].handle = [index |-> i, generation |-> reference[i].generation]
               /\ dense[sparse[i] + 1].value = reference[i].value
               /\ reference[i].generation \in Nat /\ reference[i].generation >= 1
    <2>1. PICK q : q = sparse[i]
      OBVIOUS
    <2>2. i \in DOMAIN sparse /\ q \in Nat /\ q < Len(dense) /\ dense[q + 1].handle.index = i
      BY <1>1, <1>2, <2>1 DEF PoolInv, PoolUsed, Pool!Occupied, Pool!Missing
    <2>3. q + 1 \in 1..Len(dense)
      BY <1>1, <2>2
    <2>4. reference[i] = [value |-> dense[q + 1].value, generation |-> dense[q + 1].handle.generation]
      BY <2>2, <2>3 DEF PoolInv, PoolRecorded
    <2>5. /\ dense[q + 1].handle = [index |-> i, generation |-> dense[q + 1].handle.generation]
          /\ dense[q + 1].handle.generation \in Nat /\ dense[q + 1].handle.generation >= 1
      BY <2>2, <2>3, PoolFacts DEF PoolInv
    <2> QED
      BY <2>1, <2>2, <2>3, <2>4, <2>5
  <1>3. ASSUME NEW i \in Pool!Index, ~Pool!Occupied(i)
        PROVE  reference[i] = Pool!Unknown /\ (i \in DOMAIN sparse => ~(sparse[i] < Len(dense)))
    <2>1. reference[i] = Pool!Unknown
      BY <1>3 DEF PoolInv, PoolRecorded
    <2>2. i \in DOMAIN sparse => sparse[i] = MaxIndex + 1
      BY <1>3 DEF Pool!Occupied, Pool!Missing
    <2> QED
      BY <1>1, <2>1, <2>2
  <1>4. ASSUME NEW h \in Pool!Handle
        PROVE  /\ Pool!Contains(h) <=> reference[h.index].generation = h.generation
               /\ Pool!Contains(h) => Pool!TryGet(h) = reference[h.index].value
    <2>1. /\ h = [index |-> h.index, generation |-> h.generation] /\ h.index \in Pool!Index
          /\ h.generation \in Nat /\ h.generation >= 1
      BY SparseSetAssumption DEF Pool!Handle
    <2>2. CASE Pool!Occupied(h.index)
      <3>1. PICK i, e, q : i = h.index /\ q = sparse[i] /\ e = dense[q + 1]
        OBVIOUS
      <3>2. /\ i \in DOMAIN sparse /\ q < Len(dense)
            /\ e.handle = [index |-> i, generation |-> reference[i].generation]
            /\ e.value = reference[i].value
        BY <1>2, <2>1, <2>2, <3>1
      <3>3. Pool!Contains(h) <=> e.handle = h
        BY <3>1, <3>2 DEF Pool!Contains
      <3>4. e.handle = h <=> reference[i].generation = h.generation
        BY <2>1, <3>1, <3>2
      <3>5. Pool!Contains(h) => Pool!TryGet(h) = e.value
        BY <3>1 DEF Pool!TryGet
      <3> QED
        BY <3>1, <3>2, <3>3, <3>4, <3>5
    <2>3. CASE ~Pool!Occupied(h.index)
      <3>1. reference[h.index].generation = 0 /\ ~Pool!Contains(h)
        BY <1>3, <2>1, <2>3 DEF Pool!Unknown, Pool!Contains
      <3> QED
        BY <2>1, <3>1
    <2> QED
      BY <2>2, <2>3
  <1>5. ASSUME NEW i \in Pool!Index
        PROVE  Pool!Occupied(i) <=> reference[i] # Pool!Unknown
    <2>1. Pool!Unknown.generation = 0
      BY DEF Pool!Unknown
    <2>2. ASSUME Pool!Occupied(i)
          PROVE  reference[i] # Pool!Unknown
      <3>1. reference[i].generation \in Nat /\ reference[i].generation >= 1
        BY <1>2, <1>5, <2>2
      <3> QED
        BY <2>1, <3>1
    <2> QED
      BY <1>3, <1>5, <2>2
  <1>6. Pool!TypeOK
    BY DEF PoolInv, PoolShape
  <1> QED
    BY <1>4, <1>5, <1>6 DEF Pool!PoolMatchesReference

\* After any sequence of refused, failed and successful calls with any handles, live or stale, a
\* component is found through the handle it was emplaced with and through no other
\* (ComponentPool<T>, which trusts its owner with the life of handles).
THEOREM PoolIsItsReference == Pool!Spec => []PoolMatchesReference
  <1>1. Pool!Init => PoolInv
    <2>1. ASSUME Pool!Init
          PROVE  PoolInv
      <3>1. /\ sparse = << >> /\ dense = << >> /\ Len(dense) = 0 /\ DOMAIN sparse = {}
            /\ reference = [i \in Pool!Index |-> Pool!Unknown]
        BY <2>1 DEF Pool!Init
      <3>2. dense \in Seq(Component)
        BY <3>1
      <3>3. sparse = [i \in DOMAIN sparse |-> sparse[i]]
        BY <3>1
      <3>4. PoolShape
        BY <3>1, <3>2, <3>3, ContainersAssumption DEF PoolShape, Pool!TypeOK, Component
      <3> QED
        BY <3>1, <3>4 DEF PoolInv, PoolPlaced, PoolUsed, PoolRecorded
    <2> QED
      BY <2>1
  <1>2. PoolInv /\ [Pool!Next]_<<sparse, dense, reference>> => PoolInv'
    BY PoolStep, ContainersAssumption
  <1>3. PoolInv => PoolMatchesReference
    BY PoolInvMatches, ContainersAssumption DEF PoolMatchesReference
  <1> QED
    BY <1>1, <1>2, <1>3, PTL DEF Pool!Spec, Pool!vars
-----------------------------------------------------------------------------
(***************************************************************************)
(* EntityManager, whose set of entities is a sparse set with the same      *)
(* sizes.  What a set holds plays no part in its operators, so that those  *)
(* of its instance are the ones above; Value is taken to be Entity where   *)
(* Sound, which says what the values are, is spoken of.                    *)
(***************************************************************************)
LEMMA SameContain ==
  ASSUME NEW s, NEW h
  PROVE  /\ Manager!Entities!Contain(s, h) <=> Contain(s, h)
         /\ Manager!Entities!TryGet(s, h) = TryGet(s, h)
  BY DEF Manager!Entities!Contain, Contain, Manager!Entities!TryGet, TryGet, Manager!Entities!Entry, Entry

LEMMA SameRemoved ==
  ASSUME NEW s, NEW h
  PROVE  Manager!Entities!Removed(s, h) = Removed(s, h)
  BY SameContain DEF Manager!Entities!Removed, Removed, Manager!Entities!Relinked, Relinked,
     Manager!Entities!UsedSlot, UsedSlot, Manager!Entities!FreeSlot, FreeSlot

LEMMA SameAdded ==
  ASSUME NEW s, NEW v
  PROVE  /\ Manager!Entities!Added(s, v) = Added(s, v)
         /\ Manager!Entities!NextHandle(s) = NextHandle(s)
         /\ Manager!Entities!ResizeSparse(s) = ResizeSparse(s)
         /\ Manager!Entities!CanResize(s) <=> CanResize(s)
         /\ Manager!Entities!Bounded(s) <=> Bounded(s)
         /\ Manager!Entities!Empty = Empty
  BY DEF Manager!Entities!Added, Added, Manager!Entities!NextHandle, NextHandle,
     Manager!Entities!ResizeSparse, ResizeSparse, Manager!Entities!CanResize, CanResize,
     Manager!Entities!Bounded, Bounded, Manager!Entities!Empty, Empty,
     Manager!Entities!UsedSlot, UsedSlot, Manager!Entities!FreeSlot, FreeSlot

\* What the set is after the first p entities of the dense array were looked at.
FlushStep(s, f, p) ==
    IF p = 0 THEN s
    ELSE IF s.dense[p].value.pendingDestroy
         THEN Manager!Entities!Removed(f[p - 1], s.dense[p].handle) ELSE f[p - 1]

Flushed(s, f, n) == f = [p \in 0..n |-> FlushStep(s, f, p)]

\* Numbers have a least one.
LEMMA LeastNumber ==
  ASSUME NEW T, T \subseteq Nat, T # {}
  PROVE  \E x \in T : \A y \in T : x <= y
  <1>1. PICK x \in T : \A y \in T : ~(<<y, x>> \in OpToRel(<, Nat))
    BY NatLessThanWellFounded, WFMin
  <1>2. \A y \in T : ~(y < x)
    BY <1>1 DEF OpToRel
  <1>3. x \in Nat /\ \A y \in T : y \in Nat
    OBVIOUS
  <1> QED
    BY <1>2, <1>3

\* The recursion has a solution: one for n entities goes on to one for n + 1.
LEMMA FlushDefined ==
  ASSUME NEW s, NEW n \in Nat
  PROVE  \E f : Flushed(s, f, n)
  <1>1. PICK T : T = {m \in Nat : ~(\E f : Flushed(s, f, m))}
    OBVIOUS
  <1>2. SUFFICES ASSUME T # {} PROVE FALSE
    BY <1>1
  <1>3. PICK m \in T : \A y \in T : m <= y
    BY <1>1, <1>2, LeastNumber
  <1>4. m \in Nat
    BY <1>1
  <1>5. CASE m = 0
    <2>1. PICK f : f = [p \in 0..m |-> s]
      OBVIOUS
    <2>2. \A p \in 0..m : p = 0
      BY <1>5
    <2>3. Flushed(s, f, m)
      BY <2>1, <2>2 DEF Flushed, FlushStep
    <2> QED
      BY <1>1, <2>3
  <1>6. CASE m # 0
    <2>1. m - 1 \in Nat /\ ~(m <= m - 1)
      BY <1>4, <1>6
    <2>2. m - 1 \notin T
      BY <1>3, <2>1
    <2>3. PICK f : Flushed(s, f, m - 1)
      BY <1>1, <2>1, <2>2
    <2>4. PICK last : last = FlushStep(s, f, m)
      OBVIOUS
    <2>5. PICK g : g = [p \in 0..m |-> IF p = m THEN last ELSE f[p]]
      OBVIOUS
    <2>6. ASSUME NEW p \in 0..m
          PROVE  g[p] = FlushStep(s, g, p)
      <3>1. CASE p = 0
        <4>1. p \in 0..(m - 1) /\ p # m
          BY <1>4, <1>6, <3>1
        <4>2. g[p] = f[p] /\ f[p] = FlushStep(s, f, p)
          BY <2>3, <2>5, <4>1 DEF Flushed
        <4> QED
          BY <3>1, <4>2 DEF FlushStep
      <3>2. CASE p # 0
        <4>1. p - 1 \in 0..(m - 1) /\ p - 1 \in 0..m /\ p - 1 # m
          BY <1>4, <3>2
        <4>2. g[p - 1] = f[p - 1]
          BY <2>5, <4>1
        <4>3. FlushStep(s, g, p) = FlushStep(s, f, p)
          BY <4>2 DEF FlushStep
        <4>4. CASE p = m
          BY <2>4, <2>5, <4>3, <4>4
        <4>5. CASE p # m
          <5>1. p \in 0..(m - 1)
            BY <1>4, <4>5
          <5>2. g[p] = f[p] /\ f[p] = FlushStep(s, f, p)
            BY <2>3, <2>5, <4>5, <5>1 DEF Flushed
          <5> QED
            BY <4>3, <5>2
        <4> QED
          BY <4>4, <4>5
      <3> QED
        BY <3>1, <3>2
    <2>7. Flushed(s, g, m)
      <3>1. g = [p \in 0..m |-> g[p]]
        BY <2>5
      <3> QED
        BY <2>6, <3>1 DEF Flushed
    <2> QED
      BY <1>1, <2>7
  <1> QED
    BY <1>5, <1>6

LEMMA FlushUnrolled ==
  ASSUME NEW s, Len(s.dense) \in Nat
  PROVE  \E f : /\ Manager!RemovedMarked(s) = f[Len(s.dense)]
                /\ f[0] = s
                /\ \A p \in 1..Len(s.dense) : f[p] = FlushStep(s, f, p)
  <1>1. PICK n \in Nat : n = Len(s.dense)
    OBVIOUS
  <1>2. PICK f : f = CHOOSE g : g = [p \in 0..n |->
                        IF p = 0 THEN s
                        ELSE IF s.dense[p].value.pendingDestroy
                             THEN Manager!Entities!Removed(g[p - 1], s.dense[p].handle) ELSE g[p - 1]]
    OBVIOUS
  <1>3. \E g : g = [p \in 0..n |->
                        IF p = 0 THEN s
                        ELSE IF s.dense[p].value.pendingDestroy
                             THEN Manager!Entities!Removed(g[p - 1], s.dense[p].handle) ELSE g[p - 1]]
    <2>1. PICK g : Flushed(s, g, n)
      BY FlushDefined
    <2> QED
      BY Zenon, <2>1 DEF Flushed, FlushStep
  <1>4. f = [p \in 0..n |->
                        IF p = 0 THEN s
                        ELSE IF s.dense[p].value.pendingDestroy
                             THEN Manager!Entities!Removed(f[p - 1], s.dense[p].handle) ELSE f[p - 1]]
    BY Zenon, <1>2, <1>3
  <1>5. Flushed(s, f, n)
    BY Zenon, <1>4 DEF Flushed, FlushStep
  <1>6. \A p \in 0..n : f[p] = FlushStep(s, f, p)
    BY <1>5 DEF Flushed
  <1>7. Manager!RemovedMarked(s) = f[Len(s.dense)]
    BY <1>1, <1>2 DEF Manager!RemovedMarked
  <1>8. 0 \in 0..n /\ \A p \in 1..n : p \in 0..n
    OBVIOUS
  <1>9. f[0] = s
    BY <1>6, <1>8 DEF FlushStep
  <1> QED
    BY <1>1, <1>6, <1>7, <1>8, <1>9

\* One of the first p entities of the dense array has the handle and was marked.
MarkedBefore(s, p, g) ==
    \E q \in 1..p : s.dense[q].handle = g /\ s.dense[q].value.pendingDestroy

\* What the set t shows once the first p entities of s were looked at.
ShowsUnmarked(s, t, p) ==
    /\ Sound(t)
    /\ \A g \in Handle : Contain(t, g) <=> Contain(s, g) /\ ~MarkedBefore(s, p, g)
    /\ \A g \in Handle : Contain(t, g) => TryGet(t, g) = TryGet(s, g)

LEMMA ContainedBelowBound ==
  ASSUME NEW s, Sound(s), Bounded(s), NEW h \in Handle, Contain(s, h)
  PROVE  h.generation <= MaxGeneration
  <1>1. h.index \in Slots(s) /\ s.sparse[h.index].generation = h.generation
    BY ContainIs
  <1>2. DOMAIN s.sparse = Slots(s)
    BY DEF Sound, Shape
  <1> QED
    BY <1>1, <1>2 DEF Bounded

LEMMA FlushOne ==
  ASSUME NEW s, Sound(s), Bounded(s), NEW p \in Nat, p + 1 <= Len(s.dense), NEW t, ShowsUnmarked(s, t, p),
         NEW u, u = IF s.dense[p + 1].value.pendingDestroy
                    THEN Manager!Entities!Removed(t, s.dense[p + 1].handle) ELSE t
  PROVE  ShowsUnmarked(s, u, p + 1)
  <1>1. /\ Shape(s) /\ Len(s.dense) \in Nat /\ p + 1 \in 1..Len(s.dense)
    BY DEF Sound, Shape
  <1>2. PICK h : h = s.dense[p + 1].handle
    OBVIOUS
  <1>3. h \in Handle
    BY <1>1, <1>2, ItemFields
  <1>4. \A q \in 1..(p + 1) : q \in 1..p \/ q = p + 1
    OBVIOUS
  <1>5. 1..p \subseteq 1..(p + 1) /\ p + 1 \in 1..(p + 1)
    OBVIOUS
  <1>6. \A g : MarkedBefore(s, p + 1, g) <=>
                  (MarkedBefore(s, p, g) \/ (g = h /\ s.dense[p + 1].value.pendingDestroy))
    BY <1>2, <1>4, <1>5 DEF MarkedBefore
  <1>7. CASE ~s.dense[p + 1].value.pendingDestroy
    <2>1. u = t
      BY <1>7
    <2>2. \A g : MarkedBefore(s, p + 1, g) <=> MarkedBefore(s, p, g)
      BY <1>6, <1>7
    <2> QED
      BY <2>1, <2>2 DEF ShowsUnmarked
  <1>8. CASE s.dense[p + 1].value.pendingDestroy
    <2>1. u = Removed(t, h)
      BY <1>2, <1>8, SameRemoved
    <2>2. \A g : MarkedBefore(s, p + 1, g) <=> (MarkedBefore(s, p, g) \/ g = h)
      BY <1>6, <1>8
    <2>3. CASE ~Contain(t, h)
      <3>1. u = t
        BY <2>1, <2>3 DEF Removed
      <3> QED
        BY <1>3, <2>2, <2>3, <3>1 DEF ShowsUnmarked
    <2>4. CASE Contain(t, h)
      <3>1. h.generation <= MaxGeneration
        BY <1>3, <2>4, ContainedBelowBound DEF ShowsUnmarked
      <3>2. Sound(t)
        BY DEF ShowsUnmarked
      <3>3. /\ \A g \in Handle : Contain(u, g) <=> Contain(t, g) /\ g # h
            /\ \A g \in Handle : Contain(u, g) => TryGet(u, g) = TryGet(t, g)
        BY <1>3, <2>1, <2>4, <3>1, <3>2, RemoveSeen
      <3>4. Sound(u)
        BY <1>3, <2>1, <2>4, <3>1, <3>2, RemovedSound
      <3>5. \A g \in Handle : Contain(t, g) <=> Contain(s, g) /\ ~MarkedBefore(s, p, g)
        BY DEF ShowsUnmarked
      <3>6. \A g \in Handle : Contain(t, g) => TryGet(t, g) = TryGet(s, g)
        BY DEF ShowsUnmarked
      <3> QED
        BY <2>2, <3>3, <3>4, <3>5, <3>6 DEF ShowsUnmarked
    <2> QED
      BY <2>3, <2>4
  <1> QED
    BY <1>7, <1>8

LEMMA FlushShows ==
  ASSUME NEW s, Sound(s), Bounded(s)
  PROVE  ShowsUnmarked(s, Manager!RemovedMarked(s), Len(s.dense))
  <1>1. Len(s.dense) \in Nat
    BY DEF Sound, Shape
  <1>2. PICK f : /\ Manager!RemovedMarked(s) = f[Len(s.dense)]
                 /\ f[0] = s
                 /\ \A p \in 1..Len(s.dense) : f[p] = FlushStep(s, f, p)
    BY <1>1, FlushUnrolled
  <1>3. PICK T : T = {p \in 0..Len(s.dense) : ~ShowsUnmarked(s, f[p], p)}
    OBVIOUS
  <1>4. ASSUME T # {} PROVE FALSE
    <2>1. T \subseteq Nat
      BY <1>1, <1>3
    <2>2. PICK m \in T : \A y \in T : m <= y
      BY <1>4, <2>1, LeastNumber
    <2>3. m \in 0..Len(s.dense) /\ m \in Nat /\ ~ShowsUnmarked(s, f[m], m)
      BY <1>3, <2>1
    <2>4. CASE m = 0
      <3>1. \A g : ~MarkedBefore(s, 0, g)
        BY DEF MarkedBefore
      <3>2. ShowsUnmarked(s, s, 0)
        BY <3>1 DEF ShowsUnmarked
      <3> QED
        BY <1>2, <2>3, <2>4, <3>2
    <2>5. CASE m # 0
      <3>1. PICK p \in Nat : m = p + 1
        <4>1. m - 1 \in Nat /\ m = (m - 1) + 1
          BY <2>3, <2>5
        <4> QED
          BY <4>1
      <3>2. p \in 0..Len(s.dense) /\ ~(m <= p) /\ m \in 1..Len(s.dense) /\ p + 1 <= Len(s.dense) /\ m # 0
        BY <1>1, <2>3, <3>1
      <3>3. ShowsUnmarked(s, f[p], p)
        BY <1>3, <2>2, <3>2
      <3>4. (p + 1) - 1 = p
        OBVIOUS
      <3>5. f[p + 1] = IF s.dense[p + 1].value.pendingDestroy
                       THEN Manager!Entities!Removed(f[p], s.dense[p + 1].handle) ELSE f[p]
        BY <1>2, <3>1, <3>2, <3>4 DEF FlushStep
      <3>6. ShowsUnmarked(s, f[p + 1], p + 1)
        BY <3>2, <3>3, <3>5, FlushOne
      <3> QED
        BY <2>3, <3>1, <3>6
    <2> QED
      BY <2>4, <2>5
  <1>5. Len(s.dense) \in 0..Len(s.dense)
    BY <1>1
  <1> QED
    BY <1>2, <1>3, <1>4, <1>5

\* A handle finds one entity, so that it was marked if any with this handle was.
LEMMA MarkedIsFound ==
  ASSUME NEW s, Sound(s), NEW g \in Handle, Contain(s, g)
  PROVE  MarkedBefore(s, Len(s.dense), g) <=> TryGet(s, g).pendingDestroy
  <1>1. /\ g.index \in Slots(s) /\ s.sparse[g.index].used /\ s.sparse[g.index].generation = g.generation
        /\ g = [index |-> g.index, generation |-> g.generation]
    BY ContainIs DEF Handle
  <1>2. PICK n \in Nat : n = s.sparse[g.index].packed
    BY <1>1, SlotFields DEF Sound
  <1>3. Len(s.dense) \in Nat
    BY DEF Sound, Shape
  <1>4. n + 1 \in 1..Len(s.dense) /\ s.dense[n + 1].handle = g
    BY <1>1, <1>2, <1>3 DEF Sound, Used
  <1>5. TryGet(s, g) = s.dense[n + 1].value
    BY <1>2 DEF TryGet, Entry
  <1>6. ASSUME NEW q \in 1..Len(s.dense), s.dense[q].handle = g
        PROVE  q = n + 1
    <2>1. s.sparse[g.index] = [used |-> TRUE, packed |-> q - 1, generation |-> g.generation]
      BY <1>6 DEF Sound, Placed
    <2>2. n = q - 1
      BY <1>2, <2>1
    <2> QED
      BY <1>3, <2>2
  <1> QED
    BY <1>4, <1>5, <1>6 DEF MarkedBefore

\* The entities fit the bits of the slots, and were created; the bound on the generations is kept.
EntitiesInv == Sound(entities) /\ Bounded(entities) /\ given \subseteq Handle

\* A set is as sound when values are replaced by others in their places.
LEMMA ValuesReplaced ==
  ASSUME NEW s, Sound(s), Bounded(s), NEW d, d \in Seq(Item), Len(d) = Len(s.dense),
         \A p \in 1..Len(d) : d[p].handle = s.dense[p].handle,
         NEW t, t = [head |-> s.head, size |-> s.size, sparse |-> s.sparse, dense |-> d]
  PROVE  Sound(t) /\ Bounded(t)
  <1>1. /\ t.head = s.head /\ t.size = s.size /\ t.sparse = s.sparse /\ t.dense = d
        /\ Slots(t) = Slots(s) /\ Len(d) \in Nat
    BY DEF Slots
  <1>2. Shape(t)
    BY <1>1 DEF Sound, Shape
  <1>3. PICK length, list : FreeList(s, length, list)
    BY DEF Sound
  <1>4. FreeList(t, length, list)
    BY <1>1, <1>3 DEF FreeList
  <1>5. Placed(t)
    BY <1>1 DEF Sound, Placed
  <1>6. Used(t)
    <2>1. ASSUME NEW i \in Slots(t), t.sparse[i].used
          PROVE  /\ t.sparse[i].packed < Len(t.dense)
                 /\ t.dense[t.sparse[i].packed + 1].handle =
                        [index |-> i, generation |-> t.sparse[i].generation]
      <3>1. PICK n \in Nat : n = s.sparse[i].packed
        BY <1>1, SlotFields DEF Sound
      <3>2. /\ n < Len(s.dense)
            /\ s.dense[n + 1].handle = [index |-> i, generation |-> s.sparse[i].generation]
        BY <1>1, <2>1, <3>1 DEF Sound, Used
      <3>3. n + 1 \in 1..Len(d)
        BY <1>1, <3>1, <3>2
      <3> QED
        BY <1>1, <3>1, <3>2, <3>3
    <2> QED
      BY <2>1 DEF Used
  <1>7. Bounded(t)
    BY <1>1 DEF Bounded
  <1> QED
    BY <1>2, <1>4, <1>5, <1>6, <1>7 DEF Sound

LEMMA CreateKeeps ==
  ASSUME Value = Manager!Entity, MaxPosition \in Nat, EntitiesInv, Manager!CreateEntity
  PROVE  EntitiesInv'
  <1>1. PICK s, v, t, h : /\ s = ResizeSparse(entities) /\ v = Manager!NewEntity
                          /\ t = Added(s, v) /\ h = NextHandle(s)
    OBVIOUS
  <1>2. CanResize(entities) /\ entities' = t /\ given' = given \union {h}
    BY <1>1, SameAdded DEF Manager!CreateEntity
  <1>3. v \in Value
    BY <1>1 DEF Manager!NewEntity, Manager!Entity
  <1>4. /\ Sound(s) /\ s.head < s.size
        /\ Slots(entities) \subseteq Slots(s) /\ \A i \in Slots(entities) : s.sparse[i] = entities.sparse[i]
    BY <1>1, <1>2, ResizeSound DEF EntitiesInv
  <1>5. Bounded(s)
    <2>1. MaxGeneration \in Nat /\ 1 <= MaxGeneration
      BY SparseSetAssumption
    <2>2. CASE entities.head # entities.size
      BY <1>1, <2>2 DEF ResizeSparse, EntitiesInv
    <2>3. CASE entities.head = entities.size
      <3>1. s.sparse = [i \in 0..(2 * entities.size - 1) |->
                           IF i < entities.size THEN entities.sparse[i] ELSE FreeSlot(i + 1, 1)]
        BY <1>1, <2>3 DEF ResizeSparse, EntitiesInv, Sound, Shape
      <3>2. entities.size \in Nat /\ DOMAIN entities.sparse = 0..(entities.size - 1)
        BY Sizes DEF EntitiesInv, Sound, Shape, Slots
      <3>3. ASSUME NEW i \in DOMAIN s.sparse PROVE s.sparse[i].generation <= MaxGeneration
        <4>1. i \in 0..(2 * entities.size - 1)
          BY <3>1
        <4>2. CASE i < entities.size
          <5>1. s.sparse[i] = entities.sparse[i] /\ i \in DOMAIN entities.sparse
            BY <3>1, <3>2, <4>1, <4>2
          <5> QED
            BY <5>1 DEF EntitiesInv, Bounded
        <4>3. CASE ~(i < entities.size)
          <5>1. s.sparse[i] = FreeSlot(i + 1, 1)
            BY <3>1, <4>1, <4>3
          <5> QED
            BY <2>1, <5>1 DEF FreeSlot
        <4> QED
          BY <4>2, <4>3
      <3> QED
        BY <3>3 DEF Bounded
    <2> QED
      BY <2>2, <2>3
  <1>6. IsAdded(s, v, t)
    BY <1>1, <1>3, <1>4, AddedSound
  <1>7. Sound(t) /\ h \in Handle
    BY <1>1, <1>6 DEF IsAdded
  <1>8. Bounded(t)
    <2>1. DOMAIN t.sparse = Slots(s) /\ DOMAIN s.sparse = Slots(s)
      BY <1>4, <1>6, <1>7 DEF IsAdded, Sound, Shape
    <2>2. ASSUME NEW i \in Slots(s) PROVE t.sparse[i].generation = s.sparse[i].generation
      BY <1>6 DEF IsAdded
    <2> QED
      BY <1>5, <2>1, <2>2 DEF Bounded
  <1> QED
    BY <1>2, <1>7, <1>8 DEF EntitiesInv

LEMMA UpdatedKeeps ==
  ASSUME Value = Manager!Entity, EntitiesInv, NEW h \in given, Manager!Found(h),
         NEW e \in Manager!Entity, entities' = Manager!Updated(h, e), given' = given
  PROVE  EntitiesInv'
  <1>1. PICK s : s = entities
    OBVIOUS
  <1>2. Sound(s) /\ Bounded(s) /\ h \in Handle /\ Contain(s, h)
    BY <1>1, SameContain DEF EntitiesInv, Manager!Found
  <1>3. h.index \in Slots(s) /\ s.sparse[h.index].used
    BY <1>2, ContainIs
  <1>4. PICK n \in Nat : n = s.sparse[h.index].packed
    BY <1>2, <1>3, SlotFields DEF Sound
  <1>5. /\ n + 1 \in 1..Len(s.dense) /\ Len(s.dense) \in Nat /\ s.dense \in Seq(Item)
        /\ s = [head |-> s.head, size |-> s.size, sparse |-> s.sparse, dense |-> s.dense]
    <2>1. /\ s.dense \in Seq(Item)
          /\ s = [head |-> s.head, size |-> s.size, sparse |-> s.sparse, dense |-> s.dense]
      BY <1>2 DEF Sound, Shape
    <2>2. Len(s.dense) \in Nat
      BY <2>1
    <2>3. n < Len(s.dense)
      BY <1>2, <1>3, <1>4 DEF Sound, Used
    <2> QED
      BY <2>1, <2>2, <2>3
  <1>6. PICK item : item = [s.dense[n + 1] EXCEPT !.value = e]
    OBVIOUS
  <1>7. PICK d : d = [s.dense EXCEPT ![n + 1] = item]
    OBVIOUS
  <1>8. item \in Item /\ item.handle = s.dense[n + 1].handle
    <2>1. s.dense[n + 1] \in Item
      BY <1>5
    <2> QED
      BY <1>6, <2>1 DEF Item
  <1>9. d \in Seq(Item) /\ Len(d) = Len(s.dense)
    BY <1>5, <1>7, <1>8
  <1>10. \A p \in 1..Len(d) : d[p].handle = s.dense[p].handle
    BY <1>5, <1>7, <1>8, <1>9
  <1>11. entities' = [head |-> s.head, size |-> s.size, sparse |-> s.sparse, dense |-> d]
    BY <1>1, <1>4, <1>5, <1>6, <1>7 DEF Manager!Updated
  <1>12. PICK t : t = [head |-> s.head, size |-> s.size, sparse |-> s.sparse, dense |-> d]
    OBVIOUS
  <1>13. Sound(t) /\ Bounded(t)
    BY <1>2, <1>9, <1>10, <1>12, ValuesReplaced
  <1> QED
    BY <1>11, <1>12, <1>13 DEF EntitiesInv

LEMMA FoundIsEntity ==
  ASSUME Value = Manager!Entity, EntitiesInv, NEW h \in given, Manager!Found(h)
  PROVE  Manager!FindEntity(h) \in Manager!Entity
  <1>1. PICK s : s = entities
    OBVIOUS
  <1>2. Sound(s) /\ h \in Handle /\ Contain(s, h)
    BY <1>1, SameContain DEF EntitiesInv, Manager!Found
  <1>3. h.index \in Slots(s) /\ s.sparse[h.index].used
    BY <1>2, ContainIs
  <1>4. PICK n \in Nat : n = s.sparse[h.index].packed
    BY <1>2, <1>3, SlotFields DEF Sound
  <1>5. Shape(s) /\ Len(s.dense) \in Nat
    BY <1>2 DEF Sound, Shape
  <1>6. n < Len(s.dense)
    BY <1>2, <1>3, <1>4 DEF Sound, Used
  <1>7. n + 1 \in 1..Len(s.dense)
    BY <1>5, <1>6
  <1>8. s.dense[n + 1].value \in Value
    BY <1>5, <1>7, ItemFields
  <1>9. Manager!FindEntity(h) = s.dense[n + 1].value
    BY <1>1, <1>4, SameContain DEF Manager!FindEntity, TryGet, Entry
  <1> QED
    BY <1>8, <1>9

LEMMA SetComponentsKeeps ==
  ASSUME Value = Manager!Entity, EntitiesInv, NEW h \in given, Manager!SetComponents(h)
  PROVE  EntitiesInv'
  <1>1. PICK e : e = [Manager!FindEntity(h) EXCEPT !.movable = TRUE]
    OBVIOUS
  <1>2. Manager!Found(h) /\ entities' = Manager!Updated(h, e) /\ given' = given
    BY <1>1 DEF Manager!SetComponents
  <1>3. e \in Manager!Entity
    BY <1>1, <1>2, FoundIsEntity DEF Manager!Entity
  <1> QED
    BY <1>2, <1>3, UpdatedKeeps

LEMMA DestroyEntityKeeps ==
  ASSUME Value = Manager!Entity, EntitiesInv, NEW h \in given, Manager!DestroyEntity(h)
  PROVE  EntitiesInv'
  <1>1. PICK e : e = [Manager!FindEntity(h) EXCEPT !.pendingDestroy = TRUE]
    OBVIOUS
  <1>2. Manager!Found(h) /\ entities' = Manager!Updated(h, e) /\ given' = given
    BY <1>1 DEF Manager!DestroyEntity
  <1>3. e \in Manager!Entity
    BY <1>1, <1>2, FoundIsEntity DEF Manager!Entity
  <1> QED
    BY <1>2, <1>3, UpdatedKeeps

LEMMA UpdateMovementKeeps ==
  ASSUME Value = Manager!Entity, MaxPosition \in Nat, EntitiesInv, Manager!UpdateMovement
  PROVE  EntitiesInv'
  <1>1. PICK s : s = entities
    OBVIOUS
  <1>2. PICK d : d = [p \in DOMAIN s.dense |->
                         [s.dense[p] EXCEPT !.value = Manager!IntegrateMovement(@)]]
    OBVIOUS
  <1>3. PICK t : t = [head |-> s.head, size |-> s.size, sparse |-> s.sparse, dense |-> d]
    OBVIOUS
  <1>4. /\ Sound(s) /\ Bounded(s) /\ Shape(s) /\ s.dense \in Seq(Item)
        /\ s = [head |-> s.head, size |-> s.size, sparse |-> s.sparse, dense |-> s.dense]
    BY <1>1 DEF EntitiesInv, Sound, Shape
  <1>5. Len(s.dense) \in Nat /\ DOMAIN s.dense = 1..Len(s.dense)
    BY <1>4
  <1>6. given' = given /\ \A p \in DOMAIN s.dense : s.dense[p].value.position < MaxPosition
    BY <1>1 DEF Manager!UpdateMovement
  <1>7. entities' = t
    <2>1. entities' = [s EXCEPT !.dense = d]
      BY <1>1, <1>2 DEF Manager!UpdateMovement
    <2> QED
      BY <1>3, <1>4, <2>1
  <1>8. ASSUME NEW p \in 1..Len(s.dense)
        PROVE  d[p] \in Item /\ d[p].handle = s.dense[p].handle
    <2>1. PICK e : e = s.dense[p].value
      OBVIOUS
    <2>2. s.dense[p] \in Item /\ e \in Manager!Entity /\ e.position < MaxPosition
      BY <1>4, <1>5, <1>6, <2>1, ItemFields
    <2>3. e.position \in 0..MaxPosition /\ e.pendingDestroy \in BOOLEAN /\ e.movable \in BOOLEAN
      BY <2>2 DEF Manager!Entity
    <2>4. e.position + 1 \in 0..MaxPosition
      BY <2>2, <2>3
    <2>5. PICK moved : moved = [e EXCEPT !.position = e.position + 1]
      OBVIOUS
    <2>6. moved \in Manager!Entity
      BY <2>2, <2>4, <2>5 DEF Manager!Entity
    <2>7. Manager!IntegrateMovement(e) \in Value
      BY <2>2, <2>5, <2>6 DEF Manager!IntegrateMovement
    <2>8. PICK new : new = Manager!IntegrateMovement(e)
      OBVIOUS
    <2>9. d[p] = [s.dense[p] EXCEPT !.value = new]
      BY <1>2, <1>5, <2>1, <2>8
    <2> QED
      BY <2>2, <2>7, <2>8, <2>9 DEF Item
  <1>9. d \in Seq(Item) /\ Len(d) = Len(s.dense)
    <2>1. d \in [1..Len(s.dense) -> Item]
      BY <1>2, <1>5, <1>8
    <2> QED
      BY <1>5, <2>1
  <1>10. \A p \in 1..Len(d) : d[p].handle = s.dense[p].handle
    BY <1>8, <1>9
  <1>11. Sound(t) /\ Bounded(t)
    BY <1>3, <1>4, <1>9, <1>10, ValuesReplaced
  <1> QED
    BY <1>6, <1>7, <1>11 DEF EntitiesInv

LEMMA FlushDestroyedKeeps ==
  ASSUME EntitiesInv, Manager!FlushDestroyed
  PROVE  EntitiesInv'
  <1>1. PICK s, t : s = entities /\ t = Manager!RemovedMarked(s)
    OBVIOUS
  <1>2. entities' = t /\ Manager!Entities!Bounded(t) /\ given' = given
    BY <1>1 DEF Manager!FlushDestroyed
  <1>3. Sound(t)
    BY <1>1, FlushShows DEF EntitiesInv, ShowsUnmarked
  <1>4. Bounded(t)
    BY <1>2, SameAdded
  <1> QED
    BY <1>2, <1>3, <1>4 DEF EntitiesInv

LEMMA EntitiesInvInitially ==
  ASSUME Manager!Init
  PROVE  EntitiesInv
  <1>1. entities = Empty /\ given = {}
    BY SameAdded DEF Manager!Init
  <1>2. Bounded(Empty)
    <2>1. MaxGeneration \in Nat /\ 1 <= MaxGeneration
      BY SparseSetAssumption
    <2>2. Empty.sparse = [i \in 0..(InitialSize - 1) |-> FreeSlot(i + 1, 1)]
      BY DEF Empty
    <2>3. ASSUME NEW i \in DOMAIN Empty.sparse PROVE Empty.sparse[i].generation <= MaxGeneration
      <3>1. Empty.sparse[i] = FreeSlot(i + 1, 1)
        BY <2>2
      <3> QED
        BY <2>1, <3>1 DEF FreeSlot
    <2> QED
      BY <2>3 DEF Bounded
  <1> QED
    BY <1>1, <1>2, EmptySound DEF EntitiesInv

LEMMA EntitiesInvInductive ==
  ASSUME Value = Manager!Entity, MaxPosition \in Nat, EntitiesInv, [Manager!Next]_(Manager!vars)
  PROVE  EntitiesInv'
  <1>1. CASE Manager!CreateEntity
    BY <1>1, CreateKeeps
  <1>2. ASSUME NEW h \in given, Manager!SetComponents(h) PROVE EntitiesInv'
    BY <1>2, SetComponentsKeeps
  <1>3. ASSUME NEW h \in given, Manager!DestroyEntity(h) PROVE EntitiesInv'
    BY <1>3, DestroyEntityKeeps
  <1>4. CASE Manager!FlushDestroyed
    BY <1>4, FlushDestroyedKeeps
  <1>5. CASE Manager!UpdateMovement
    BY <1>5, UpdateMovementKeeps
  <1>6. CASE UNCHANGED Manager!vars
    <2>1. entities' = entities /\ given' = given
      BY <1>6 DEF Manager!vars
    <2> QED
      BY <2>1 DEF EntitiesInv
  <1> QED
    BY <1>1, <1>2, <1>3, <1>4, <1>5, <1>6 DEF Manager!Next

\* What one flush does to the entities a caller can still name.
FlushIsExact ==
    Manager!FlushDestroyed =>
        /\ Manager!Live(entities') = {h \in Manager!Live(entities) : ~Manager!FindEntity(h).pendingDestroy}
        /\ \A h \in Manager!Live(entities') :
              Manager!Entities!TryGet(entities', h) = Manager!FindEntity(h)

LEMMA FlushStepIsExact ==
  ASSUME EntitiesInv
  PROVE  FlushIsExact
  <1>1. SUFFICES ASSUME Manager!FlushDestroyed
                 PROVE  /\ Manager!Live(entities') = {h \in Manager!Live(entities) :
                                                        ~Manager!FindEntity(h).pendingDestroy}
                        /\ \A h \in Manager!Live(entities') :
                              Manager!Entities!TryGet(entities', h) = Manager!FindEntity(h)
    BY DEF FlushIsExact
  <1>2. PICK s, t : s = entities /\ t = entities'
    OBVIOUS
  <1>3. t = Manager!RemovedMarked(s) /\ given' = given /\ Sound(s) /\ Bounded(s) /\ given \subseteq Handle
    BY <1>1, <1>2 DEF Manager!FlushDestroyed, EntitiesInv
  <1>4. ShowsUnmarked(s, t, Len(s.dense))
    BY <1>3, FlushShows
  <1>5. \A h : Manager!FindEntity(h) = TryGet(s, h)
    BY <1>2, SameContain DEF Manager!FindEntity
  <1>6. ASSUME NEW h \in given
        PROVE  /\ Contain(t, h) <=> Contain(s, h) /\ ~TryGet(s, h).pendingDestroy
               /\ Contain(t, h) => TryGet(t, h) = TryGet(s, h)
    <2>1. h \in Handle
      BY <1>3
    <2>2. Contain(t, h) <=> Contain(s, h) /\ ~MarkedBefore(s, Len(s.dense), h)
      BY <1>4, <2>1 DEF ShowsUnmarked
    <2>3. Contain(s, h) => (MarkedBefore(s, Len(s.dense), h) <=> TryGet(s, h).pendingDestroy)
      BY <1>3, <2>1, MarkedIsFound
    <2>4. Contain(t, h) => TryGet(t, h) = TryGet(s, h)
      BY <1>4, <2>1 DEF ShowsUnmarked
    <2> QED
      BY <2>2, <2>3, <2>4
  <1>7. \A x, h : h \in Manager!Live(x) <=> h \in given /\ Contain(x, h)
    BY SameContain DEF Manager!Live
  <1> QED
    BY <1>2, <1>5, <1>6, <1>7, SameContain

\* A flush removes the entities that were marked and no other: the removals move
\* the entities that stay, and each of them is still found, unchanged, under its
\* handle.  The values of the sparse set, of which the statement says nothing,
\* are the entities.
THEOREM FlushRemovesTheMarked ==
  ASSUME Value = Manager!Entity
  PROVE  Manager!Spec => FlushRemovesMarked
  <1>1. Manager!Init => EntitiesInv
    BY EntitiesInvInitially
  <1>2. EntitiesInv /\ [Manager!Next]_(Manager!vars) => EntitiesInv'
    BY EntitiesInvInductive, ContainersAssumption
  <1>3. EntitiesInv => [FlushIsExact]_(Manager!vars)
    BY FlushStepIsExact
  <1>4. Manager!Spec => [][FlushIsExact]_(Manager!vars)
    BY <1>1, <1>2, <1>3, PTL DEF Manager!Spec
  <1> QED
    BY <1>4, PTL DEF FlushRemovesMarked, Manager!FlushRemovesMarked, FlushIsExact
=============================================================================
