----------------------------- MODULE SparseSet -----------------------------
(***************************************************************************)
(* SparseSet<T>: values in a dense array, found through handles.  A handle *)
(* names a slot of the sparse array and the slot's generation; a used slot *)
(* holds the position of its value in the dense array, a free one the      *)
(* next free slot.  The two uses share a word: one bit says which, the     *)
(* others hold a number from 0 to Mask.                                    *)
(*                                                                         *)
(* The container is a record, so that its operations can be composed       *)
(* (EntityManager); the slots and the positions count from 0, as in the    *)
(* code, the sequence "dense" from 1.                                      *)
(*                                                                         *)
(* An operator commented "variant" is a wrong form of the definition after *)
(* it, kept to see that a property notices it.                             *)
(***************************************************************************)
EXTENDS Integers, Sequences, FiniteSets

CONSTANTS InitialSize, Mask,    \* 1024 and 2^31 - 1
          Value,
          MaxGeneration         \* bound: no slot is reused more often

ASSUME SparseSetAssumption ==
    /\ InitialSize \in Nat \ {0}
    /\ Mask \in Nat
    /\ InitialSize <= Mask
    /\ MaxGeneration \in Nat \ {0}      \* the first generation is 1

VARIABLES
    set,        \* [head, size, sparse, dense]
    issued      \* history: the handles Add has returned

vars == <<set, issued>>
-----------------------------------------------------------------------------
FreeSlot(next, generation) == [used |-> FALSE, packed |-> next, generation |-> generation]

UsedSlot(position, generation) ==
    [used |-> TRUE, packed |-> position % (Mask + 1), generation |-> generation]

Empty ==
    [head   |-> 0,
     size   |-> InitialSize,
     sparse |-> [i \in 0..(InitialSize - 1) |-> FreeSlot(i + 1, 1)],
     dense  |-> << >>]

\* ResizeSparse throws when the slots are used up and cannot be doubled.
CanResize(s) == s.head = s.size => s.size <= Mask \div 2

ResizeSparse(s) ==
    IF s.head # s.size THEN s
    ELSE [s EXCEPT
            !.size = 2 * s.size,
            !.sparse = [i \in 0..(2 * s.size - 1) |->
                           IF i < s.size THEN s.sparse[i] ELSE FreeSlot(i + 1, 1)]]

NextHandle(s) == [index |-> s.head, generation |-> s.sparse[s.head].generation]

\* Add, the slots having been doubled if it was necessary.
Added(s, v) ==
    [s EXCEPT
        !.dense = Append(@, [value |-> v, handle |-> NextHandle(s)]),
        !.sparse[s.head] = UsedSlot(Len(s.dense), @.generation),
        !.head = s.sparse[s.head].packed]

Contain(s, h) ==
    /\ h.index < s.size
    /\ s.sparse[h.index].used
    /\ s.sparse[h.index].generation = h.generation
    /\ s.sparse[h.index].packed < Len(s.dense)
    /\ s.dense[s.sparse[h.index].packed + 1].handle = h

Entry(s, h) == s.dense[s.sparse[h.index].packed + 1]

TryGet(s, h) == Entry(s, h).value                    \* for a handle it contains

RelinkedNot(s, position) == s.sparse                 \* variant: index not rewritten

\* The last value moves into the hole, and its slot follows.
Relinked(s, position) ==
    LET moved == s.dense[Len(s.dense)].handle.index
    IN  [s.sparse EXCEPT ![moved] = UsedSlot(position, @.generation)]

Removed(s, h) ==
    IF ~Contain(s, h) THEN s
    ELSE LET position == s.sparse[h.index].packed
             last     == Len(s.dense) - 1
             sparse   == IF position # last THEN Relinked(s, position) ELSE s.sparse
         IN  [s EXCEPT
                !.dense = SubSeq([@ EXCEPT ![position + 1] = s.dense[last + 1]], 1, last),
                !.sparse = [sparse EXCEPT
                               ![h.index] = FreeSlot(s.head, @.generation + 1)],
                !.head = h.index]

ClearedSameGeneration(s) ==                          \* variant: handles revive
    [s EXCEPT !.dense = << >>, !.head = 0,
              !.sparse = [i \in DOMAIN @ |-> FreeSlot(i + 1, @[i].generation)]]

Cleared(s) ==
    [s EXCEPT !.dense = << >>, !.head = 0,
              !.sparse = [i \in DOMAIN @ |-> FreeSlot(i + 1, @[i].generation + 1)]]
-----------------------------------------------------------------------------
\* The indices and generations a caller may come with, stale and unknown ones
\* included.
Handle == [index : 0..Mask, generation : 1..(MaxGeneration + 1)]

Bounded(s) == \A i \in DOMAIN s.sparse : s.sparse[i].generation <= MaxGeneration

Init == set = Empty /\ issued = {}

Add(v) ==
    /\ CanResize(set)
    /\ LET s == ResizeSparse(set)
       IN  set' = Added(s, v) /\ issued' = issued \union {NextHandle(s)}

\* push_back runs out of memory after the slots were doubled.
AddThrows ==
    /\ CanResize(set)
    /\ set' = ResizeSparse(set)
    /\ UNCHANGED issued

Remove(h) ==
    /\ set' = Removed(set, h)
    /\ Bounded(set')
    /\ UNCHANGED issued

Clear ==
    /\ set' = Cleared(set)
    /\ Bounded(set')
    /\ UNCHANGED issued

Next ==
    \/ \E v \in Value : Add(v)
    \/ AddThrows
    \/ \E h \in Handle : Remove(h)
    \/ Clear

Spec == Init /\ [][Next]_vars
-----------------------------------------------------------------------------
\* Seen through its handles the container is a map that issues each handle once
\* (HandleMap): a handle kept across a removal never finds the value that
\* came to its slot later.
Seen(s) == [h \in {g \in Handle : Contain(s, g)} |-> TryGet(s, h)]

Handles == INSTANCE HandleMap WITH contents <- Seen(set)

ImplementsHandleMap == Handles!Spec
=============================================================================
