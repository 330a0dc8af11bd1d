--------------------------- MODULE EntityManager ---------------------------
(***************************************************************************)
(* EntityManager and UpdateMovement over a SparseSet of entities: an entity*)
(* that is to be destroyed is marked, and leaves with all marked ones at   *)
(* the next flush, because the system functions iterate over the set.      *)
(*                                                                         *)
(* An operator commented "variant" is a wrong form of the definition after *)
(* it, kept to see that a property notices it.                             *)
(***************************************************************************)
EXTENDS Integers, Sequences

CONSTANTS InitialSize, Mask, MaxGeneration,     \* as in SparseSet
          MaxPosition                           \* bound on movement

VARIABLES
    entities,   \* the SparseSet: [head, size, sparse, dense]
    issued      \* history: the handles CreateEntity has returned

vars == <<entities, issued>>

\* movable: it has both a transform and a velocity.
Entity == [pendingDestroy : BOOLEAN, movable : BOOLEAN, position : 0..MaxPosition]

Entities == INSTANCE SparseSet WITH set <- entities, Value <- Entity

NewEntity == [pendingDestroy |-> FALSE, movable |-> FALSE, position |-> 0]

FindEntity(h) == Entities!TryGet(entities, h)
Found(h) == Entities!Contain(entities, h)

Updated(h, e) ==
    [entities EXCEPT !.dense[entities.sparse[h.index].packed + 1].value = e]

Init == entities = Entities!Empty /\ issued = {}

CreateEntity ==
    /\ Entities!CanResize(entities)
    /\ LET s == Entities!ResizeSparse(entities)
       IN  /\ entities' = Entities!Added(s, NewEntity)
           /\ issued' = issued \union {Entities!NextHandle(s)}

\* A caller fills in the components through the pointer FindEntity returned.
SetComponents(h) ==
    /\ Found(h)
    /\ entities' = Updated(h, [FindEntity(h) EXCEPT !.movable = TRUE])
    /\ UNCHANGED issued

DestroyEntity(h) ==
    /\ Found(h)
    /\ entities' = Updated(h, [FindEntity(h) EXCEPT !.pendingDestroy = TRUE])
    /\ UNCHANGED issued

RemovedInPlace(s) ==                        \* variant: removed while iterating
    LET after[p \in 0..Len(s.dense)] ==
            IF p = 0 THEN s
            ELSE LET t == after[p - 1]
                 IN  IF p <= Len(t.dense) /\ t.dense[p].value.pendingDestroy
                     THEN Entities!Removed(t, t.dense[p].handle) ELSE t
    IN  after[Len(s.dense)]

\* The handles are collected first, in the order of the dense array: what is marked, and under
\* which handle, is read in s, while the removals move the entities.
RemovedMarked(s) ==
    LET after[p \in 0..Len(s.dense)] ==
            IF p = 0 THEN s
            ELSE IF s.dense[p].value.pendingDestroy
                 THEN Entities!Removed(after[p - 1], s.dense[p].handle) ELSE after[p - 1]
    IN  after[Len(s.dense)]

FlushDestroyed ==
    /\ entities' = RemovedMarked(entities)
    /\ Entities!Bounded(entities')
    /\ UNCHANGED issued

IntegrateMovement(e) ==
    IF e.pendingDestroy \/ ~e.movable THEN e ELSE [e EXCEPT !.position = @ + 1]

UpdateMovement ==
    /\ \A p \in DOMAIN entities.dense : entities.dense[p].value.position < MaxPosition
    /\ entities' = [entities EXCEPT !.dense =
                       [p \in DOMAIN entities.dense |->
                           [entities.dense[p] EXCEPT !.value = IntegrateMovement(@)]]]
    /\ UNCHANGED issued

Next ==
    \/ CreateEntity
    \/ \E h \in issued : SetComponents(h) \/ DestroyEntity(h)
    \/ FlushDestroyed
    \/ UpdateMovement

Spec == Init /\ [][Next]_vars
-----------------------------------------------------------------------------
Live(s) == {h \in issued : Entities!Contain(s, h)}

\* A flush removes the entities that were marked and no other, whatever the order
\* in which the removals move the rest; the others keep their handle and value.
FlushRemovesMarked ==
    [][FlushDestroyed =>
          /\ Live(entities') = {h \in Live(entities) : ~FindEntity(h).pendingDestroy}
          /\ \A h \in Live(entities') :
                Entities!TryGet(entities', h) = FindEntity(h)]_vars
=============================================================================
