--------------------------- MODULE ComponentPool ---------------------------
(***************************************************************************)
(* ComponentPool<T>: components stored under handles that an owner issues. *)
(* The sparse array maps the index of a handle to the position of its      *)
(* component in the dense array; the dense entry keeps the whole handle.   *)
(* The pool does not know which handles are alive, so every operation is   *)
(* open to every handle.                                                   *)
(*                                                                         *)
(* An operator commented "variant" is a wrong form of the definition after *)
(* it, kept to see that a property notices it.                             *)
(***************************************************************************)
EXTENDS Integers, Sequences

CONSTANTS MaxIndex, MaxGeneration,  \* numbers; of the handles its owner issues
          Value, NoValue        \* NoValue \notin Value

VARIABLES
    sparse,     \* index -> position in dense from 0, or Missing
    dense,      \* sequence of [value, handle]
    reference   \* history: index -> [value, generation] as the calls say

vars == <<sparse, dense, reference>>

Index  == 0..MaxIndex
Handle == [index : Index, generation : 1..MaxGeneration]

Missing == MaxIndex + 1     \* a position no component has: size_t's maximum

Unknown == [value |-> NoValue, generation |-> 0]

Init ==
    /\ sparse = << >>
    /\ dense = << >>
    /\ reference = [i \in Index |-> Unknown]

Occupied(index) == index \in DOMAIN sparse /\ sparse[index] # Missing

\* sparse_.resize(index + 1, Missing), if it is shorter.
Resized(index) ==
    [i \in (0..index) \union DOMAIN sparse |->
        IF i \in DOMAIN sparse THEN sparse[i] ELSE Missing]

\* An occupied index is refused, whatever the generation: nothing changes.
Emplace(h, v) ==
    /\ ~Occupied(h.index)
    /\ sparse' = [Resized(h.index) EXCEPT ![h.index] = Len(dense)]
    /\ dense' = Append(dense, [value |-> v, handle |-> h])
    /\ reference' = [reference EXCEPT
                        ![h.index] = [value |-> v, generation |-> h.generation]]

\* The component's constructor throws, or memory runs out, after the resize.
EmplaceThrows(h) ==
    /\ ~Occupied(h.index)
    /\ sparse' = Resized(h.index)
    /\ UNCHANGED <<dense, reference>>

Contains(h) ==
    /\ h.index \in DOMAIN sparse
    /\ sparse[h.index] < Len(dense)
    /\ dense[sparse[h.index] + 1].handle = h

TryGet(h) == IF Contains(h) THEN dense[sparse[h.index] + 1].value ELSE NoValue

\* The last component moves into the hole; its index is told, unless it is the
\* one removed.
Remove(h) ==
    /\ Contains(h)
    /\ LET position == sparse[h.index]
           last     == Len(dense) - 1
           moved    == dense[last + 1]
       IN  /\ dense' = SubSeq([dense EXCEPT ![position + 1] = moved], 1, last)
           /\ sparse' = [sparse EXCEPT ![moved.handle.index] = position,
                                       ![h.index] = Missing]
    /\ reference' = [reference EXCEPT ![h.index] = Unknown]

UnlinkedButFirst ==                         \* variant: the first is forgotten
    [i \in DOMAIN sparse |->
        IF \E p \in DOMAIN dense : p > 1 /\ dense[p].handle.index = i THEN Missing
                                                                 ELSE sparse[i]]

\* Clear visits the components, not the whole sparse array.
Unlinked ==
    [i \in DOMAIN sparse |->
        IF \E p \in DOMAIN dense : dense[p].handle.index = i THEN Missing ELSE sparse[i]]

Clear ==
    /\ sparse' = Unlinked
    /\ dense' = << >>
    /\ reference' = [i \in Index |-> Unknown]

Next ==
    \/ \E h \in Handle, v \in Value : Emplace(h, v)
    \/ \E h \in Handle : EmplaceThrows(h) \/ Remove(h)
    \/ Clear

Spec == Init /\ [][Next]_vars
-----------------------------------------------------------------------------
TypeOK ==
    /\ DOMAIN sparse \subseteq Index
    /\ \A i \in DOMAIN sparse : sparse[i] \in 0..Missing
    /\ dense \in Seq([value : Value, handle : Handle])

\* A handle finds its own component and no other: never that of an earlier or a
\* later generation of its index, and after any sequence of refused, failed and
\* successful calls.  An index is refused only while its component is there.
PoolMatchesReference ==
    /\ TypeOK
    /\ \A h \in Handle :
          /\ Contains(h) <=> reference[h.index].generation = h.generation
          /\ Contains(h) => TryGet(h) = reference[h.index].value
    /\ \A i \in Index : Occupied(i) <=> reference[i] # Unknown
=============================================================================
