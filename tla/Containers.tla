------------------------------ MODULE Containers ------------------------------
(***************************************************************************)
(* The containers of the world sandbox side by side: the sparse set, the   *)
(* entities kept in one, and the pools of their components.                *)
(***************************************************************************)
EXTENDS SparseSet

CONSTANTS MaxPosition,          \* of EntityManager
          MaxIndex, NoValue     \* of ComponentPool

ASSUME ContainersAssumption == MaxPosition \in Nat /\ MaxIndex \in Nat

VARIABLES
    entities, given,            \* of EntityManager; issued is the sparse set's
    sparse, dense, reference    \* of ComponentPool

Manager == INSTANCE EntityManager WITH issued <- given
Pool    == INSTANCE ComponentPool

\* FlushDestroyed removes the marked entities and no other, and leaves what the others are and
\* the handles they are found by, while its removals move them (EntityManager.cpp).
FlushRemovesMarked == Manager!FlushRemovesMarked

\* What is found in a pool under a handle is what the calls have put there, although the pool
\* does not know which handles live (ComponentPool.h).
PoolMatchesReference == Pool!PoolMatchesReference
=============================================================================
