------------------------- MODULE MCBoundedMpmcQueue -------------------------
(***************************************************************************)
(* Instances of BoundedMpmcQueue for TLC.  The number of items bounds the  *)
(* positions: three items in two slots make every slot be reused.          *)
(***************************************************************************)
EXTENDS BoundedMpmcQueue, TLC

\* Sound for the safety runs: threads and items are interchangeable.
Symmetry == Permutations(Thread) \union Permutations(Item)
=============================================================================
