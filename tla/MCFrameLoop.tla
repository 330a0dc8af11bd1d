----------------------------- MODULE MCFrameLoop ----------------------------
(***************************************************************************)
(* An instance of FrameLoop for TLC.                                       *)
(***************************************************************************)
EXTENDS FrameLoop

First    == [size |-> 1, format |-> "bgra"]
Surfaces == {First, [size |-> 2, format |-> "rgba"],
             [size |-> 0, format |-> "bgra"]}
=============================================================================
