--------------------------- MODULE MCComputeSample ---------------------------
(***************************************************************************)
(* An instance of ComputeSample for TLC.                                   *)
(***************************************************************************)
EXTENDS ComputeSample, ComputeInputs
=============================================================================
