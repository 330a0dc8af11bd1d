---------------------------- MODULE MCPacketTool -----------------------------
(***************************************************************************)
(* An instance of PacketTool for TLC.                                      *)
(***************************************************************************)
EXTENDS PacketTool, TLC

Symmetry == Permutations(Inode) \union Permutations(Version)
=============================================================================
