-------------------------- MODULE PacketCompilation --------------------------
(***************************************************************************)
(* The schema front end beside the other parts of the packet compiler: the *)
(* names of PacketSchema, where theirs are taken.                          *)
(***************************************************************************)
EXTENDS Integers, Sequences

CONSTANTS JsonValues, InputLists, Max16, MaxSource  \* Values, Batches, Max16, MaxSize of PacketSchema

VARIABLES
    inputs, current, scan, walk, event, stack, names, packetIds, packetNames, packets,
    diagnostics, parsed, out

Parser == INSTANCE PacketSchema WITH
    Values <- JsonValues, Batches <- InputLists, MaxSize <- MaxSource,
    batch <- inputs, step <- scan, result <- parsed

ASSUME InputsAssumption == Parser!InputsTyped

\* The descriptors come out only if every file is a legal schema and no two packets share an id
\* or a name, and are then those of the files; otherwise the caller's set is left alone and one
\* diagnostic names the first bad file, a duplicate key first (PacketSchemaCompiler.cpp).
ParseMatches == Parser!ParseMatches
=============================================================================
