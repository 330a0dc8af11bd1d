----------------------- MODULE GeneratedFileCommitter -----------------------
(***************************************************************************)
(* PacketCompiler::Compile writing its generated files: each is compared   *)
(* with the file that is there, written beside it under the name           *)
(* <file>.tmp, and moved into its place.  What comes before is PacketTool. *)
(*                                                                         *)
(* The file system is that of POSIX: a name leads to an inode, rename      *)
(* moves a name, and a process goes on writing to the inode it has opened. *)
(* A process may be killed between any two calls, and each call may fail.  *)
(*                                                                         *)
(* An operator commented "variant" is a wrong form of the definition after *)
(* it, kept to see that a property notices it.                             *)
(***************************************************************************)
EXTENDS Integers, Sequences

CONSTANTS Process,          \* how many runs of the tool there can be at a time
          File,             \* names of generated files
          Version,          \* what a schema says: each gives other contents
          Batches,          \* what a run may have to commit: sequences of [file, version]
          Chunks,           \* parts in which contents reach the file
          Inode, NoInode

ASSUME CommitterAssumption ==
    /\ \A b \in Batches : b # <<>> /\ b \in Seq([file : File, version : Version])
    /\ Chunks \in Nat \ {0}
    /\ NoInode \notin Inode
    /\ "absent" \notin Version

Absent == "absent"          \* a part that is not in the file

VARIABLES
    final, temporary,       \* the two names of a file -> inode or NoInode
    data,                   \* inode -> part -> version or Absent
    pc, batch, next, open, written,     \* of each run
    result                  \* run -> "none", "success", "failure" or "killed"

files == <<final, temporary, data>>
local == <<batch, next, open, written>>
vars  == <<files, pc, local, result>>

Whole(v) == [k \in 1..Chunks |-> v]
Nothing  == Whole(Absent)

Target(p)   == batch[p][next[p]].file
Contents(p) == batch[p][next[p]].version
-----------------------------------------------------------------------------
Init ==
    /\ final = [f \in File |-> NoInode]
    /\ temporary = [f \in File |-> NoInode]
    /\ data = [i \in Inode |-> Nothing]
    /\ pc = [p \in Process |-> "idle"]
    /\ batch = [p \in Process |-> <<>>]
    /\ next = [p \in Process |-> 1]
    /\ open = [p \in Process |-> NoInode]
    /\ written = [p \in Process |-> 0]
    /\ result = [p \in Process |-> "none"]

Start(p, b) ==
    /\ pc[p] = "idle"
    /\ pc' = [pc EXCEPT ![p] = "inspect"]
    /\ batch' = [batch EXCEPT ![p] = b]
    /\ next' = [next EXCEPT ![p] = 1]
    /\ result' = [result EXCEPT ![p] = "none"]
    /\ UNCHANGED <<files, open, written>>

\* The file after this one, or the end.
Proceed(p) ==
    IF next[p] < Len(batch[p])
    THEN /\ next' = [next EXCEPT ![p] = @ + 1]
         /\ pc' = [pc EXCEPT ![p] = "inspect"]
         /\ UNCHANGED result
    ELSE /\ pc' = [pc EXCEPT ![p] = "idle"]
         /\ result' = [result EXCEPT ![p] = "success"]
         /\ UNCHANGED next

Fails(p) == pc' = [pc EXCEPT ![p] = "cleanup"] /\ UNCHANGED <<files, local, result>>

IsCurrentIfExists(f, v) == final[f] # NoInode        \* variant: contents not compared

IsCurrent(f, v) == final[f] # NoInode /\ data[final[f]] = Whole(v)

InspectCurrent(p) ==
    /\ pc[p] = "inspect"
    /\ IsCurrent(Target(p), Contents(p))
    /\ Proceed(p)
    /\ UNCHANGED <<files, batch, open, written>>

InspectOther(p) ==
    /\ pc[p] = "inspect"
    /\ ~IsCurrent(Target(p), Contents(p))
    /\ pc' = [pc EXCEPT ![p] = "open"]
    /\ UNCHANGED <<files, local, result>>

InspectFails(p) == pc[p] = "inspect" /\ Fails(p)

InUse(i) ==
    \/ \E f \in File : i \in {final[f], temporary[f]}
    \/ \E p \in Process : open[p] = i

\* Opening the name for writing, with std::ios::trunc, in the map of names n.
Opened(p, n, i) ==
    /\ IF n[Target(p)] = NoInode THEN ~InUse(i) ELSE i = n[Target(p)]
    /\ data' = [data EXCEPT ![i] = Nothing]
    /\ open' = [open EXCEPT ![p] = i]
    /\ written' = [written EXCEPT ![p] = 0]
    /\ pc' = [pc EXCEPT ![p] = "write"]
    /\ UNCHANGED <<batch, next, result>>

OpenInPlace(p, i) ==                        \* variant: no temporary file
    /\ pc[p] = "open"
    /\ Opened(p, final, i)
    /\ final' = [final EXCEPT ![Target(p)] = i]
    /\ temporary' = [temporary EXCEPT ![Target(p)] = i]

OpenTemporary(p, i) ==
    /\ pc[p] = "open"
    /\ Opened(p, temporary, i)
    /\ temporary' = [temporary EXCEPT ![Target(p)] = i]
    /\ UNCHANGED final

OpenFails(p) == pc[p] = "open" /\ Fails(p)

Write(p) ==
    /\ pc[p] = "write" /\ written[p] < Chunks
    /\ data' = [data EXCEPT ![open[p]][written[p] + 1] = Contents(p)]
    /\ written' = [written EXCEPT ![p] = @ + 1]
    /\ UNCHANGED <<final, temporary, pc, batch, next, open, result>>

\* write, flush or close reports an error; what was written is in the file.
WriteFails(p) ==
    /\ pc[p] = "write"
    /\ open' = [open EXCEPT ![p] = NoInode]
    /\ pc' = [pc EXCEPT ![p] = "cleanup"]
    /\ UNCHANGED <<files, batch, next, written, result>>

Close(p) ==
    /\ pc[p] = "write" /\ written[p] = Chunks
    /\ open' = [open EXCEPT ![p] = NoInode]
    /\ pc' = [pc EXCEPT ![p] = "replace"]
    /\ UNCHANGED <<files, batch, next, written, result>>

ReplaceFile(p) ==
    /\ pc[p] = "replace"
    /\ temporary[Target(p)] # NoInode
    /\ final' = [final EXCEPT ![Target(p)] = temporary[Target(p)]]
    /\ temporary' = [temporary EXCEPT ![Target(p)] = NoInode]
    /\ Proceed(p)
    /\ UNCHANGED <<data, batch, open, written>>

\* Also when the temporary name has been taken away.
ReplaceFails(p) == pc[p] = "replace" /\ Fails(p)

\* ReportOutputFailure: the temporary file goes, unless removing it fails too,
\* which is ignored; the rest of the files is not touched.
RemoveTemporaryFile(p) ==
    /\ pc[p] = "cleanup"
    /\ temporary' \in {temporary, [temporary EXCEPT ![Target(p)] = NoInode]}
    /\ pc' = [pc EXCEPT ![p] = "idle"]
    /\ result' = [result EXCEPT ![p] = "failure"]
    /\ UNCHANGED <<final, data, local>>

Kill(p) ==
    /\ pc[p] # "idle"
    /\ pc' = [pc EXCEPT ![p] = "idle"]
    /\ open' = [open EXCEPT ![p] = NoInode]
    /\ result' = [result EXCEPT ![p] = "killed"]
    /\ UNCHANGED <<files, batch, next, written>>

RunStep(p) ==
    \/ InspectCurrent(p) \/ InspectOther(p) \/ InspectFails(p)
    \/ \E i \in Inode : OpenTemporary(p, i)
    \/ OpenFails(p)
    \/ Write(p) \/ WriteFails(p) \/ Close(p)
    \/ ReplaceFile(p) \/ ReplaceFails(p)
    \/ RemoveTemporaryFile(p)

Next ==
    \E p \in Process :
        \/ \E b \in Batches : Start(p, b)
        \/ RunStep(p)
        \/ Kill(p)

Spec == Init /\ [][Next]_vars
-----------------------------------------------------------------------------
\* With one run at a time: a generated file is absent or has the whole contents
\* of one schema, at every moment, wherever a run fails or is killed.
NeverPartial ==
    \A f \in File : final[f] # NoInode => \E v \in Version : data[final[f]] = Whole(v)

\* No file is left with part of its contents once every run has ended, as
\* docs/design/issue-1-packet-codegen-rpc.md:400 says.  Weaker than NeverPartial, but
\* for runs that overlap: they share the name of the temporary file.
NothingPartialRemains == (\A p \in Process : pc[p] = "idle") => NeverPartial
=============================================================================
