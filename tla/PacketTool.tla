----------------------------- MODULE PacketTool ------------------------------
(***************************************************************************)
(* pstk-packet, one run after another: the configuration is loaded, the    *)
(* .json files under the input directory are listed, the output directory  *)
(* made, every schema read and compiled, every text generated, and the     *)
(* files committed one by one (GeneratedFileCommitter).  Anyone may change *)
(* the schemas meanwhile; every call may fail; a run may be killed.        *)
(*                                                                         *)
(* A schema is the name of its packet, which is also that of the generated *)
(* file, and an id, which stands for the rest: the contents differ with    *)
(* it.  What makes a schema invalid is in PacketSchema.                    *)
(***************************************************************************)
EXTENDS GeneratedFileCommitter, SequencesExt

CONSTANTS Tool,             \* the one process
          Path,             \* numbers: paths, in the order of their names
          Missing, Invalid, \* in place of a schema
          MaxChanges        \* bound on changes to the schemas

Schema == [name : File, id : Version]

ASSUME ToolAssumption ==
    /\ Process = {Tool} /\ Batches = {}
    /\ Path \subseteq Nat \ {0}
    /\ Missing # Invalid /\ Missing \notin Schema /\ Invalid \notin Schema

VARIABLES
    sources,                \* path -> a schema, Missing or Invalid
    directory,              \* the output directory exists
    paths, schemas,         \* collected; and compiled so far, in that order
    diagnostic,             \* the path named by the diagnostic, or 0
    start, changed,         \* history: the sources at the launch; have they changed since?
    readFailed,             \* history: the run could not read a file that was there
    changes

toolVars    == <<paths, schemas, diagnostic>>
historyVars == <<start, changed, readFailed>>
sourceVars  == <<sources, changes>>
allVars     == <<vars, directory, toolVars, sourceVars, historyVars>>

ToolInit ==
    /\ Init
    /\ sources \in [Path -> Schema \union {Missing, Invalid}]
    /\ directory = FALSE
    /\ paths = <<>> /\ schemas = <<>> /\ diagnostic = 0
    /\ start = sources /\ changed = FALSE /\ readFailed = FALSE /\ changes = 0

At(step)   == pc[Tool] = step
GoTo(step) == pc' = [pc EXCEPT ![Tool] = step]
-----------------------------------------------------------------------------
Launch ==
    /\ At("idle") /\ GoTo("configure")
    /\ result' = [result EXCEPT ![Tool] = "none"]
    /\ paths' = <<>> /\ schemas' = <<>> /\ diagnostic' = 0
    /\ batch' = [batch EXCEPT ![Tool] = <<>>]
    /\ next' = [next EXCEPT ![Tool] = 1] /\ written' = [written EXCEPT ![Tool] = 0]
    /\ start' = sources /\ changed' = FALSE /\ readFailed' = FALSE
    /\ UNCHANGED <<files, open, directory, sourceVars>>

\* An error that is printed, or returned without a diagnostic of the compiler.
Stop ==
    /\ GoTo("idle")
    /\ result' = [result EXCEPT ![Tool] = "failure"]

LoadConfiguration ==
    /\ At("configure") /\ GoTo("collect")
    /\ UNCHANGED <<files, local, result, directory, toolVars, sourceVars, historyVars>>

\* A step of the directory iterator, which goes through the entries in any order.
Visit(path) ==
    /\ At("collect")
    /\ sources[path] # Missing /\ path \notin ToSet(paths)
    /\ paths' = Append(paths, path)
    /\ UNCHANGED <<files, local, pc, result, directory, schemas, diagnostic, sourceVars, historyVars>>

Unsorted(s) == {s}                                          \* variant: std::sort left out

\* What std::sort makes of s: the same paths, each behind the smaller ones.
InOrder(s) == {q \in SetToSeqs(ToSet(s)) : \A m, n \in DOMAIN q : m < n => q[m] < q[n]}

\* The iterator has passed every file that was there all the time.
CollectInputPaths ==
    /\ At("collect") /\ paths # <<>>
    /\ \A path \in Path : start[path] # Missing /\ sources[path] # Missing => path \in ToSet(paths)
    /\ paths' \in InOrder(paths) /\ GoTo("directory")
    /\ UNCHANGED <<files, local, result, directory, schemas, diagnostic, sourceVars, historyVars>>

EnsureOutputDirectory ==
    /\ At("directory")
    /\ directory' = TRUE /\ GoTo("compile")
    /\ UNCHANGED <<files, local, result, toolVars, sourceVars, historyVars>>

\* The configuration, the input, the output directory or the memory is refused.
StepFails ==
    /\ pc[Tool] \in {"configure", "collect", "directory", "compile"}
    /\ Stop
    /\ UNCHANGED <<files, local, directory, toolVars, sourceVars, historyVars>>

Refused(schema, before) ==
    \/ schema \in {Missing, Invalid}
    \/ \E other \in before : other.name = schema.name \/ other.id = schema.id

CompileSchema ==
    /\ At("compile") /\ Len(schemas) < Len(paths)
    /\ LET path   == paths[Len(schemas) + 1]
           schema == sources[path]
       IN  IF Refused(schema, ToSet(schemas))
           THEN Stop /\ diagnostic' = path /\ UNCHANGED schemas
           ELSE schemas' = Append(schemas, schema) /\ UNCHANGED <<pc, result, diagnostic>>
    /\ UNCHANGED <<files, local, directory, paths, sourceVars, historyVars>>

\* The file, legal or not, is not opened or not read to its end.
ReadFails ==
    /\ At("compile") /\ Len(schemas) < Len(paths)
    /\ Stop
    /\ diagnostic' = paths[Len(schemas) + 1] /\ readFailed' = TRUE
    /\ UNCHANGED <<files, local, directory, paths, schemas, sourceVars, start, changed>>

SomeCompiled == schemas # <<>>                              \* variant: files written as they come
AllCompiled  == Len(schemas) = Len(paths)

\* One file of each descriptor, in their order; none is written before.
GenerateFiles ==
    /\ At("compile") /\ AllCompiled
    /\ batch' = [batch EXCEPT ![Tool] = [n \in DOMAIN schemas |-> [file |-> schemas[n].name,
                                                                   version |-> schemas[n].id]]]
    /\ next' = [next EXCEPT ![Tool] = 1]
    /\ GoTo("inspect")
    /\ UNCHANGED <<files, open, written, result, directory, toolVars, sourceVars, historyVars>>

Commit == RunStep(Tool) /\ UNCHANGED <<directory, toolVars, sourceVars, historyVars>>

Killed == Kill(Tool) /\ UNCHANGED <<directory, toolVars, sourceVars, historyVars>>

\* External.
ChangeSource(path, source) ==
    /\ changes < MaxChanges /\ sources[path] # source
    /\ sources' = [sources EXCEPT ![path] = source]
    /\ changes' = changes + 1 /\ changed' = TRUE
    /\ UNCHANGED <<vars, directory, toolVars, start, readFailed>>

ToolNext ==
    \/ Launch \/ LoadConfiguration
    \/ (\E path \in Path : Visit(path)) \/ CollectInputPaths
    \/ EnsureOutputDirectory \/ StepFails
    \/ CompileSchema \/ ReadFails \/ GenerateFiles
    \/ Commit \/ Killed
    \/ \E path \in Path, source \in Schema \union {Missing, Invalid} : ChangeSource(path, source)

ToolSpec == ToolInit /\ [][ToolNext]_allVars
-----------------------------------------------------------------------------
Existing == {path \in Path : start[path] # Missing}
Bad      == {path \in Existing : Refused(start[path], {start[q] : q \in {r \in Existing : r < path}} \ {Invalid})}

\* Files are made and changed only when every schema the run has listed was read and is
\* legal, and no two packets share a name or an id; and only in a directory that is there.
NothingWrittenUnlessValid ==
    [][files' # files =>
          /\ directory
          /\ Len(schemas) = Len(paths)
          /\ \A m, n \in DOMAIN schemas :
                m # n => schemas[m].name # schemas[n].name /\ schemas[m].id # schemas[n].id
      ]_<<vars, directory, toolVars>>

\* A refusal names the first file, by name, that is illegal or clashes with one before it,
\* in whatever order the directory was listed, or one no later that could not be read.
FirstProblemReported ==
    diagnostic # 0 /\ ~changed => /\ diagnostic \in Existing
                                  /\ readFailed \/ diagnostic \in Bad
                                  /\ \A path \in Bad : diagnostic <= path
                                  /\ result[Tool] \in {"none", "failure"}

\* When a run succeeds on schemas that nobody changes, all of them were legal, and each
\* has its file, with the contents that its schema gives: also when files were found
\* current and left alone, and after runs that failed or were killed.
SuccessMeansGenerated ==
    result[Tool] = "success" /\ ~changed =>
        /\ Bad = {} /\ Existing # {}
        /\ \A path \in Existing :
              LET inode == final[start[path].name]
              IN  inode # NoInode /\ data[inode] = Whole(start[path].id)
=============================================================================
