---------------------------- MODULE ComputeSample ----------------------------
(***************************************************************************)
(* The compute sample (compute_project/main.cpp): it selects a device, a   *)
(* queue family and a memory type, then runs jobs one after another: the   *)
(* input is written to a buffer, a shader multiplies its first elements,   *)
(* the result is read back and compared.                                   *)
(*                                                                         *)
(* The buffer has two sides.  In coherent memory they are one; otherwise   *)
(* what one side wrote reaches the other at any time or never, since the   *)
(* program neither flushes nor invalidates.  The queue runs the workgroups *)
(* of a submission in any order, and signals the fence after the last.     *)
(*                                                                         *)
(* Numbers are those of a word of Word values.  An operator commented      *)
(* "variant" is a wrong form of the definition after it.                   *)
(***************************************************************************)
EXTENDS Integers, Sequences

CONSTANTS Computers,        \* records: what the calls of the selection answer
          JobLists,         \* sequences of [elements, multiplier]
          Capacity,         \* kBufferCapacity
          LocalSize,        \* kWorkGroupLocalSize
          Word              \* 2^32

\* The constants are 1024 and 16 of 2^32 values.
SizesFit ==
    /\ Capacity \in Nat /\ LocalSize \in Nat \ {0} /\ Word \in Nat
    /\ Capacity + LocalSize <= Word
    /\ \A list \in JobLists : list \in Seq([elements : 0..(Word - 1), multiplier : 0..(Word - 1)])

None     == 0
Required == {"visible", "coherent"}

VARIABLES
    computer, jobs,
    step,                   \* what main does next
    devices, deviceCount,   \* those that are there now; the number asked for
    physicalDevice, family, type,
    job,                    \* index of the job
    host, device,           \* the two sides of the buffer
    command,                \* what the command buffer does to the first elements
    fence,                  \* TRUE: signalled
    pending,                \* workgroups of the submission that have not run
    queued,                 \* a submission has not signalled its fence
    gpuValues

vars == <<computer, jobs, step, devices, deviceCount, physicalDevice, family, type, job,
          host, device, command, fence, pending, queued, gpuValues>>

selectionVars == <<computer, jobs, physicalDevice, family, type>>
listVars      == <<devices, deviceCount>>
bufferVars    == <<host, device>>
gpuVars       == <<command, fence, pending, queued>>

Input == [n \in 1..Capacity |-> n]
Blank == [n \in 1..Capacity |-> 0]

First(S) == IF S = {} THEN None ELSE CHOOSE n \in S : \A m \in S : n <= m

Coherent == "coherent" \in computer.types[type]

Init ==
    /\ computer \in Computers /\ jobs \in JobLists
    /\ step = "count"
    /\ devices = computer.devices /\ deviceCount = 0
    /\ physicalDevice = None /\ family = None /\ type = None
    /\ job = 1
    /\ host = Blank /\ device = Blank /\ gpuValues = Blank
    /\ command = [groups |-> 0, elements |-> 0, multiplier |-> 0]
    /\ fence = FALSE /\ pending = {} /\ queued = FALSE
-----------------------------------------------------------------------------
CountDevices ==
    /\ step = "count" /\ Len(devices) > 0
    /\ deviceCount' = Len(devices)
    /\ step' = "fetch"
    /\ UNCHANGED <<selectionVars, devices, job, bufferVars, gpuVars, gpuValues>>

\* VK_INCOMPLETE asks for the number again; the first MoltenVK device of the list.
SelectDevice ==
    /\ step = "fetch"
    /\ IF Len(devices) > deviceCount
       THEN step' = "count" /\ UNCHANGED physicalDevice
       ELSE /\ physicalDevice' = First({n \in DOMAIN devices : devices[n] = "MoltenVK"})
            /\ step' = IF physicalDevice' = None THEN "failed" ELSE "family"
    /\ UNCHANGED <<computer, jobs, family, type, listVars, job, bufferVars, gpuVars, gpuValues>>

SelectFamily ==
    /\ step = "family"
    /\ family' = First({n \in DOMAIN computer.families :
                           computer.families[n].queueCount > 0 /\ computer.families[n].compute})
    /\ step' = IF family' = None THEN "failed" ELSE "memory"
    /\ UNCHANGED <<computer, jobs, physicalDevice, type, listVars, job, bufferVars, gpuVars, gpuValues>>

HasRequiredProperties(flags) == flags \intersect Required # {}

SelectMemory ==
    /\ step = "memory"
    /\ type' = First({n \in DOMAIN computer.types :
                         n \in computer.allowed /\ HasRequiredProperties(computer.types[n])})
    /\ step' = IF type' = None THEN "failed" ELSE "map"
    /\ UNCHANGED <<computer, jobs, physicalDevice, family, listVars, job, bufferVars, gpuVars, gpuValues>>

\* memcpy to the mapping; it is seen by the device at once only in coherent memory.
HostWrites(values) ==
    /\ host' = values
    /\ device' = IF Coherent THEN values ELSE device

\* The input written and read back through the same mapping, which must give it again.
VerifyMapping ==
    /\ step = "map"
    /\ HostWrites(Input)
    /\ step' = IF host' = Input THEN "objects" ELSE "failed"
    /\ UNCHANGED <<selectionVars, listVars, job, gpuVars, gpuValues>>

\* The descriptors, the shader of the file, the pipeline, the command buffer and a fence
\* that is not signaled; any of them may be refused.
CreateObjects ==
    /\ step = "objects"
    /\ step' \in {"job", "failed"}
    /\ UNCHANGED <<selectionVars, listVars, job, bufferVars, gpuVars, gpuValues>>

WriteInput ==
    /\ step = "job" /\ job \in DOMAIN jobs
    /\ IF jobs[job].elements > Capacity
       THEN step' = "failed" /\ UNCHANGED bufferVars
       ELSE step' = "record" /\ HostWrites(Input)
    /\ UNCHANGED <<selectionVars, listVars, job, gpuVars, gpuValues>>

GroupsRoundedDown(elements) == elements \div LocalSize          \* variant
GroupCount(elements) == ((elements + LocalSize - 1) % Word) \div LocalSize

\* With no group the dispatch is left out, which the empty 1..0 does as well.
Record ==
    /\ step = "record"
    /\ command' = [groups |-> GroupCount(jobs[job].elements), elements |-> jobs[job].elements,
                   multiplier |-> jobs[job].multiplier]
    /\ step' = "reset"
    /\ UNCHANGED <<selectionVars, listVars, job, bufferVars, fence, pending, queued, gpuValues>>

FenceKept(f)  == f                                              \* variant: no reset
FenceReset(f) == FALSE

ResetFence ==
    /\ step = "reset"
    /\ fence' = FenceReset(fence)
    /\ step' = "submit"
    /\ UNCHANGED <<selectionVars, listVars, job, bufferVars, command, pending, queued, gpuValues>>

Submit ==
    /\ step = "submit"
    /\ pending' = 1..command.groups
    /\ queued' = TRUE
    /\ step' = "wait"
    /\ UNCHANGED <<selectionVars, listVars, job, bufferVars, command, fence, gpuValues>>

\* Without a timeout; if the wait fails the program aborts, and destroys nothing.
WaitForFence ==
    /\ step = "wait"
    /\ \/ fence /\ step' = "read"
       \/ step' = "aborted"
    /\ UNCHANGED <<selectionVars, listVars, job, bufferVars, gpuVars, gpuValues>>

ReadBack ==
    /\ step = "read"
    /\ gpuValues' = host
    /\ step' = "compare"
    /\ UNCHANGED <<selectionVars, listVars, job, bufferVars, gpuVars>>

Expected(j) ==
    [n \in 1..Capacity |-> IF n <= j.elements THEN (n * j.multiplier) % Word ELSE n]

Compare ==
    /\ step = "compare"
    /\ IF gpuValues = Expected(jobs[job])
       THEN step' = "job" /\ job' = job + 1
       ELSE step' = "mismatch" /\ UNCHANGED job
    /\ UNCHANGED <<selectionVars, listVars, bufferVars, gpuVars, gpuValues>>

Pass ==
    /\ step = "job" /\ job > Len(jobs)
    /\ step' = "passed"
    /\ UNCHANGED <<selectionVars, listVars, job, bufferVars, gpuVars, gpuValues>>

\* Before the jobs: no instance, no list of devices, no device, no buffer, no memory.
SetupFails ==
    /\ step \in {"count", "fetch", "memory", "map"}
    /\ step' = "failed"
    /\ UNCHANGED <<selectionVars, listVars, job, bufferVars, gpuVars, gpuValues>>

\* In a job: the buffer cannot be mapped, the commands not recorded or submitted.
JobFails ==
    /\ \/ step = "job" /\ job \in DOMAIN jobs
       \/ step \in {"record", "reset", "submit", "read"}
    /\ step' = "failed"
    /\ UNCHANGED <<selectionVars, listVars, job, bufferVars, gpuVars, gpuValues>>
-----------------------------------------------------------------------------
\* External: the queue, the shader, the memory, the list of devices.

Invocations(g) == ((g - 1) * LocalSize + 1) .. (g * LocalSize)

\* double.comp.
RunGroup(g) ==
    /\ g \in pending
    /\ pending' = pending \ {g}
    /\ device' = [n \in 1..Capacity |->
                     IF n \in Invocations(g) /\ n <= command.elements
                     THEN (device[n] * command.multiplier) % Word ELSE device[n]]
    /\ host' = IF Coherent THEN device' ELSE host
    /\ UNCHANGED <<selectionVars, step, listVars, job, command, fence, queued, gpuValues>>

Signal ==
    /\ queued /\ pending = {}
    /\ queued' = FALSE /\ fence' = TRUE
    /\ UNCHANGED <<selectionVars, step, listVars, job, bufferVars, command, pending, gpuValues>>

BecomeVisible ==
    /\ host # device
    /\ \/ host' = device /\ UNCHANGED device
       \/ device' = host /\ UNCHANGED host
    /\ UNCHANGED <<selectionVars, step, listVars, job, gpuVars, gpuValues>>

ChangeDevices ==
    /\ step \in {"count", "fetch"} /\ devices # computer.otherDevices
    /\ devices' = computer.otherDevices
    /\ UNCHANGED <<selectionVars, step, deviceCount, job, bufferVars, gpuVars, gpuValues>>

Next ==
    \/ CountDevices \/ SelectDevice \/ SelectFamily \/ SelectMemory \/ VerifyMapping
    \/ CreateObjects \/ WriteInput \/ Record \/ ResetFence \/ Submit \/ WaitForFence
    \/ ReadBack \/ Compare \/ Pass \/ SetupFails \/ JobFails
    \/ (\E g \in pending : RunGroup(g)) \/ Signal \/ BecomeVisible \/ ChangeDevices

Spec == Init /\ [][Next]_vars
-----------------------------------------------------------------------------
\* While a submission runs, main only waits for it (or has aborted); in coherent memory
\* every job of legal size gives what the shader's formula says, so no comparison fails.
JobsVerified ==
    /\ queued => step \in {"wait", "aborted"}
    /\ step = "mismatch" => ~Coherent
    /\ step = "passed" => \A n \in DOMAIN jobs : jobs[n].elements <= Capacity

\* main.cpp:272 says of a failed selection: "No compatible host-visible coherent memory
\* type."; one that is found therefore is both.
SelectedIsCoherent == type # None => Required \subseteq computer.types[type]
=============================================================================
