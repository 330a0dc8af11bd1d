---------------------------- MODULE MCSequential -----------------------------
(***************************************************************************)
(* Eight parts that one thread runs and that do not call each other, side  *)
(* by side: a behaviour is one of one part, under any sequence of its      *)
(* calls, while the others stay in one initial state.                      *)
(***************************************************************************)
EXTENDS Containers, VulkanSamples, ServiceJobLayout, PacketCodec, PacketCompilation,
        SchemaInputs, SetupInputs, ComputeInputs

VARIABLE part                   \* the one that is called

Types == [size : {1, 2}, signed : BOOLEAN]
SomeSchemas ==
    UNION {[1..n -> Types] : n \in 0..2}
    \union [1..3 -> {[size |-> 1, signed |-> TRUE], [size |-> 2, signed |-> FALSE]}]

AnyBinding == [type |-> "OneWay", requestSize |-> 1, requestAlignment |-> 1]
-----------------------------------------------------------------------------
SequentialInit ==
    /\ part \in {"set", "entities", "pool", "job", "codec", "schema", "setup", "compute"}
    /\ part = "schema" \/ inputs = <<>>
    /\ Parser!Init
    /\ part = "setup" \/ machine = AnyMachine
    /\ Setup!Init
    /\ part = "compute" \/ (computer = AnyComputer /\ jobs = AnyJobs)
    /\ Compute!Init
    /\ \/ part = "codec"
       \/ /\ schema = <<>>
          /\ sender = [language |-> "cpp", version |-> 1] /\ receiver = sender
    /\ CodecInit
    /\ part = "job" \/ binding = AnyBinding
    /\ JobLayoutInit
    /\ Init /\ Manager!Init /\ Pool!Init

managerVars == <<entities, given>>
poolVars    == <<sparse, dense, reference>>
codecState  == <<layoutVars, codecVars>>
schemaVars  == <<inputs, current, scan, walk, event, stack, names, packetIds, packetNames, packets,
                 diagnostics, parsed, out>>
setupVars   == <<machine, devices, setupPc, count, list, seen, selection, memoryType, settings, alive>>
computeVars == <<computer, jobs, step, found, deviceCount, physicalDevice, family, type, job,
                 hostSide, deviceSide, command, jobFence, pending, queued, gpuValues>>

sandbox == <<vars, managerVars, poolVars>>
packet  == <<codecState, schemaVars>>
samples == <<setupVars, computeVars>>

SequentialNext ==
    /\ UNCHANGED part
    /\ \/ /\ part = "set" /\ Next
          /\ UNCHANGED <<managerVars, poolVars, jobLayoutVars, packet, samples>>
       \/ /\ part = "entities" /\ Manager!Next
          /\ UNCHANGED <<vars, poolVars, jobLayoutVars, packet, samples>>
       \/ /\ part = "pool" /\ Pool!Next
          /\ UNCHANGED <<vars, managerVars, jobLayoutVars, packet, samples>>
       \/ /\ part = "job" /\ TryBuildServiceJobLayout
          /\ UNCHANGED <<sandbox, packet, samples>>
       \/ /\ part = "codec" /\ CodecNext
          /\ UNCHANGED <<sandbox, jobLayoutVars, schemaVars, samples>>
       \/ /\ part = "schema" /\ Parser!Next
          /\ UNCHANGED <<sandbox, jobLayoutVars, codecState, samples>>
       \/ /\ part = "setup" /\ Setup!Next
          /\ UNCHANGED <<sandbox, jobLayoutVars, packet, computeVars>>
       \/ /\ part = "compute" /\ Compute!Next
          /\ UNCHANGED <<sandbox, jobLayoutVars, packet, setupVars>>

SequentialSpec ==
    SequentialInit /\ [][SequentialNext]_<<part, sandbox, jobLayoutVars, packet, samples>>
=============================================================================
