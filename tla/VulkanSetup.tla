---------------------------- MODULE VulkanSetup -----------------------------
(***************************************************************************)
(* The setup of Application::Run: window, instance, surface, device, a     *)
(* host-visible buffer, swapchain, frame resources and renderer, each of   *)
(* which may fail, and their destruction, whole or half built.             *)
(*                                                                         *)
(* A machine describes what the Vulkan implementation answers.  Its list   *)
(* of devices may change between two calls, which is why every enumeration *)
(* of the code asks for the number, then for the list, and starts again on *)
(* VK_INCOMPLETE; the one of the devices stands for all six.               *)
(*                                                                         *)
(* An operator commented "variant" is a wrong form of the definition after *)
(* it, kept to see that a property notices it.                             *)
(***************************************************************************)
EXTENDS Integers, Sequences, FiniteSets

CONSTANTS Machines          \* records: what the calls of the setup answer

Features == {"dynamicRendering", "synchronization2", "shaderDemoteToHelperInvocation"}
RequiredMemory  == {"visible", "coherent"}
RequiredFormats == {"bgra", "rgba"}
None == 0                   \* std::nullopt; indices are those of TLA+ sequences
Free == -1                  \* UINT32_MAX in a currentExtent

FamilyProperties == [queueCount : Nat, graphics : BOOLEAN, present : BOOLEAN]

DeviceProperties == [recent : BOOLEAN, extensions : SUBSET STRING, features : SUBSET Features,
                     families : Seq(FamilyProperties)]

\* std::clamp asks for a range; the extent of a minimised window is empty (Swapchain.cpp:217, 227).
IsSurface(s) ==
    /\ s.formats \in Seq([format : STRING, space : STRING])
    /\ s.minExtent \in Nat /\ s.maxExtent \in Nat /\ s.minExtent <= s.maxExtent
    /\ s.currentExtent \in {Free, 0} \union (s.minExtent .. s.maxExtent)
    /\ s.minImages \in Nat /\ s.maxImages \in Nat
    /\ s.maxImages # 0 => s.minImages <= s.maxImages      \* 0: no limit

\* What the calls are documented to answer.
MachinesTyped ==
    \A m \in Machines : /\ m.devices \in Seq(DeviceProperties)
                        /\ m.otherDevices \in Seq(DeviceProperties)
                        /\ m.memory \in Seq(SUBSET STRING)
                        /\ m.framebuffer \in Nat
                        /\ IsSurface(m.surface)

VARIABLES
    machine,
    devices,                \* those that are there now
    pc,                     \* the next step of the setup
    count, list,            \* of an enumeration: the number asked for, the answer
    seen,                   \* history: the devices at the last answer
    selection,              \* [device, graphics, present, portability]
    memoryType, setting,
    alive                   \* the objects that exist

vars == <<machine, devices, pc, count, list, seen, selection, memoryType, setting, alive>>

Objects ==                  \* in the order of their declaration, members of the context included
    <<"window", "instance", "messenger", "device", "surface", "swapchain", "frame", "renderer">>

SurfaceFirst ==             \* variant: the surface declared before the context
    <<"window", "surface", "instance", "messenger", "device", "swapchain", "frame", "renderer">>

DeclarationOrder == Objects

Parents(o) ==               \* what must exist while o does, by the rules of Vulkan and GLFW
    CASE o = "window"    -> {}
      [] o = "instance"  -> {"window"}
      [] o = "messenger" -> {"instance"}
      [] o = "surface"   -> {"instance", "window"}
      [] o = "device"    -> {"instance"}
      [] o = "swapchain" -> {"device", "surface"}
      [] o \in {"frame", "renderer"} -> {"device"}

NoSelection == [device |-> None, graphics |-> None, present |-> None, portability |-> FALSE]
NoSetting   == [format |-> None, extent |-> 0, images |-> 0]

Smallest(S) == CHOOSE n \in S : \A m \in S : n <= m
First(S)    == IF S = {} THEN None ELSE Smallest(S)     \* the loops that break at the first match
-----------------------------------------------------------------------------
\* ChooseQueueFamilies: one pass, a family that can do both wins at once.

UsableUnchecked(f) == TRUE                          \* variant: queueCount not looked at
Usable(f)          == f.queueCount > 0

ChooseQueueFamilies(families) ==
    LET usable   == {n \in DOMAIN families : Usable(families[n])}
        both     == First({n \in usable : families[n].graphics /\ families[n].present})
        graphics == First({n \in usable : families[n].graphics})
        present  == First({n \in usable : families[n].present})
    IN  IF both # None THEN <<both, both>>
        ELSE IF None \in {graphics, present} THEN <<None, None>>
        ELSE <<graphics, present>>

Accepted(d) ==
    /\ d.recent /\ "swapchain" \in d.extensions /\ Features \subseteq d.features
    /\ ChooseQueueFamilies(d.families) # <<None, None>>

SelectPhysicalDevice(candidates) ==
    LET n == First({k \in DOMAIN candidates : Accepted(candidates[k])})
    IN  IF n = None THEN NoSelection
        ELSE LET queues == ChooseQueueFamilies(candidates[n].families)
             IN  [device |-> n, graphics |-> queues[1], present |-> queues[2],
                  portability |-> "portability" \in candidates[n].extensions]

\* The types the buffer allows, by the flags each has.
SelectMemoryType(types, allowed) ==
    First({n \in DOMAIN types : n \in allowed /\ RequiredMemory \subseteq types[n]})

SelectFormatKeepingFlags(formats) ==                \* variant: the flags kept over the turns
    First({n \in DOMAIN formats :
              /\ \E m \in 1..n : formats[m].format \in RequiredFormats
              /\ formats[n].space = "srgb"})

\* The first with one of the formats and the colour space.
SelectFormat(formats) ==
    First({n \in DOMAIN formats : formats[n].format \in RequiredFormats /\ formats[n].space = "srgb"})

Clamp(n, low, high) == IF n < low THEN low ELSE IF n > high THEN high ELSE n

Extent(s, framebuffer) ==
    IF s.currentExtent = Free THEN Clamp(framebuffer, s.minExtent, s.maxExtent) ELSE s.currentExtent

ImageCount(s) ==
    IF s.maxImages # 0 /\ s.maxImages < s.minImages + 1 THEN s.maxImages ELSE s.minImages + 1

\* NoSetting stands for the exceptions and for the answer false, which end the setup alike.
ConfigureSwapchainSettings(s, framebuffer) ==
    IF \/ SelectFormat(s.formats) = None \/ ~s.fifo \/ ~s.colorAttachment
       \/ framebuffer = 0 \/ Extent(s, framebuffer) = 0
    THEN NoSetting
    ELSE [format |-> SelectFormat(s.formats), extent |-> Extent(s, framebuffer), images |-> ImageCount(s)]
-----------------------------------------------------------------------------
Init ==
    /\ machine \in Machines
    /\ devices = machine.devices
    /\ pc = "window"
    /\ count = 0 /\ list = <<>> /\ seen = <<>>
    /\ selection = NoSelection /\ memoryType = None /\ setting = NoSetting
    /\ alive = {}

Create(step, objects, next) ==
    /\ pc = step
    /\ alive' = alive \union objects
    /\ pc' = next
    /\ UNCHANGED <<machine, devices, count, list, seen, selection, memoryType, setting>>

CreateWindow == Create("window", {"window"}, "instance")

\* Every required extension and the validation layer must be there.  The messenger
\* comes with the instance in a debug build.
CreateInstance ==
    /\ "surface" \in machine.instance
    /\ \E validation \in BOOLEAN :
          /\ validation => {"debug", "layer"} \subseteq machine.instance
          /\ Create("instance", {"instance"} \union IF validation THEN {"messenger"} ELSE {}, "surface")

CreateSurface == Create("surface", {"surface"}, "count")

\* The number of devices; with none the setup fails.
CountDevices ==
    /\ pc = "count" /\ Len(devices) > 0
    /\ count' = Len(devices)
    /\ pc' = "fetch"
    /\ UNCHANGED <<machine, devices, list, seen, selection, memoryType, setting, alive>>

FetchedPadded == [n \in 1..count |-> IF n <= Len(devices) THEN devices[n]
                                     ELSE devices[1]]  \* variant: not resized to the answer

Fetched == SubSeq(devices, 1, IF count < Len(devices) THEN count ELSE Len(devices))

\* VK_INCOMPLETE starts again; a list that has become empty fails.
FetchDevices ==
    /\ pc = "fetch" /\ Len(devices) > 0
    /\ seen' = devices
    /\ IF Len(devices) > count
       THEN pc' = "count" /\ list' = <<>>
       ELSE pc' = "select" /\ list' = Fetched
    /\ UNCHANGED <<machine, devices, count, selection, memoryType, setting, alive>>

SelectDevice ==
    /\ pc = "select" /\ SelectPhysicalDevice(list).device # None
    /\ selection' = SelectPhysicalDevice(list)
    /\ pc' = "device"
    /\ UNCHANGED <<machine, devices, count, list, seen, memoryType, setting, alive>>

InitializeDevice == Create("device", {"device"}, "buffer")

\* A HostVisibleBuffer is created, written and destroyed again.
TryBuffer ==
    /\ pc = "buffer" /\ SelectMemoryType(machine.memory, machine.allowed) # None
    /\ memoryType' = SelectMemoryType(machine.memory, machine.allowed)
    /\ pc' = "configure"
    /\ UNCHANGED <<machine, devices, count, list, seen, selection, setting, alive>>

Configure ==
    /\ pc = "configure"
    /\ ConfigureSwapchainSettings(machine.surface, machine.framebuffer) # NoSetting
    /\ setting' = ConfigureSwapchainSettings(machine.surface, machine.framebuffer)
    /\ pc' = "swapchain"
    /\ UNCHANGED <<machine, devices, count, list, seen, selection, memoryType, alive>>

CreateSwapchain == Create("swapchain", {"swapchain"}, "frame")
CreateFrame     == Create("frame", {"frame"}, "renderer")
CreateRenderer  == Create("renderer", {"renderer"}, "running")

\* A refusal above, any call that fails, or the end of the run.
Unwind ==
    /\ pc \notin {"unwind", "ended"}
    /\ pc' = "unwind"
    /\ UNCHANGED <<machine, devices, count, list, seen, selection, memoryType, setting, alive>>

Position(o) == CHOOSE n \in DOMAIN DeclarationOrder : DeclarationOrder[n] = o

\* Destructors in the reverse of the declarations.
Destroy(o) ==
    /\ pc = "unwind" /\ o \in alive
    /\ \A p \in alive : Position(p) <= Position(o)
    /\ alive' = alive \ {o}
    /\ UNCHANGED <<machine, devices, pc, count, list, seen, selection, memoryType, setting>>

End ==
    /\ pc = "unwind" /\ alive = {}
    /\ pc' = "ended"
    /\ UNCHANGED <<machine, devices, count, list, seen, selection, memoryType, setting, alive>>

\* External: devices are plugged in or out.
ChangeDevices ==
    /\ pc \in {"count", "fetch"} /\ devices # machine.otherDevices
    /\ devices' = machine.otherDevices
    /\ UNCHANGED <<machine, pc, count, list, seen, selection, memoryType, setting, alive>>

Next ==
    \/ CreateWindow \/ CreateInstance \/ CreateSurface
    \/ CountDevices \/ FetchDevices \/ SelectDevice \/ InitializeDevice
    \/ TryBuffer \/ Configure \/ CreateSwapchain \/ CreateFrame \/ CreateRenderer
    \/ Unwind \/ (\E o \in alive : Destroy(o)) \/ End
    \/ ChangeDevices

Spec == Init /\ [][Next]_vars
-----------------------------------------------------------------------------
\* What the device calls that follow rely on, said of one device without the loops.
Supports(d, s) ==
    /\ d.recent /\ "swapchain" \in d.extensions /\ d.features = Features
    /\ d.families[s.graphics].queueCount > 0 /\ d.families[s.graphics].graphics
    /\ d.families[s.present].queueCount > 0 /\ d.families[s.present].present
    /\ s.portability <=> "portability" \in d.extensions     \* enabled where advertised
    /\ (\E f \in DOMAIN d.families : /\ d.families[f].queueCount > 0
                                     /\ d.families[f].graphics /\ d.families[f].present)
          => s.graphics = s.present

CouldServe(d) ==
    \E g, p \in DOMAIN d.families, portability \in BOOLEAN :
        Supports(d, [device |-> 1, graphics |-> g, present |-> p, portability |-> portability])

\* The list is that of one moment, complete; the device selected from it has everything
\* the device is created with, and none is selected only if none would do; no object
\* outlives one it was made from, wherever the setup fails.
SetupSound ==
    /\ pc = "select" => list = seen
    /\ pc = "select" => ( (\E n \in DOMAIN list : CouldServe(list[n]))
                              <=> SelectPhysicalDevice(list).device # None )
    /\ selection # NoSelection => Supports(seen[selection.device], selection)
    /\ memoryType # None => memoryType \in machine.allowed /\ RequiredMemory \subseteq machine.memory[memoryType]
    /\ setting # NoSetting =>
          LET s == machine.surface
          IN  /\ s.formats[setting.format].format \in RequiredFormats
              /\ s.formats[setting.format].space = "srgb"
              /\ setting.extent > 0
              /\ setting.extent \in s.minExtent .. s.maxExtent
              /\ setting.images >= s.minImages /\ (s.maxImages # 0 => setting.images <= s.maxImages)
    /\ \A o \in alive : Parents(o) \subseteq alive
=============================================================================
