----------------------------- MODULE SetupInputs -----------------------------
(***************************************************************************)
(* Inputs of VulkanSetup for TLC: one answer of the machine varied at a    *)
(* time, or a few that the code considers together.                        *)
(***************************************************************************)
EXTENDS Integers, Sequences

LOCAL Features == {"dynamicRendering", "synchronization2", "shaderDemoteToHelperInvocation"}
LOCAL Family(n, g, p) == [queueCount |-> n, graphics |-> g, present |-> p]
LOCAL Kinds ==
    {Family(1, TRUE, TRUE), Family(1, TRUE, FALSE), Family(1, FALSE, TRUE), Family(0, TRUE, TRUE)}
LOCAL FamilyLists == UNION {[1..n -> Kinds] : n \in 0..3}

LOCAL Good == [recent |-> TRUE, extensions |-> {"swapchain"}, features |-> Features,
               families |-> <<Family(1, TRUE, TRUE)>>]
LOCAL Portable == [Good EXCEPT !.extensions = {"swapchain", "portability"}]
LOCAL Devices ==
    {Good, Portable, [Good EXCEPT !.recent = FALSE], [Good EXCEPT !.extensions = {"portability"}]}
    \union {[Good EXCEPT !.features = Features \ {f}] : f \in Features}
LOCAL FewDevices == {Good, Portable, [Good EXCEPT !.families = <<>>]}
LOCAL DeviceLists == {<<>>} \union {<<d>> : d \in Devices} \union {<<d, e>> : d, e \in FewDevices}

LOCAL Surface ==
    [formats |-> <<[format |-> "rgba", space |-> "srgb"]>>, fifo |-> TRUE, colorAttachment |-> TRUE,
     minExtent |-> 1, maxExtent |-> 3, currentExtent |-> -1, minImages |-> 2, maxImages |-> 0]
LOCAL Formats == [format : {"bgra", "rgba", "other"}, space : {"srgb", "other"}]
LOCAL Surfaces ==
    {[Surface EXCEPT !.formats = f] : f \in UNION {[1..n -> Formats] : n \in 0..2}}
    \union {[Surface EXCEPT !.minExtent = lo, !.currentExtent = now, !.minImages = n, !.maxImages = m] :
                lo \in 0..2, now \in {-1, 0, 2}, n \in 1..2, m \in {0, 2, 3}}
    \union {[Surface EXCEPT !.fifo = FALSE], [Surface EXCEPT !.colorAttachment = FALSE]}

LOCAL Layers == {"surface", "debug", "layer"}
LOCAL Flags  == SUBSET {"visible", "coherent", "local"}

AnyMachine ==
    [instance |-> Layers, devices |-> <<Good>>, otherDevices |-> <<Good>>,
     memory |-> <<{"visible", "coherent"}>>, allowed |-> {1}, surface |-> Surface, framebuffer |-> 2]

SomeMachines ==
    {[AnyMachine EXCEPT !.instance = i] : i \in SUBSET Layers}
    \union {[AnyMachine EXCEPT !.devices = <<[Good EXCEPT !.families = f]>>] : f \in FamilyLists}
    \union {[AnyMachine EXCEPT !.devices = d, !.otherDevices = e] : d, e \in DeviceLists}
    \union {[AnyMachine EXCEPT !.memory = <<f, g>>, !.allowed = a] : f, g \in Flags, a \in SUBSET {1, 2}}
    \union {[AnyMachine EXCEPT !.surface = s, !.framebuffer = n] : s \in Surfaces, n \in {0, 2, 4}}
=============================================================================
