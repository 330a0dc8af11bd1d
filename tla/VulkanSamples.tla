---------------------------- MODULE VulkanSamples ----------------------------
(***************************************************************************)
(* Two programs that use Vulkan side by side: the setup of the application *)
(* and the compute sample.                                                 *)
(***************************************************************************)
EXTENDS Integers, Sequences

CONSTANTS Machines,                             \* of VulkanSetup
          Computers, JobLists, Capacity, LocalSize, Word    \* of ComputeSample

VARIABLES
    machine, devices, setupPc, count, list, seen, selection, memoryType, settings, alive,
    computer, jobs, step, found, deviceCount, physicalDevice, family, type, job,
    hostSide, deviceSide, command, jobFence, pending, queued, gpuValues

Setup   == INSTANCE VulkanSetup WITH pc <- setupPc, setting <- settings
Compute == INSTANCE ComputeSample
              WITH devices <- found, host <- hostSide, device <- deviceSide, fence <- jobFence

ASSUME MachinesAssumption == Setup!MachinesTyped
ASSUME SizesAssumption    == Compute!SizesFit

\* What the setup selects serves, or it fails; the settings keep the limits of the surface; and
\* no object outlives the one it was made from (VulkanContext.cpp, Swapchain.cpp).
SetupSound == Setup!SetupSound

\* The sample reads a result after its submission has ended, and in coherent memory every
\* result is the formula's (compute_project/main.cpp).
JobsVerified == Compute!JobsVerified
=============================================================================
