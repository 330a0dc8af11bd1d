----------------------------- MODULE FrameLoop ------------------------------
(***************************************************************************)
(* Application::Run of the Vulkan runtime: the loop that polls the window, *)
(* makes the swapchain again when it no longer fits the surface, and draws *)
(* frames with the resources of FrameResources (a fence, a semaphore, a    *)
(* command buffer and an instance buffer for each frame in flight) and of  *)
(* Swapchain (a semaphore for each image).                                 *)
(*                                                                         *)
(* Beside the host run a graphics queue, a present queue, the presentation *)
(* engine and the user of the window.  They are external: the queues do in *)
(* order what the Vulkan calls of the host have put there, a device wait   *)
(* ends when both are empty, and the device is not lost.                   *)
(*                                                                         *)
(* An operator commented "variant" is a wrong form of the definition after *)
(* it, kept to see that a property notices it.                             *)
(***************************************************************************)
EXTENDS Integers, Sequences

CONSTANTS FramesInFlight,   \* kFramesInFlight, 2 in the code
          ImageCount,       \* how many images a swapchain has
          Surface,          \* what the surface may be: [size, format]
          FirstSurface,     \* of the window as it is opened
          Zero,             \* the size of a minimised window
          MaxChanges        \* bound: changes of the surface by the user

ASSUME FrameAssumption ==
    /\ FramesInFlight \in Nat \ {0} /\ ImageCount \in Nat \ {0}
    /\ MaxChanges \in Nat
    /\ \A s \in Surface : s = [size |-> s.size, format |-> s.format]
    /\ FirstSurface \in Surface /\ FirstSurface.size # Zero

Frame == 0 .. FramesInFlight - 1
Image == 0 .. ImageCount - 1

VARIABLES
    surface, sizeEvent, closeEvent, changes,      \* the user and the window system
    framebuffer, framebufferResized, closeRequested,        \* Window
    pc, recreateSwapchain, setting, frameIndex, imageIndex, \* Run
    swapchain,                      \* the surface it was made for
    pipelineFormat,                 \* Renderer2D
    fence, imageAvailable, renderFinished,
    graphics, executing, presents,  \* the queues; the first submission has begun
    owner                           \* image -> who may use it

user    == <<surface, sizeEvent, closeEvent, changes>>
window  == <<framebuffer, framebufferResized, closeRequested>>
host    == <<recreateSwapchain, setting, frameIndex, imageIndex>>
objects == <<swapchain, pipelineFormat>>
sync    == <<fence, imageAvailable, renderFinished>>
queues  == <<graphics, executing, presents>>
vars    == <<user, window, pc, host, objects, sync, queues, owner>>

Sizes   == {s.size : s \in Surface}
Formats == {s.format : s \in Surface}
-----------------------------------------------------------------------------
\* After the setup: a swapchain for the surface, every fence signaled.
Init ==
    /\ surface = FirstSurface
    /\ sizeEvent = FALSE /\ closeEvent = FALSE /\ changes = 0
    /\ framebuffer = surface.size /\ framebufferResized = FALSE /\ closeRequested = FALSE
    /\ pc = "poll" /\ recreateSwapchain = FALSE
    /\ setting = surface /\ frameIndex = 0 /\ imageIndex = 0
    /\ swapchain = surface /\ pipelineFormat = surface.format
    /\ fence = [f \in Frame |-> TRUE]
    /\ imageAvailable = [f \in Frame |-> "unsignaled"]
    /\ renderFinished = [i \in Image |-> FALSE]
    /\ graphics = <<>> /\ executing = FALSE /\ presents = <<>>
    /\ owner = [i \in Image |-> "engine"]

Go(p) == pc' = p

RaisedUnlessMinimised == framebufferResized \/ (sizeEvent /\ surface.size # Zero)    \* variant

Raised == framebufferResized \/ sizeEvent

\* The callbacks run here and nowhere else: they store the size and raise the flag.
HandleEvents ==
    /\ framebuffer' = IF sizeEvent THEN surface.size ELSE framebuffer
    /\ framebufferResized' = Raised
    /\ closeRequested' = (closeRequested \/ closeEvent)
    /\ sizeEvent' = FALSE /\ closeEvent' = FALSE
    /\ UNCHANGED <<surface, changes>>

MustRecreateOnResult == recreateSwapchain       \* variant: the flag not looked at

MustRecreate == recreateSwapchain \/ framebufferResized'

PollEvents ==
    /\ pc = "poll"
    /\ HandleEvents
    /\ Go(IF closeRequested' THEN "leave"
          ELSE IF MustRecreate THEN "restore"
          ELSE IF framebuffer' = Zero THEN "leave" ELSE "wait")
    /\ UNCHANGED <<host, objects, sync, queues, owner>>
-----------------------------------------------------------------------------
\* The branch that makes the swapchain again.

RestoreClosed ==
    /\ pc = "restore" /\ framebuffer = Zero /\ closeRequested
    /\ Go("leave")
    /\ UNCHANGED <<user, window, host, objects, sync, queues, owner>>

WaitEvents ==
    /\ pc = "restore" /\ framebuffer = Zero /\ ~closeRequested
    /\ sizeEvent \/ closeEvent
    /\ HandleEvents
    /\ UNCHANGED <<pc, host, objects, sync, queues, owner>>

Restored ==
    /\ pc = "restore" /\ framebuffer # Zero
    /\ Go("configure")
    /\ UNCHANGED <<user, window, host, objects, sync, queues, owner>>

\* The extent of the surface, or that of the framebuffer where the surface has none
\* of its own: currentExtent of UINT32_MAX.
ExtentChoices == {surface.size, framebuffer}

\* A surface that has become empty since its size was read ends the run.
Configure ==
    /\ pc = "configure"
    /\ \E extent \in ExtentChoices :
          IF extent = Zero
          THEN Go("leave") /\ UNCHANGED setting
          ELSE Go("idle") /\ setting' = [surface EXCEPT !.size = extent]
    /\ UNCHANGED <<user, window, recreateSwapchain, frameIndex, imageIndex>>
    /\ UNCHANGED <<objects, sync, queues, owner>>

DeviceIdle == graphics = <<>> /\ presents = <<>>

WaitIdleSkipped ==              \* variant: the old swapchain replaced at once
    pc = "idle" /\ Go("create")
    /\ UNCHANGED <<user, window, host, objects, sync, queues, owner>>

WaitIdle ==
    /\ pc = "idle" /\ DeviceIdle
    /\ Go("create")
    /\ UNCHANGED <<user, window, host, objects, sync, queues, owner>>

PipelineKept(format) == pipelineFormat          \* variant: made once

UpdateColorFormat(format) == format

\* Work still in a queue q uses what is about to be destroyed.
Outlived(q) == [n \in DOMAIN q |-> [q[n] EXCEPT !.alive = FALSE]]

\* The new swapchain takes the place of the old one, which is destroyed with its
\* views and semaphores at the end of the block.
CreateSwapchain ==
    /\ pc = "create"
    /\ swapchain' = setting
    /\ pipelineFormat' = UpdateColorFormat(setting.format)
    /\ renderFinished' = [i \in Image |-> FALSE]
    /\ owner' = [i \in Image |-> "engine"]
    /\ graphics' = Outlived(graphics) /\ presents' = Outlived(presents)
    /\ framebufferResized' = FALSE /\ recreateSwapchain' = FALSE
    /\ Go("poll")
    /\ UNCHANGED <<user, framebuffer, closeRequested, setting, frameIndex, imageIndex>>
    /\ UNCHANGED <<fence, imageAvailable, executing>>
-----------------------------------------------------------------------------
\* A frame.

WaitAndReset ==                 \* variant: the fence reset as soon as it is seen
    /\ pc = "wait" /\ fence[frameIndex]
    /\ fence' = [fence EXCEPT ![frameIndex] = FALSE]
    /\ Go("update")
    /\ UNCHANGED <<user, window, host, objects, imageAvailable, renderFinished, queues, owner>>

WaitForFence ==
    /\ pc = "wait" /\ fence[frameIndex]
    /\ Go("update")
    /\ UNCHANGED <<user, window, host, objects, sync, queues, owner>>

\* The game, and its data into the instance buffer of the frame.
Update ==
    /\ pc = "update"
    /\ Go("acquire")
    /\ UNCHANGED <<user, window, host, objects, sync, queues, owner>>

AcquireTimesOut ==
    /\ pc = "acquire"
    /\ Go("poll")
    /\ UNCHANGED <<user, window, host, objects, sync, queues, owner>>

\* The surface may have changed in more ways than its size and its format.
AcquireOutOfDate ==
    /\ pc = "acquire"
    /\ recreateSwapchain' = TRUE
    /\ Go("poll")
    /\ UNCHANGED <<user, window, setting, frameIndex, imageIndex, objects, sync, queues, owner>>

\* VK_SUCCESS or VK_SUBOPTIMAL_KHR; the semaphore is signaled later.
Acquire(i, suboptimal) ==
    /\ pc = "acquire" /\ owner[i] = "engine"
    /\ imageIndex' = i
    /\ owner' = [owner EXCEPT ![i] = "host"]
    /\ imageAvailable' = [imageAvailable EXCEPT ![frameIndex] = "pending"]
    /\ recreateSwapchain' = suboptimal
    /\ Go("record")
    /\ UNCHANGED <<user, window, setting, frameIndex, objects, fence, renderFinished, queues>>

\* vkResetCommandBuffer and RecordFrameCommands.
Record ==
    /\ pc = "record"
    /\ Go("reset")
    /\ UNCHANGED <<user, window, host, objects, sync, queues, owner>>

ResetFence ==
    /\ pc = "reset"
    /\ fence' = [fence EXCEPT ![frameIndex] = FALSE]
    /\ Go("submit")
    /\ UNCHANGED <<user, window, host, objects, imageAvailable, renderFinished, queues, owner>>

RenderFinishedOfFrame == frameIndex             \* variant: a semaphore for each frame

RenderFinished == imageIndex

Submission == [frame |-> frameIndex, image |-> imageIndex, signals |-> RenderFinished, alive |-> TRUE]

Submit ==
    /\ pc = "submit"
    /\ graphics' = Append(graphics, Submission)
    /\ Go("present")
    /\ UNCHANGED <<user, window, host, objects, sync, executing, presents, owner>>

NextFrame == (frameIndex + 1) % FramesInFlight

\* VK_SUCCESS, or VK_ERROR_OUT_OF_DATE_KHR or VK_SUBOPTIMAL_KHR, which still put the
\* wait for the semaphore in the queue.
Present(outdated) ==
    /\ pc = "present"
    /\ presents' = Append(presents, [image |-> imageIndex, waits |-> RenderFinished, alive |-> TRUE])
    /\ owner' = [owner EXCEPT ![imageIndex] = "queued"]
    /\ recreateSwapchain' = (recreateSwapchain \/ outdated)
    /\ frameIndex' = NextFrame
    /\ imageIndex' = 0                              \* a local variable of the iteration
    /\ Go("poll")
    /\ UNCHANGED <<user, window, setting, objects, sync, graphics, executing>>
-----------------------------------------------------------------------------
MayThrow == {"configure", "idle", "create", "wait", "update", "acquire", "record", "reset",
             "submit", "present"}

\* A call that fails or a game that throws: to the catch clause.
Throw ==
    /\ pc \in MayThrow
    /\ Go("leave")
    /\ UNCHANGED <<user, window, host, objects, sync, queues, owner>>

\* vkDeviceWaitIdle in the catch clause or after the loop; then everything is destroyed.
Leave ==
    /\ pc = "leave" /\ DeviceIdle
    /\ Go("ended")
    /\ UNCHANGED <<user, window, host, objects, sync, queues, owner>>

Ended == pc = "ended" /\ UNCHANGED vars
-----------------------------------------------------------------------------
\* The surroundings.

ChangeSurface(s) ==
    /\ changes < MaxChanges /\ s # surface /\ pc # "ended"
    /\ surface' = s
    /\ sizeEvent' = (sizeEvent \/ s.size # surface.size)
    /\ changes' = changes + 1
    /\ UNCHANGED <<closeEvent, window, pc, host, objects, sync, queues, owner>>

RequestClose ==
    /\ ~closeEvent /\ ~closeRequested /\ pc # "ended"
    /\ closeEvent' = TRUE
    /\ UNCHANGED <<surface, sizeEvent, changes, window, pc, host, objects, sync, queues, owner>>

\* The engine has finished reading an image that it has given away.
EngineSignals(f) ==
    /\ imageAvailable[f] = "pending"
    /\ imageAvailable' = [imageAvailable EXCEPT ![f] = "signaled"]
    /\ UNCHANGED <<user, window, pc, host, objects, fence, renderFinished, queues, owner>>

BeginSubmission ==
    /\ graphics # <<>> /\ ~executing
    /\ imageAvailable[Head(graphics).frame] = "signaled"
    /\ imageAvailable' = [imageAvailable EXCEPT ![Head(graphics).frame] = "unsignaled"]
    /\ executing' = TRUE
    /\ UNCHANGED <<user, window, pc, host, objects, fence, renderFinished, graphics, presents, owner>>

\* Signals the semaphore of the image and the fence of the frame.
EndSubmission ==
    /\ graphics # <<>> /\ executing
    /\ renderFinished' = [renderFinished EXCEPT ![Head(graphics).signals] = TRUE]
    /\ fence' = [fence EXCEPT ![Head(graphics).frame] = TRUE]
    /\ graphics' = Tail(graphics)
    /\ executing' = FALSE
    /\ UNCHANGED <<user, window, pc, host, objects, imageAvailable, presents, owner>>

\* FIFO mode: an image shown gives the one before it back to the engine.
Show ==
    /\ presents # <<>> /\ renderFinished[Head(presents).waits]
    /\ renderFinished' = [renderFinished EXCEPT ![Head(presents).waits] = FALSE]
    /\ owner' = [i \in Image |-> IF i = Head(presents).image THEN "shown"
                                 ELSE IF owner[i] = "shown" THEN "engine" ELSE owner[i]]
    /\ presents' = Tail(presents)
    /\ UNCHANGED <<user, window, pc, host, objects, fence, imageAvailable, graphics, executing>>
-----------------------------------------------------------------------------
Recreation == RestoreClosed \/ WaitEvents \/ Restored \/ Configure \/ WaitIdle \/ CreateSwapchain

DrawFrame ==
    \/ WaitForFence \/ Update \/ AcquireTimesOut \/ AcquireOutOfDate
    \/ \E i \in Image, suboptimal \in BOOLEAN : Acquire(i, suboptimal)
    \/ Record \/ ResetFence \/ Submit
    \/ \E outdated \in BOOLEAN : Present(outdated)

HostStep == PollEvents \/ Recreation \/ DrawFrame \/ Leave

Device ==
    \/ \E f \in Frame : EngineSignals(f)
    \/ BeginSubmission \/ EndSubmission \/ Show

User == (\E s \in Surface : ChangeSurface(s)) \/ RequestClose

Next == HostStep \/ Throw \/ Ended \/ Device \/ User

Spec == Init /\ [][Next]_vars

\* The host runs, the queues and the engine do what they have been given.  The user
\* need do nothing.
Fairness == WF_vars(HostStep) /\ WF_vars(Device)

FairSpec == Spec /\ Fairness
-----------------------------------------------------------------------------
Elements(q) == {q[k] : k \in DOMAIN q}

InFlight(f) == \E s \in Elements(graphics) : s.frame = f

\* Nothing that is in use is written again or replaced, as S1-4 asks in
\* docs/design/issue-6-vulkan-2d-foundation.md:130.  Between the
\* fence and the submission the command buffer, the instance buffer and the fence
\* of the frame belong to the host, and from the acquisition to the present so does
\* the image; no queue holds work on a swapchain, or anything, that has been destroyed.
NothingInUseTouched ==
    /\ pc \in {"update", "acquire", "record", "reset", "submit"} => ~InFlight(frameIndex)
    /\ pc \in {"record", "reset", "submit", "present"} => owner[imageIndex] = "host"
    /\ \A s \in Elements(graphics) : s.alive /\ owner[s.image] \in {"host", "queued"}
    /\ \A p \in Elements(presents) : p.alive /\ owner[p.image] = "queued"
    /\ pc = "ended" => DeviceIdle

\* The binary semaphores are reused safely (same line).  An acquisition finds its semaphore with no
\* signal and no wait outstanding; one that a submission will signal is not signaled
\* yet, and has no other signal or wait outstanding than the present that follows; and
\* every wait in a queue has its signal before it, so that nothing waits for ever.
SemaphoresPaired ==
    /\ pc = "acquire" => imageAvailable[frameIndex] = "unsignaled"
    /\ pc = "submit" => imageAvailable[frameIndex] # "unsignaled"
    /\ \A n \in DOMAIN graphics :
          (n > 1 \/ ~executing) => imageAvailable[graphics[n].frame] # "unsignaled"
    /\ \A s \in Elements(graphics) : ~renderFinished[s.signals]
    /\ \A m, n \in DOMAIN graphics : graphics[m].signals = graphics[n].signals => m = n
    /\ \A m, n \in DOMAIN presents : presents[m].waits = presents[n].waits => m = n
    /\ \A p \in Elements(presents) :
          renderFinished[p.waits] \/ \E s \in Elements(graphics) : s.signals = p.waits

\* The paths that submit nothing do not block the fence (same line): one that is not
\* signaled has a submission that will signal it, is about to have it, or is never
\* waited for again.
FenceWillSignal ==
    \A f \in Frame : ~fence[f] =>
        \/ InFlight(f)
        \/ f = frameIndex /\ pc = "submit"
        \/ pc \in {"leave", "ended"}

\* Every wait for a signal, of a queue or of the host, is answered by exactly one.
SignalsPaired == SemaphoresPaired /\ FenceWillSignal

\* No change of size is lost: while the swapchain does not have the size of the surface,
\* the window has an event to handle or has raised its flag.  And what draws into
\* the images is made for their format.
SwapchainFollows ==
    /\ swapchain.size # surface.size => sizeEvent \/ framebufferResized
    /\ pipelineFormat = swapchain.format

\* Whatever acquisitions and presents return, a swapchain of another size than the
\* surface is replaced, and a request to close ends the run.
FollowsUser ==
    /\ swapchain.size # surface.size ~>
           swapchain.size = surface.size \/ surface.size = Zero \/ pc = "ended"
    /\ closeEvent ~> pc = "ended"
=============================================================================
