--------------------------- MODULE Vulkan_proofs ---------------------------
(***************************************************************************)
(* Proofs about the programs that use Vulkan: the frame loop, then the     *)
(* setup before it and the compute sample, as instances beside it.         *)
(*                                                                         *)
(* FrameLoop, for any number of frames in flight, of images and of changes *)
(* of the surface: what the queues hold is seen as a set (Submitted,       *)
(* Presented); the inductive invariant says for each fence, each semaphore *)
(* and each image who is going to signal, to wait for or to give it back.  *)
(*                                                                         *)
(* The lemmas about the two take what their module says of its constants   *)
(* as a hypothesis (MachinesTyped, SizesFit); the theorems have it from    *)
(* the assumptions of VulkanSamples.                                       *)
(***************************************************************************)
EXTENDS FrameLoop, VulkanSamples, FiniteSetTheorems, SequenceTheorems, WellFoundedInduction, TLAPS

Submitted == Elements(graphics)
Presented == Elements(presents)

Submissions   == [frame : Frame, image : Image, signals : Image, alive : BOOLEAN]
Presentations == [image : Image, waits : Image, alive : BOOLEAN]

Distinct(q) == \A m, n \in DOMAIN q : q[m] = q[n] => m = n

TypeInv ==
    /\ pc \in {"poll", "restore", "configure", "idle", "create", "wait", "update", "acquire",
               "record", "reset", "submit", "present", "leave", "ended"}
    /\ frameIndex \in Frame /\ imageIndex \in Image
    /\ fence \in [Frame -> BOOLEAN]
    /\ imageAvailable \in [Frame -> {"unsignaled", "pending", "signaled"}]
    /\ renderFinished \in [Image -> BOOLEAN]
    /\ graphics \in Seq(Submissions)
    /\ presents \in Seq(Presentations)
    /\ owner \in [Image -> {"engine", "host", "queued", "shown"}]
    /\ Distinct(graphics) /\ Distinct(presents)
    /\ executing \in BOOLEAN /\ (executing => graphics # << >>)

Left     == pc \in {"leave", "ended"}
Acquired == pc \in {"record", "reset", "submit"}
Prepared == pc \in {"update", "acquire"} \/ Acquired

\* A frame is submitted at most once at a time, and then its fence is not signaled; a fence
\* that is not signaled will be.
FenceInv ==
    /\ \A s, t \in Submitted : s.frame = t.frame => s = t
    /\ \A s \in Submitted : ~fence[s.frame]
    /\ Prepared => \A s \in Submitted : s.frame # frameIndex
    /\ pc = "submit" => ~fence[frameIndex]
    /\ \A f \in Frame : ~fence[f] => \/ \E s \in Submitted : s.frame = f
                                     \/ f = frameIndex /\ pc = "submit"
                                     \/ Left

\* A submission that has not begun still waits for the semaphore of its acquisition.
Waits(s) == s \in Submitted /\ (s # Head(graphics) \/ ~executing)

\* The semaphore of a frame has been used by an acquisition exactly when the host is about to
\* submit the frame or a submission waits for it, until the loop is left.
AcquisitionInv ==
    /\ Acquired => imageAvailable[frameIndex] # "unsignaled"
    /\ \A s \in Submitted : Waits(s) => imageAvailable[s.frame] # "unsignaled"
    /\ \A f \in Frame : imageAvailable[f] # "unsignaled" =>
           \/ f = frameIndex /\ Acquired
           \/ \E s \in Submitted : s.frame = f /\ Waits(s)
           \/ Left

Drawn(i)    == \E s \in Submitted : s.image = i
Shows(i)    == \E p \in Presented : p.image = i
Presents(i) == (pc = "present" /\ i = imageIndex) \/ Left

\* An image in a queue is not the engine's; it is drawn once and shown once, its semaphore is
\* signaled between the two, and whoever signals it has one present that waits.
ImageInv ==
    /\ Acquired \/ pc = "present" => owner[imageIndex] = "host"
    /\ \A s \in Submitted : /\ s.signals = s.image /\ s.alive
                            /\ owner[s.image] \in {"host", "queued"}
                            /\ ~renderFinished[s.image]
                            /\ Shows(s.image) \/ Presents(s.image)
    /\ \A p \in Presented : /\ p.waits = p.image /\ p.alive
                            /\ owner[p.image] = "queued"
                            /\ renderFinished[p.image] \/ Drawn(p.image)
    /\ \A s, t \in Submitted : s.image = t.image => s = t
    /\ \A p, r \in Presented : p.image = r.image => p = r
    /\ pc = "present" => renderFinished[imageIndex] \/ Drawn(imageIndex)
    /\ \A i \in Image : renderFinished[i] => Shows(i) \/ Presents(i)

IdleInv == pc \in {"create", "ended"} => DeviceIdle

\* Until the window has handled an event of its size, the event is there; so it is for the
\* size that was read for the swapchain being made.
SizeInv ==
    /\ surface \in Surface
    /\ framebuffer # surface.size => sizeEvent
    /\ pc \in {"idle", "create"} /\ setting.size # surface.size => sizeEvent
    /\ SwapchainFollows

Inv == TypeInv /\ FenceInv /\ AcquisitionInv /\ ImageInv /\ IdleInv /\ SizeInv
-----------------------------------------------------------------------------
(***************************************************************************)
(* A queue as the set of its elements                                      *)
(***************************************************************************)
LEMMA EmptyElements ==
  ASSUME NEW S, NEW q \in Seq(S)
  PROVE  /\ q = << >> <=> Elements(q) = {}
         /\ q # << >> => Head(q) \in Elements(q)
         /\ Elements(q) \subseteq S
  <1>1. PICK len \in Nat : Len(q) = len /\ DOMAIN q = 1..len
    OBVIOUS
  <1>2. CASE q = << >>
    <2>1. DOMAIN q = {}
      BY <1>2
    <2> QED
      BY <1>2, <2>1 DEF Elements
  <1>3. CASE q # << >>
    <2>1. len # 0
      BY <1>1, <1>3, EmptySeq
    <2>2. 1 \in DOMAIN q /\ Head(q) = q[1]
      BY <1>1, <1>3, <2>1
    <2>3. \A n \in DOMAIN q : q[n] \in S
      BY <1>1
    <2> QED
      BY <1>3, <2>2, <2>3 DEF Elements
  <1> QED
    BY <1>2, <1>3

LEMMA AppendElements ==
  ASSUME NEW S, NEW q \in Seq(S), NEW e \in S, e \notin Elements(q), Distinct(q)
  PROVE  /\ Append(q, e) \in Seq(S) /\ Append(q, e) # << >>
         /\ Distinct(Append(q, e))
         /\ Elements(Append(q, e)) = Elements(q) \union {e}
         /\ q # << >> => Head(Append(q, e)) = Head(q)
  <1>1. PICK len \in Nat : Len(q) = len
    OBVIOUS
  <1>2. PICK r : r = Append(q, e)
    OBVIOUS
  <1>3. /\ r \in Seq(S) /\ Len(r) = len + 1 /\ DOMAIN q = 1..len /\ DOMAIN r = 1..(len + 1)
        /\ r[len + 1] = e /\ \A i \in 1..len : r[i] = q[i]
    BY <1>1, <1>2
  <1>4. \A i \in 1..(len + 1) : i \in 1..len \/ i = len + 1
    OBVIOUS
  <1>5. (\A i \in 1..len : i \in 1..(len + 1)) /\ len + 1 \in 1..(len + 1) /\ len + 1 # 0
    OBVIOUS
  <1>6. \A i \in 1..len : r[i] # e
    BY <1>3 DEF Elements
  <1>7. Distinct(r)
    BY <1>3, <1>4, <1>6 DEF Distinct
  <1>8. Elements(r) = Elements(q) \union {e}
    <2>1. \A x : x \in Elements(r) <=> \E i \in 1..(len + 1) : r[i] = x
      BY <1>3 DEF Elements
    <2>2. \A x : x \in Elements(q) <=> \E i \in 1..len : q[i] = x
      BY <1>3 DEF Elements
    <2>3. \A x : x \in Elements(r) <=> x \in Elements(q) \/ x = e
      BY <1>3, <1>4, <1>5, <2>1, <2>2
    <2> QED
      BY <2>3
  <1>9. r # << >>
    BY <1>3, <1>5, EmptySeq
  <1>10. q # << >> => Head(r) = Head(q)
    <2>1. ASSUME q # << >> PROVE Head(r) = Head(q)
      <3>1. len # 0
        BY <1>1, <2>1, EmptySeq
      <3>2. 1 \in 1..len
        BY <3>1
      <3> QED
        BY <1>3, <1>9, <2>1, <3>2
    <2> QED
      BY <2>1
  <1> QED
    BY <1>2, <1>3, <1>7, <1>8, <1>9, <1>10

LEMMA TailElements ==
  ASSUME NEW S, NEW q \in Seq(S), q # << >>, Distinct(q)
  PROVE  /\ Tail(q) \in Seq(S) /\ Distinct(Tail(q))
         /\ Elements(Tail(q)) = Elements(q) \ {Head(q)}
         /\ Head(q) \in Elements(q) /\ Head(q) \in S
  <1>1. PICK len \in Nat : Len(q) = len + 1
    <2>1. Len(q) \in Nat /\ Len(q) # 0
      BY EmptySeq
    <2>2. Len(q) - 1 \in Nat /\ Len(q) = (Len(q) - 1) + 1
      BY <2>1
    <2> QED
      BY <2>2
  <1>2. /\ Head(q) \in S /\ Tail(q) \in Seq(S) /\ Len(Tail(q)) = Len(q) - 1
        /\ \A i \in 1..Len(Tail(q)) : Tail(q)[i] = q[i + 1]
    BY HeadTailProperties
  <1>3. /\ Head(q) = q[1] /\ DOMAIN q = 1..(len + 1)
        /\ DOMAIN Tail(q) = 1..len /\ \A i \in 1..len : Tail(q)[i] = q[i + 1]
    BY <1>1, <1>2
  <1>4. \A i \in 1..len : i + 1 \in 1..(len + 1) /\ i + 1 # 1
    OBVIOUS
  <1>5. ASSUME NEW m \in 1..len, NEW n \in 1..len, Tail(q)[m] = Tail(q)[n] PROVE m = n
    <2>1. m + 1 = n + 1
      BY <1>3, <1>4, <1>5 DEF Distinct
    <2> QED
      BY <2>1
  <1>6. 1 \in 1..(len + 1)
    OBVIOUS
  <1>7. ASSUME NEW n \in 1..len PROVE Tail(q)[n] # Head(q) /\ \E k \in 1..(len + 1) : q[k] = Tail(q)[n]
    BY <1>3, <1>4, <1>6 DEF Distinct
  <1>8. ASSUME NEW k \in 1..(len + 1), q[k] # Head(q)
        PROVE  \E n \in 1..len : Tail(q)[n] = q[k]
    <2>1. k # 1
      BY <1>3, <1>8
    <2>2. k - 1 \in 1..len /\ (k - 1) + 1 = k
      BY <2>1
    <2> QED
      BY <1>3, <2>2
  <1>9. Distinct(Tail(q))
    BY <1>3, <1>5 DEF Distinct
  <1>10. Elements(Tail(q)) = Elements(q) \ {Head(q)}
    <2>1. \A x : x \in Elements(Tail(q)) <=> \E i \in 1..len : Tail(q)[i] = x
      BY <1>3 DEF Elements
    <2>2. \A x : x \in Elements(q) <=> \E i \in 1..(len + 1) : q[i] = x
      BY <1>3 DEF Elements
    <2>3. \A x : x \in Elements(Tail(q)) => x \in Elements(q) /\ x # Head(q)
      BY <1>7, <2>1, <2>2
    <2>4. \A x : x \in Elements(q) /\ x # Head(q) => x \in Elements(Tail(q))
      BY <1>8, <2>1, <2>2
    <2> QED
      BY <2>3, <2>4
  <1>11. Head(q) \in Elements(q)
    BY <1>3, <1>6 DEF Elements
  <1> QED
    BY <1>2, <1>9, <1>10, <1>11
-----------------------------------------------------------------------------
(***************************************************************************)
(* The queues, the semaphores and the images                               *)
(***************************************************************************)
LEMMA InQueues ==
  ASSUME TypeInv
  PROVE  /\ \A s \in Submitted : s \in Submissions /\ s.frame \in Frame /\ s.image \in Image
         /\ \A p \in Presented : p \in Presentations /\ p.image \in Image
         /\ graphics = << >> <=> Submitted = {}
         /\ graphics # << >> => Head(graphics) \in Submitted
         /\ presents = << >> <=> Presented = {}
         /\ presents # << >> => Head(presents) \in Presented
  <1>1. graphics \in Seq(Submissions) /\ presents \in Seq(Presentations)
    BY DEF TypeInv
  <1>2. /\ graphics = << >> <=> Submitted = {}
        /\ graphics # << >> => Head(graphics) \in Submitted
        /\ Submitted \subseteq Submissions
    BY <1>1, EmptyElements DEF Submitted
  <1>3. /\ presents = << >> <=> Presented = {}
        /\ presents # << >> => Head(presents) \in Presented
        /\ Presented \subseteq Presentations
    BY <1>1, EmptyElements DEF Presented
  <1>4. \A s \in Submissions : s.frame \in Frame /\ s.image \in Image
    BY DEF Submissions
  <1>5. \A p \in Presentations : p.image \in Image
    BY DEF Presentations
  <1> QED
    BY <1>2, <1>3, <1>4, <1>5

QueueInv == TypeInv /\ FenceInv /\ AcquisitionInv /\ ImageInv /\ IdleInv

\* What a step keeps that touches no queue, no semaphore and no image.
LEMMA QuietStep ==
  ASSUME QueueInv, UNCHANGED <<frameIndex, imageIndex, sync, queues, owner>>,
         pc' \in {"poll", "restore", "configure", "idle", "create", "wait", "update", "acquire",
                  "record", "reset", "submit", "present", "leave", "ended"},
         pc \in {"submit", "present"} => pc' \in {pc, "leave"},
         pc' \in {"submit", "present"} => pc' = pc,
         Acquired' => Acquired, Acquired => Acquired' \/ Left',
         Left => Left',
         Prepared' => \A s \in Submitted : s.frame # frameIndex,
         pc' \in {"create", "ended"} => DeviceIdle
  PROVE  QueueInv'
  <1> USE DEF QueueInv
  <1>1. /\ frameIndex' = frameIndex /\ imageIndex' = imageIndex /\ owner' = owner
        /\ fence' = fence /\ imageAvailable' = imageAvailable /\ renderFinished' = renderFinished
        /\ graphics' = graphics /\ executing' = executing /\ presents' = presents
    BY DEF sync, queues
  <1>2. Submitted' = Submitted /\ Presented' = Presented
    BY <1>1 DEF Submitted, Presented
  <1>3. TypeInv'
    BY <1>1 DEF TypeInv
  <1>4. FenceInv'
    BY <1>1, <1>2 DEF FenceInv, Left
  <1>5. AcquisitionInv'
    <2>1. \A s \in Submitted : Waits(s)' <=> Waits(s)
      BY <1>1, <1>2 DEF Waits
    <2> QED
      BY <1>1, <1>2, <2>1 DEF AcquisitionInv
  <1>6. ImageInv'
    <2>1. \A i \in Image : (Drawn(i)' <=> Drawn(i)) /\ (Shows(i)' <=> Shows(i))
      BY <1>2 DEF Drawn, Shows
    <2>2. \A i \in Image : Presents(i) => Presents(i)'
      BY <1>1 DEF Presents, Left
    <2>3. imageIndex \in Image /\ (\A s \in Submitted : s.image \in Image)
          /\ \A p \in Presented : p.image \in Image
      BY InQueues DEF TypeInv
    <2> QED
      BY <1>1, <1>2, <2>1, <2>2, <2>3 DEF ImageInv
  <1>7. IdleInv'
    BY <1>1 DEF IdleInv, DeviceIdle
  <1> QED
    BY <1>3, <1>4, <1>5, <1>6, <1>7

\* NextFrame is a frame.
LEMMA NextFrameType == frameIndex \in Frame => NextFrame \in Frame
  <1> SUFFICES ASSUME frameIndex \in Frame PROVE NextFrame \in Frame
    OBVIOUS
  <1>1. frameIndex + 1 \in Nat /\ FramesInFlight \in Nat \ {0}
    BY FrameAssumption DEF Frame
  <1>2. (frameIndex + 1) % FramesInFlight \in 0 .. FramesInFlight - 1
    BY <1>1
  <1> QED
    BY <1>2 DEF NextFrame, Frame

\* Nobody waits on an idle device: no submission, no present.
LEMMA IdleQueues ==
  ASSUME TypeInv, DeviceIdle
  PROVE  Submitted = {} /\ Presented = {} /\ ~executing
  BY InQueues DEF TypeInv, DeviceIdle

LEMMA CreateStep ==
  ASSUME QueueInv, CreateSwapchain
  PROVE  QueueInv'
  <1> USE DEF QueueInv
  <1>1. /\ pc = "create" /\ pc' = "poll"
        /\ frameIndex' = frameIndex /\ imageIndex' = imageIndex
        /\ fence' = fence /\ imageAvailable' = imageAvailable /\ executing' = executing
        /\ renderFinished' = [i \in Image |-> FALSE] /\ owner' = [i \in Image |-> "engine"]
        /\ graphics' = Outlived(graphics) /\ presents' = Outlived(presents)
    BY DEF CreateSwapchain, Go
  <1>2. graphics = << >> /\ presents = << >>
    BY <1>1 DEF IdleInv, DeviceIdle
  <1>3. Outlived(<< >>) = << >>
    <2>1. DOMAIN << >> = {}
      OBVIOUS
    <2>2. \A f : f = [n \in {} |-> f[n]] => f = << >>
      OBVIOUS
    <2> QED
      BY <2>1 DEF Outlived
  <1>4. graphics' = << >> /\ presents' = << >> /\ ~executing
    BY <1>1, <1>2, <1>3 DEF TypeInv
  <1>5. Submitted = {} /\ Submitted' = {} /\ Presented' = {}
    <2>1. Elements(<< >>) = {}
      BY DEF Elements
    <2> QED
      BY <1>2, <1>4, <2>1 DEF Submitted, Presented
  <1>6. TypeInv'
    <2>1. << >> \in Seq(Submissions) /\ << >> \in Seq(Presentations) /\ Distinct(<< >>)
      BY DEF Distinct
    <2> QED
      BY <1>1, <1>4, <2>1 DEF TypeInv
  <1>7. FenceInv'
    BY <1>1, <1>5 DEF FenceInv, Prepared, Acquired, Left
  <1>8. AcquisitionInv'
    BY <1>1, <1>5 DEF AcquisitionInv, Acquired, Left, Waits
  <1>9. ImageInv'
    BY <1>1, <1>5 DEF ImageInv, Acquired
  <1>10. IdleInv'
    BY <1>1 DEF IdleInv
  <1> QED
    BY <1>6, <1>7, <1>8, <1>9, <1>10

LEMMA AcquireStep ==
  ASSUME QueueInv, NEW i \in Image, NEW suboptimal \in BOOLEAN, Acquire(i, suboptimal)
  PROVE  QueueInv'
  <1> USE DEF QueueInv
  <1>1. /\ pc = "acquire" /\ pc' = "record" /\ owner[i] = "engine"
        /\ frameIndex' = frameIndex /\ imageIndex' = i
        /\ fence' = fence /\ renderFinished' = renderFinished
        /\ graphics' = graphics /\ presents' = presents /\ executing' = executing
        /\ owner' = [owner EXCEPT ![i] = "host"]
        /\ imageAvailable' = [imageAvailable EXCEPT ![frameIndex] = "pending"]
    BY DEF Acquire, Go, queues
  <1>2. Submitted' = Submitted /\ Presented' = Presented
    BY <1>1 DEF Submitted, Presented
  <1>3. /\ owner'[i] = "host" /\ \A k \in Image \ {i} : owner'[k] = owner[k]
        /\ imageAvailable'[frameIndex] = "pending"
        /\ \A f \in Frame \ {frameIndex} : imageAvailable'[f] = imageAvailable[f]
    BY <1>1 DEF TypeInv
  <1>4. /\ \A s \in Submitted : s.image \in Image \ {i} /\ s.frame \in Frame \ {frameIndex}
        /\ \A p \in Presented : p.image \in Image \ {i}
    BY <1>1, InQueues DEF ImageInv, FenceInv, Prepared
  <1>5. TypeInv'
    BY <1>1 DEF TypeInv
  <1>6. FenceInv'
    BY <1>1, <1>2 DEF FenceInv, Prepared, Acquired, Left
  <1>7. AcquisitionInv'
    <2>1. \A s \in Submitted : Waits(s)' <=> Waits(s)
      BY <1>1, <1>2 DEF Waits
    <2>2. ~Left /\ ~Acquired /\ Acquired' /\ frameIndex \in Frame
      BY <1>1 DEF Left, Acquired, TypeInv
    <2> QED
      BY <1>1, <1>2, <1>3, <1>4, <2>1, <2>2 DEF AcquisitionInv
  <1>8. ImageInv'
    <2>1. \A k \in Image : (Drawn(k)' <=> Drawn(k)) /\ (Shows(k)' <=> Shows(k))
      BY <1>2 DEF Drawn, Shows
    <2>2. \A k \in Image : ~Presents(k)
      BY <1>1 DEF Presents, Left
    <2> QED
      BY <1>1, <1>2, <1>3, <1>4, <2>1, <2>2 DEF ImageInv
  <1>9. IdleInv'
    BY <1>1 DEF IdleInv
  <1> QED
    BY <1>5, <1>6, <1>7, <1>8, <1>9

LEMMA ResetStep ==
  ASSUME QueueInv, ResetFence
  PROVE  QueueInv'
  <1> USE DEF QueueInv
  <1>1. /\ pc = "reset" /\ pc' = "submit"
        /\ frameIndex' = frameIndex /\ imageIndex' = imageIndex
        /\ imageAvailable' = imageAvailable /\ renderFinished' = renderFinished
        /\ graphics' = graphics /\ presents' = presents /\ executing' = executing
        /\ owner' = owner /\ fence' = [fence EXCEPT ![frameIndex] = FALSE]
    BY DEF ResetFence, Go, host, queues
  <1>2. Submitted' = Submitted /\ Presented' = Presented
    BY <1>1 DEF Submitted, Presented
  <1>3. fence'[frameIndex] = FALSE /\ \A f \in Frame \ {frameIndex} : fence'[f] = fence[f]
    BY <1>1 DEF TypeInv
  <1>4. \A s \in Submitted : s.image \in Image /\ s.frame \in Frame \ {frameIndex}
    BY <1>1, InQueues DEF FenceInv, Prepared, Acquired
  <1>5. TypeInv'
    BY <1>1 DEF TypeInv
  <1>6. FenceInv'
    BY <1>1, <1>2, <1>3, <1>4 DEF FenceInv, Prepared, Acquired, Left
  <1>7. AcquisitionInv'
    <2>1. \A s \in Submitted : Waits(s)' <=> Waits(s)
      BY <1>1, <1>2 DEF Waits
    <2>2. ~Left /\ Acquired /\ Acquired'
      BY <1>1 DEF Left, Acquired
    <2> QED
      BY <1>1, <1>2, <2>1, <2>2 DEF AcquisitionInv
  <1>8. ImageInv'
    <2>1. \A k \in Image : (Drawn(k)' <=> Drawn(k)) /\ (Shows(k)' <=> Shows(k))
      BY <1>2 DEF Drawn, Shows
    <2>2. \A k \in Image : ~Presents(k)
      BY <1>1 DEF Presents, Left
    <2>3. Acquired /\ \A p \in Presented : p.image \in Image
      BY <1>1, InQueues DEF Acquired
    <2> QED
      BY <1>1, <1>2, <1>4, <2>1, <2>2, <2>3 DEF ImageInv
  <1>9. IdleInv'
    BY <1>1 DEF IdleInv
  <1> QED
    BY <1>5, <1>6, <1>7, <1>8, <1>9

LEMMA SubmitStep ==
  ASSUME QueueInv, Submit
  PROVE  QueueInv'
  <1> USE DEF QueueInv
  <1>1. PICK s : s = Submission
    OBVIOUS
  <1>2. /\ pc = "submit" /\ pc' = "present"
        /\ frameIndex' = frameIndex /\ imageIndex' = imageIndex /\ fence' = fence
        /\ imageAvailable' = imageAvailable /\ renderFinished' = renderFinished
        /\ graphics' = Append(graphics, s) /\ presents' = presents /\ executing' = executing
        /\ owner' = owner
    BY <1>1 DEF Submit, Go, host, sync
  <1>3. /\ s \in Submissions /\ s.frame = frameIndex /\ s.image = imageIndex
        /\ s.signals = imageIndex /\ s.alive
    BY <1>1 DEF Submission, RenderFinished, Submissions, TypeInv
  <1>4. /\ \A r \in Submitted : r.frame # frameIndex
        /\ Acquired /\ owner[imageIndex] = "host" /\ ~Left /\ frameIndex \in Frame
        /\ imageIndex \in Image
    BY <1>2 DEF FenceInv, ImageInv, Prepared, Acquired, Left, TypeInv
  <1>5. \A p \in Presented : p.image # imageIndex
    BY <1>4 DEF ImageInv
  <1>6. \A r \in Submitted : r.image # imageIndex
    <2>1. \A r \in Submitted : Shows(r.image)
      BY <1>2, <1>4 DEF ImageInv, Presents
    <2> QED
      BY <1>5, <2>1 DEF Shows
  <1>7. ~renderFinished[imageIndex]
    BY <1>2, <1>4, <1>5 DEF ImageInv, Presents, Shows
  <1>8. /\ graphics' \in Seq(Submissions) /\ graphics' # << >> /\ Distinct(graphics')
        /\ Submitted' = Submitted \union {s} /\ s \notin Submitted
        /\ graphics # << >> => Head(graphics') = Head(graphics)
    <2>1. s \notin Elements(graphics)
      BY <1>3, <1>4 DEF Submitted
    <2>2. graphics \in Seq(Submissions) /\ Distinct(graphics)
      BY DEF TypeInv
    <2>3. /\ Append(graphics, s) \in Seq(Submissions) /\ Append(graphics, s) # << >>
          /\ Distinct(Append(graphics, s))
          /\ Elements(Append(graphics, s)) = Elements(graphics) \union {s}
          /\ graphics # << >> => Head(Append(graphics, s)) = Head(graphics)
      BY <1>3, <2>1, <2>2, AppendElements
    <2> QED
      BY <1>2, <2>1, <2>3 DEF Submitted
  <1>9. Presented' = Presented
    BY <1>2 DEF Presented
  <1>10. TypeInv'
    BY <1>2, <1>8 DEF TypeInv
  <1>11. FenceInv'
    BY <1>2, <1>3, <1>4, <1>8 DEF FenceInv, Prepared, Acquired, Left
  <1>12. AcquisitionInv'
    <2>1. /\ Waits(s)'
          /\ \A r \in Submitted : Waits(r)' <=> Waits(r)
      <3>1. CASE graphics = << >>
        BY <1>2, <1>8, <3>1, InQueues DEF Waits, TypeInv
      <3>2. CASE graphics # << >>
        BY <1>2, <1>8, <3>2, InQueues DEF Waits
      <3> QED
        BY <3>1, <3>2
    <2>2. ~Acquired' /\ ~Left'
      BY <1>2 DEF Acquired, Left
    <2>3. \A f \in Frame : imageAvailable[f] # "unsignaled" =>
              \/ f = s.frame
              \/ \E r \in Submitted : r.frame = f /\ Waits(r)
      BY <1>3, <1>4 DEF AcquisitionInv
    <2>4. imageAvailable[s.frame] # "unsignaled"
      BY <1>3, <1>4 DEF AcquisitionInv
    <2> QED
      BY <1>2, <1>8, <2>1, <2>2, <2>3, <2>4 DEF AcquisitionInv
  <1>13. ImageInv'
    <2>1. \A k \in Image : (Drawn(k)' <=> Drawn(k) \/ k = imageIndex) /\ (Shows(k)' <=> Shows(k))
      BY <1>3, <1>8, <1>9 DEF Drawn, Shows
    <2>2. \A k \in Image : ~Presents(k) /\ (Presents(k)' <=> k = imageIndex)
      BY <1>2 DEF Presents, Left
    <2>3. /\ \A r \in Submitted : r.image \in Image
          /\ \A p \in Presented : p.image \in Image
      BY InQueues
    <2>4. Drawn(imageIndex)'
      BY <1>2, <1>3, <1>8 DEF Drawn
    <2> QED
      BY <1>2, <1>3, <1>4, <1>6, <1>7, <1>8, <1>9, <2>1, <2>2, <2>3, <2>4 DEF ImageInv, Acquired
  <1>14. IdleInv'
    BY <1>2 DEF IdleInv
  <1> QED
    BY <1>10, <1>11, <1>12, <1>13, <1>14

LEMMA PresentStep ==
  ASSUME QueueInv, NEW outdated \in BOOLEAN, Present(outdated)
  PROVE  QueueInv'
  <1> USE DEF QueueInv
  <1>1. PICK i \in Image : i = imageIndex
    BY DEF TypeInv
  <1>2. PICK p : p = [image |-> i, waits |-> i, alive |-> TRUE]
    OBVIOUS
  <1>3. /\ pc = "present" /\ pc' = "poll"
        /\ frameIndex' = NextFrame /\ imageIndex' = 0 /\ fence' = fence
        /\ imageAvailable' = imageAvailable /\ renderFinished' = renderFinished
        /\ presents' = Append(presents, p) /\ graphics' = graphics /\ executing' = executing
        /\ owner' = [owner EXCEPT ![i] = "queued"]
    BY <1>1, <1>2 DEF Present, RenderFinished, Go, sync
  <1>4. p \in Presentations /\ p.image = i /\ p.waits = i /\ p.alive
    BY <1>2 DEF Presentations
  <1>5. /\ owner[i] = "host" /\ ~Left
        /\ \A r \in Presented : r.image # i
        /\ renderFinished[i] \/ Drawn(i)
    BY <1>1, <1>3 DEF ImageInv, Left
  <1>6. /\ owner'[i] = "queued" /\ \A k \in Image \ {i} : owner'[k] = owner[k]
    BY <1>3 DEF TypeInv
  <1>7. /\ presents' \in Seq(Presentations) /\ Distinct(presents')
        /\ Presented' = Presented \union {p} /\ p \notin Presented
    <2>1. p \notin Elements(presents)
      BY <1>4, <1>5 DEF Presented
    <2>2. presents \in Seq(Presentations) /\ Distinct(presents)
      BY DEF TypeInv
    <2>3. /\ Append(presents, p) \in Seq(Presentations) /\ Distinct(Append(presents, p))
          /\ Elements(Append(presents, p)) = Elements(presents) \union {p}
      BY <1>4, <2>1, <2>2, AppendElements
    <2> QED
      BY <1>3, <2>1, <2>3 DEF Presented
  <1>8. Submitted' = Submitted
    BY <1>3 DEF Submitted
  <1>9. TypeInv'
    <2>1. frameIndex' \in Frame /\ imageIndex' \in Image
      BY <1>3, NextFrameType, FrameAssumption DEF TypeInv, Image
    <2> QED
      BY <1>3, <1>7, <2>1 DEF TypeInv
  <1>10. FenceInv'
    BY <1>3, <1>8 DEF FenceInv, Prepared, Acquired, Left
  <1>11. AcquisitionInv'
    <2>1. \A s \in Submitted : Waits(s)' <=> Waits(s)
      BY <1>3, <1>8 DEF Waits
    <2>2. ~Acquired /\ ~Acquired' /\ ~Left
      BY <1>3 DEF Acquired, Left
    <2> QED
      BY <1>3, <1>8, <2>1, <2>2 DEF AcquisitionInv
  <1>12. ImageInv'
    <2>1. \A k \in Image : (Drawn(k)' <=> Drawn(k)) /\ (Shows(k)' <=> Shows(k) \/ k = i)
      BY <1>4, <1>7, <1>8 DEF Drawn, Shows
    <2>2. \A k \in Image : (Presents(k) <=> k = i) /\ ~Presents(k)'
      BY <1>1, <1>3 DEF Presents, Left
    <2>3. /\ \A s \in Submitted : s.image \in Image
          /\ \A r \in Presented : r.image \in Image
      BY InQueues
    <2>4. ~Acquired' /\ pc' # "present"
      BY <1>3 DEF Acquired
    <2>5. \A s \in Submitted : /\ s.signals = s.image /\ s.alive
                               /\ owner'[s.image] \in {"host", "queued"}
                               /\ ~renderFinished[s.image]
                               /\ Shows(s.image)'
      BY <1>6, <2>1, <2>2, <2>3 DEF ImageInv
    <2>6. \A r \in Presented' : /\ r.waits = r.image /\ r.alive
                                /\ owner'[r.image] = "queued"
                                /\ renderFinished[r.image] \/ Drawn(r.image)'
      BY <1>4, <1>5, <1>6, <1>7, <2>1, <2>3 DEF ImageInv
    <2>7. /\ \A s, t \in Submitted : s.image = t.image => s = t
          /\ \A q, r \in Presented' : q.image = r.image => q = r
          /\ \A k \in Image : renderFinished[k] => Shows(k)'
      BY <1>4, <1>5, <1>7, <2>1, <2>2 DEF ImageInv
    <2> QED
      BY <1>3, <1>8, <2>4, <2>5, <2>6, <2>7 DEF ImageInv
  <1>13. IdleInv'
    BY <1>3 DEF IdleInv
  <1> QED
    BY <1>9, <1>10, <1>11, <1>12, <1>13

LEMMA EngineStep ==
  ASSUME QueueInv, NEW f \in Frame, EngineSignals(f)
  PROVE  QueueInv'
  <1> USE DEF QueueInv
  <1>1. /\ pc' = pc /\ imageAvailable[f] = "pending"
        /\ frameIndex' = frameIndex /\ imageIndex' = imageIndex /\ fence' = fence
        /\ renderFinished' = renderFinished /\ owner' = owner
        /\ graphics' = graphics /\ presents' = presents /\ executing' = executing
        /\ imageAvailable' = [imageAvailable EXCEPT ![f] = "signaled"]
    BY DEF EngineSignals, host, queues
  <1>2. Submitted' = Submitted /\ Presented' = Presented
    BY <1>1 DEF Submitted, Presented
  <1>3. \A g \in Frame : imageAvailable'[g] # "unsignaled" <=> imageAvailable[g] # "unsignaled"
    BY <1>1 DEF TypeInv
  <1>4. TypeInv'
    BY <1>1 DEF TypeInv
  <1>5. FenceInv'
    BY <1>1, <1>2 DEF FenceInv, Prepared, Acquired, Left
  <1>6. AcquisitionInv'
    <2>1. \A s \in Submitted : (Waits(s)' <=> Waits(s)) /\ s.frame \in Frame
      BY <1>1, <1>2, InQueues DEF Waits
    <2>2. (Acquired' <=> Acquired) /\ (Left' <=> Left) /\ frameIndex \in Frame
      BY <1>1 DEF Acquired, Left, TypeInv
    <2> QED
      BY <1>1, <1>2, <1>3, <2>1, <2>2 DEF AcquisitionInv
  <1>7. ImageInv'
    <2>1. \A k \in Image : /\ Drawn(k)' <=> Drawn(k)
                           /\ Shows(k)' <=> Shows(k)
                           /\ Presents(k)' <=> Presents(k)
      BY <1>1, <1>2 DEF Drawn, Shows, Presents, Left
    <2>2. /\ imageIndex \in Image /\ \A s \in Submitted : s.image \in Image
          /\ \A p \in Presented : p.image \in Image
      BY InQueues DEF TypeInv
    <2>3. Acquired' <=> Acquired
      BY <1>1 DEF Acquired
    <2> QED
      BY <1>1, <1>2, <2>1, <2>2, <2>3 DEF ImageInv
  <1>8. IdleInv'
    BY <1>1 DEF IdleInv, DeviceIdle
  <1> QED
    BY <1>4, <1>5, <1>6, <1>7, <1>8

LEMMA BeginStep ==
  ASSUME QueueInv, BeginSubmission
  PROVE  QueueInv'
  <1> USE DEF QueueInv
  <1>1. PICK h : h = Head(graphics)
    OBVIOUS
  <1>2. /\ pc' = pc /\ graphics # << >> /\ ~executing /\ executing' = TRUE
        /\ frameIndex' = frameIndex /\ imageIndex' = imageIndex /\ fence' = fence
        /\ renderFinished' = renderFinished /\ owner' = owner
        /\ graphics' = graphics /\ presents' = presents
        /\ imageAvailable' = [imageAvailable EXCEPT ![h.frame] = "unsignaled"]
    BY <1>1 DEF BeginSubmission, host
  <1>3. Submitted' = Submitted /\ Presented' = Presented
    BY <1>2 DEF Submitted, Presented
  <1>4. h \in Submitted /\ h.frame \in Frame
    BY <1>1, <1>2, InQueues
  <1>5. /\ imageAvailable'[h.frame] = "unsignaled"
        /\ \A g \in Frame \ {h.frame} : imageAvailable'[g] = imageAvailable[g]
    BY <1>2, <1>4 DEF TypeInv
  <1>6. /\ Acquired => frameIndex # h.frame
        /\ \A s \in Submitted : s # h => s.frame # h.frame
    BY <1>4 DEF FenceInv, Prepared
  <1>7. TypeInv'
    BY <1>2 DEF TypeInv
  <1>8. FenceInv'
    BY <1>2, <1>3 DEF FenceInv, Prepared, Acquired, Left
  <1>9. AcquisitionInv'
    <2>1. \A s \in Submitted : /\ Waits(s) /\ s.frame \in Frame
                               /\ Waits(s)' <=> s # h
      BY <1>1, <1>2, <1>3, InQueues DEF Waits
    <2>2. (Acquired' <=> Acquired) /\ (Left' <=> Left) /\ frameIndex \in Frame
      BY <1>2 DEF Acquired, Left, TypeInv
    <2> QED
      BY <1>2, <1>3, <1>5, <1>6, <2>1, <2>2 DEF AcquisitionInv
  <1>10. ImageInv'
    <2>1. \A k \in Image : /\ Drawn(k)' <=> Drawn(k)
                           /\ Shows(k)' <=> Shows(k)
                           /\ Presents(k)' <=> Presents(k)
      BY <1>2, <1>3 DEF Drawn, Shows, Presents, Left
    <2>2. /\ imageIndex \in Image /\ \A s \in Submitted : s.image \in Image
          /\ \A p \in Presented : p.image \in Image
      BY InQueues DEF TypeInv
    <2>3. Acquired' <=> Acquired
      BY <1>2 DEF Acquired
    <2> QED
      BY <1>2, <1>3, <2>1, <2>2, <2>3 DEF ImageInv
  <1>11. IdleInv'
    BY <1>2 DEF IdleInv, DeviceIdle
  <1> QED
    BY <1>7, <1>8, <1>9, <1>10, <1>11

LEMMA EndStep ==
  ASSUME QueueInv, EndSubmission
  PROVE  QueueInv'
  <1> USE DEF QueueInv
  <1>1. PICK h : h = Head(graphics)
    OBVIOUS
  <1>2. /\ pc' = pc /\ graphics # << >> /\ executing /\ executing' = FALSE
        /\ frameIndex' = frameIndex /\ imageIndex' = imageIndex
        /\ imageAvailable' = imageAvailable /\ owner' = owner
        /\ graphics' = Tail(graphics) /\ presents' = presents
        /\ renderFinished' = [renderFinished EXCEPT ![h.signals] = TRUE]
        /\ fence' = [fence EXCEPT ![h.frame] = TRUE]
    BY <1>1 DEF EndSubmission, host
  <1>3. /\ graphics' \in Seq(Submissions) /\ Distinct(graphics')
        /\ Submitted' = Submitted \ {h} /\ h \in Submitted
    <2>1. graphics \in Seq(Submissions) /\ Distinct(graphics)
      BY DEF TypeInv
    <2>2. /\ Tail(graphics) \in Seq(Submissions) /\ Distinct(Tail(graphics))
          /\ Elements(Tail(graphics)) = Elements(graphics) \ {Head(graphics)}
          /\ Head(graphics) \in Elements(graphics)
      BY <1>2, <2>1, TailElements
    <2> QED
      BY <1>1, <1>2, <2>2 DEF Submitted
  <1>4. Presented' = Presented
    BY <1>2 DEF Presented
  <1>5. PICK i \in Image, f \in Frame : h.image = i /\ h.signals = i /\ h.frame = f
    BY <1>3, InQueues DEF ImageInv
  <1>6. /\ renderFinished'[i] /\ \A k \in Image \ {i} : renderFinished'[k] = renderFinished[k]
        /\ fence'[f] /\ \A g \in Frame \ {f} : fence'[g] = fence[g]
    BY <1>2, <1>5 DEF TypeInv
  <1>7. /\ \A s \in Submitted' : /\ s.image \in Image \ {i} /\ s.frame \in Frame \ {f}
                                 /\ s \in Submitted /\ s # h
    BY <1>3, <1>5, InQueues DEF ImageInv, FenceInv
  <1>8. TypeInv'
    <2>1. fence' \in [Frame -> BOOLEAN] /\ renderFinished' \in [Image -> BOOLEAN]
      BY <1>2 DEF TypeInv
    <2> QED
      BY <1>2, <1>3, <2>1 DEF TypeInv
  <1>9. FenceInv'
    <2>1. Prepared => frameIndex # f
      BY <1>3, <1>5 DEF FenceInv
    <2>2. (Prepared' <=> Prepared) /\ (Left' <=> Left) /\ (pc = "submit" => Prepared)
      BY <1>2 DEF Prepared, Acquired, Left
    <2>3. frameIndex \in Frame
      BY DEF TypeInv
    <2>4. \A g \in Frame : ~fence'[g] => \/ \E s \in Submitted' : s.frame = g
                                         \/ g = frameIndex /\ pc = "submit"
                                         \/ Left
      <3> TAKE g \in Frame
      <3> HAVE ~fence'[g]
      <3>1. g # f /\ ~fence[g]
        BY <1>6
      <3>2. \/ \E s \in Submitted : s.frame = g
            \/ g = frameIndex /\ pc = "submit"
            \/ Left
        BY <3>1 DEF FenceInv
      <3> QED
        BY <1>3, <1>5, <3>1, <3>2
    <2>5. \A s \in Submitted' : ~fence'[s.frame]
      BY <1>6, <1>7 DEF FenceInv
    <2>6. Prepared => \A s \in Submitted' : s.frame # frameIndex
      BY <1>7 DEF FenceInv
    <2>7. \A s, t \in Submitted' : s.frame = t.frame => s = t
      BY <1>7 DEF FenceInv
    <2>8. pc = "submit" => ~fence'[frameIndex]
      BY <1>6, <2>1, <2>2, <2>3 DEF FenceInv
    <2> QED
      BY <1>2, <2>2, <2>4, <2>5, <2>6, <2>7, <2>8 DEF FenceInv
  <1>10. AcquisitionInv'
    <2>1. /\ \A s \in Submitted' : Waits(s)' /\ Waits(s) /\ s.frame \in Frame
          /\ \A s \in Submitted : Waits(s) => s \in Submitted'
      BY <1>1, <1>2, <1>3, <1>7 DEF Waits
    <2>2. (Acquired' <=> Acquired) /\ (Left' <=> Left) /\ frameIndex \in Frame
      BY <1>2 DEF Acquired, Left, TypeInv
    <2> QED
      BY <1>2, <1>7, <2>1, <2>2 DEF AcquisitionInv
  <1>11. ImageInv'
    <2>1. /\ \A k \in Image : (Drawn(k)' <=> Drawn(k) /\ k # i) /\ (Shows(k)' <=> Shows(k))
          /\ \A k \in Image : Presents(k)' <=> Presents(k)
      <3>1. \A k \in Image : Drawn(k)' <=> Drawn(k) /\ k # i
        BY <1>3, <1>5, <1>7 DEF Drawn
      <3> QED
        BY <1>2, <1>4, <3>1 DEF Shows, Presents, Left
    <2>2. /\ imageIndex \in Image /\ \A s \in Submitted : s.image \in Image
          /\ \A p \in Presented : p.image \in Image
      BY InQueues DEF TypeInv
    <2>3. (Acquired' <=> Acquired) /\ (Shows(i) \/ Presents(i))
      BY <1>2, <1>3, <1>5 DEF Acquired, ImageInv
    <2>4. \A s \in Submitted' : /\ s.signals = s.image /\ s.alive
                                /\ owner[s.image] \in {"host", "queued"}
                                /\ ~renderFinished'[s.image]
                                /\ Shows(s.image)' \/ Presents(s.image)'
      BY <1>6, <1>7, <2>1 DEF ImageInv
    <2>5. \A p \in Presented : /\ p.waits = p.image /\ p.alive
                               /\ owner[p.image] = "queued"
                               /\ renderFinished'[p.image] \/ Drawn(p.image)'
      BY <1>6, <2>1, <2>2 DEF ImageInv
    <2>6. /\ \A s, t \in Submitted' : s.image = t.image => s = t
          /\ \A p, r \in Presented : p.image = r.image => p = r
      BY <1>7 DEF ImageInv
    <2>7. pc = "present" => renderFinished'[imageIndex] \/ Drawn(imageIndex)'
      <3>1. \A k \in Image : renderFinished[k] \/ Drawn(k) => renderFinished'[k] \/ Drawn(k)'
        BY <1>6, <2>1
      <3>2. PICK k \in Image : k = imageIndex
        BY <2>2
      <3>3. pc = "present" => renderFinished'[k] \/ Drawn(k)'
        BY <3>1, <3>2 DEF ImageInv
      <3> QED
        BY <1>2, <3>2, <3>3 DEF Drawn
    <2>8. \A k \in Image : renderFinished'[k] => Shows(k)' \/ Presents(k)'
      BY <1>6, <2>1, <2>3 DEF ImageInv
    <2>9. Acquired \/ pc = "present" => owner[imageIndex] = "host"
      BY DEF ImageInv
    <2> QED
      BY <1>2, <1>4, <2>3, <2>4, <2>5, <2>6, <2>7, <2>8, <2>9 DEF ImageInv
  <1>12. IdleInv'
    BY <1>2 DEF IdleInv, DeviceIdle
  <1> QED
    BY <1>8, <1>9, <1>10, <1>11, <1>12

LEMMA ShowStep ==
  ASSUME QueueInv, Show
  PROVE  QueueInv'
  <1> USE DEF QueueInv
  <1>1. PICK h : h = Head(presents)
    OBVIOUS
  <1>2. /\ pc' = pc /\ presents # << >> /\ renderFinished[h.waits] /\ executing' = executing
        /\ frameIndex' = frameIndex /\ imageIndex' = imageIndex
        /\ imageAvailable' = imageAvailable /\ fence' = fence
        /\ graphics' = graphics /\ presents' = Tail(presents)
        /\ renderFinished' = [renderFinished EXCEPT ![h.waits] = FALSE]
        /\ owner' = [k \in Image |-> IF k = h.image THEN "shown"
                                     ELSE IF owner[k] = "shown" THEN "engine" ELSE owner[k]]
    BY <1>1 DEF Show, host
  <1>3. /\ presents' \in Seq(Presentations) /\ Distinct(presents')
        /\ Presented' = Presented \ {h} /\ h \in Presented
    <2>1. presents \in Seq(Presentations) /\ Distinct(presents)
      BY DEF TypeInv
    <2>2. /\ Tail(presents) \in Seq(Presentations) /\ Distinct(Tail(presents))
          /\ Elements(Tail(presents)) = Elements(presents) \ {Head(presents)}
          /\ Head(presents) \in Elements(presents)
      BY <1>2, <2>1, TailElements
    <2> QED
      BY <1>1, <1>2, <2>2 DEF Presented
  <1>4. Submitted' = Submitted
    BY <1>2 DEF Submitted
  <1>5. PICK i \in Image : h.image = i /\ h.waits = i /\ owner[i] = "queued" /\ renderFinished[i]
    BY <1>2, <1>3, InQueues DEF ImageInv
  <1>6. /\ ~renderFinished'[i] /\ \A k \in Image \ {i} : renderFinished'[k] = renderFinished[k]
        /\ \A k \in Image \ {i} : owner[k] \in {"host", "queued"} => owner'[k] = owner[k]
    BY <1>2, <1>5 DEF TypeInv
  <1>7. /\ \A p \in Presented' : p.image \in Image \ {i} /\ p \in Presented /\ p # h
        /\ \A s \in Submitted : s.image \in Image \ {i}
    BY <1>3, <1>4, <1>5, InQueues DEF ImageInv
  <1>8. TypeInv'
    <2>1. /\ renderFinished' \in [Image -> BOOLEAN]
          /\ owner' \in [Image -> {"engine", "host", "queued", "shown"}]
      BY <1>2 DEF TypeInv
    <2> QED
      BY <1>2, <1>3, <2>1 DEF TypeInv
  <1>9. FenceInv'
    BY <1>2, <1>4 DEF FenceInv, Prepared, Acquired, Left
  <1>10. AcquisitionInv'
    <2>1. \A s \in Submitted : Waits(s)' <=> Waits(s)
      BY <1>2, <1>4 DEF Waits
    <2>2. (Acquired' <=> Acquired) /\ (Left' <=> Left)
      BY <1>2 DEF Acquired, Left
    <2> QED
      BY <1>2, <1>4, <2>1, <2>2 DEF AcquisitionInv
  <1>11. ImageInv'
    <2>1. /\ \A k \in Image : (Shows(k)' <=> Shows(k) /\ k # i) /\ (Drawn(k)' <=> Drawn(k))
          /\ \A k \in Image : Presents(k)' <=> Presents(k)
      <3>1. \A k \in Image : Shows(k)' <=> Shows(k) /\ k # i
        BY <1>3, <1>5, <1>7 DEF Shows
      <3> QED
        BY <1>2, <1>4, <3>1 DEF Drawn, Presents, Left
    <2>2. imageIndex \in Image /\ (Acquired' <=> Acquired)
      BY <1>2 DEF TypeInv, Acquired
    <2>3. Acquired \/ pc = "present" => imageIndex # i /\ owner'[imageIndex] = "host"
      BY <1>5, <1>6, <2>2 DEF ImageInv
    <2>4. \A s \in Submitted : /\ s.signals = s.image /\ s.alive
                               /\ owner'[s.image] \in {"host", "queued"}
                               /\ ~renderFinished'[s.image]
                               /\ Shows(s.image)' \/ Presents(s.image)'
      BY <1>6, <1>7, <2>1 DEF ImageInv
    <2>5. \A p \in Presented' : /\ p.waits = p.image /\ p.alive
                                /\ owner'[p.image] = "queued"
                                /\ renderFinished'[p.image] \/ Drawn(p.image)'
      BY <1>6, <1>7, <2>1 DEF ImageInv
    <2>6. /\ \A s, t \in Submitted : s.image = t.image => s = t
          /\ \A p, r \in Presented' : p.image = r.image => p = r
      BY <1>7 DEF ImageInv
    <2>7. pc = "present" => renderFinished'[imageIndex] \/ Drawn(imageIndex)'
      <3>1. \A k \in Image \ {i} : renderFinished[k] \/ Drawn(k) => renderFinished'[k] \/ Drawn(k)'
        BY <1>6, <2>1
      <3>2. PICK k \in Image : k = imageIndex
        BY <2>2
      <3>3. pc = "present" => renderFinished'[k] \/ Drawn(k)'
        BY <2>3, <3>1, <3>2 DEF ImageInv
      <3> QED
        BY <1>2, <3>2, <3>3 DEF Drawn
    <2>8. \A k \in Image : renderFinished'[k] => Shows(k)' \/ Presents(k)'
      BY <1>6, <2>1 DEF ImageInv
    <2> QED
      BY <1>2, <1>4, <2>2, <2>3, <2>4, <2>5, <2>6, <2>7, <2>8 DEF ImageInv
  <1>12. IdleInv'
    <2>1. presents = << >> <=> Presented = {}
      BY InQueues
    <2> QED
      BY <1>2 DEF IdleInv, DeviceIdle
  <1> QED
    BY <1>8, <1>9, <1>10, <1>11, <1>12

\* The steps of the host, of its surroundings and of the end that QuietStep covers.
LEMMA QuietSteps ==
  ASSUME QueueInv,
         \/ PollEvents \/ RestoreClosed \/ WaitEvents \/ Restored \/ Configure \/ WaitIdle
         \/ WaitForFence \/ Update \/ AcquireTimesOut \/ AcquireOutOfDate \/ Record
         \/ Throw \/ Leave \/ Ended \/ User \/ UNCHANGED vars
  PROVE  QueueInv'
  <1> DEFINE Quiet ==
         /\ UNCHANGED <<frameIndex, imageIndex, sync, queues, owner>>
         /\ pc' \in {"poll", "restore", "configure", "idle", "create", "wait", "update", "acquire",
                     "record", "reset", "submit", "present", "leave", "ended"}
         /\ pc \in {"submit", "present"} => pc' \in {pc, "leave"}
         /\ pc' \in {"submit", "present"} => pc' = pc
         /\ Acquired' => Acquired
         /\ Acquired => Acquired' \/ Left'
         /\ Left => Left'
         /\ Prepared' => \A s \in Submitted : s.frame # frameIndex
         /\ pc' \in {"create", "ended"} => DeviceIdle
  <1>1. ASSUME Quiet PROVE QueueInv'
    BY <1>1, QuietStep
  <1> HIDE DEF Quiet
  <1>2. /\ Prepared => \A s \in Submitted : s.frame # frameIndex
        /\ pc \in {"create", "ended"} => DeviceIdle
        /\ pc \in {"poll", "restore", "configure", "idle", "create", "wait", "update", "acquire",
                   "record", "reset", "submit", "present", "leave", "ended"}
    BY DEF QueueInv, FenceInv, IdleInv, TypeInv
  <1>3. CASE PollEvents
    BY <1>1, <1>3 DEF Quiet, PollEvents, Go, Acquired, Left, Prepared, host
  <1>4. CASE RestoreClosed \/ Restored \/ Configure
    BY <1>1, <1>4 DEF Quiet, RestoreClosed, Restored, Configure, Go, Acquired, Left, Prepared, host
  <1>5. CASE WaitEvents
    BY <1>1, <1>5 DEF Quiet, WaitEvents, Acquired, Left, Prepared, host
  <1>6. CASE WaitIdle
    BY <1>1, <1>6 DEF Quiet, WaitIdle, Go, Acquired, Left, Prepared, host
  <1>7. CASE WaitForFence
    <2>1. \A s \in Submitted : s.frame # frameIndex
      BY <1>7 DEF WaitForFence, QueueInv, FenceInv
    <2> QED
      BY <1>1, <1>7, <2>1 DEF Quiet, WaitForFence, Go, Acquired, Left, Prepared, host
  <1>8. CASE Update
    BY <1>1, <1>2, <1>8 DEF Quiet, Update, Go, Acquired, Left, Prepared, host
  <1>9. CASE AcquireTimesOut \/ AcquireOutOfDate
    BY <1>1, <1>9 DEF Quiet, AcquireTimesOut, AcquireOutOfDate, Go, Acquired, Left, Prepared, host
  <1>10. CASE Record
    BY <1>1, <1>2, <1>10 DEF Quiet, Record, Go, Acquired, Left, Prepared, host
  <1>11. CASE Throw
    BY <1>1, <1>11 DEF Quiet, Throw, MayThrow, Go, Acquired, Left, Prepared, host
  <1>12. CASE Leave
    BY <1>1, <1>12 DEF Quiet, Leave, Go, Acquired, Left, Prepared, host
  <1>13. CASE Ended \/ UNCHANGED vars
    BY <1>1, <1>2, <1>13 DEF Quiet, Ended, vars, Acquired, Left, Prepared, host
  <1>14. CASE User
    BY <1>1, <1>2, <1>14 DEF Quiet, User, ChangeSurface, RequestClose, Acquired, Left, Prepared, host
  <1> QED
    BY <1>3, <1>4, <1>5, <1>6, <1>7, <1>8, <1>9, <1>10, <1>11, <1>12, <1>13, <1>14

LEMMA QueueNext == QueueInv /\ [Next]_vars => QueueInv'
  <1> SUFFICES ASSUME QueueInv, [Next]_vars PROVE QueueInv'
    OBVIOUS
  <1>1. ASSUME NEW i \in Image, NEW suboptimal \in BOOLEAN, Acquire(i, suboptimal) PROVE QueueInv'
    BY <1>1, AcquireStep
  <1>2. ASSUME NEW outdated \in BOOLEAN, Present(outdated) PROVE QueueInv'
    BY <1>2, PresentStep
  <1>3. ASSUME NEW f \in Frame, EngineSignals(f) PROVE QueueInv'
    BY <1>3, EngineStep
  <1> QED
    BY <1>1, <1>2, <1>3, QuietSteps, CreateStep, ResetStep, SubmitStep, BeginStep, EndStep, ShowStep
       DEF Next, HostStep, Recreation, DrawFrame, Device
-----------------------------------------------------------------------------
(***************************************************************************)
(* The size of the surface                                                 *)
(***************************************************************************)
sized == <<surface, sizeEvent, framebuffer, framebufferResized, setting, swapchain, pipelineFormat>>

LEMMA SizeKept ==
  ASSUME SizeInv, UNCHANGED sized, pc' \in {"idle", "create"} => pc \in {"idle", "create"}
  PROVE  SizeInv'
  BY DEF SizeInv, SwapchainFollows, sized

LEMMA EventsHandled ==
  ASSUME SizeInv, HandleEvents, UNCHANGED <<setting, objects>>, pc' \notin {"idle", "create"}
  PROVE  SizeInv'
  BY DEF SizeInv, SwapchainFollows, HandleEvents, Raised, objects

LEMMA SizeNext == SizeInv /\ [Next]_vars => SizeInv'
  <1> SUFFICES ASSUME SizeInv, [Next]_vars PROVE SizeInv'
    OBVIOUS
  <1>1. CASE PollEvents \/ WaitEvents
    <2>1. /\ HandleEvents /\ UNCHANGED <<setting, objects>>
          /\ pc' \notin {"idle", "create"}
      BY <1>1 DEF PollEvents, WaitEvents, Go, host
    <2> QED
      BY <2>1, EventsHandled
  <1>2. CASE Configure
    <2>1. UNCHANGED <<surface, sizeEvent, framebuffer, framebufferResized, swapchain, pipelineFormat>>
      BY <1>2 DEF Configure, user, window, objects
    <2>2. PICK extent \in ExtentChoices :
               IF extent = Zero
               THEN Go("leave") /\ UNCHANGED setting
               ELSE Go("idle") /\ setting' = [surface EXCEPT !.size = extent]
      BY <1>2 DEF Configure
    <2>3. CASE extent = Zero
      BY <2>1, <2>2, <2>3 DEF SizeInv, SwapchainFollows, Go
    <2>4. CASE extent # Zero
      <3>1. setting' = [surface EXCEPT !.size = extent]
        BY <2>2, <2>4
      <3>2. surface = [size |-> surface.size, format |-> surface.format]
        BY FrameAssumption DEF SizeInv
      <3>3. setting'.size = extent
        BY <3>1, <3>2
      <3>4. extent # surface.size => sizeEvent
        BY <2>2 DEF ExtentChoices, SizeInv
      <3> QED
        BY <2>1, <3>3, <3>4 DEF SizeInv, SwapchainFollows
    <2> QED
      BY <2>3, <2>4
  <1>3. CASE CreateSwapchain
    <2>1. /\ pc = "create" /\ pc' = "poll" /\ swapchain' = setting
          /\ pipelineFormat' = setting.format
          /\ UNCHANGED <<surface, sizeEvent, framebuffer>>
      BY <1>3 DEF CreateSwapchain, UpdateColorFormat, Go, user
    <2> QED
      BY <2>1 DEF SizeInv, SwapchainFollows
  <1>4. ASSUME NEW s \in Surface, ChangeSurface(s) PROVE SizeInv'
    <2>1. /\ surface' = s /\ sizeEvent' = (sizeEvent \/ s.size # surface.size) /\ pc' = pc
          /\ UNCHANGED <<framebuffer, framebufferResized, setting, swapchain, pipelineFormat>>
      BY <1>4 DEF ChangeSurface, window, host, objects
    <2>2. s.size # surface.size => sizeEvent'
      BY <2>1
    <2>3. sizeEvent => sizeEvent'
      BY <2>1
    <2> QED
      BY <2>1, <2>2, <2>3 DEF SizeInv, SwapchainFollows
  <1>5. CASE RequestClose
    BY <1>5, SizeKept DEF RequestClose, sized, window, host, objects
  <1>6. CASE RestoreClosed \/ Restored \/ WaitIdle
    BY <1>6, SizeKept DEF RestoreClosed, Restored, WaitIdle, Go, sized, user, window, host, objects
  <1>7. CASE DrawFrame
    BY <1>7, SizeKept DEF DrawFrame, WaitForFence, Update, AcquireTimesOut, AcquireOutOfDate, Acquire,
       Record, ResetFence, Submit, Present, Go, sized, user, window, host, objects
  <1>8. CASE Leave \/ Throw
    BY <1>8, SizeKept DEF Leave, Throw, Go, sized, user, window, host, objects
  <1>9. CASE Device
    BY <1>9, SizeKept DEF Device, EngineSignals, BeginSubmission, EndSubmission, Show, sized, user,
       window, host, objects
  <1>10. CASE Ended \/ UNCHANGED vars
    BY <1>10, SizeKept DEF Ended, vars, sized, user, window, host, objects
  <1> QED
    BY <1>1, <1>2, <1>3, <1>4, <1>5, <1>6, <1>7, <1>8, <1>9, <1>10
       DEF Next, HostStep, Recreation, User
-----------------------------------------------------------------------------
(***************************************************************************)
(* The properties                                                          *)
(***************************************************************************)
LEMMA InitInv == Init => Inv
  <1> SUFFICES ASSUME Init PROVE Inv
    OBVIOUS
  <1>1. /\ 0 \in Frame /\ 0 \in Image
        /\ << >> \in Seq(Submissions) /\ << >> \in Seq(Presentations)
        /\ Distinct(<< >>) /\ Elements(<< >>) = {}
    BY FrameAssumption DEF Frame, Image, Distinct, Elements
  <1>2. TypeInv
    BY <1>1 DEF Init, TypeInv
  <1>3. Submitted = {} /\ Presented = {} /\ \A s : ~Waits(s)
    BY <1>1 DEF Init, Submitted, Presented, Waits
  <1>4. FenceInv /\ AcquisitionInv
    BY <1>3 DEF Init, FenceInv, AcquisitionInv, Prepared, Acquired
  <1>5. ImageInv /\ IdleInv
    BY <1>3 DEF Init, ImageInv, IdleInv, Acquired
  <1>6. SizeInv
    BY FrameAssumption DEF Init, SizeInv, SwapchainFollows
  <1> QED
    BY <1>2, <1>4, <1>5, <1>6 DEF Inv

\* The inductive invariant holds in every reachable state of the loop, whatever the numbers of
\* frames and images and whatever the Vulkan calls return.
THEOREM SpecInv == Spec => []Inv
  <1>1. Inv /\ [Next]_vars => Inv'
    BY QueueNext, SizeNext DEF Inv, QueueInv
  <1> QED
    BY <1>1, InitInv, PTL DEF Spec

\* Nothing in use is touched: command buffer, instance buffer and fence of a frame are the
\* host's only while no submission has them, an image between acquisition and present is the
\* host's, and no queue holds work on anything that has been destroyed.
THEOREM NothingInUseIsTouched == Spec => []NothingInUseTouched
  <1>1. ASSUME Inv PROVE NothingInUseTouched
    <2>1. pc \in {"update", "acquire", "record", "reset", "submit"} => ~InFlight(frameIndex)
      BY <1>1 DEF Inv, FenceInv, Prepared, Acquired, InFlight, Submitted
    <2>2. pc \in {"record", "reset", "submit", "present"} => owner[imageIndex] = "host"
      BY <1>1 DEF Inv, ImageInv, Acquired
    <2>3. /\ \A s \in Elements(graphics) : s.alive /\ owner[s.image] \in {"host", "queued"}
          /\ \A p \in Elements(presents) : p.alive /\ owner[p.image] = "queued"
      BY <1>1 DEF Inv, ImageInv, Submitted, Presented
    <2>4. pc = "ended" => DeviceIdle
      BY <1>1 DEF Inv, IdleInv
    <2> QED
      BY <2>1, <2>2, <2>3, <2>4 DEF NothingInUseTouched
  <1> QED
    BY <1>1, SpecInv, PTL

\* Each binary semaphore has one signal for each wait, in this order, and each fence that is
\* not signaled will be: no wait of a queue or of the host is left unanswered.
THEOREM SignalsArePaired == Spec => []SignalsPaired
  <1>1. ASSUME Inv PROVE SignalsPaired
    <2> USE <1>1 DEF Inv
    <2>1. \A n \in DOMAIN graphics : graphics[n] \in Submitted
      BY DEF Submitted, Elements
    <2>2. \A n \in DOMAIN presents : presents[n] \in Presented
      BY DEF Presented, Elements
    <2>3. pc = "acquire" => imageAvailable[frameIndex] = "unsignaled"
      BY DEF AcquisitionInv, FenceInv, Acquired, Prepared, Left, TypeInv
    <2>4. pc = "submit" => imageAvailable[frameIndex] # "unsignaled"
      BY DEF AcquisitionInv, Acquired
    <2>5. ASSUME NEW n \in DOMAIN graphics, n > 1 \/ ~executing
          PROVE  imageAvailable[graphics[n].frame] # "unsignaled"
      <3>1. graphics[n] # Head(graphics) \/ ~executing
        <4>1. graphics \in Seq(Submissions) /\ graphics # << >> /\ Distinct(graphics)
          BY DEF TypeInv
        <4>2. 1 \in DOMAIN graphics /\ Head(graphics) = graphics[1] /\ n \in Nat
          BY <4>1
        <4> QED
          BY <2>5, <4>1, <4>2 DEF Distinct
      <3> QED
        BY <2>1, <3>1 DEF AcquisitionInv, Waits
    <2>6. \A s \in Submitted : s.signals = s.image /\ ~renderFinished[s.signals]
      BY DEF ImageInv
    <2>7. \A m, n \in DOMAIN graphics : graphics[m].signals = graphics[n].signals => m = n
      BY <2>1, <2>6 DEF ImageInv, TypeInv, Distinct
    <2>8. \A p \in Presented : p.waits = p.image
      BY DEF ImageInv
    <2>9. \A m, n \in DOMAIN presents : presents[m].waits = presents[n].waits => m = n
      BY <2>2, <2>8 DEF ImageInv, TypeInv, Distinct
    <2>10. \A p \in Presented : renderFinished[p.waits] \/ \E s \in Submitted : s.signals = p.waits
      BY <2>6, <2>8 DEF ImageInv, Drawn
    <2>11. SemaphoresPaired
      BY <2>3, <2>4, <2>5, <2>6, <2>7, <2>9, <2>10 DEF SemaphoresPaired, Submitted, Presented
    <2>12. FenceWillSignal
      BY DEF FenceInv, FenceWillSignal, InFlight, Submitted, Left
    <2> QED
      BY <2>11, <2>12 DEF SignalsPaired
  <1> QED
    BY <1>1, SpecInv, PTL

\* No change of the size of the surface is lost: until the swapchain has that size an event or
\* the window's flag tells of it; and the pipeline is made for the format of the swapchain.
THEOREM SwapchainFollowsSurface == Spec => []SwapchainFollows
  <1>1. Inv => SwapchainFollows
    BY DEF Inv, SizeInv
  <1> QED
    BY <1>1, SpecInv, PTL
-----------------------------------------------------------------------------
(***************************************************************************)
(* VulkanSetup, an instance beside the loop.                               *)
(***************************************************************************)
\* Numbers have a least one.
LEMMA LeastNumber ==
  ASSUME NEW T, T \subseteq Nat, T # {}
  PROVE  \E x \in T : \A y \in T : x <= y
  <1>1. PICK x \in T : \A y \in T : ~(<<y, x>> \in OpToRel(<, Nat))
    BY NatLessThanWellFounded, WFMin
  <1>2. \A y \in T : ~(y < x)
    BY <1>1 DEF OpToRel
  <1>3. x \in Nat /\ \A y \in T : y \in Nat
    OBVIOUS
  <1> QED
    BY <1>2, <1>3

\* The loops that break at the first match find one whenever there is one.
LEMMA FirstFinds ==
  ASSUME NEW T, T \subseteq Nat \ {0}
  PROVE  /\ Setup!First(T) = 0 <=> T = {}
         /\ T # {} => Setup!First(T) \in T
  <1>1. CASE T = {}
    BY <1>1 DEF Setup!First, Setup!None
  <1>2. CASE T # {}
    <2>1. \E x \in T : \A y \in T : x <= y
      BY <1>2, LeastNumber
    <2>2. Setup!Smallest(T) \in T
      BY <2>1 DEF Setup!Smallest
    <2> QED
      BY <1>2, <2>2 DEF Setup!First
  <1> QED
    BY <1>1, <1>2
-----------------------------------------------------------------------------
\* A family that can do one thing, the other, or both.
Drawing(f)    == f.queueCount > 0 /\ f.graphics
Presenting(f) == f.queueCount > 0 /\ f.present

\* The families of a choice can do what they were chosen for, and are one if one can do both;
\* there is a choice exactly if each of the two can be done.
ChoiceSound(families, choice) ==
    LET g == choice[1]
        p == choice[2]
    IN  /\ choice # <<0, 0>> <=> /\ \E n \in DOMAIN families : Drawing(families[n])
                                 /\ \E n \in DOMAIN families : Presenting(families[n])
        /\ choice # <<0, 0>> =>
              /\ g \in DOMAIN families /\ Drawing(families[g])
              /\ p \in DOMAIN families /\ Presenting(families[p])
              /\ (\E n \in DOMAIN families : Drawing(families[n]) /\ Presenting(families[n])) => g = p

LEMMA QueueFamiliesSound ==
  ASSUME NEW families \in Seq(Setup!FamilyProperties)
  PROVE  ChoiceSound(families, Setup!ChooseQueueFamilies(families))
  <1>1. PICK U, B, G, P :
            /\ U = {n \in DOMAIN families : Setup!Usable(families[n])}
            /\ B = {n \in U : families[n].graphics /\ families[n].present}
            /\ G = {n \in U : families[n].graphics}
            /\ P = {n \in U : families[n].present}
    OBVIOUS
  <1>2. DOMAIN families \subseteq Nat \ {0}
    BY DEF Setup!FamilyProperties
  <1>3. B \subseteq Nat \ {0} /\ G \subseteq Nat \ {0} /\ P \subseteq Nat \ {0}
    BY <1>1, <1>2
  <1>4. PICK b, g, p : b = Setup!First(B) /\ g = Setup!First(G) /\ p = Setup!First(P)
    OBVIOUS
  <1>5. /\ b = 0 <=> B = {}
        /\ g = 0 <=> G = {}
        /\ p = 0 <=> P = {}
        /\ B # {} => b \in B
        /\ G # {} => g \in G
        /\ P # {} => p \in P
    BY <1>3, <1>4, FirstFinds
  <1>6. Setup!ChooseQueueFamilies(families) =
            IF b # 0 THEN <<b, b>> ELSE IF 0 \in {g, p} THEN <<0, 0>> ELSE <<g, p>>
    BY <1>1, <1>4 DEF Setup!ChooseQueueFamilies, Setup!None
  <1>7. /\ B = {n \in DOMAIN families : Drawing(families[n]) /\ Presenting(families[n])}
        /\ G = {n \in DOMAIN families : Drawing(families[n])}
        /\ P = {n \in DOMAIN families : Presenting(families[n])}
    BY <1>1 DEF Setup!Usable, Drawing, Presenting
  <1>8. B \subseteq G /\ B \subseteq P
    BY <1>7
  <1>9. CASE b # 0
    <2>1. b \in B /\ Setup!ChooseQueueFamilies(families) = <<b, b>> /\ <<b, b>> # <<0, 0>>
      BY <1>5, <1>6, <1>9
    <2> QED
      BY <1>7, <2>1 DEF ChoiceSound
  <1>10. CASE b = 0 /\ (g = 0 \/ p = 0)
    <2>1. Setup!ChooseQueueFamilies(families) = <<0, 0>> /\ (G = {} \/ P = {})
      BY <1>5, <1>6, <1>10
    <2> QED
      BY <1>7, <2>1 DEF ChoiceSound
  <1>11. CASE b = 0 /\ g # 0 /\ p # 0
    <2>1. /\ Setup!ChooseQueueFamilies(families) = <<g, p>> /\ <<g, p>> # <<0, 0>>
          /\ B = {} /\ g \in G /\ p \in P
      BY <1>5, <1>6, <1>11
    <2> QED
      BY <1>7, <2>1 DEF ChoiceSound
  <1> QED
    BY <1>9, <1>10, <1>11


\* The record the selection makes of a device.
Selected(n, d) ==
    [device |-> n, graphics |-> Setup!ChooseQueueFamilies(d.families)[1],
     present |-> Setup!ChooseQueueFamilies(d.families)[2],
     portability |-> "portability" \in d.extensions]

\* A device is accepted exactly if it could serve, and its selection has all that is asked of it.
LEMMA AcceptedServes ==
  ASSUME NEW d \in Setup!DeviceProperties
  PROVE  /\ Setup!Accepted(d) <=> Setup!CouldServe(d)
         /\ \A n : Setup!Accepted(d) => Setup!Supports(d, Selected(n, d))
  <1>1. d.families \in Seq(Setup!FamilyProperties) /\ d.features \subseteq Setup!Features
    BY DEF Setup!DeviceProperties
  <1>2. PICK choice : choice = Setup!ChooseQueueFamilies(d.families)
    OBVIOUS
  <1>3. ChoiceSound(d.families, choice)
    BY <1>1, <1>2, QueueFamiliesSound
  <1>4. Setup!Accepted(d) <=> /\ d.recent /\ "swapchain" \in d.extensions /\ d.features = Setup!Features
                              /\ choice # <<0, 0>>
    BY <1>1, <1>2 DEF Setup!Accepted, Setup!None
  <1>5. ASSUME Setup!Accepted(d), NEW n
        PROVE  Setup!Supports(d, Selected(n, d)) /\ choice[1] \in DOMAIN d.families
                                                  /\ choice[2] \in DOMAIN d.families
    <2>1. PICK g, p, q : g = choice[1] /\ p = choice[2] /\ q = ("portability" \in d.extensions)
      OBVIOUS
    <2>2. /\ g \in DOMAIN d.families /\ Drawing(d.families[g])
          /\ p \in DOMAIN d.families /\ Presenting(d.families[p])
          /\ (\E k \in DOMAIN d.families : Drawing(d.families[k]) /\ Presenting(d.families[k])) => g = p
      BY <1>3, <1>4, <1>5, <2>1 DEF ChoiceSound
    <2>3. PICK s : s = Selected(n, d)
      OBVIOUS
    <2>4. s.graphics = g /\ s.present = p /\ (s.portability <=> "portability" \in d.extensions)
      BY <1>2, <2>1, <2>3 DEF Selected
    <2>5. Setup!Supports(d, s)
      BY <1>4, <1>5, <2>2, <2>4 DEF Setup!Supports, Drawing, Presenting
    <2> QED
      BY <2>1, <2>2, <2>3, <2>5
  <1>6. ASSUME Setup!Accepted(d)
        PROVE  Setup!CouldServe(d)
    <2>1. PICK g, p : g = choice[1] /\ p = choice[2]
      OBVIOUS
    <2>2. PICK q \in BOOLEAN : q <=> "portability" \in d.extensions
      OBVIOUS
    <2>3. PICK s : s = [device |-> 1, graphics |-> g, present |-> p, portability |-> q]
      OBVIOUS
    <2>4. /\ g \in DOMAIN d.families /\ Drawing(d.families[g])
          /\ p \in DOMAIN d.families /\ Presenting(d.families[p])
          /\ (\E k \in DOMAIN d.families : Drawing(d.families[k]) /\ Presenting(d.families[k])) => g = p
      BY <1>3, <1>4, <1>6, <2>1 DEF ChoiceSound
    <2>5. s.graphics = g /\ s.present = p /\ (s.portability <=> "portability" \in d.extensions)
      BY <2>2, <2>3
    <2>6. Setup!Supports(d, s)
      BY <1>4, <1>6, <2>4, <2>5 DEF Setup!Supports, Drawing, Presenting
    <2> QED
      BY <2>2, <2>3, <2>4, <2>6 DEF Setup!CouldServe
  <1>7. ASSUME Setup!CouldServe(d)
        PROVE  Setup!Accepted(d)
    <2>1. PICK g \in DOMAIN d.families : \E p \in DOMAIN d.families : \E q \in BOOLEAN :
             Setup!Supports(d, [device |-> 1, graphics |-> g, present |-> p, portability |-> q])
      BY <1>7 DEF Setup!CouldServe
    <2>2. PICK p \in DOMAIN d.families : \E q \in BOOLEAN :
             Setup!Supports(d, [device |-> 1, graphics |-> g, present |-> p, portability |-> q])
      BY <2>1
    <2>3. PICK q \in BOOLEAN :
             Setup!Supports(d, [device |-> 1, graphics |-> g, present |-> p, portability |-> q])
      BY <2>2
    <2>4. /\ d.recent /\ "swapchain" \in d.extensions /\ d.features = Setup!Features
          /\ Drawing(d.families[g]) /\ Presenting(d.families[p])
      BY <2>3 DEF Setup!Supports, Drawing, Presenting
    <2> QED
      BY <1>3, <1>4, <2>4 DEF ChoiceSound
  <1> QED
    BY <1>5, <1>6, <1>7

\* The selection finds the first device that is accepted, if there is one.
LEMMA SelectionSound ==
  ASSUME NEW candidates \in Seq(Setup!DeviceProperties), NEW s,
         s = Setup!SelectPhysicalDevice(candidates)
  PROVE  /\ s.device # 0 <=> \E n \in DOMAIN candidates : Setup!CouldServe(candidates[n])
         /\ s.device # 0 => /\ s.device \in DOMAIN candidates
                            /\ Setup!Supports(candidates[s.device], s)
  <1>1. PICK T : T = {k \in DOMAIN candidates : Setup!Accepted(candidates[k])}
    OBVIOUS
  <1>2. PICK n : n = Setup!First(T)
    OBVIOUS
  <1>3. /\ T \subseteq Nat \ {0}
        /\ \A k \in DOMAIN candidates : candidates[k] \in Setup!DeviceProperties
    BY <1>1
  <1>4. (n = 0 <=> T = {}) /\ (T # {} => n \in T)
    BY <1>2, <1>3, FirstFinds
  <1>5. s = IF n = 0 THEN Setup!NoSelection ELSE Selected(n, candidates[n])
    BY <1>1, <1>2 DEF Setup!SelectPhysicalDevice, Selected, Setup!None
  <1>6. T = {} <=> ~ \E k \in DOMAIN candidates : Setup!CouldServe(candidates[k])
    BY <1>1, <1>3, AcceptedServes
  <1>7. CASE n = 0
    <2>1. s.device = 0
      BY <1>5, <1>7 DEF Setup!NoSelection, Setup!None
    <2> QED
      BY <1>4, <1>6, <1>7, <2>1
  <1>8. CASE n # 0
    <2>1. n \in T /\ s = Selected(n, candidates[n]) /\ s.device = n
      BY <1>4, <1>5, <1>8 DEF Selected
    <2>2. n \in DOMAIN candidates /\ Setup!Supports(candidates[n], s)
      BY <1>1, <1>3, <2>1, AcceptedServes
    <2> QED
      BY <1>4, <1>6, <1>8, <2>1, <2>2
  <1> QED
    BY <1>7, <1>8

\* The memory type is one of those allowed, with both properties.
LEMMA MemoryTypeSound ==
  ASSUME NEW types \in Seq(SUBSET STRING), NEW allowed,
         NEW n, n = Setup!SelectMemoryType(types, allowed), n # 0
  PROVE  n \in allowed /\ Setup!RequiredMemory \subseteq types[n]
  <1>1. PICK T : T = {k \in DOMAIN types : k \in allowed /\ Setup!RequiredMemory \subseteq types[k]}
    OBVIOUS
  <1>2. T \subseteq Nat \ {0}
    BY <1>1
  <1>3. n \in T
    BY <1>1, <1>2, FirstFinds DEF Setup!SelectMemoryType
  <1> QED
    BY <1>1, <1>3

\* What the swapchain is made with lies within the limits of the surface.
SettingSound(s, t) ==
    /\ s.formats[t.format].format \in Setup!RequiredFormats
    /\ s.formats[t.format].space = "srgb"
    /\ t.extent > 0
    /\ t.extent \in s.minExtent .. s.maxExtent
    /\ t.images >= s.minImages
    /\ s.maxImages # 0 => t.images <= s.maxImages

LEMMA ConfigurationSound ==
  ASSUME NEW s, Setup!IsSurface(s), NEW framebuffer_ \in Nat,
         NEW t, t = Setup!ConfigureSwapchainSettings(s, framebuffer_), t # Setup!NoSetting
  PROVE  SettingSound(s, t)
  <1>1. PICK f, e, i : /\ f = Setup!SelectFormat(s.formats)
                       /\ e = Setup!Extent(s, framebuffer_)
                       /\ i = Setup!ImageCount(s)
    OBVIOUS
  <1>2. /\ s.formats \in Seq([format : STRING, space : STRING])
        /\ s.minExtent \in Nat /\ s.maxExtent \in Nat /\ s.minExtent <= s.maxExtent
        /\ s.currentExtent \in {-1, 0} \union (s.minExtent .. s.maxExtent)
        /\ s.minImages \in Nat /\ s.maxImages \in Nat
        /\ s.maxImages # 0 => s.minImages <= s.maxImages
    BY DEF Setup!IsSurface, Setup!Free
  <1>3. f # 0 /\ e # 0 /\ t = [format |-> f, extent |-> e, images |-> i]
    BY <1>1 DEF Setup!ConfigureSwapchainSettings, Setup!None
  <1>4. t.format = f /\ t.extent = e /\ t.images = i
    BY <1>3
  <1>5. s.formats[f].format \in Setup!RequiredFormats /\ s.formats[f].space = "srgb"
    <2>1. PICK T : T = {n \in DOMAIN s.formats : /\ s.formats[n].format \in Setup!RequiredFormats
                                                 /\ s.formats[n].space = "srgb"}
      OBVIOUS
    <2>2. T \subseteq Nat \ {0}
      BY <1>2, <2>1
    <2>3. f \in T
      BY <1>1, <1>3, <2>1, <2>2, FirstFinds DEF Setup!SelectFormat
    <2> QED
      BY <2>1, <2>3
  <1>6. e > 0 /\ e \in s.minExtent .. s.maxExtent
    <2>1. CASE s.currentExtent = -1
      BY <1>1, <1>2, <1>3, <2>1 DEF Setup!Extent, Setup!Free, Setup!Clamp
    <2>2. CASE s.currentExtent # -1
      BY <1>1, <1>2, <1>3, <2>2 DEF Setup!Extent, Setup!Free
    <2> QED
      BY <2>1, <2>2
  <1>7. i >= s.minImages /\ (s.maxImages # 0 => i <= s.maxImages)
    BY <1>1, <1>2 DEF Setup!ImageCount
  <1> QED
    BY <1>4, <1>5, <1>6, <1>7 DEF SettingSound

-----------------------------------------------------------------------------
ObjectNames == {"window", "instance", "messenger", "device", "surface", "swapchain", "frame", "renderer"}

\* An object is declared after the ones it was made from.
LEMMA ParentsFirst ==
  ASSUME NEW o \in ObjectNames, NEW p \in ObjectNames, o \in Setup!Parents(p)
  PROVE  Setup!Position(o) \in Int /\ Setup!Position(p) \in Int /\ Setup!Position(o) < Setup!Position(p)
  <1>1. PICK order : order = <<"window", "instance", "messenger", "device", "surface", "swapchain",
                               "frame", "renderer">>
    OBVIOUS
  <1>2. /\ DOMAIN order = 1..8
        /\ order[1] = "window" /\ order[2] = "instance" /\ order[3] = "messenger" /\ order[4] = "device"
        /\ order[5] = "surface" /\ order[6] = "swapchain" /\ order[7] = "frame" /\ order[8] = "renderer"
    BY <1>1
  <1>3. \A x : Setup!Position(x) = CHOOSE n \in 1..8 : order[n] = x
    BY <1>1, <1>2 DEF Setup!Position, Setup!DeclarationOrder, Setup!Objects
  <1>4. \A k \in 1..8 : Setup!Position(order[k]) = k
    <2>1. SUFFICES ASSUME NEW k \in 1..8
                   PROVE  (CHOOSE n \in 1..8 : order[n] = order[k]) = k
      BY <1>3
    <2>2. \A n \in 1..8 : order[n] = order[k] => n = k
      BY <1>2
    <2> QED
      BY <2>2
  <1>5. /\ Setup!Position("window") = 1 /\ Setup!Position("instance") = 2
        /\ Setup!Position("messenger") = 3 /\ Setup!Position("device") = 4
        /\ Setup!Position("surface") = 5 /\ Setup!Position("swapchain") = 6
        /\ Setup!Position("frame") = 7 /\ Setup!Position("renderer") = 8
    BY <1>2, <1>4
  <1> QED
    BY <1>5 DEF ObjectNames, Setup!Parents

\* The steps from which on an object exists, until the unwinding.
SinceFrame    == {"swapchain", "frame", "renderer", "running"}
SinceDevice   == {"buffer", "configure"} \union SinceFrame
SinceSurface  == {"count", "fetch", "select", "device"} \union SinceDevice
SinceInstance == {"surface"} \union SinceSurface
SinceWindow   == {"instance"} \union SinceInstance

\* The steps before a device is chosen.
Unchosen == {"window", "instance", "surface", "count", "fetch", "select"}

SetupTypes ==
    /\ machine \in Machines
    /\ devices \in Seq(Setup!DeviceProperties)
    /\ list \in Seq(Setup!DeviceProperties)
    /\ count \in Nat

ListInv == setupPc = "select" => list = seen

ChosenInv ==
    /\ setupPc \in Unchosen => selection = Setup!NoSelection
    /\ selection # Setup!NoSelection => Setup!Supports(seen[selection.device], selection)

MemoryInv ==
    memoryType # 0 => /\ memoryType \in machine.allowed
                      /\ Setup!RequiredMemory \subseteq machine.memory[memoryType]

SettingInv == settings # Setup!NoSetting => SettingSound(machine.surface, settings)

AliveInv ==
    /\ alive \subseteq ObjectNames
    /\ \A o \in alive : Setup!Parents(o) \subseteq alive
    /\ setupPc \in SinceWindow   => "window" \in alive
    /\ setupPc \in SinceInstance => "instance" \in alive
    /\ setupPc \in SinceSurface  => "surface" \in alive
    /\ setupPc \in SinceDevice   => "device" \in alive

SetupInv == SetupTypes /\ ListInv /\ ChosenInv /\ MemoryInv /\ SettingInv /\ AliveInv

\* The variables no creation and no destruction touches.
Answers == <<machine, devices, count, list, seen, selection, memoryType, settings>>

LEMMA AnswersKept ==
  ASSUME SetupInv, UNCHANGED Answers, setupPc' # "select", setupPc' \in Unchosen => setupPc \in Unchosen
  PROVE  SetupTypes' /\ ListInv' /\ ChosenInv' /\ MemoryInv' /\ SettingInv'
  <1>1. /\ machine' = machine /\ devices' = devices /\ count' = count /\ list' = list /\ seen' = seen
        /\ selection' = selection /\ memoryType' = memoryType /\ settings' = settings
    BY DEF Answers
  <1>2. SetupTypes'
    BY <1>1 DEF SetupInv, SetupTypes
  <1>3. ListInv'
    BY DEF ListInv
  <1>4. ChosenInv'
    BY <1>1 DEF SetupInv, ChosenInv
  <1>5. MemoryInv'
    BY <1>1 DEF SetupInv, MemoryInv
  <1>6. SettingInv'
    BY <1>1 DEF SetupInv, SettingInv
  <1> QED
    BY <1>2, <1>3, <1>4, <1>5, <1>6

LEMMA CreationSound ==
  ASSUME SetupInv,
         \/ Setup!CreateWindow
         \/ Setup!CreateInstance
         \/ Setup!CreateSurface
         \/ Setup!InitializeDevice
         \/ Setup!CreateSwapchain
         \/ Setup!CreateFrame
         \/ Setup!CreateRenderer
  PROVE  SetupInv'
  <1>1. PICK before, after, objects_ :
            /\ setupPc = before /\ setupPc' = after
            /\ alive' = alive \union objects_
            /\ UNCHANGED Answers
            /\ \/ before = "window" /\ after = "instance" /\ objects_ = {"window"}
               \/ before = "instance" /\ after = "surface" /\ objects_ \in {{"instance"}, {"instance", "messenger"}}
               \/ before = "surface" /\ after = "count" /\ objects_ = {"surface"}
               \/ before = "device" /\ after = "buffer" /\ objects_ = {"device"}
               \/ before = "swapchain" /\ after = "frame" /\ objects_ = {"swapchain"}
               \/ before = "frame" /\ after = "renderer" /\ objects_ = {"frame"}
               \/ before = "renderer" /\ after = "running" /\ objects_ = {"renderer"}
    <2>1. CASE Setup!CreateInstance
      <3>1. PICK o : Setup!Create("instance", o, "surface") /\ o \in {{"instance"}, {"instance", "messenger"}}
        <4>1. PICK validation \in BOOLEAN :
                 Setup!Create("instance", {"instance"} \union IF validation THEN {"messenger"} ELSE {}, "surface")
          BY <2>1 DEF Setup!CreateInstance
        <4>2. CASE validation
          <5>1. Setup!Create("instance", {"instance", "messenger"}, "surface")
            BY <4>1, <4>2 DEF Setup!Create
          <5> QED
            BY <5>1
        <4>3. CASE ~validation
          <5>1. Setup!Create("instance", {"instance"}, "surface")
            BY <4>1, <4>3 DEF Setup!Create
          <5> QED
            BY <5>1
        <4> QED
          BY <4>2, <4>3
      <3> QED
        BY <3>1 DEF Setup!Create, Answers
    <2> QED
      BY <2>1 DEF Setup!CreateWindow, Setup!CreateSurface, Setup!InitializeDevice,
                  Setup!CreateSwapchain, Setup!CreateFrame, Setup!CreateRenderer, Setup!Create, Answers
  <1>2. SetupTypes' /\ ListInv' /\ ChosenInv' /\ MemoryInv' /\ SettingInv'
    BY <1>1, AnswersKept DEF Unchosen
  <1>3. AliveInv
    BY DEF SetupInv
  <1>4. objects_ \subseteq ObjectNames
    BY <1>1 DEF ObjectNames
  <1>5. \A o \in objects_ : Setup!Parents(o) \subseteq alive \union objects_
    BY <1>1, <1>3 DEF AliveInv, Setup!Parents, SinceWindow, SinceInstance, SinceSurface, SinceDevice, SinceFrame
  <1>6. alive' \subseteq ObjectNames /\ \A o \in alive' : Setup!Parents(o) \subseteq alive'
    BY <1>1, <1>3, <1>4, <1>5 DEF AliveInv
  <1>7. /\ setupPc' \in SinceWindow   => "window" \in alive'
        /\ setupPc' \in SinceInstance => "instance" \in alive'
        /\ setupPc' \in SinceSurface  => "surface" \in alive'
        /\ setupPc' \in SinceDevice   => "device" \in alive'
    BY <1>1, <1>3 DEF AliveInv, SinceWindow, SinceInstance, SinceSurface, SinceDevice, SinceFrame
  <1>8. AliveInv'
    BY <1>6, <1>7 DEF AliveInv
  <1> QED
    BY <1>2, <1>8 DEF SetupInv

\* The unwinding destroys first what was declared last: nothing made from it is left.
LEMMA UnwindingSound ==
  ASSUME SetupInv,
         \/ Setup!Unwind
         \/ \E o \in alive : Setup!Destroy(o)
         \/ Setup!End
  PROVE  SetupInv'
  <1>1. setupPc' \in {"unwind", "ended"} /\ UNCHANGED Answers
    BY DEF Setup!Unwind, Setup!Destroy, Setup!End, Answers
  <1>2. SetupTypes' /\ ListInv' /\ ChosenInv' /\ MemoryInv' /\ SettingInv'
    BY <1>1, AnswersKept DEF Unchosen
  <1>3. alive \subseteq ObjectNames /\ \A o \in alive : Setup!Parents(o) \subseteq alive
    BY DEF SetupInv, AliveInv
  <1>4. alive' \subseteq ObjectNames /\ \A o \in alive' : Setup!Parents(o) \subseteq alive'
    <2>1. CASE alive' = alive
      BY <1>3, <2>1
    <2>2. ASSUME NEW o \in alive, Setup!Destroy(o)
          PROVE  alive' \subseteq ObjectNames /\ \A p \in alive' : Setup!Parents(p) \subseteq alive'
      <3>1. alive' = alive \ {o} /\ \A p \in alive : Setup!Position(p) <= Setup!Position(o)
        BY <2>2 DEF Setup!Destroy
      <3>2. ASSUME NEW p \in alive, o \in Setup!Parents(p)
            PROVE  FALSE
        <4>1. /\ Setup!Position(o) \in Int /\ Setup!Position(p) \in Int
              /\ Setup!Position(o) < Setup!Position(p)
          BY <1>3, <2>2, <3>2, ParentsFirst
        <4> QED
          BY <3>1, <3>2, <4>1
      <3> QED
        BY <1>3, <3>1, <3>2
    <2> QED
      BY <2>1, <2>2 DEF Setup!Unwind, Setup!End
  <1>5. AliveInv'
    BY <1>1, <1>4 DEF AliveInv, SinceWindow, SinceInstance, SinceSurface, SinceDevice, SinceFrame
  <1> QED
    BY <1>2, <1>5 DEF SetupInv


\* The enumeration: the list is that of one moment, whole, when the selection looks at it.
LEMMA EnumerationSound ==
  ASSUME Setup!MachinesTyped, SetupInv,
         Setup!CountDevices \/ Setup!FetchDevices \/ Setup!ChangeDevices
  PROVE  SetupInv'
  <1>1. /\ machine \in Machines /\ devices \in Seq(Setup!DeviceProperties)
        /\ list \in Seq(Setup!DeviceProperties) /\ count \in Nat
        /\ Len(devices) \in Nat
        /\ machine.otherDevices \in Seq(Setup!DeviceProperties)
    BY DEF SetupInv, SetupTypes, Setup!MachinesTyped
  <1>2. /\ setupPc \in {"count", "fetch"} /\ setupPc' \in {"count", "fetch", "select"}
        /\ machine' = machine /\ selection' = selection /\ memoryType' = memoryType
        /\ settings' = settings /\ alive' = alive
    BY DEF Setup!CountDevices, Setup!FetchDevices, Setup!ChangeDevices
  <1>3. SetupTypes' /\ ListInv'
    <2>1. CASE Setup!CountDevices
      BY <1>1, <2>1 DEF Setup!CountDevices, SetupTypes, ListInv
    <2>2. CASE Setup!ChangeDevices
      BY <1>1, <2>2 DEF Setup!ChangeDevices, SetupTypes, ListInv
    <2>3. CASE Setup!FetchDevices /\ Len(devices) > count
      <3>1. /\ setupPc' = "count" /\ list' = <<>> /\ devices' = devices /\ count' = count
            /\ machine' = machine
        BY <2>3 DEF Setup!FetchDevices
      <3> QED
        BY <1>1, <3>1 DEF SetupTypes, ListInv
    <2>4. CASE Setup!FetchDevices /\ ~(Len(devices) > count)
      <3>1. /\ list' = Setup!Fetched /\ seen' = devices /\ devices' = devices /\ count' = count
            /\ machine' = machine
        BY <2>4 DEF Setup!FetchDevices
      <3>2. (IF count < Len(devices) THEN count ELSE Len(devices)) = Len(devices)
        BY <1>1, <2>4
      <3>3. Setup!Fetched = devices
        BY <1>1, <3>2 DEF Setup!Fetched
      <3> QED
        BY <1>1, <3>1, <3>3 DEF SetupTypes, ListInv
    <2> QED
      BY <2>1, <2>2, <2>3, <2>4
  <1>4. ChosenInv'
    BY <1>2 DEF SetupInv, ChosenInv, Unchosen
  <1>5. MemoryInv'
    BY <1>2 DEF SetupInv, MemoryInv
  <1>6. SettingInv'
    BY <1>2 DEF SetupInv, SettingInv
  <1>7. AliveInv'
    BY <1>2 DEF SetupInv, AliveInv, SinceWindow, SinceInstance, SinceSurface, SinceDevice, SinceFrame
  <1> QED
    BY <1>3, <1>4, <1>5, <1>6, <1>7 DEF SetupInv

\* The three choices: of the device, of the memory type, of the swapchain's settings.
LEMMA ChoicesSound ==
  ASSUME Setup!MachinesTyped, SetupInv,
         Setup!SelectDevice \/ Setup!TryBuffer \/ Setup!Configure
  PROVE  SetupInv'
  <1>1. /\ machine \in Machines /\ devices \in Seq(Setup!DeviceProperties)
        /\ list \in Seq(Setup!DeviceProperties) /\ count \in Nat
        /\ machine.memory \in Seq(SUBSET STRING) /\ machine.framebuffer \in Nat
        /\ Setup!IsSurface(machine.surface)
    BY DEF SetupInv, SetupTypes, Setup!MachinesTyped
  <1>2. /\ \/ setupPc = "select" /\ setupPc' = "device"
           \/ setupPc = "buffer" /\ setupPc' = "configure"
           \/ setupPc = "configure" /\ setupPc' = "swapchain"
        /\ machine' = machine /\ devices' = devices /\ count' = count /\ list' = list /\ seen' = seen
        /\ alive' = alive
    BY DEF Setup!SelectDevice, Setup!TryBuffer, Setup!Configure
  <1>3. SetupTypes' /\ ListInv'
    BY <1>2 DEF SetupInv, SetupTypes, ListInv
  <1>4. AliveInv'
    BY <1>2 DEF SetupInv, AliveInv, SinceWindow, SinceInstance, SinceSurface, SinceDevice, SinceFrame
  <1>5. ChosenInv'
    <2>1. CASE Setup!SelectDevice
      <3>1. /\ selection' = Setup!SelectPhysicalDevice(list) /\ selection'.device # 0
            /\ list = seen /\ seen' = seen
        BY <1>2, <2>1 DEF Setup!SelectDevice, SetupInv, ListInv, Setup!None
      <3>2. Setup!Supports(list[selection'.device], selection')
        BY <1>1, <3>1, SelectionSound
      <3> QED
        BY <1>2, <3>1, <3>2 DEF ChosenInv, Unchosen
    <2>2. CASE Setup!TryBuffer \/ Setup!Configure
      <3>1. selection' = selection
        BY <2>2 DEF Setup!TryBuffer, Setup!Configure
      <3> QED
        BY <1>2, <3>1 DEF SetupInv, ChosenInv, Unchosen
    <2> QED
      BY <2>1, <2>2
  <1>6. MemoryInv'
    <2>1. CASE Setup!TryBuffer
      <3>1. memoryType' = Setup!SelectMemoryType(machine.memory, machine.allowed) /\ memoryType' # 0
        BY <2>1 DEF Setup!TryBuffer, Setup!None
      <3> QED
        BY <1>1, <1>2, <3>1, MemoryTypeSound DEF MemoryInv
    <2>2. CASE Setup!SelectDevice \/ Setup!Configure
      <3>1. memoryType' = memoryType
        BY <2>2 DEF Setup!SelectDevice, Setup!Configure
      <3> QED
        BY <1>2, <3>1 DEF SetupInv, MemoryInv
    <2> QED
      BY <2>1, <2>2
  <1>7. SettingInv'
    <2>1. CASE Setup!Configure
      <3>1. /\ settings' = Setup!ConfigureSwapchainSettings(machine.surface, machine.framebuffer)
            /\ settings' # Setup!NoSetting
        BY <2>1 DEF Setup!Configure
      <3> QED
        BY <1>1, <1>2, <3>1, ConfigurationSound DEF SettingInv
    <2>2. CASE Setup!SelectDevice \/ Setup!TryBuffer
      <3>1. settings' = settings
        BY <2>2 DEF Setup!SelectDevice, Setup!TryBuffer
      <3> QED
        BY <1>2, <3>1 DEF SetupInv, SettingInv
    <2> QED
      BY <2>1, <2>2
  <1> QED
    BY <1>3, <1>4, <1>5, <1>6, <1>7 DEF SetupInv

LEMMA SetupStep ==
  ASSUME Setup!MachinesTyped, SetupInv, [Setup!Next]_(Setup!vars)
  PROVE  SetupInv'
  <1>1. CASE \/ Setup!CreateWindow \/ Setup!CreateInstance \/ Setup!CreateSurface
             \/ Setup!InitializeDevice \/ Setup!CreateSwapchain \/ Setup!CreateFrame
             \/ Setup!CreateRenderer
    BY <1>1, CreationSound
  <1>2. CASE Setup!CountDevices \/ Setup!FetchDevices \/ Setup!ChangeDevices
    BY <1>2, EnumerationSound
  <1>3. CASE Setup!SelectDevice \/ Setup!TryBuffer \/ Setup!Configure
    BY <1>3, ChoicesSound
  <1>4. CASE Setup!Unwind \/ (\E o \in alive : Setup!Destroy(o)) \/ Setup!End
    BY <1>4, UnwindingSound
  <1>5. CASE UNCHANGED Setup!vars
    <2>1. UNCHANGED Answers /\ setupPc' = setupPc /\ alive' = alive
      BY <1>5 DEF Setup!vars, Answers
    <2>2. /\ machine' = machine /\ devices' = devices /\ count' = count /\ list' = list /\ seen' = seen
          /\ selection' = selection /\ memoryType' = memoryType /\ settings' = settings
      BY <2>1 DEF Answers
    <2>3. SetupTypes' /\ ListInv' /\ MemoryInv' /\ SettingInv'
      BY <2>1, <2>2 DEF SetupInv, SetupTypes, ListInv, MemoryInv, SettingInv
    <2>4. ChosenInv' /\ AliveInv'
      BY <2>1, <2>2 DEF SetupInv, ChosenInv, AliveInv
    <2> QED
      BY <2>3, <2>4 DEF SetupInv
  <1> QED
    BY <1>1, <1>2, <1>3, <1>4, <1>5 DEF Setup!Next

LEMMA SetupStarts == Setup!MachinesTyped /\ Setup!Init => SetupInv
  <1>1. SUFFICES ASSUME Setup!MachinesTyped, Setup!Init PROVE SetupInv
    OBVIOUS
  <1>2. /\ machine \in Machines /\ devices = machine.devices /\ setupPc = "window"
        /\ count = 0 /\ list = <<>> /\ seen = <<>>
        /\ selection = Setup!NoSelection /\ memoryType = 0 /\ settings = Setup!NoSetting
        /\ alive = {}
    BY <1>1 DEF Setup!Init, Setup!None
  <1>3. SetupTypes /\ ListInv /\ MemoryInv /\ SettingInv
    BY <1>1, <1>2 DEF SetupTypes, ListInv, MemoryInv, SettingInv, Setup!MachinesTyped
  <1>4. ChosenInv /\ AliveInv
    BY <1>2 DEF ChosenInv, AliveInv, Unchosen, SinceWindow, SinceInstance, SinceSurface, SinceDevice,
                SinceFrame
  <1> QED
    BY <1>3, <1>4 DEF SetupInv

LEMMA SetupInvSound ==
  ASSUME SetupInv
  PROVE  Setup!SetupSound
  <1>1. setupPc = "select" => list = seen
    BY DEF SetupInv, ListInv
  <1>2. setupPc = "select" =>
           ((\E n \in DOMAIN list : Setup!CouldServe(list[n]))
                <=> Setup!SelectPhysicalDevice(list).device # Setup!None)
    <2>1. list \in Seq(Setup!DeviceProperties)
      BY DEF SetupInv, SetupTypes
    <2> QED
      BY <2>1, SelectionSound DEF Setup!None
  <1>3. selection # Setup!NoSelection => Setup!Supports(seen[selection.device], selection)
    BY DEF SetupInv, ChosenInv
  <1>4. memoryType # Setup!None => /\ memoryType \in machine.allowed
                                   /\ Setup!RequiredMemory \subseteq machine.memory[memoryType]
    BY DEF SetupInv, MemoryInv, Setup!None
  <1>5. settings # Setup!NoSetting => SettingSound(machine.surface, settings)
    BY DEF SetupInv, SettingInv
  <1>6. \A o \in alive : Setup!Parents(o) \subseteq alive
    BY DEF SetupInv, AliveInv
  <1> QED
    BY <1>1, <1>2, <1>3, <1>4, <1>5, <1>6 DEF Setup!SetupSound, SettingSound

\* Whatever the drivers answer and wherever the setup fails: the selection sees one whole list, finds a
\* device if one would do and only one that does, memory and swapchain are made within the limits, and no
\* object outlives one it was made from (Application::Run, VulkanContext, HostVisibleBuffer, Swapchain).
THEOREM SetupIsSound == Setup!Spec => []SetupSound
  <1>1. Setup!Init => SetupInv
    BY SetupStarts, MachinesAssumption
  <1>2. SetupInv /\ [Setup!Next]_(Setup!vars) => SetupInv'
    BY SetupStep, MachinesAssumption
  <1>3. SetupInv => SetupSound
    BY SetupInvSound DEF SetupSound
  <1> QED
    BY <1>1, <1>2, <1>3, PTL DEF Setup!Spec

-----------------------------------------------------------------------------
(***************************************************************************)
(* ComputeSample, another instance.                                        *)
(***************************************************************************)
Jobs == [elements : 0..(Word - 1), multiplier : 0..(Word - 1)]

\* Numbers in the range of a group are in that of no other.
LEMMA GroupsApart ==
  ASSUME Compute!SizesFit, NEW g \in Nat \ {0}, NEW h \in Nat \ {0}, g < h
  PROVE  Compute!Invocations(g) \cap Compute!Invocations(h) = {}
  <1>1. LocalSize \in Nat
    BY DEF Compute!SizesFit
  <1>2. g * LocalSize \in Nat /\ (h - 1) * LocalSize \in Nat
    BY <1>1
  <1>3. g * LocalSize <= (h - 1) * LocalSize
    BY <1>1, Z3
  <1>4. \A n \in Compute!Invocations(g) : n \in Int /\ n <= g * LocalSize
    BY <1>1, <1>2 DEF Compute!Invocations
  <1>5. \A n \in Compute!Invocations(h) : (h - 1) * LocalSize + 1 <= n
    BY <1>1, <1>2 DEF Compute!Invocations
  <1> QED
    BY <1>2, <1>3, <1>4, <1>5

LEMMA OneGroupEach ==
  ASSUME Compute!SizesFit, NEW g \in Nat \ {0}, NEW h \in Nat \ {0}, g # h
  PROVE  Compute!Invocations(g) \cap Compute!Invocations(h) = {}
  <1>1. g < h \/ h < g
    OBVIOUS
  <1>2. CASE g < h
    BY <1>2, GroupsApart
  <1>3. CASE h < g
    <2>1. Compute!Invocations(h) \cap Compute!Invocations(g) = {}
      BY <1>3, GroupsApart
    <2> QED
      BY <2>1
  <1> QED
    BY <1>1, <1>2, <1>3

\* The groups of a job of legal size are enough for all its elements.
LEMMA GroupsCover ==
  ASSUME Compute!SizesFit, NEW elements \in 0..Capacity, NEW n \in 1..elements
  PROVE  \E g \in 1..Compute!GroupCount(elements) : n \in Compute!Invocations(g)
  <1>1. /\ LocalSize \in Nat \ {0} /\ Capacity \in Nat /\ Word \in Nat
        /\ elements \in Nat /\ n \in Nat /\ 1 <= n /\ n <= elements
        /\ elements + LocalSize <= Word
    BY DEF Compute!SizesFit
  <1>2. PICK e \in Nat : e = elements + LocalSize - 1
    BY <1>1
  <1>3. e % Word = e
    <2>1. e < Word
      BY <1>1, <1>2
    <2> QED
      BY <1>1, <2>1, Z3
  <1>4. /\ e \div LocalSize \in Nat /\ e % LocalSize \in 0..(LocalSize - 1)
        /\ e = (LocalSize * (e \div LocalSize)) + (e % LocalSize)
    BY <1>1, Z3
  <1>5. Compute!GroupCount(elements) = e \div LocalSize
    BY <1>2, <1>3 DEF Compute!GroupCount
  <1>6. PICK m \in Nat : m = n - 1
    BY <1>1
  <1>7. /\ m \div LocalSize \in Nat /\ m % LocalSize \in 0..(LocalSize - 1)
        /\ m = (LocalSize * (m \div LocalSize)) + (m % LocalSize)
    BY <1>1, Z3
  <1>8. PICK q \in Nat, c \in Nat : q = m \div LocalSize /\ c = e \div LocalSize
    BY <1>4, <1>7
  <1>9. PICK lq \in Nat, lc \in Nat : lq = LocalSize * q /\ lc = LocalSize * c
    BY <1>1, <1>8
  <1>10. /\ lq <= m /\ m < lq + LocalSize
         /\ lc <= e /\ e < lc + LocalSize
    BY <1>1, <1>4, <1>7, <1>8, <1>9
  <1>11. lq < lc
    BY <1>1, <1>2, <1>6, <1>10
  <1>12. q + 1 <= c
    <2>1. CASE c <= q
      <3>1. LocalSize * c <= LocalSize * q
        BY <2>1, <1>1, Z3
      <3> QED
        BY <3>1, <1>9, <1>11
    <2> QED
      BY <2>1
  <1>13. /\ ((q + 1) - 1) * LocalSize = lq
         /\ (q + 1) * LocalSize = lq + LocalSize
    BY <1>1, <1>9, Z3
  <1>14. n \in Compute!Invocations(q + 1)
    BY <1>1, <1>6, <1>10, <1>13 DEF Compute!Invocations
  <1> QED
    BY <1>5, <1>8, <1>12, <1>14

-----------------------------------------------------------------------------
\* What has been decided about the jobs so far.
JobInv ==
    /\ jobs \in JobLists /\ job \in Nat \ {0}
    /\ \A n \in DOMAIN jobs : n < job => jobs[n].elements <= Capacity
    /\ step \in {"record", "reset", "submit", "wait", "read", "compare"} =>
           job \in DOMAIN jobs /\ jobs[job].elements <= Capacity
    /\ step = "passed" => Len(jobs) < job

\* The submission, its workgroups and the fence that main waits for.
GpuInv ==
    /\ jobFence \in BOOLEAN /\ queued \in BOOLEAN
    /\ queued => step \in {"wait", "aborted"}
    /\ pending # {} => queued
    /\ step = "submit" => ~jobFence
    /\ step = "wait" => (jobFence <=> ~queued)

Early == step \in {"count", "fetch", "family", "memory"}

\* The buffer when the workgroups of W have not run.
Computed(j, W) ==
    [n \in 1..Capacity |->
        IF n <= j.elements /\ \A g \in W : n \notin Compute!Invocations(g)
        THEN (n * j.multiplier) % Word ELSE n]

CommandOf(j) == [groups |-> Compute!GroupCount(j.elements), elements |-> j.elements,
                 multiplier |-> j.multiplier]

\* In coherent memory both sides hold the input, then what the groups that have run made of it.
CoherentInv ==
    /\ hostSide = deviceSide
    /\ step \in {"record", "reset", "submit"} => hostSide = Compute!Input
    /\ step \in {"reset", "submit", "wait"} => command = CommandOf(jobs[job])
    /\ step = "wait" => /\ pending \subseteq 1..Compute!GroupCount(jobs[job].elements)
                        /\ deviceSide = Computed(jobs[job], pending)
    /\ step = "read" => deviceSide = Compute!Expected(jobs[job])
    /\ step = "compare" => gpuValues = Compute!Expected(jobs[job])
    /\ step # "mismatch"

BufferInv ==
    /\ Early => hostSide = deviceSide
    /\ ~Early /\ Compute!Coherent => CoherentInv

ComputeInv == JobInv /\ GpuInv /\ BufferInv

LEMMA ComputeInvVerifies ==
  ASSUME Compute!SizesFit, ComputeInv
  PROVE  Compute!JobsVerified
  <1>1. step = "mismatch" => ~Compute!Coherent
    BY DEF ComputeInv, BufferInv, CoherentInv, Early
  <1>2. jobs \in Seq(Jobs) /\ job \in Nat \ {0}
    BY DEF ComputeInv, JobInv, Jobs, Compute!SizesFit
  <1>3. ASSUME step = "passed", NEW n \in DOMAIN jobs
        PROVE  jobs[n].elements <= Capacity
    <2>1. n \in 1..Len(jobs) /\ Len(jobs) < job
      BY <1>2, <1>3 DEF ComputeInv, JobInv
    <2>2. n < job
      BY <1>2, <2>1
    <2> QED
      BY <2>2 DEF ComputeInv, JobInv
  <1> QED
    BY <1>1, <1>3 DEF Compute!JobsVerified, ComputeInv, GpuInv

-----------------------------------------------------------------------------
jobVars    == <<jobs, job>>
fenceVars  == <<jobFence, queued, pending>>
memoryVars == <<hostSide, deviceSide, computer, type>>

LEMMA JobKept ==
  ASSUME JobInv, UNCHANGED jobVars,
         step' = step \/ step' \notin {"record", "reset", "submit", "wait", "read", "compare", "passed"}
  PROVE  JobInv'
  BY DEF JobInv, jobVars

LEMMA JobGoesOn ==
  ASSUME JobInv, UNCHANGED jobVars, step' # "passed",
         step \in {"record", "reset", "submit", "wait", "read", "compare"}
  PROVE  JobInv'
  BY DEF JobInv, jobVars

LEMMA GpuKept ==
  ASSUME GpuInv, UNCHANGED fenceVars, step' = step \/ (step \notin {"wait", "aborted"} /\ step' \notin {"submit", "wait"})
  PROVE  GpuInv'
  BY DEF GpuInv, fenceVars

\* The selection; the buffer is still blank on both sides.
LEMMA SelectionStep ==
  ASSUME ComputeInv,
         Compute!CountDevices \/ Compute!SelectDevice \/ Compute!SelectFamily \/ Compute!SelectMemory
            \/ Compute!ChangeDevices
  PROVE  ComputeInv'
  <1>1. /\ Early /\ UNCHANGED jobVars /\ UNCHANGED fenceVars /\ UNCHANGED <<hostSide, deviceSide>>
        /\ step' \in {"count", "fetch", "family", "memory", "map", "failed"}
    BY DEF Early, jobVars, fenceVars, Compute!CountDevices, Compute!SelectDevice, Compute!SelectFamily,
           Compute!SelectMemory, Compute!ChangeDevices, Compute!selectionVars, Compute!listVars,
           Compute!bufferVars, Compute!gpuVars
  <1>2. JobInv'
    BY <1>1, JobKept DEF ComputeInv
  <1>3. GpuInv'
    BY <1>1, GpuKept DEF ComputeInv, Early
  <1>4. hostSide' = deviceSide'
    BY <1>1 DEF ComputeInv, BufferInv
  <1>5. BufferInv'
    BY <1>1, <1>4 DEF BufferInv, CoherentInv
  <1> QED
    BY <1>2, <1>3, <1>5 DEF ComputeInv

\* A step that leaves the buffer alone, and goes to where nothing is said of it.
LEMMA BufferKept ==
  ASSUME BufferInv, UNCHANGED memoryVars,
         step' \in {"job", "passed", "failed", "aborted"}
  PROVE  BufferInv'
  <1>1. Compute!Coherent' <=> Compute!Coherent
    BY DEF memoryVars, Compute!Coherent
  <1>2. hostSide' = hostSide /\ deviceSide' = deviceSide
    BY DEF memoryVars
  <1>3. ~Early'
    BY DEF Early
  <1>4. CASE Compute!Coherent
    <2>1. hostSide = deviceSide
      BY <1>4 DEF BufferInv, CoherentInv
    <2> QED
      BY <2>1, <1>2, <1>3 DEF BufferInv, CoherentInv
  <1>5. CASE ~Compute!Coherent
    BY <1>1, <1>3, <1>5 DEF BufferInv
  <1> QED
    BY <1>4, <1>5

LEMMA ComputeEnds ==
  ASSUME ComputeInv,
         Compute!CreateObjects \/ Compute!Pass \/ Compute!SetupFails \/ Compute!JobFails
  PROVE  ComputeInv'
  <1>1. /\ UNCHANGED jobVars /\ UNCHANGED fenceVars /\ UNCHANGED memoryVars
        /\ step \notin {"wait", "aborted"} /\ step' \in {"job", "passed", "failed"}
        /\ step' = "passed" => job > Len(jobs)
    BY DEF jobVars, fenceVars, memoryVars, Compute!CreateObjects, Compute!Pass, Compute!SetupFails,
           Compute!JobFails, Compute!selectionVars, Compute!listVars, Compute!bufferVars, Compute!gpuVars
  <1>2. JobInv'
    BY <1>1 DEF ComputeInv, JobInv, jobVars
  <1>3. GpuInv'
    BY <1>1, GpuKept DEF ComputeInv
  <1>4. BufferInv'
    BY <1>1, BufferKept DEF ComputeInv
  <1> QED
    BY <1>2, <1>3, <1>4 DEF ComputeInv

LEMMA MapStep ==
  ASSUME ComputeInv, Compute!VerifyMapping
  PROVE  ComputeInv'
  <1>1. /\ UNCHANGED jobVars /\ UNCHANGED fenceVars /\ computer' = computer /\ type' = type
        /\ step = "map" /\ step' \in {"objects", "failed"}
        /\ hostSide' = Compute!Input
        /\ deviceSide' = IF Compute!Coherent THEN Compute!Input ELSE deviceSide
    BY DEF jobVars, fenceVars, Compute!VerifyMapping, Compute!HostWrites, Compute!selectionVars,
           Compute!listVars, Compute!gpuVars
  <1>2. JobInv' /\ GpuInv'
    BY <1>1, JobKept, GpuKept DEF ComputeInv
  <1>3. Compute!Coherent' <=> Compute!Coherent
    BY <1>1 DEF Compute!Coherent
  <1>4. BufferInv'
    BY <1>1, <1>3 DEF BufferInv, CoherentInv, Early
  <1> QED
    BY <1>2, <1>4 DEF ComputeInv

LEMMA WriteStep ==
  ASSUME Compute!SizesFit, ComputeInv, Compute!WriteInput
  PROVE  ComputeInv'
  <1>1. /\ UNCHANGED jobVars /\ UNCHANGED fenceVars /\ computer' = computer /\ type' = type
        /\ step = "job" /\ job \in DOMAIN jobs /\ step' \in {"failed", "record"}
        /\ step' = "record" => ~(jobs[job].elements > Capacity)
        /\ step' = "record" => /\ hostSide' = Compute!Input
                               /\ deviceSide' = IF Compute!Coherent THEN Compute!Input ELSE deviceSide
        /\ step' = "failed" => UNCHANGED memoryVars
    BY DEF jobVars, fenceVars, memoryVars, Compute!WriteInput, Compute!HostWrites, Compute!selectionVars,
           Compute!listVars, Compute!gpuVars, Compute!bufferVars
  <1>2. jobs[job].elements \in Int /\ Capacity \in Int
    <2>1. jobs \in Seq(Jobs)
      BY DEF ComputeInv, JobInv, Jobs, Compute!SizesFit
    <2>2. jobs[job] \in Jobs
      BY <1>1, <2>1
    <2> QED
      BY <2>2 DEF Jobs, Compute!SizesFit
  <1>3. JobInv'
    BY <1>1, <1>2 DEF ComputeInv, JobInv, jobVars
  <1>4. GpuInv'
    BY <1>1, GpuKept DEF ComputeInv
  <1>5. CASE step' = "failed"
    BY <1>1, <1>3, <1>4, <1>5, BufferKept DEF ComputeInv
  <1>6. CASE step' = "record"
    <2>1. Compute!Coherent' <=> Compute!Coherent
      BY <1>1 DEF Compute!Coherent
    <2>2. BufferInv'
      BY <1>1, <1>6, <2>1 DEF BufferInv, CoherentInv, Early, Compute!Input
    <2> QED
      BY <1>3, <1>4, <2>2 DEF ComputeInv
  <1> QED
    BY <1>1, <1>5, <1>6

LEMMA RecordStep ==
  ASSUME ComputeInv, Compute!Record
  PROVE  ComputeInv'
  <1>1. /\ UNCHANGED jobVars /\ UNCHANGED fenceVars /\ UNCHANGED memoryVars
        /\ step = "record" /\ step' = "reset" /\ command' = CommandOf(jobs[job])
    BY DEF jobVars, fenceVars, memoryVars, CommandOf, Compute!Record, Compute!selectionVars,
           Compute!listVars, Compute!bufferVars
  <1>2. JobInv' /\ GpuInv'
    BY <1>1, JobGoesOn, GpuKept DEF ComputeInv
  <1>3. Compute!Coherent' <=> Compute!Coherent
    BY <1>1 DEF Compute!Coherent, memoryVars
  <1>4. CommandOf(jobs[job])' = CommandOf(jobs[job])
    BY <1>1 DEF CommandOf, jobVars
  <1>5. BufferInv'
    BY <1>1, <1>3, <1>4 DEF ComputeInv, BufferInv, CoherentInv, Early, Compute!Input, memoryVars
  <1> QED
    BY <1>2, <1>5 DEF ComputeInv

LEMMA ResetJobStep ==
  ASSUME ComputeInv, Compute!ResetFence
  PROVE  ComputeInv'
  <1>1. /\ UNCHANGED jobVars /\ UNCHANGED memoryVars /\ UNCHANGED <<queued, pending, command>>
        /\ step = "reset" /\ step' = "submit" /\ jobFence' = FALSE
    BY DEF jobVars, memoryVars, Compute!ResetFence, Compute!FenceReset, Compute!selectionVars,
           Compute!listVars, Compute!bufferVars
  <1>2. JobInv'
    BY <1>1, JobGoesOn DEF ComputeInv
  <1>3. GpuInv'
    BY <1>1 DEF ComputeInv, GpuInv
  <1>4. Compute!Coherent' <=> Compute!Coherent
    BY <1>1 DEF Compute!Coherent, memoryVars
  <1>5. CommandOf(jobs[job])' = CommandOf(jobs[job])
    BY <1>1 DEF CommandOf, jobVars
  <1>6. BufferInv'
    BY <1>1, <1>4, <1>5 DEF ComputeInv, BufferInv, CoherentInv, Early, Compute!Input, memoryVars
  <1> QED
    BY <1>2, <1>3, <1>6 DEF ComputeInv

\* When no group has run, the buffer holds the input; when all have, what the formula says.
LEMMA NothingComputed ==
  ASSUME Compute!SizesFit, NEW j \in Jobs, j.elements <= Capacity
  PROVE  Computed(j, 1..Compute!GroupCount(j.elements)) = Compute!Input
  <1>1. j.elements \in 0..Capacity /\ Capacity \in Nat
    BY DEF Compute!SizesFit, Jobs
  <1>2. ASSUME NEW n \in 1..Capacity, n <= j.elements
        PROVE  \E g \in 1..Compute!GroupCount(j.elements) : n \in Compute!Invocations(g)
    <2>1. n \in 1..j.elements
      BY <1>1, <1>2
    <2> QED
      BY <1>1, <2>1, GroupsCover
  <1> QED
    BY <1>2 DEF Computed, Compute!Input

LEMMA AllComputed ==
  ASSUME NEW j
  PROVE  Computed(j, {}) = Compute!Expected(j)
  BY DEF Computed, Compute!Expected

LEMMA JobIsLegal ==
  ASSUME Compute!SizesFit, JobInv, step \in {"record", "reset", "submit", "wait", "read", "compare"}
  PROVE  jobs[job] \in Jobs /\ jobs[job].elements <= Capacity
  <1>1. jobs \in Seq(Jobs)
    BY DEF JobInv, Jobs, Compute!SizesFit
  <1> QED
    BY <1>1 DEF JobInv

LEMMA SubmitJobStep ==
  ASSUME Compute!SizesFit, ComputeInv, Compute!Submit
  PROVE  ComputeInv'
  <1>1. /\ UNCHANGED jobVars /\ UNCHANGED memoryVars /\ UNCHANGED <<jobFence, command>>
        /\ step = "submit" /\ step' = "wait" /\ queued' = TRUE /\ pending' = 1..command.groups
    BY DEF jobVars, memoryVars, Compute!Submit, Compute!selectionVars, Compute!listVars, Compute!bufferVars
  <1>2. JobInv'
    BY <1>1, JobGoesOn DEF ComputeInv
  <1>3. GpuInv'
    BY <1>1 DEF ComputeInv, GpuInv
  <1>4. Compute!Coherent' <=> Compute!Coherent
    BY <1>1 DEF Compute!Coherent, memoryVars
  <1>5. PICK j : j = jobs[job]
    OBVIOUS
  <1>6. jobs'[job'] = j
    BY <1>1, <1>5 DEF jobVars
  <1>7. ASSUME Compute!Coherent
        PROVE  CoherentInv'
    <2>1. hostSide = deviceSide /\ hostSide = Compute!Input /\ command = CommandOf(j)
      BY <1>1, <1>5, <1>7 DEF ComputeInv, BufferInv, CoherentInv, Early
    <2>2. pending' = 1..Compute!GroupCount(j.elements)
      BY <1>1, <2>1 DEF CommandOf
    <2>3. Computed(j, pending') = Compute!Input
      BY <1>1, <1>5, <2>2, JobIsLegal, NothingComputed DEF ComputeInv
    <2>4. deviceSide' = Computed(j, pending') /\ hostSide' = deviceSide' /\ command' = CommandOf(j)
      BY <1>1, <2>1, <2>3 DEF memoryVars
    <2> QED
      BY <1>1, <1>6, <2>2, <2>4 DEF CoherentInv, Computed, CommandOf, Compute!Invocations,
                                    Compute!GroupCount
  <1>8. BufferInv'
    BY <1>1, <1>4, <1>7 DEF BufferInv, Early
  <1> QED
    BY <1>2, <1>3, <1>8 DEF ComputeInv

LEMMA WaitJobStep ==
  ASSUME ComputeInv, Compute!WaitForFence
  PROVE  ComputeInv'
  <1>1. /\ UNCHANGED jobVars /\ UNCHANGED memoryVars /\ UNCHANGED fenceVars
        /\ step = "wait" /\ (step' = "aborted" \/ (step' = "read" /\ jobFence))
    BY DEF jobVars, memoryVars, fenceVars, Compute!WaitForFence, Compute!selectionVars, Compute!gpuVars,
           Compute!listVars, Compute!bufferVars
  <1>2. JobInv'
    BY <1>1, JobGoesOn DEF ComputeInv
  <1>3. GpuInv'
    BY <1>1 DEF ComputeInv, GpuInv, fenceVars
  <1>4. CASE step' = "aborted"
    BY <1>1, <1>2, <1>3, <1>4, BufferKept DEF ComputeInv
  <1>5. CASE step' = "read"
    <2>1. Compute!Coherent' <=> Compute!Coherent
      BY <1>1 DEF Compute!Coherent, memoryVars
    <2>2. pending = {}
      BY <1>1, <1>5 DEF ComputeInv, GpuInv
    <2>3. Compute!Expected(jobs[job])' = Compute!Expected(jobs[job])
      BY <1>1 DEF jobVars, Compute!Expected
    <2>4. ASSUME Compute!Coherent
          PROVE  hostSide' = deviceSide' /\ deviceSide' = Compute!Expected(jobs[job])
      <3>1. hostSide = deviceSide /\ deviceSide = Computed(jobs[job], {})
        BY <1>1, <2>2, <2>4 DEF ComputeInv, BufferInv, CoherentInv, Early
      <3> QED
        BY <1>1, <3>1, AllComputed DEF memoryVars
    <2>5. BufferInv'
      BY <1>1, <1>5, <2>1, <2>3, <2>4 DEF BufferInv, CoherentInv, Early
    <2> QED
      BY <1>2, <1>3, <2>5 DEF ComputeInv
  <1> QED
    BY <1>1, <1>4, <1>5


LEMMA ReadStep ==
  ASSUME ComputeInv, Compute!ReadBack
  PROVE  ComputeInv'
  <1>1. /\ UNCHANGED jobVars /\ UNCHANGED memoryVars /\ UNCHANGED fenceVars
        /\ step = "read" /\ step' = "compare" /\ gpuValues' = hostSide
    BY DEF jobVars, memoryVars, fenceVars, Compute!ReadBack, Compute!selectionVars, Compute!gpuVars,
           Compute!listVars, Compute!bufferVars
  <1>2. JobInv' /\ GpuInv'
    BY <1>1, JobGoesOn, GpuKept DEF ComputeInv
  <1>3. Compute!Coherent' <=> Compute!Coherent
    BY <1>1 DEF Compute!Coherent, memoryVars
  <1>4. Compute!Expected(jobs[job])' = Compute!Expected(jobs[job])
    BY <1>1 DEF jobVars, Compute!Expected
  <1>5. BufferInv'
    BY <1>1, <1>3, <1>4 DEF ComputeInv, BufferInv, CoherentInv, Early, memoryVars
  <1> QED
    BY <1>2, <1>5 DEF ComputeInv

LEMMA CompareStep ==
  ASSUME Compute!SizesFit, ComputeInv, Compute!Compare
  PROVE  ComputeInv'
  <1>1. /\ jobs' = jobs /\ UNCHANGED memoryVars /\ UNCHANGED fenceVars
        /\ step = "compare"
        /\ \/ step' = "job" /\ job' = job + 1
           \/ step' = "mismatch" /\ job' = job /\ gpuValues # Compute!Expected(jobs[job])
    BY DEF memoryVars, fenceVars, Compute!Compare, Compute!selectionVars, Compute!gpuVars,
           Compute!listVars, Compute!bufferVars
  <1>2. GpuInv'
    BY <1>1, GpuKept DEF ComputeInv
  <1>3. CASE step' = "job" /\ job' = job + 1
    <2>1. job + 1 \in Nat \ {0}
      BY DEF ComputeInv, JobInv
    <2>2. ASSUME NEW n \in DOMAIN jobs, n < job + 1
          PROVE  jobs[n].elements <= Capacity
      <3>1. n \in Int /\ job \in Int
        BY DEF ComputeInv, JobInv, Jobs, Compute!SizesFit
      <3>2. n < job \/ n = job
        BY <2>2, <3>1
      <3> QED
        BY <1>1, <3>2 DEF ComputeInv, JobInv
    <2>3. JobInv'
      BY <1>1, <1>3, <2>1, <2>2 DEF ComputeInv, JobInv
    <2>4. BufferInv'
      BY <1>1, <1>3, BufferKept DEF ComputeInv
    <2> QED
      BY <1>2, <2>3, <2>4 DEF ComputeInv
  <1>4. CASE step' = "mismatch" /\ job' = job /\ gpuValues # Compute!Expected(jobs[job])
    <2>1. JobInv'
      BY <1>1, <1>4, JobKept DEF ComputeInv, jobVars
    <2>2. ~Compute!Coherent
      BY <1>1, <1>4 DEF ComputeInv, BufferInv, CoherentInv, Early
    <2>3. ~Compute!Coherent' /\ ~Early'
      BY <1>1, <1>4, <2>2 DEF Compute!Coherent, memoryVars, Early
    <2>4. BufferInv'
      BY <2>3 DEF BufferInv
    <2> QED
      BY <1>2, <2>1, <2>4 DEF ComputeInv
  <1> QED
    BY <1>1, <1>3, <1>4

\* A workgroup computes its own elements, which no other has touched.
LEMMA GroupComputes ==
  ASSUME Compute!SizesFit, NEW j \in Jobs, NEW W \in SUBSET (Nat \ {0}), NEW g \in W
  PROVE  Computed(j, W \ {g}) =
            [n \in 1..Capacity |->
               IF n \in Compute!Invocations(g) /\ n <= j.elements
               THEN (Computed(j, W)[n] * j.multiplier) % Word ELSE Computed(j, W)[n]]
  <1>1. ASSUME NEW n \in 1..Capacity
        PROVE  Computed(j, W \ {g})[n] =
                  IF n \in Compute!Invocations(g) /\ n <= j.elements
                  THEN (Computed(j, W)[n] * j.multiplier) % Word ELSE Computed(j, W)[n]
    <2>1. CASE n \in Compute!Invocations(g)
      <3>1. \A h \in W \ {g} : n \notin Compute!Invocations(h)
        BY <2>1, OneGroupEach
      <3>2. Computed(j, W)[n] = n
        BY <2>1 DEF Computed
      <3>3. Computed(j, W \ {g})[n] = IF n <= j.elements THEN (n * j.multiplier) % Word ELSE n
        BY <3>1 DEF Computed
      <3> QED
        BY <2>1, <3>2, <3>3
    <2>2. CASE n \notin Compute!Invocations(g)
      <3>1. (\A h \in W \ {g} : n \notin Compute!Invocations(h)) <=>
               (\A h \in W : n \notin Compute!Invocations(h))
        BY <2>2
      <3>2. Computed(j, W \ {g})[n] = Computed(j, W)[n]
        BY <3>1 DEF Computed
      <3> QED
        BY <2>2, <3>2
    <2> QED
      BY <2>1, <2>2
  <1> QED
    BY <1>1 DEF Computed

LEMMA RunGroupStep ==
  ASSUME Compute!SizesFit, ComputeInv, NEW g \in pending, Compute!RunGroup(g)
  PROVE  ComputeInv'
  <1>1. /\ UNCHANGED jobVars /\ UNCHANGED <<jobFence, queued, command, step, computer, type>>
        /\ pending' = pending \ {g}
        /\ deviceSide' = [n \in 1..Capacity |->
                            IF n \in Compute!Invocations(g) /\ n <= command.elements
                            THEN (deviceSide[n] * command.multiplier) % Word ELSE deviceSide[n]]
        /\ hostSide' = IF Compute!Coherent THEN deviceSide' ELSE hostSide
    BY DEF jobVars, Compute!RunGroup, Compute!selectionVars, Compute!listVars
  <1>2. queued /\ step \in {"wait", "aborted"}
    BY DEF ComputeInv, GpuInv
  <1>3. JobInv'
    BY <1>1, JobKept DEF ComputeInv
  <1>4. GpuInv'
    BY <1>1, <1>2 DEF ComputeInv, GpuInv
  <1>5. Compute!Coherent' <=> Compute!Coherent
    BY <1>1 DEF Compute!Coherent
  <1>6. PICK j : j = jobs[job]
    OBVIOUS
  <1>7. jobs'[job'] = j
    BY <1>1, <1>6 DEF jobVars
  <1>8. ASSUME Compute!Coherent
        PROVE  CoherentInv'
    <2>1. hostSide' = deviceSide'
      BY <1>1, <1>8
    <2>2. CASE step = "aborted"
      BY <1>1, <2>1, <2>2 DEF CoherentInv
    <2>3. CASE step = "wait"
      <3>1. /\ command = CommandOf(j) /\ deviceSide = Computed(j, pending)
            /\ pending \subseteq 1..Compute!GroupCount(j.elements)
        BY <1>6, <1>8, <2>3 DEF ComputeInv, BufferInv, CoherentInv, Early
      <3>2. j \in Jobs
        BY <1>6, <2>3, JobIsLegal DEF ComputeInv
      <3>3. pending \in SUBSET (Nat \ {0})
        BY <3>1
      <3>4. command.elements = j.elements /\ command.multiplier = j.multiplier
        BY <3>1 DEF CommandOf
      <3>5. deviceSide' = Computed(j, pending')
        BY <1>1, <3>1, <3>2, <3>3, <3>4, GroupComputes
      <3>6. pending' \subseteq 1..Compute!GroupCount(j.elements) /\ command' = CommandOf(j)
        BY <1>1, <3>1
      <3> QED
        BY <1>1, <1>7, <2>1, <2>3, <3>5, <3>6 DEF CoherentInv, Computed, CommandOf, Compute!Invocations,
                                                  Compute!GroupCount
    <2> QED
      BY <1>2, <2>2, <2>3
  <1>9. BufferInv'
    BY <1>1, <1>2, <1>5, <1>8 DEF BufferInv, Early
  <1> QED
    BY <1>3, <1>4, <1>9 DEF ComputeInv

LEMMA SignalStep ==
  ASSUME ComputeInv, Compute!Signal
  PROVE  ComputeInv'
  <1>1. /\ UNCHANGED jobVars /\ UNCHANGED memoryVars /\ UNCHANGED <<command, pending, step, gpuValues>>
        /\ queued /\ pending = {} /\ queued' = FALSE /\ jobFence' = TRUE
    BY DEF jobVars, memoryVars, Compute!Signal, Compute!selectionVars, Compute!bufferVars, Compute!listVars
  <1>2. JobInv'
    BY <1>1, JobKept DEF ComputeInv
  <1>3. step \in {"wait", "aborted"}
    BY <1>1 DEF ComputeInv, GpuInv
  <1>4. GpuInv'
    BY <1>1, <1>3 DEF ComputeInv, GpuInv
  <1>5. Compute!Coherent' <=> Compute!Coherent
    BY <1>1 DEF Compute!Coherent, memoryVars
  <1>6. BufferInv'
    BY <1>1, <1>3, <1>5 DEF ComputeInv, BufferInv, CoherentInv, Early, memoryVars, jobVars, Computed, CommandOf,
                     Compute!Invocations, Compute!GroupCount
  <1> QED
    BY <1>2, <1>4, <1>6 DEF ComputeInv

\* Only in memory that is not coherent have the sides something to tell each other.
LEMMA VisibleStep ==
  ASSUME ComputeInv, Compute!BecomeVisible
  PROVE  ComputeInv'
  <1>1. /\ UNCHANGED jobVars /\ UNCHANGED fenceVars /\ UNCHANGED <<step, computer, type>>
        /\ hostSide # deviceSide
    BY DEF jobVars, fenceVars, Compute!BecomeVisible, Compute!selectionVars, Compute!gpuVars, Compute!listVars
  <1>2. JobInv' /\ GpuInv'
    BY <1>1, JobKept, GpuKept DEF ComputeInv
  <1>3. ~Early /\ ~Compute!Coherent
    BY <1>1 DEF ComputeInv, BufferInv, CoherentInv
  <1>4. ~Early' /\ ~Compute!Coherent'
    BY <1>1, <1>3 DEF Early, Compute!Coherent
  <1>5. BufferInv'
    BY <1>4 DEF BufferInv
  <1> QED
    BY <1>2, <1>5 DEF ComputeInv

LEMMA ComputeStutters ==
  ASSUME ComputeInv, UNCHANGED (Compute!vars)
  PROVE  ComputeInv'
  <1>1. /\ UNCHANGED jobVars /\ UNCHANGED memoryVars /\ UNCHANGED fenceVars
        /\ UNCHANGED <<command, step, gpuValues>>
    BY DEF Compute!vars, jobVars, memoryVars, fenceVars
  <1>2. JobInv' /\ GpuInv'
    BY <1>1, JobKept, GpuKept DEF ComputeInv
  <1>3. Compute!Coherent' <=> Compute!Coherent
    BY <1>1 DEF Compute!Coherent, memoryVars
  <1>4. BufferInv'
    BY <1>1, <1>3 DEF ComputeInv, BufferInv, CoherentInv, Early, memoryVars, jobVars, fenceVars, Computed, CommandOf,
                     Compute!Invocations, Compute!GroupCount, Compute!Expected, Compute!Input
  <1> QED
    BY <1>2, <1>4 DEF ComputeInv

LEMMA ComputeStep ==
  ASSUME Compute!SizesFit, ComputeInv, [Compute!Next]_(Compute!vars)
  PROVE  ComputeInv'
  <1>1. CASE Compute!CountDevices \/ Compute!SelectDevice \/ Compute!SelectFamily \/ Compute!SelectMemory
                \/ Compute!ChangeDevices
    BY <1>1, SelectionStep
  <1>2. CASE Compute!VerifyMapping \/ Compute!WriteInput \/ Compute!Record
    BY <1>2, MapStep, WriteStep, RecordStep
  <1>3. CASE Compute!ResetFence \/ Compute!Submit \/ Compute!WaitForFence
    BY <1>3, ResetJobStep, SubmitJobStep, WaitJobStep
  <1>4. CASE Compute!ReadBack \/ Compute!Compare \/ Compute!Pass
                \/ Compute!CreateObjects \/ Compute!SetupFails \/ Compute!JobFails
    BY <1>4, ReadStep, CompareStep, ComputeEnds
  <1>5. CASE \E g \in pending : Compute!RunGroup(g)
    BY <1>5, RunGroupStep
  <1>6. CASE Compute!Signal \/ Compute!BecomeVisible
    BY <1>6, SignalStep, VisibleStep
  <1>7. CASE UNCHANGED (Compute!vars)
    BY <1>7, ComputeStutters
  <1> QED
    BY <1>1, <1>2, <1>3, <1>4, <1>5, <1>6, <1>7 DEF Compute!Next

LEMMA ComputeStarts ==
  ASSUME Compute!SizesFit, Compute!Init
  PROVE  ComputeInv
  <1>1. /\ step = "count" /\ job = 1 /\ hostSide = deviceSide /\ jobs \in JobLists
        /\ jobFence = FALSE /\ queued = FALSE /\ pending = {}
    BY DEF Compute!Init
  <1>2. \A n \in DOMAIN jobs : ~(n < 1)
    BY <1>1 DEF Compute!SizesFit
  <1>3. JobInv
    BY <1>1, <1>2 DEF JobInv
  <1>4. GpuInv
    BY <1>1 DEF GpuInv
  <1>5. Early
    BY <1>1 DEF Early
  <1>6. BufferInv
    BY <1>1, <1>5 DEF BufferInv
  <1> QED
    BY <1>3, <1>4, <1>6 DEF ComputeInv

\* In coherent memory no comparison fails, whatever the capacity, the size of the groups, the jobs and
\* the order in which the groups run, and main never goes on while its submission does
\* (compute_project/main.cpp, double.comp).
THEOREM JobsAreVerified == Compute!Spec => []JobsVerified
  <1>1. Compute!Init => ComputeInv
    BY ComputeStarts, SizesAssumption
  <1>2. ComputeInv /\ [Compute!Next]_(Compute!vars) => ComputeInv'
    BY ComputeStep, SizesAssumption
  <1>3. ComputeInv => JobsVerified
    BY ComputeInvVerifies, SizesAssumption DEF JobsVerified
  <1> QED
    BY <1>1, <1>2, <1>3, PTL DEF Compute!Spec
=============================================================================
