# PrivateServerToolKit in TLA+

PrivateServerToolKit is a C++ tool kit for private game servers: an execution
library (`src/src/execution`), a service host that turns packets into jobs
(`src/src/runtime/service_host`), a packet compiler (`src/src/tools/packet`)
and a set of Vulkan programs (`src/src/vulkan`) with a small entity container.
The concurrency, and most of what a unit test cannot reach, is in the execution
library, in the hand-over of jobs by the service host and in the frame loop: they
are modelled in most detail.

Every definition is translated from the source; `PROJECT.json` ("map") names the
lines each one stands for.

## 1. Inventory

| part | state it keeps | operations | talks to | what is hard |
|---|---|---|---|---|
| `TkBoundedMpmcQueue<T>` | two positions, a sequence number and raw storage per slot, all accessed without a lock | `TryPush`, `TryPop`, `HasReadyItem`, destructor | callers on any thread | every interleaving of atomic accesses; stale relaxed loads; object lifetime in raw storage; slot reuse |
| `TkSerialWorkLane<T>` | `state_` (Idle, Scheduled, Draining), a mutex, a ring | `TryPublish`, `Drain`, `IsQuiescent` | the scheduler, the user's callback | the mutex is *not* held while messages are popped and handled; a message published while the drain leaves |
| `TkWorkerPool`, `TkWorkItem` | `state_`, `queuedCount_`, the ready ring, a condition variable, the threads | `Create`, `TrySchedule`, `Stop(Drain/Discard)`, destructor | tasks (which may call back), the owner | lost wakeups, stop racing schedules, partial creation, self-join, each item destroyed once |
| `TkWorkerScheduler<T>` | `state_`, `inFlightPosts_`, `activeDrains_`, the lanes | `TryPost`, `DrainLane` (run by the pool), `Stop`, `GetWorkLaneHandle` | lanes, pool, handlers (which may post and stop) | the gaps between critical sections; `Stop` destroys the lanes without a lock |
| `TkServiceHost`, `TkServiceBinding` | registered services, packet bindings, jobs in flight | `RegisterService`, `FinalizeRegistration`, `ProcessPacket`, `JobExecute`, `JobDestroy` | an allocator, an executor, typed packets, handlers, a response sink, all callbacks | who owns the job, and each packet made in it, after each callback; failure half way; sizes that overflow |
| packet schema front end | the batch: files, ids and names seen, descriptors | read, scan for duplicate keys, parse, compare, lay out | the JSON library, generators | duplicate keys, which the library hides; which problem is reported; numbers that do not fit |
| packet generators, codec support | none | text out; integers in and out of bytes | committer; programs in two languages | the layout and the bytes both languages agree on |
| generated file committer | the file system | write `.tmp`, replace the target | file system | a crash or a second process between the steps |
| packet command line | the list of paths, the output directory | configure, collect, compile, commit | the parts above, the file system | directories listed in any order, schemas that change meanwhile, a run that fails half way |
| `SparseSet`, `ComponentPool`, `EntityManager` | dense and sparse arrays, generations | add, remove, look up, clear, flush | game systems | stale handles, swap removal, reuse of indices |
| `Application`, `Swapchain`, `FrameResources`, `Window` | fences, semaphores, the swapchain, frame index, flags raised by callbacks | poll, recreate, draw a frame | two queues, the presentation engine, the window system | recreation with frames in flight, results that skip a step, a size that changes at any moment |
| `VulkanContext`, `HostVisibleBuffer`, `Renderer2D` | handles | enumerate, select, create, destroy | the drivers | lists that change between two calls, failure half way, order of destruction |
| compute sample | a buffer, a fence | select, run jobs, compare | a queue, memory of a device | rounding of groups, one fence for all jobs, memory that is not coherent |

How the execution library fits together: `TkWorkerScheduler::TryPost` publishes
a message in a lane; when the lane answers `shouldSchedule` the scheduler gives
the pool a work item that names the lane; a worker of the pool runs `DrainLane`,
which calls the lane's `Drain`, which runs the handler on up to
`maxMessagesPerDrain` messages; when `Drain` answers `shouldSchedule` the worker
gives the lane to the pool again. Two instances of the ring carry the data: the
lane's messages (one producer at a time under the lane's mutex, one consumer by
the state Draining) and the pool's ready items (under the pool's mutex).

What makes each part correct:

- ring: a slot is owned by one thread at a time, objects are constructed and
  destroyed exactly once, the whole is a bounded FIFO queue, calls return;
- lane: never two drains, never a message in an idle lane, exactly one `Drain`
  owed while Scheduled, messages handled once and in order;
- pool: no item without a wakeup, items invoked at most once and destroyed exactly
  once, `Stop` returns with no thread and no item left;
- scheduler: a lane is in one place only, the ready ring never refuses a lane,
  `Stop(Drain)` loses nothing, nobody uses a lane that has been destroyed;
- service host: a job has one owner at any time and is released once, its handler
  runs at most once and only after every check, identifiers are unique and each
  finds its own handler, the objects of a job do not overlap;
- committer: no crash or failure leaves a partial file, success means current files;
- packet tool: a batch is accepted exactly if the rules of a schema accept it, the first
  bad file is the one that is reported, nothing is written before all are valid;
- codec: what is encoded in one language is what the other decodes; the fields tile
  the payload; a refusal leaves what the language promises;
- frame loop: nothing in use is written or destroyed, each wait has one signal, no
  change of size is lost, the loop ends when the window is closed;
- setup: a complete list of devices, a selection that has all that is asked of it,
  no object outliving its parent wherever creation fails;
- compute sample: jobs give what the formula of the shader says;
- entities: a handle finds its own value or nothing, slots are neither lost nor
  given out twice, a flush removes the marked entities only.

## 2. The modules

    BoundedFifo   <- - - BoundedMpmcQueue <- BoundedMpmcQueue_proofs   (the ring)
    SerialMailbox <- - - SerialWorkLane <- SerialWorkLane_proofs
    TaskPool      <- - - WorkerPool <- WorkerPool_proofs
    SerialMailbox <- - - WorkerScheduler <- WorkerScheduler_proofs     (lanes + pool + stop)
    JobCustody    <- - - ServiceHost <- ServiceHost_proofs
                         ServiceJobLayout <- ServiceHost_proofs
    HandleMap     <- - - SparseSet <- EntityManager <- Containers <- SparseSet_proofs
                         ComponentPool <- Containers
                         JsonValue <- PacketSchema <- PacketCompilation <- PacketCompiler_proofs
                         PacketLayout <- PacketCodec <- PacketCompiler_proofs
                         GeneratedFileCommitter <- PacketTool <- PacketCompiler_proofs
                         VulkanSetup, ComputeSample <- VulkanSamples <- Vulkan_proofs
                         FrameLoop <- Vulkan_proofs

`A <- - - B`: the property `Implements...` of B says that B implements A under
a refinement mapping (`INSTANCE A WITH ...`). `A <- B`: B uses A. An `MC...` module
adds the symmetry sets and the values of the constants that a `.cfg` file cannot
write; the long ones are in `SchemaInputs`, `SetupInputs` and `ComputeInputs`.
Two MC modules put parts that do not call each other side by side, and a behaviour is
one of one part: `MCSequential` (eight parts that one thread runs) and
`MCSerialWorkLane` (the lane, and the ring on its own, for their liveness). `Containers`,
`VulkanSamples` and `PacketCompilation` are instances side by side, with the assumptions about their
constants, for that run and for the proofs to share.

The variables carry the names of the members of the classes without their final
underscore. A thread inside an operation has a program counter (`pc`,
`publishPc`, `drainPc`, `workerPc`, `postPc`, `stopPc`) and the values of the
local variables that matter. Variables commented "history" record what has
happened and are read by no guard but those that make inputs unique. Operators commented
"variant" are wrong forms of the definition that follows them; they stand for the
bugs each property would notice.

**BoundedMpmcQueue.** One action per atomic access: load of a position, load of a
sequence, compare-exchange (win, lose, spuriously lose), placement new, release
store, and the same for `TryPop`. With `StaleReads` a relaxed load may return any earlier
value, which allows more than the C++ memory model does, so what is shown holds
for it too; the compare-exchange is atomic on the latest value. The destructor
is called with no operation under way, its documented use.

**SerialWorkLane.** `TryPublish` takes the mutex in its first step and keeps it to its
last; the ring's `TryPush` inside is two steps (claim a slot, publish it), because
`Drain` does not hold the mutex while it pops. The callback is the interval
between `DrainCall` and `DrainReturn`; in it the draining thread may publish.
A slot stays taken until its message has been moved out.

**WorkerPool.** One step per critical section; `notify_one`, `notify_all`, the joins,
the call of a task and its destruction are separate steps. A worker asleep in the
condition variable is in `"waiting"`; it may wake spuriously. The ready ring is touched under the
mutex only, so it is a sequence. `Create` may fail at any thread. The destructor,
and a failure in `Create` after `Start`, are a `Stop(Discard)` of the owner.

**WorkerScheduler.** `TryPost` is enter / publish / schedule / (assert) / leave,
`DrainLane` is check / enter / the lane's `Drain` / reschedule / (assert) /
leave, `Stop` is enter / wait for posts / wait for drains / pool / join / reset /
finish. A lane appears at the level its own module establishes (TryPublish one
step; Drain two critical sections with pops and callbacks between them); the pool
appears at the level of its state and ready queue. A handler may post to any
lane, its own included, and may call `Stop`.

**ServiceHost.** Registration stages one binding per step, so that it can be refused
half way; finalization sorts the lookup (`Sorted` is the contract of `std::sort`: the
entries in order, whichever of several orders it may leave), and `LowerBound` is the binary
search of `std::lower_bound`, half by half.
In `ProcessPacket` and in the two job calls every call of an application
callback (decode, each middleware, the executor, the handler, encode, output)
is a step that may fail; decode, invoke and encode are the functions that the
templates of `TkServiceBinding.hpp` make, with the packets they construct and
destroy when they fail. The executor is external: it may put the job in the
hands of a world thread before its callback returns (`ExecutorAdmits`, then
`SubmitSucceeds`), and a world thread may execute a job, or not, before it
destroys it. The host may be destroyed while jobs live: a job keeps copies of what it needs,
and `docs/design/issue-2-typed-service-host.md:415` allows it ("Accepted Job은
self-contained이므로 Host object 파괴 후에도 실행·폐기할 수 있다").

**ServiceJobLayout.** The arithmetic of one job with words of any width: a value is
taken modulo `SizeMax + 1` exactly where the code adds, and the bit masks are
the remainders they compute for powers of two.

**SparseSet** keeps the container as a record, so that **EntityManager** can
compose its operations; the word shared by the free list and the dense index is
the pair (bit, number below 2^31) with the mask applied where the code applies it.
**ComponentPool** takes handles from outside, live or stale, and is compared with a
plain map kept beside it.

**GeneratedFileCommitter.** The calls of `CommitGeneratedFile`, for each file of a
run, over names and inodes: opening truncates the inode the name leads to,
`rename` moves a name, a process goes on writing to what it has opened. Each
call may fail, the process may be killed after any of them, and the next run
meets what is left.

**PacketTool** puts the command line in front of the committer: a run loads its
configuration, lists the directory one entry at a time in any order, sorts, makes the
output directory, reads and compiles the schemas one by one while anyone may change
them, and commits. A file that is legal may fail to be read (`ReadFails`), which the run reports as it
does a bad one. A schema is its name and an id here; the rest is in PacketSchema.

**PacketSchema** is `PacketSchemaCompiler::Compile`: the duplicate-key scan consumes the
events of the JSON library one at a time over a stack of open containers; then every
check of the parser is an action, in the order of the code, and the first that fails
ends the compilation with one diagnostic. A file is a value (`JsonValue`) that keeps
duplicate members, or breaks off after some events. The library's parser, which calls the scan, is
external: `walk` says which containers it is within and how far, and what it calls next.

**PacketLayout** and **PacketCodec**: `Build` places one field per step and refuses the one
that would pass `SIZE_MAX`; the bounds check of the generators follows; then `Encode`
and `Decode` as the generators emit them, in C++ or C#, on views of the right and of
wrong sizes, with another payload version or the same. The bytes go through
`ToUnsignedBits` and back in two's complement, whatever the number of values of a byte.

**FrameLoop** is `Application::Run` after the setup, one action per Vulkan call: poll the
window, recreate the swapchain (restore, configure, wait idle, create) or draw (wait for
the fence, update, acquire, record, reset, submit, present), with every result the code
distinguishes and every call that may throw. Beside the host run the graphics queue, the
present queue, the presentation engine and the user, all external: a submission waits for
`imageAvailable`, signals `renderFinished` and the fence; a present waits for
`renderFinished` and gives the image before it back. Window events are noticed in
`PollEvents` and `WaitEvents` only, where the callbacks run. An acquisition may answer
"out of date" at any time, also when the sizes agree.

**VulkanSetup** is what precedes it: each object is created or the setup fails, each
enumeration asks for a number and then for a list that may have changed, the selection
loops are operators that name the first match, and the unwinding destroys what exists in the
reverse order of declaration. A machine is a record of what the calls answer.

**ComputeSample** follows the sample from the enumeration of devices to the comparison
of the last job; its calls may fail in the setup, while the objects of the pipeline are created and
in a job (`SetupFails`, `CreateObjects`, `JobFails`). The buffer has two sides, that are one in coherent memory; workgroups
run in any order; the last one runs past the elements.

## 3. The runs

| run | instance | what it shows |
|---|---|---|
| `ring_stale` | 3 threads, 5 items, 2 slots, stale loads | `SlotExclusion`: a slot is accessed by one thread at a time; `RingConsistent`: sequence numbers agree with the positions and with the threads at work, objects constructed and destroyed once, nothing lost or duplicated, the destructor included |
| `ring_fifo` | 3 threads, 5 items, 4 slots | the ring implements `BoundedFifo`; a lone call answers false only when the ring is full or empty (`RefusalJustified`) |
| `lane` | the lane: 2 publishers, 2 drainers, 4 messages, 2 slots, batches of 2; the ring: 2 threads, 3 items, 2 slots | `LaneSafe`: one drain at a time, exactly one owed while Scheduled, no message in an idle lane, `IsQuiescent` tells the truth, a refusal means that as many accepted messages as the ring has slots wait for their callback; the lane implements `SerialMailbox`; `WorkFinishes`: messages are handled when the drains asked for are made, and no call is caught in the ring's retry loop |
| `pool` | 2 clients, 3 workers, 3 items, 2 slots | `PoolConsistent` (the count is the length of the queue, each item is accounted for, `Stopped` means all done, also after a failed creation), `WorkConserving`; the pool implements `TaskPool`; accepted items are finished, `Stop` and creation come to an end |
| `scheduler` | 2 clients, 2 workers, 2 lanes, 4 messages, lane capacity 2, 2 ready slots, batches of 1 | `SchedulerConsistent` (lanes serial, each scheduled lane in one place, `inFlightPosts_` and `activeDrains_` the numbers of threads that post and drain), `ScheduleAssertions` (the assertions of the code; the ready ring never refuses), `StopIsSafe` (nothing lost by Stop(Drain), nobody uses a destroyed lane); every lane implements `SerialMailbox` |
| `scheduler_live` | 2 clients, 1 worker, 2 lanes, 2 messages | accepted messages are handled or discarded, `Stop` returns |
| `host` | 2 ingress and 2 world threads, 3 places for jobs, 2 registrations, packets of known and unknown ids | `SoleOwner`, `HostConsistent` (objects constructed = destroyed, the registry), `OnlyCheckedJobs`, `EveryPacketFound`; jobs implement `JobCustody` |
| `packet_tool` | 2 schema files of 2 names, 2 contents each, one change, runs one after another | `NeverPartial`, `FirstProblemReported`, `NothingWrittenUnlessValid`, `SuccessMeansGenerated` |
| `committer_two` | 2 runs at a time, 1 file | `NothingPartialRemains` is violated: see below |
| `sequential` | the set: 1 slot at first, 3-bit words, 2 values; entities in such a set; pools of 4 indices, 2 generations, 2 values; jobs: every binding with words of 4 bits, alignments 1 to 8; packets of up to 3 fields of 1 or 2 bytes of 4 values, `SIZE_MAX` 6, two languages, two versions; schemas with one thing wrong or cut short, batches of up to 3 files that clash; machines and computers with one thing missing and a list of devices that changes; lists of up to 3 compute jobs on 4 elements, words of 3 bits | the set implements `HandleMap`; `FlushRemovesMarked`; `PoolMatchesReference`: what a pool finds is what a map of the calls holds; `LayoutIsSound`, `FieldsTile`, `CodecRoundTrip`, `ParseMatches`; `SetupSound`: what is selected serves, no object outlives the one it was made from; `JobsVerified`: the sample waits for its submission, results are those of the formula |
| `frame` | 2 frames in flight, 3 images, 3 surfaces (another size and format, minimised), 2 changes | `NothingInUseTouched`, `SignalsPaired`, `SwapchainFollows`; `FollowsUser` under fairness |
| `compute` | memory types with one of the two properties | `SelectedIsCoherent` is violated: see below |

*Two disagreements.* `docs/design/issue-1-packet-codegen-rpc.md:400` promises that no
generated header is left with part of its contents. `GetTemporaryPath`
gives each run the same name, `<file>.tmp`. With two runs into one directory
at a time the run `committer_two` ends with a partial file: run 1 has written and
closed the temporary file, run 2 opens it with `trunc`, run 1 renames it into
place (and reports success), run 2 is killed or fails to write. `packet_tool`
shows that it cannot happen to runs that follow each other.

`compute_project/main.cpp:258` tests two flags of a memory type with
`(flags & required) != 0`, so a type that is visible and not coherent is taken when it
comes first, although the message of the failure (`main.cpp:272`) asks for both and the sample
neither flushes nor invalidates. `HostVisibleBuffer.cpp:54` compares with `==`, and
`SetupSound` holds for it.

*Bounds.* The number of items or messages bounds everything that would grow: an
item is pushed once. Two slots and five items make every slot go through several
laps; more items than slots make the rings refuse; batches shorter than the
backlog make a lane go through the ready queue again; two clients make a
`Stop` race posts and another `Stop`; as many ready slots as lanes is the
least `IsValidCreateInfo` allows. Three places for jobs
among four threads make a place be reused while another job is in every other
stage. Words of three and four bits make doubling and every addition reach the
limit of the word; generations up to two (`MaxGeneration`) make stale handles.
Bytes of four values make a sign bit and a carry in every type; fields of two
bytes make the order of the bytes matter; a `SIZE_MAX` of six refuses some third fields.
Three queue families and three files, two devices, formats and memory types make a match
that is not the first. Four inodes for two files, each with a temporary name and an open
file, are never used up. Two changes of the surface make one arrive while the swapchain is made
for the one before, and a minimised window come back; three images against two
frames make image and frame indices part. `MaxServices`, `MaxPosition` (movement), `MaxGeneration`
and `MaxChanges` are the only bounds that cut a run short. Symmetry is used in runs without
fairness only.
`CHECK_DEADLOCK FALSE` everywhere but in `frame`: a destroyed ring, lane or host, a stopped
pool or scheduler, a compilation, a layout or a setup that is over have nothing left to do,
and a container whose slots have reached the last generation stops at that bound. In `frame`
the end is a step of its own (`Ended`); that no wait of the host or of a queue blocks for
ever is said by `SignalsPaired`, since a call that may throw hides a deadlock.

*Fairness.* A thread inside an operation keeps running (weak fairness of its
steps), as the operating system schedules threads and handlers return. Strong
fairness is asked in two places only: a compare-exchange that can succeed again
and again is not refused for ever, and a thread that finds the lane's mutex free
again and again gets it. The `Drain` calls a lane asked for are made (in the
scheduler this is no assumption: the pool makes them). Nobody is obliged to post,
schedule or stop, and no spurious wakeup is counted on. In the frame loop the host runs, and
the queues and the engine do what they have been given; the user need do nothing, no
call need throw, and no acquisition need succeed.
The run `lane` has loads of the latest value (`StaleReads = FALSE`), and the ring beside it wins a
compare-exchange under strong fairness: `WorkFinishes` is about the drain that leaves while a message
comes, and about retry loops that lose to other threads. That a stale load comes up to date in the end
is not part of it; stale loads are in the safety properties only.

## 4. What is proved

TLAPS checks the results listed in `PROJECT.json`, for every value of the constants:
every property of a run that passes, but the liveness properties. For each
component one inductive invariant, `Inv`, carries everything; the theorems are read off it. TLC checked
each `Inv` on a small instance before it was proved.

`BoundedMpmcQueue_proofs` holds, for any threads, items and any capacity that is a power of
two, with loads that may return any earlier value:

- `SlotsAreExclusive` (`SlotExclusion`) and `RingIsConsistent` (`RingConsistent`): that sequence numbers
  and positions agree (`SequencesAgree`) is read off `FreeInv` and `ReadyInv` by `PushedSlot` and `NextSlot`;
- `RingImplementsFifo`: the ring refines `BoundedFifo`, a push and a pop taking effect where
  their compare-exchange wins;
- `RefusalIsJustified` (`RefusalJustified`), for `StaleReads = FALSE`: with stale loads the code
  promises nothing of the kind, since `false` may then mean "not yet visible".

The argument: a thread that won a position finds the sequence number of its slot as it was
when it won (`LocalInv`), because the only other thread that could store to it would have to have
won the same position (`WinnerInv`) or one a lap away, and neither position can move a lap past it:
`enqueuePosition` is held back by the slot not yet popped, `dequeuePosition` by the slot not
yet pushed. `FreeInv` and `ReadyInv` say for each slot, from its sequence alone, for whom it
waits or in whose hands it is, `ItemInv` and `ReturnedInv` what object it holds. Stale loads do
no harm because a sequence only grows: what justified a compare-exchange stays justified, and the
compare-exchange itself fails on a position that has moved (`PushWinsFreeSlot`, `PopWinsReadySlot`).
The arithmetic modulo the capacity is in `LapAndSlot`, `SlotIsUnique`, `SameSlotApart`.

`SerialWorkLane_proofs` holds, for any sets of threads and messages, any capacity of
at least two and any batch size:

- `LaneIsSafe` (`LaneSafe`), from `TypeCorrect`, `SerialDrain`, `SingleReservation`,
  `NothingStranded`, `QuiescentIsDone` and the lemma `RefusalIsJust`;
- `LaneImplementsMailbox`: the lane refines the serial mailbox (order, no loss, no
  duplicate, one message at a time).

The argument: none of these is inductive alone. `Inv` ties the state to the
threads: the mutex names exactly the thread inside `TryPublish`; `state` is
Draining exactly when some thread is inside `Drain`, and then only one is; `owed` is
one exactly when Scheduled; and when the mutex is free and the state Idle, the
queue is empty. The publisher that has made its item ready and not yet decided
holds the mutex, so it excludes the drain's last critical section: this is
the comment at `TkSerialWorkLane.hpp:155`. `OrderInv` adds the data: the messages handled, the one in
the callback and the ones queued, in this order, are the messages accepted.
The refinement proof uses both. The only assumption is `LaneAssumption`.

`WorkerPool_proofs` holds, for any clients, workers, items and capacity, with thread creation
failing at any worker:

- `PoolKeepsItsBooks` (`PoolConsistent`), `NoLostWakeup` (`WorkConserving`);
- `PoolImplementsTaskPool`: the pool refines `TaskPool`.

The accounting (`ItemAccounting`: an accepted item is in the queue, in the hands of one worker,
or done) needs to know what a worker holds in each of its states (`HoldInv`) and that an
item destroyed unused was dropped by a `Stop` that discards (`DroppedInv`). That `Stopped` means
nothing is left needs the phases of `Stop`: past the joins every worker has exited (`StopInv`),
and a worker leaves a draining pool only when the queue is empty (`ExitInv`, the order of
the tests in the worker's loop). `CreationInv` says that a failed creation meets no caller. For
`WorkConserving`, `CountingWorkers` and `ConservedNext` count notifications and awake workers against
queued items. `PoolAssumption` asks for at least one worker, finitely many: `Create` refuses
a count of zero (`TkWorkerPool.cpp:246`).

`WorkerScheduler_proofs` holds, for any clients, workers, lanes, messages and capacities that
`IsValidCreateInfo` lets through:

- `SchedulingNeverFails` (`ScheduleAssertions`): the assertions behind both calls of `TrySchedule`
  cannot fail;
- `LanesAreReservedOnce` (`SchedulerConsistent`, with the counts of posts and drains),
  `StopTakesNothingAway` (`StopIsSafe`);
- `SchedulerImplementsMailboxes`: each lane, driven by the scheduler, refines `SerialMailbox`.

The argument is about one token per lane, its reservation: a Scheduled lane is in the ready ring,
with a worker that took it, or with a thread about to schedule it, in one of these and once
(`HolderInv`, `ReservationInv`), so the ring, that has a slot for each lane, has room whenever
a holder gives its token to it (`ReadyHasRoom`). `CountInv` makes `inFlightPosts_` and `activeDrains_`
the cardinalities of the sets of threads they count; with it `ModeInv` and `PhaseInv` say
what each phase of `Stop` may rely on: no post after the first wait, no drain after the second, no worker
after the joins, and with `Stop(Drain)` every lane idle and empty by then. `OrderInv` has the
order of messages, as for the lane. An invariant about all workers is carried through
the steps of one by `OtherWorkerSteps`.

`ServiceHost_proofs` holds, for any threads, jobs, packets and registrations:

- `JobsHaveOneOwner` (`SoleOwner`), `HostKeepsItsBooks` (`HostConsistent`),
  `OnlyCheckedJobsReachTheWorld` (`OnlyCheckedJobs`);
- `RegisteredPacketsAreFound` (`EveryPacketFound`): the binary search finds exactly what was registered;
- `HostImplementsCustody`: the jobs refine `JobCustody`.

Its `Inv` has four parts that are preserved one by one. `RegistryInv`: what is staged is the
beginning of what is wanted and repeats no identifier, so the services never do, and
`registered` is what they list. `OwnerInv`: of the ingress threads, the world threads and the executor
exactly one has an allocated job; the case that matters is the executor that passes
the job on before its own callback has returned. `ObjectInv`: what is
constructed in a job is tied to the place of the thread that has it. `CheckInv`: a job past a
check of `ProcessPacket` has passed it, with the binding found for its packet. The search is proved without
induction over data: `LowerBound` is a recursive function on pairs of bounds (`SearchExists` shows that such a
function exists), and `SearchAnswers` takes a range of the least length for which
the answer were wrong (`LeastNumber`, from the well-foundedness of numbers) and shows a shorter one.
`EntriesCanBeSorted` shows that the contract of `std::sort` can be met. `HostAssumption` types packets and
registrations, and keeps the names of threads apart.

Its last part holds `LayoutSound` (`LayoutIsSound`) of `ServiceJobLayout`, for any width of
`std::size_t`, any size of `TkServiceJob` and any binding that registration has let
through: the objects lie aligned and apart inside one allocation whose size is
below the limit, no addition has wrapped, and a job is refused only when no placement
of its objects fits. The argument goes along the code:
`AlignUpIsAligned` and `AddSizeIsExact` say that an operation guarded by `CanAlign`
or `CanAdd` does not wrap and what it returns; `RequestIsPlaced` and
`ResponseIsPlaced` chain them in the order of the code; `AllocationIsAligned` shows
that the largest alignment is a multiple of each; `AlignUpIsLeast` shows that the code
never skips a place that would do, so that (`PlaceableFits`) whatever has a placement passes
the checks. `JobLayoutAssumption` states what
powers of two give: of two alignments one divides the other, and each divides
`SizeMax + 1`.

`Vulkan_proofs` holds, of the frame loop, for any number of frames in flight, images, surfaces and changes, and whatever
the Vulkan calls answer:

- `NothingInUseIsTouched` (`NothingInUseTouched`), `SignalsArePaired` (`SignalsPaired`),
  `SwapchainFollowsSurface` (`SwapchainFollows`).

The invariant sees the two queues as sets and says of each object who will act on it next: a fence
that is not signaled belongs to one submission or to the turn that has reset it (`FenceInv`); a semaphore
that an acquisition has used is waited for by one submission or by the host about to submit
(`AcquisitionInv`); an image and its `renderFinished` are with the engine, the host, a
submission or a presentation (`ImageInv`); both queues are empty when a swapchain is made (`IdleInv`). That the
fence is reset after the acquisition, and not with the wait, is what makes a turn that ends early
harmless. `SizeInv` is about the window: an event that is still pending, the flag, or the turn under way
knows of each difference between swapchain and surface.

It also holds `SetupIsSound` (`SetupSound`) for any machines and `JobsAreVerified` (`JobsVerified`) for
any computers, capacity, size of workgroups and word. The setup needs that a list of devices is looked at only
when its two calls agreed, that a loop stops at its first match, and that what exists is the beginning of
one fixed order, which the unwinding takes from its end. In the sample the groups that have run
cover a part of the elements that grows to all of them (the rounding up of their number loses
none, if it fits a word), and the host reads when the fence is signaled. What the two assume of
their constants (`MachinesTyped`: the calls answer as documented; `SizesFit`: a group more than the
buffer holds does not overflow a word) TLC evaluates in `VulkanSamples`.

`PacketCompiler_proofs` holds, first, `LayoutTiles` (`FieldsTile`), for any set of schemas, any sizes of
types and any `SIZE_MAX`. The inductive invariant is `LayoutInv`: each field lies
behind those before it and ends before `payloadBytes` (`InSequence`), the bytes up
to there are all taken (`NoGap`), and the fields are those of the schema. From
`InSequence` follow that no byte belongs to two fields (`InSequenceIsApart`) and that the
bounds check of the generators passes (`BoundsHold`). The assumption is `LayoutAssumption`.

On it rests `RoundTripHolds` (`CodecRoundTrip`), for any schemas and values, any number of values of a byte
and any contents of the buffer. `Power`, the loop of the reader and the sequence of writes are recursive functions;
`RecursionDefined` shows that functions which follow from their value one step before exist, by
`AllNumbers`, which is induction said of a set. What the reader has after k bytes is the word modulo
`Power[k]` (`BytesGiveWord`, from `RemainderOfProduct`); two's complement comes back (`BitsGiveValue`); and a write leaves what the fields
before it have written (`HoldsStays`, because fields lie in sequence), so the payload carries them all (`PayloadCarries`).
`CodecAssumption` says that a byte has an even number of values and that versions fit two of them.

Then it holds, of `PacketTool` with the committer, for any files, schemas, versions and parts,
any number of paths, of runs and of changes to the schemas, and runs that fail or are killed after any call:

- `NeverPartialHolds` (`NeverPartial`): a generated file is whole or absent;
- `FirstProblemReportedHolds` (`FirstProblemReported`), `SuccessMeansGeneratedHolds`
  (`SuccessMeansGenerated`), `NothingWrittenUnlessValidHolds` (the action property
  `NothingWrittenUnlessValid`).

`NeverPartial` needs three facts about the file system: no inode has two names (`NamesApart`, so writing
to a temporary file, which may be one that a killed run has left, touches no final one), the run writes to
the inode of its target's temporary name and what it has written so far is of its schema (`WriteInv`), and a
`rename` comes after the last part only. The diagnostic rests on the lists: from the sorting on, the
paths are in strict order and, when nobody changes the directory, exactly those that exist (`ListInv`,
from `SortedList`: a sorted sequence of the elements has them all, by counting); the schemas compiled so
far are those of the first paths and do not clash (`SchemaInv`), so no path before the
one at hand is a problem, whether it is refused or not read (`CompiledNotBad`, `NextIsNoLater`, `FirstRefused`). Success rests on `DoneInv`: the files
before the one at hand are current, and stay so (`CurrentStays`) because a batch has no file twice, which
is what the comparison of names in the schema compiler is for. `ToolAssumption` says that there is one
process, that paths are numbers above 0 (0 stands for no diagnostic), and that `Missing` and `Invalid` are no schemas.

Its last part is `ParseIsRight` (`ParseMatches`), for any JSON values, any batches of files of them, any
largest id and any `SIZE_MAX`: the checks of `Compile`, made one by one on the file at hand, accept what the rules
of a schema, said of the whole batch at once, accept, and the first problem is the one reported. `CompilerInv` has
a part for each question. `Passed`: which rules hold of the file at each step; a check passes exactly if its rule
does, so a file that fails one is bad (`CheckKeeps`) and one that passes all is legal but for its size (`PassedIsLegal`,
`LayoutDecides`). `ScanInv`, the part that is not inductive in any simpler form: for each container that is open the
detector has the keys that the parser has read, no two the same, the parts that are closed repeat no key at any depth, and
each container lies in the one before it (`Walking`). Therefore a key that is seen again is one that its object has
twice, and then the whole value is bad (`NotUniqueInside`, up the stack), and when the walk is over the value repeats none
(`AllRead`, `WalkOut`). `PriorInv`: the descriptors so far are those of the files so far, and the two sets hold their
ids and names, so `ValidateBatchPacket` refuses just the clashes (`ClashIs`). `KeysUnique` recurs over the parts of a
value; that the recursion has a solution is `KeysUniqueIs`, by the largest set of values that have keys of their own
and whose parts are in it. `InputsAssumption` asks that the set of values is closed under parts, that the files are of them, and that
the limits are numbers; TLC evaluates it in `MCSequential`, where the values are nested five deep.

`SparseSet_proofs` holds `SetImplementsHandleMap` (`ImplementsHandleMap`), for any first size, mask and
limit of the generations: the sparse set refines `HandleMap`. Its invariant is said of the record and not of
the variable, so that each operation is a lemma about records (`AddedSound`, `RemovedSound`, `ClearedSound`,
`ResizeSound`). Used slots and places of the dense array name each other (`Placed`, `Used`); the free slots
form a list without repetition that starts at the head and ends in the size (`FreeList`). The length of
this list and of the dense array add up to the number of slots: this is why a full container is the one whose
head is its size, and why a place fits the bits of the word. `IssuedBefore` bounds the generations of
the handles that were given out by those of their slots, so the next handle is new (`HandleIsNew`). The swap
removal is `HoleIsFilled`: the last element moves, its slot follows, and no other handle notices, also
when the last is the one removed. `SparseSetAssumption` is the only assumption.

`PoolIsItsReference` (`PoolMatchesReference`) is the same for `ComponentPool`, for any indices and generations:
the sparse array names each element of the dense array at its place and nothing else (`PoolInv`), and what
the two hold together is the reference map.

`FlushRemovesTheMarked` (`FlushRemovesMarked`) is about `EntityManager`, whose set is this sparse set. The loop of
`FlushDestroyed` is a recursive function (`FlushDefined`, `FlushUnrolled`); what the set shows after the first p
entities is what it showed before without those of them that were marked (`ShowsUnmarked`), and each
round keeps this (`FlushOne`), because a removal takes one handle away and moves the rest unseen (`RemoveSeen`).
The bound on the generations matters: the handles that are collected are older than it (`ContainedBelowBound`).
The parameter `Value` of the sparse set, of which the statement says nothing, is taken to be the set of entities.

What stays with TLC, and why: every liveness property (`WorkFinishes`, `AcceptedIsFinished`, `CallsReturn`,
`AcceptedIsHandled`, `StopReturns`, `FollowsUser`), since fairness and ENABLED are outside what TLAPS reasons
about; and the two violated properties, which are counterexamples.

## 5. Not modelled, and limits

- Positions of the ring are natural numbers, not 64-bit words.
- `IsCurrentWorker` (`TkWorkerPool.cpp:183`) reads thread ids while another thread may join: modelled by
  its intended answer. A pool destroyed between the unlock and `notify_one`
  of a call still inside it is a misuse the model excludes.
- Handlers of two schedulers stopping each other (`TkWorkerScheduler.hpp:302`) are not
  modelled: there is one scheduler.
- Creation of rings, lanes and schedulers: the checks on arguments are the
  assumptions on constants; out-of-memory paths construct nothing. In the
  service host null arguments and failed allocations return before any change.
- The service host's executor, middlewares, handlers and output
  are the application's: they answer anything, but keep their contract (an
  executor that answers success has taken the job, one that refuses has not; see
  `docs/design/issue-2-typed-service-host.md`). Registration is done by one thread.
  What the templates of `TkServiceBinding.hpp` refuse when they are compiled has no state.
- Wraparound of generations in `SparseSet` is outside the contract the code states
  (`SparseSet.h:189`). Pointers kept across structural changes are not modelled.
- The committer's file system is that of the POSIX branch of `ReplaceFile`; a kill is
  that of a process, not a loss of power (the code does not sync).
- The text of JSON (numbers that are not integers are `Other`), of diagnostics and of
  the generated files; the command line's parsing of its configuration is one step.
- Vulkan: the fixed state of the pipeline, shaders, the packing of instances, the
  mapping of handles in `VulkanHandle.h`; a lost device, after which the wait in the catch
  clause returns at once. A surface that becomes empty between the reading of its size
  and `ConfigureSwapchainSettings` ends the run, as in the code. Only the enumeration of
  devices is in `VulkanSetup`; the five others repeat its loop.
- `WorldSandbox` and the samples that draw it use the entities as `EntityManager` shows
  and keep no protocol of their own.
- Plain data types, build files and the tests in C#.

## 6. Plan

1. The ring's arithmetic with a width; two schedulers whose handlers stop each other.
