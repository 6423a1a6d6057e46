# Formal models of VisionRuntime

TLA+ models of VisionRuntime's runtime and service (`Runtime/`, `Service/`), TLC
configurations that check them on small instances, and TLAPS proofs for every value
of the constants. Paths below are relative to the repository root.

## 1. The system

VisionRuntime turns images into inspection results. A **frame source** (a directory
of files, or a camera) calls back with frames; a **frame executor** wraps each frame
in a packet and submits it to a **pipeline executor**, which runs the vision pipeline
(preprocess, inference, postprocess) on threads of its own and delivers each result
through a future and a callback. A **session** in the service layer owns a run from
start to stop; an **endpoint registry** offers parameters, commands, states and frame
streams to the user interface.

| Component | State it keeps | Operations | What makes it correct |
|---|---|---|---|
| `BoundedBlockingQueue` (`Runtime/include/common`) | ring of slots, head, tail, closed flag, two epochs | push, pop, popFor, close, from one producer, one consumer and a closer | FIFO, nothing lost or read half-written, the end is reported only when drained, no lost wake-up |
| Serial, Parallel and Batch `PipelineExecutor` (`Runtime/include/executor`) | entry queue, stop flags, task handles, stage queues, completion dispatcher | submit (Drop or Block), cancel, requestStop (graceful, immediate), wait | each accepted task is delivered exactly once, in order; a cancellation in time decides; wait() drains and returns |
| `TimedTriggerSource` (`Runtime/src/camera`) | round state under one mutex, scheduling thread | start, requestStop, wait, the device's callback | rounds wait for callbacks, an error ends the run, wait() returns |
| `HikrobotMvsCameraDevice` | stop source, grabbing thread, sequence numbers, leases of SDK frames | startAcquisition, softwareTrigger, requestStop, wait | sequence numbers survive the 32-bit wrap; frames outlive the device safely |
| `ContinuousCameraSource`, `FileSource` | a reading thread and a stop flag | start, requestStop, wait | no callback after wait(); stop is not lost |
| `FrameExecutor`, `RuntimeSession`, `MultiCameraSession` | run summary, source(s), executor, timer thread | start, requestStop, wait, onFrame | counters agree with what happened; a partial start is rolled back; limits are respected |
| Memory pools | slots and a free list, returned by the last owner | acquire, acquireBlocking, release | no slot with two owners; a waiter is woken |
| `TimedPipeline` | open executions and their timings | preprocess .. finishExecution, finishBatch | every opened execution is closed |
| `SessionController`, `VisionService` (`Service/src`) | life cycle, control thread, watch thread | configure, start, requestStop, waitForIdle | legal life cycle, no stop lost or invented |
| `EndpointRegistry`, `EndpointDispatcher` | endpoints, versions, subscriptions, a posting thread | register, read, write, invoke, subscribe, publish | versions and payloads agree; no callback after unsubscribe |
| `MetricsAggregator` | live and final payloads, atomic counters | publishLive, publishSummary, batch observer | the final summary is the last one served |
| Tensors, frames, preprocess nodes, batch tensors | none shared | pure computations | no byte outside a buffer; split undoes concat |
| Loaders, factories, assembler, presets, camera endpoints, plugin host | none shared | documents in, a session out | what is accepted can run |
| Plugins, logging, Shell, Samples, Tools | none shared | vendor calls, output, user interface | not modelled |

Components interact by calls and callbacks: a source's thread runs the frame
executor's callback, which submits; the executor's completion thread runs the
result callback. `requestStop` travels from session to source and executor;
`wait` joins threads from the source down. Only an external control thread may call
`wait()` (`Docs/architecture.md:243`, `iFrameSource.hpp`), while a callback may
request a stop; the models take both from there.

What is hard: steps of several threads between two critical sections; notifications
given after an unlock; flags read outside the lock; a stop or cancellation that
arrives between two looks at it; deadlines that race an event; a full queue
downstream. `PROJECT.json` lists each such hazard with its line.

## 2. Modules

```
BoundedFifo            what a closable bounded queue promises
BoundedBlockingQueue   the queue, atomic step by atomic step      implements BoundedFifo
BoundedBlockingQueue_proofs   TLAPS proofs
TaskDelivery           what an executor promises its caller
ExecutorFront          entry queue, handles, completion dispatcher, wait()
  SerialPipelineExecutor     extends ExecutorFront                implements TaskDelivery
  ParallelPipelineExecutor   extends ExecutorFront                implements TaskDelivery
  BatchPipelineExecutor      extends ExecutorFront                (does not: see 4)
ExecutorFront_proofs          TLAPS: what the three proofs share
  SerialPipelineExecutor_proofs, ParallelPipelineExecutor_proofs, BatchPipelineExecutor_proofs
HikrobotMvsCameraDevice      acquisition and the grabbing thread
  TimedTriggerSource         extends the device
MultiCameraSession           several sources into one executor
SourceParts                  model checking of TimedTriggerSource and MultiCameraSession
Sources_proofs               TLAPS proofs about both

FileSource                   a directory and its reading thread
  FrameExecutor              extends it: one source into one executor
SessionController            control thread and completion watch
  VisionService              extends it: commands, completion callback, metrics thread
EndpointRegistry             endpoints, publication, the dispatcher's thread
Service_proofs               TLAPS proofs about FrameExecutor, VisionService, EndpointRegistry
BufferPool                   leased buffers
  FramePipeline              extends it: Pipeline inside TimedPipeline
ImageTensors                 sizes and offsets of frames and tensors
  Assembly                   extends it: from documents to a session, one inference
TensorLeases                 the tensors of a session under load
Memory_proofs                TLAPS proofs about FramePipeline, TensorLeases and ImageTensors
ServiceParts                 model checking of FrameExecutor, VisionService, EndpointRegistry,
                             FramePipeline, ImageTensors and Assembly
```

**BoundedBlockingQueue.** `push` and `tryPush` (with `full()` inlined), `pop`,
`popFor` and `tryPop`, and `close` are broken at every atomic access; `ppc`, `cpc`
and `kpc` say where the three threads are. `slots`, `head`, `tail`, `closed`,
`dataEpoch`, `spaceEpoch` are the members; a 0 in `slots` is an empty optional.
`atomic::wait` is the step that compares the epoch (and sleeps if it is unchanged),
and the notify steps wake a sleeper, which goes round its loop again. Item `k` is
the number `k`. `MaxItems` bounds the pushes. The steps are interleaved as if atomics
were sequentially consistent. Under the acquire and release orders of the code the
data path is still covered: `head_` and `tail_` have one writer each, the epochs only
change by read-modify-write, and a late view of `closed_` is a late close. An execution
that needs a store to be delayed past a later load of another location is outside the
model.
Epochs do not wrap (2^64).

**ExecutorFront.** The part the three executors repeat word for word. `entryQueue`,
`accepting`, `stopRequested` are the members under `queueMutex_`; each critical
section is one action, and what follows the unlock is an action of its own:
`notify_one` after a take (`NotifySpace`), the two `notify_all` of `requestStop`
(`StopNotify`). Submitters are counted: `blocked` sleep on
`queueSpaceAvailable_`, `woken` have been notified and have yet to get the lock. A
wake-up is always due to a notification; a spurious one would only let a thread look
and sleep again. A refused `submit()` changes nothing and is left out. `delivered`
is the history of completions. `doomed[t]` records how far a task was when somebody
cancelled it, which is what the cancellation properties need. The queues between
stages, and the completion queue, are atomic bounded FIFOs: that is what
`BoundedBlockingQueue` is shown to implement.

**SerialPipelineExecutor.** `runnerPc` is the position in `runTasks`. `runningTask`
outlives the move of the task into the completion queue. An immediate stop in that
window reads through a moved-from object: the model lets it crash (`crashed`, after
which nothing happens) or read the value from before the move.

**ParallelPipelineExecutor.** One set of actions for the three stages: pop, first
look at the cancellation (`StageSkip`, `StageCall`), the call, which succeeds or
fails, second look (`StageRecheck`), push, exit. `immediate` is
`immediateStopRequested_`, tested outside any lock.

**BatchPipelineExecutor.** `collectBatch` polls: `CollectPop`, `CollectSawEmpty`
(the poll that found nothing), `CollectGiveUp` (deadline, or closed and drained) and
`CollectTestClosed` (the separate `isClosed()`), so that pushes and the close may
come in between. A push into the completion queue is entered and left in two steps,
so that two producers can be seen to overlap (`raced`); from there the queue's
contents are undefined and the model stops.

**HikrobotMvsCameraDevice and TimedTriggerSource.** The grabbing thread takes a
timeout, an SDK failure, an unusable image or an image; `CountFrame` extends the
camera's frame number, which counts modulo `Wrap`, as lines 464-471 do. The source's
two sides are the scheduling thread (`scheduler`), and the callback on the grabbing
thread (`grabber` in `deliver`, `callback`, `complete`). Time is left out: a wait
with a deadline may end whenever its predicate is false. The camera sends nothing
before the first trigger; after it, images may come late, unasked or with gaps.

**FileSource and FrameExecutor.** `Create` is what `FileSource::create` makes of a
directory: which files, in which order, or which status; the sort by write time leaves
files of the same time in any order (`ReadingOrders`). The reading thread is in
`source.thread`; its test of the stop token, the callback and the advance to the next
image are separate steps. `start` makes a new stop source, so an earlier stop is
forgotten. In `FrameExecutor`, `doing` holds the place of the four threads;
`requestStop` is four steps of whichever thread runs it (flag under the mutex, timer,
source, executor). The executor below is reduced to what `TaskDelivery` promises:
room for `Capacity` tasks, an answer to each, refusals only when it is stopped. A
submission is handed over in one step and counted in the next, and its result may be
counted in between.

**MultiCameraSession.** The same, with one thread per source, `start` taking the
sources in turn, and a failure that stops and joins those before it. A camera is a
`ContinuousCameraSource`, which only forwards to its device.

**SessionController and VisionService.** Each mutex-protected block is a step.
`ctl.control` and `ctl.watch` say whether the two thread members are joinable:
assigning to a joinable one ends the process (`"terminated"`). The watch thread asks
one source after the other whether it runs. The session below is its sources, which
start one after the other. `VisionService` adds the metrics thread (`live`), which
client and control thread replace or join while they hold `metricsThreadMutex_`
(`met.holder`), and who of them has set which payload last.

**EndpointRegistry.** Client calls are one step under the mutex. `publishState` is
four steps (look up, ask the provider, store, post) and `publishFrame` two, as the
mutex is free in between; the dispatcher runs the tasks in turn, and callbacks one
after the other. A frame task carries the generation of the registry it was made in.

**BufferPool and FramePipeline.** `acquire` under the mutex and the notification after
a release are separate (`owed`). A packet owns the camera frame until the image has
been prepared, or until the end; each stage may fail. `FramePipeline` chooses how
`finishExecution` is called among the ways of the three executors, with its two locked
parts as two steps.

**ImageTensors.** The arithmetic of `Frame::create`, `Tensor::create`, `subview`,
shapes and strides, the resize, crop, to-tensor and normalize nodes, and concat and
split of batches, in a `size_t` that ends at `SizeMax`; `UIntMax` and `IntMax` are the
limits of `uint32_t`, to which the crop's `build()` narrows its size
(`cvCenterCropNode.cpp:50-52`), and of `int`, which bounds what the resize node makes
(`cvResizeNode.cpp:78-79`). `VectorMax` stands for the most elements that a vector can
have or memory holds, one limit for vectors of everything: `BufferPool::create` catches
the exceptions of a longer one, the executors' constructors do not. Pixels are left out:
what counts is which bytes a result reaches. `Inputs` says what is given to them: any header
with any buffer, a chain as the loaders make it with a frame that `Frame::create` made,
members of a batch with a leading dimension of one. **Assembly** is what loaders, factories,
assembler and preset accept, check by check, and what they build from it; texts are
reduced to what they say, numbers keep nan and infinity. An assembled session says
whether its executor was made or its constructor threw a `length_error` (its queues have
`stageQueueCapacity` slots each, with the preset's serial policy `queueCapacity`). The
only variable of both modules is the input.

**TensorLeases.** Where the tensors of a session's `ToTensor` node are between
preprocess and the end of a batch: in hand, in the stage queue, in the batch.

## 3. Runs

| Run | Configuration | Shows |
|---|---|---|
| `queue` | capacity 2, 5 items | `SlotExclusion`, `FifoDelivery`, `DrainedOnClose`, `NoLostWakeup`, `CloseReleasesAll`, and the refinement `ImplementsFifo` with its liveness |
| `serial` | 2 submitters, capacity 1, Block, 4 tasks, tasks 2 and 3 cancellable | `ImplementsTaskDelivery`, `CancellationDecides`, `CancelledInQueueNeverRuns`, `NoLostWakeup`; every task is delivered, wait() returns, a stop releases sleeping submitters |
| `parallel` | 1 submitter, 3 tasks, stage queues of 1, task 2 cancellable | the same promise, with its liveness, while three stages overlap |
| `batch` | 1 submitter, 3 tasks, batches of up to 2, task 2 cancellable | what batch execution keeps: `EveryTaskInOnePlace`, `SuccessesInOrder`, `CancellationDecides`, `OnlyPreprocessedAreStranded`, `WaitReturns` |
| `source_parts` | a trigger source with frame numbers modulo 3 and 4 images; a session of 2 sources, queue of 1, one frame each | `SequenceCountsImages`, `ErrorIsLast`, `RoundWaitsForCallback`, `RunEnds`; `NothingRunsOn`: a failed start and a wait() leave nothing running and every frame is accounted for; `SessionEnds` |
| `service_parts` | the parts below, side by side | see the next table |

`source_parts` and `service_parts` check several modules in one run: `part` names the
component that runs in a behaviour, with its own initial states and actions, while the
others stay in an initial state of theirs (of `ImageTensors`, a frame that is refused at
once). They do not interact there; each sits on its
own model of what is below it.

| Part | Bounds | Properties |
|---|---|---|
| `FrameExecutor` | queue of 1, 3 frames, 3 images of which one is unreadable and two have the same time, every limit and policy | `SummaryComplete`: what wait() returns adds up. `FrameRunEnds`: a bounded or stopped run ends |
| `VisionService` | 2 finite sources, one frame each, 2 loads, up to 3 starts after each | `NothingOutlivesConfigure`, `FinalSummaryWins`; `RunIsReported`: no join under the metrics mutex blocks the report |
| `EndpointRegistry` | one state, one stream, 4 client calls, 2 frames | `NoStrandedFrame`: a stream that waits for a dispatch gets one, across clear, remove and registering again |
| `FramePipeline` | 1 buffer, 2 packets | `PoolConservation`: buffers are conserved and no sleeper is forgotten. `CountedOnce`: each execution is counted once |
| `ImageTensors` | frames up to 4 by 4, larger ones that must be refused, crops around every limit; `SizeMax`, `UIntMax`, `IntMax` of 20, 10 and 9 bits | `NoByteAstray` |
| `Assembly` | a good profile, package, plugin and deployment, varied in one or two places, with sizes of 0, of -1 to -3 and beyond `VectorMax` (12 bits) | `AssembledIsRunnable` |

Six further runs have counterexamples; they are described in 4.

*Bounds.* Capacity 2 with 5 items makes both indices wrap twice and lets the queue
be empty, partly full and full. Queues of capacity 1 make every wait in the
executors happen; two submitters are needed for one to be woken while the other
takes the slot. Three tasks fill a stage each; with the entry queue at 1 and stage
queues at 1 a fourth would only wait. A batch of 2 out of 3 tasks leaves both a full
batch and one cut short. `Block` behaves like `Drop` until a queue is full, and the
refused call of `Drop` changes nothing, so the runs use `Block`. One or two
cancellable tasks are enough because a cancellation concerns its own task only.
`Wrap = 3` with 4 images passes the wrap with every gap. Two sources are needed for one
to end before the other starts, or to be rolled back when the other fails, one buffer
for the second packet to wait for it, two loads for a session to replace another; four
calls of a client suffice to subscribe to a stream, remove or clear it, register it again
and subscribe again. With a `size_t` of 20 bits a real tensor of 224 by
224 fits, while rows of 2^19 bytes or a width of 2^18 pixels make products wrap as they
would near 2^64; with `uint32_t` of half as many bits the product of two narrowed sides
still fits, and with `int` one bit below, as in the code, a frame may be resized to the
longest side that is allowed and not to the next. `VectorMax` lies between the sizes that
work and those that a negative number becomes. In `tensor_pool`, a stage queue of 2, batches of 2 and 8
frames fill every place that can hold a tensor. Deadlock is checked in the runs of the
queue, the executors and the sources: a state is final only when `Stopped`,
`Terminated` or `SessionRests` says so. In `service_parts`, `session_finite_run` and
`tensor_pool` it is not, because the bounded parts come to an end; there the liveness
properties say that nobody hangs.

*Fairness.* Weak fairness per thread the program has started: the operating system
runs it, its mutexes are held for short, and pipeline calls, callbacks and SDK
fetches return (they have timeouts, or no result could be promised at all). A
submitter that has been notified gets the lock. Nobody has to submit, cancel, stop
or start anything. `wait()` is not assumed to be called, so `EveryTaskDelivered`
also says that delivery needs no stop. In `service_parts` one thread of each part shares
a fairness conjunct: as only one part runs in a behaviour, the conjunct is that part's.
`FrameRunEnds` and `SessionEnds` are about `wait()` once it has been called. Sources
that nobody stops need not end.

## 4. Disagreements found

* **Serial, immediate stop** (`serial_immediate_stop`, `NoMovedFromAccess`).
  `requestStop(Immediate)` follows `runningTask_` (line 98) after `queueCompletion`
  has moved the task (154, 161) and before it is reset (165).
* **Batch, graceful stop** (`batch_drain`, `StopDrainsAccepted`). `collectBatch`
  takes a flush timeout for the end of the input if the queue is closed before line
  248 looks. Tasks that were accepted stay in the queue when the thread leaves, and
  their futures are never completed. `OnlyPreprocessedAreStranded` in the passing run
  says that this is the only place where tasks can be left.
* **Batch, two producers** (`batch_producers`, `SingleProducer`). The inference
  thread completes cancelled and failed tasks itself, in parallel with the
  postprocess thread; the completion queue is made for one producer.
* **Trigger errors** (`trigger_errors`, `OneTerminalError`). A device error and a
  failing trigger in one round deliver two errors, perhaps at the same time.
* **Finite runs cut short** (`session_finite_run`, `FiniteRunCollectsAll`). The
  completion watch thread may look at the sources before the control thread has
  started them, or between two of them, find none running, and stop the session
  (`sessionController.cpp:165-172`). `sessionControllerTest.cpp:153` expects all frames.
* **Tensor pool too small** (`tensor_pool`, `NoFrameFailsUnderLoad`). The assembler
  gives the `ToTensor` node `stageQueueCapacity + 2` buffers
  (`sessionAssembler.cpp:248`), and it fails instead of waiting when there is none.
  A batch executor may hold `stageQueueCapacity + maxBatchSize + 1`: accepted frames
  fail under load. With batches of one the pool is large enough (proved, see 5).

Others were met while modelling and have no run of their own. Where a document, comment
or test is contradicted:

* A stop during `TimedTriggerSource::start` is lost because the device makes a new stop
  source when it starts (`RunEnds` holds for every later stop and excludes that one).
  The same goes for a stop, or the duration timer, that comes while `FrameExecutor` or
  `MultiCameraSession` have yet to start a source: `FrameRunEnds` and `SessionEnds` are
  about the later ones.
* In batch execution an immediate stop does not reach the tasks that are past the
  inference thread's look (`architecture.md:241`).
* `visionService.cpp:153-157` says that the final summary and performance are never
  overwritten by a racing live tick. For the summary it holds (`FinalSummaryWins`). For
  the performance it does not: the batch observer sets the final payload inside `wait()`
  on the control thread, before the callback interrupts the metrics thread.
* `ProfileLoader` takes negative numbers as sizes (`profileLoader.cpp:168-187`), which
  `ConfigLoader` refuses (`configLoader.cpp:83-84`). Two of them are not refused later
  either. With `stageQueueCapacity` -1 the tensor pool gets -1 + 2 = 1 buffer
  (`sessionAssembler.cpp:248`; with -2 it gets none and is refused) and the batch
  executor's constructor then makes queues of 2^64 - 1 slots
  (`batchPipelineExecutor.hpp:52-54`, `boundedBlockingQueue.hpp:29-30`): the
  `std::length_error` leaves `createBatchExecutor`, `assemble` and `loadProfile`, although
  `architecture.md:367` says that every API that may fail returns a `Result` and that no
  exception crosses the SDK's boundary, and `:271` that ranges are checked before a
  runtime is made. With `maxBatchSize` -1 the session is made, and
  `members.reserve(maxBatchSize_)` (`batchPipelineExecutor.hpp:224`) throws in the
  `noexcept` thread function: the process ends at the first frame that reaches a batch.
  `AssembledIsRunnable` names these two cases, and that of the preset below, and says
  that there is no other: what else is made can run.
* `architecture.md:239` promises results strictly in the order of submission. In batch
  execution failed and cancelled tasks overtake those in a batch; `SuccessesInOrder` claims
  the order of successes only.
* `endpointDispatcher.hpp:22-23` wants `shutdown()` called before what the tasks refer to
  goes. `VisionService::shutdown` (`visionService.cpp:127`) does not, and on destruction
  the registry goes before the dispatcher; likewise the metrics mutex and aggregator go
  before the session controller joins the thread whose callback uses them.

Behaviour that a caller should know, without a text that says otherwise:

* A second `session.start` after a finished run, without a new profile, assigns to a
  joinable thread and ends the process (`sessionController.cpp:71`). The model has it as
  `"terminated"`; `NothingOutlivesConfigure` says that it takes such a second start, and
  does not claim that there is none.
* `loadProfile` fails after the new commands are registered: they drive the session of
  the profile before. Reloading a profile with cameras opens them (line 73) while the
  session that holds them is still there (it is replaced at line 81).
* `publishState` may give the newest version to an older payload, and post versions out
  of order. Callbacks may run after `unsubscribe`.
* A profile may be accepted of which every frame fails (a crop larger than the resized
  image, as many means as the model has no channels, a pixel format that no node takes).
  `CvCenterCrop::build` narrows its size to 32 bits: a crop of 2^32 + 224 builds a
  `ToTensor` of 224, which would take no frame of the crop's size. None comes, because
  the resize node makes no side that is not an `int`; this is why the chain part of
  `NoByteAstray` holds. A frame whose own side is not an `int` is left to OpenCV.
* `AnomalyPreset` with the serial policy gives a `queueCapacity` beyond what a vector can
  have to the completion queue: `create()` throws.
* A score of NaN gets the decision Ok (`anomalyThresholdPostprocessor.cpp:61`). The
  registry's range check lets NaN pass (`endpointRegistry.cpp:210`); `CameraService`
  refuses it.
* `concatBatchTensors` compares only byte sizes (`batchTensors.hpp:43`) and multiplies
  unchecked (line 38); `NoByteAstray` is about batches whose members fit in memory
  together.
* The state `Configuring` is never entered, and `lastError_` is never cleared.

## 5. Proofs

`BoundedBlockingQueue_proofs` proves, for every `Capacity` in Nat \ {0} and every
`MaxItems` in Nat (the two named assumptions, nothing else):

* `TypeCorrect`, `SlotExclusionHolds`, `FifoDeliveryHolds`, `DrainedOnCloseHolds`,
  `NoLostWakeupHolds`: the five invariants of the run `queue`;
* `ImplementsFifoSafety`: every behaviour of the queue is one of the closable FIFO.

None of the invariants is inductive alone; `IInv` (theorem `InductiveInvariant`)
conjoins

* `RingInv`: the `Capacity` consecutive indices from the first stored item on are
  split into stored items, whose slots hold them, and empty slots, and a thread that
  has decided to enter a slot still has one. Two indices less than a capacity apart
  have different slots (`SlotOfInjective`, from division with remainder), so a
  write at one end leaves the other end alone;
* `CloseInv`: only a push that read `closed_` before it was set can still add an
  item, hence at most one item after the cut;
* `ConsumerWakeInv`, `ProducerWakeInv`: while the epoch a thread read is current,
  whoever made its condition true has yet to increment the epoch; once it is not
  current, a notification is still due. These two give `NoLostWakeup`;
* `BoundInv` keeps the counters within the model's bound.

Each part is preserved by each action, in one lemma per part with one step per
action. The refinement maps the take of a slot to `Get`, the store of `tail_` to
`Put`, the store of `closed_` to `Close`, the step that reports the end to
`EndOfStream`, and everything else to a stutter. TLC also checks the FIFO's fairness
(`ImplementsFifo`) and `CloseReleasesAll`; liveness is beyond this prover.

**Sources.** Of `TimedTriggerSource`, `Sources_proofs` proves `TypeCorrect`, `SequenceCountsImagesHolds`,
`ErrorIsLastHolds` and `RoundWaitsForCallbackHolds` for every `Wrap` of at least 2 and
every `MaxFrames`. Its `IInv` adds to the types

* `CountInv`: the grabbing thread's counter is the camera's, and the last number it saw
  is the camera's modulo `Wrap` (`FrameCounted`, by `ModDifference`);
* `StartInv`, `TriggerInv`: nothing is triggered before `start()` has activated the
  source, and no image comes before the first trigger, so the reset at the start of
  the first round forgets nothing;
* `ErrorInv`: each thread sets `terminal_` before it delivers an error. The grabbing
  thread tests it first and the scheduling thread leaves afterwards, hence at most two
  errors, and no frame after either;
* `RoundInv`: while the run goes on, a callback that runs holds the response of the
  current round, and `callbackCompleted` means that it has returned. Without the part
  about the interval a late image could start a callback just before the next trigger.

Of `MultiCameraSession` it proves `NothingRunsOnHolds` for every number of sources and of
frames each, every limit of the queue and all options, assuming that there is a source
(`CountAssumption`: `start()` refuses none, `multiCameraSession.hpp:80`) and that the
sources that will not start are among them (`BrokenAssumption`). `SessionInv` has

* `MainInv`: from main's place follows which sources have never been started (those from
  the one that `start()` or the rollback is at), and which are over (those it has
  passed). The rollback's order of stopping and joining each source in turn is what makes
  the second half inductive: a source that is only stopped may still be in its callback;
* `SessionBalance`: the frames received are those counted plus those that some source's
  thread is handing over just now, and results plus pending tasks are the submissions
  counted plus those about to be. When the sources are over nobody is handing over, and
  what `NothingRunsOn` says of the counters remains.

The counters per source are summed by a fold over a function. What the fold returns is
unfolded once (`TotalIsSum`), and that one more of one is one more in total
(`TotalOneMore`) is proved by induction on the set that is left to add up, from the
well-foundedness of the naturals (`Naturally`, `ByRemoval`).

**The executors.** `ExecutorFront_proofs` holds the invariant of what the three share
and the lemmas about it; the constants are arbitrary (any number of submitters and
tasks, any capacities and batch size, both policies, any set of cancellable tasks)
under the named assumptions of the modules, which say no more than that capacities are
positive. Each executor adds the invariant of its own threads and proves

| | Serial | Parallel | Batch |
|---|---|---|---|
| the abstract specification | `ImplementsDelivery` | `ImplementsDeliverySafety` | does not hold, see 4 |
| a cancellation in time decides | `CancellationDecidesHolds` | `CancellationDecidesHolds` | `CancellationDecidesHolds` |
| cancelled in the queue, never run | `CancelledInQueueNeverRunsHolds` | `CancelledInQueueNeverRunsHolds` | |
| no lost wake-up of a submitter | `NoLostWakeupHolds` | `SleepersHaveAReasonHolds` | `SleepersHaveAReasonHolds` |
| tasks in one place, stranded where | | | `EveryTaskInOnePlaceHolds`, `OnlyPreprocessedAreStrandedHolds` |
| successes in order | from the refinement | from the refinement | `SuccessesInOrderHolds` |

No property of the first column is inductive: that deliveries come in order says nothing
of the queue the next one comes from. The inductive invariant `IInv` of each executor
has these parts, each preserved in a lemma with a step per action:

* *Order* (`ExitOrder`, `EntryOrder`, `OrderInv`): counted from the last delivery back,
  task ids are consecutive. The completion queue holds the ids after the popped ones,
  then comes the task in the hand of the last stage, then its input queue, and so on up
  to the entry queue, whose last id is `nextTaskId - 1`. With it every delivery is the
  next one, no task is delivered twice, and "all queues empty" means "all accepted tasks
  delivered". The batch executor breaks this line at the inference thread's look, where
  failures overtake, so there the invariant has the line up to the look (`LineInv`), a
  bound on the ids beyond it (`BeyondInv`), and a count: the places together hold the
  accepted tasks (`PlaceInv`), as many entries as accepted tasks and each accepted
  task among them, hence each once.
* *Space* (`SpaceInv`): while a submitter sleeps, the executor is being stopped and
  the `notify_all` is still to come, or tasks in the queue, submitters already woken and
  a notification still to come fill the queue. This is where the notification after the
  unlock counts: `Coming` is 1 between the two.
* *Cancellation* (`DoomInv`, `HonourInv`; `DoomedInv`, `ReasonInv`, `DecidedInv`): who was
  cancelled in time has a request on record; a result says "Cancelled" only with a
  reason; past the last look at the flags no result ignores a cancellation. That look is
  where the argument turns: the recheck after the pipeline call for serial and parallel,
  the look before a task joins a batch for the batch executor.
* *Start* (`StartInv`): the pipeline has only been called for tasks that were looked at.
* *Successes* (`SuccessInv`, batch only): between each two places, from the delivered
  tasks back to the batch, and inside each of them, the ids of successes rise.
* *Exit* (`ExitInv`): threads leave one after the other with their input drained, and
  `wait()` goes on only behind the last.

The refinement maps `delivered` to the abstract history, the accepted tasks to
`1 .. nextTaskId - 1`, and every step that is not a submission, a delivery or the return
of `wait()` to a stutter. In `serial` the property checked has no liveness part and
is proved as it is; in `parallel` it has fairness, which only TLC checks. Of the batch
executor all this is proved as long as its completion queue is intact; the run
`batch_producers` shows that it need not be.

**The service.** Of `FrameExecutor`, `Service_proofs` proves `SummaryCompleteHolds` for every
capacity, every finite directory (`DirectoryAssumption`) and all options whose counts are
naturals (`OptionsAssumption`; the code's are unsigned). `FrameInv` has

* `StopInv`: only a run that has been told to stop refuses, and only `wait()` finishes it;
* `MainInv`: what main has waited for, by its place. A source that was never started
  needs no join, which is the case after a failed start;
* `WorkerInv`, `BalanceInv`: a frame is in hand during the source's callback only, and
  the counters add up with what is in hand: a result that is counted before its
  submission makes the sum wrong only as long as the worker is at `"submitted"`;
* `CountInv`, `ImagesInv`: no more frames than were asked for, nor than the directory
  has when it is read once. The limit is tested after the frame was counted, so that
  the argument is that a run at its limit has been told to stop before the next frame.

Of `VisionService` it proves `NothingOutlivesConfigureHolds` and `FinalSummaryWinsHolds`
for any sources and any number of loads, starts and stops. `ServiceInv` has

* `LiveInv`: past the join of the metrics thread a load finds it over, hence a tick that
  holds a session holds the configured one;
* `JoinableInv`: a thread member is joinable only after a start; the control thread
  works only while its member is, and `configure()` has joined both. The process ends
  only on a second start of the same session;
* `RunInv`: the control thread works on an active run, and a start finds no result;
* `SummaryInv`: when the completion callback has joined the metrics thread no tick is
  between taking its counters and storing them.

Of `EndpointRegistry` it proves `NoStrandedFrameHolds` for any
names and kinds, any number of subscriptions, publishers, calls and frames. With the types,
which keep a slot's task and the slot's generation of the same shape, the
property is inductive: each step changes one slot (`OneSlotKeeps`), takes one task from
the dispatcher (`TakeOther`) or appends one (`PostTask`). What has to be argued is that a
task of an older generation, or of a name that has been registered again, does not pass
for the one a waiting slot is owed. The assumptions are that names have kinds
(`KindAssumption`) and that what is registered is named (`RegisteredAssumption`).

**Memory pools.** `Memory_proofs` proves `PoolConservationHolds` and `CountedOnceHolds`
for every finite set of packets and every number of buffers (`TakersAssumption`,
`BuffersAssumption`). `IInv` has

* `OwnInv`: every buffer is available or with one packet. The equation of the property
  (available and leased buffers add up) is not stated there but derived from it at
  the end, by a bijection between the packets that hold a buffer and the buffers that are
  out. `GiveBack` covers the single release and a batch that dies as one;
* `WakeInv`: the property's own clause on sleepers, which is inductive: a release raises
  both sides by as much, and who takes a buffer was one of those awake;
* `IdleInv`, `StageInv`: a packet has a stage only once it has its frame, an execution is
  begun by its first stage only, and from the moment its timing is erased until the packet
  is gone the timing stays erased, which is why a second `finishExecution` cannot
  count it again;
* `CountInv`, `ReportInv`: the counters, and that nothing moves after the report.

All actions fall into six kinds of step (`StepKinds`), and each part is preserved
by each kind. `BatchesOfOneFindTensors`, for every stage queue and every number of
frames, shows that with `MaxBatch` at most 1 `NoFrameFailsUnderLoad` holds: at most
one tensor per frame in hand, queue and batch (`HeldBound`), bounded by 1, `StageQueue` and
`MaxBatch`, so that `InUse` is below `StageQueue + 2` whenever a frame is about to be
preprocessed with an empty hand (`TensorLeft`). The run `tensor_pool` shows that batches
of two break it.

**Frames and tensors.** `Memory_proofs` proves `NoByteAstrayHolds` for all widths of the
integers (`SizeMaxAssumption`: a largest `size_t` is positive; `LimitsAssumption`: `int` is
not wider than `uint32_t`, and a vector's length plus two is a `size_t`) and all `Inputs`; TLC finds its own
samples among them and the documents below (`SamplesAssumption`). For each operation that wraps there
is an exact counterpart, computed without a limit, and a lemma that they agree:

* `FrameExact`: `Frame::create` accepts just what fits in the buffer (`Described`) and
  makes `FrameOf` of it; `CropInside`: the middle of a frame is described too, to the last
  byte; `ReadInside`: what `readRgb` reads of it is where the crop was taken. Together
  they are `FrameIsSound`. The key is `Quotients`: a test by the quotient is a test of
  the product that was never computed;
* `CountExact`, `ContiguousExact`, `PackedBytes`, `MetadataExact`, `TensorExact`: the
  same for tensors, over `Counts`, the number of elements behind each dimension;
* `FlattenExact` and `Divided`: pieces of equal length are where they were joined, hence
  `BatchIsSound`: `splitBatchOutputs` undoes `concatBatchTensors`;
* `BuildSteps`, `RunSteps`: a chain is built and run one node after the other, with the
  size that each node's `build()` saw; `ResizeExact`, `CropExact` and `TensorBuilt` say
  what each node makes of a frame, hence `ChainIsSound`. A crop that fits in a resized frame
  is no wider than an `int`, hence narrowing leaves it alone (`NarrowInt`).

The folds over shapes, nodes and members are functions on sets of indices chosen by
their equations: `FoldExists` shows, by induction on the number of indices, that such a
function exists when the steps stay in a set, and `FoldValue` what it returns. The
induction is over sets of naturals (`Upward`), which needs no operator parameter.

**Documents and sessions.** `Memory_proofs` also proves `AssembledIsRunnableHolds`, for
documents of any length and content of which `DocumentTyped` holds (lists are lists, paths
are sequences of names, numbers are numbers; nan and infinite ones included):

* `SourcesBuilt`: however many sources a profile lists, what is built of them has a stream
  for each, of a name of its own, and no camera twice. It is the invariant of a fold over
  the list (`FoldKeeps`, `OneMoreStream`), where `DeviceIsNew` says that a source opens one
  of the cameras that its own options select, and none that is open;
* `TensorsMade`: `stageQueueCapacity + 2` may wrap to zero, but then the chain does not
  build (`BuildAccepts`), hence the session's pool has tensors, and no more than a vector can
  hold. `TwoMore`: it wraps for the two largest numbers only, so that a pool that was made is
  two larger than the queues, or the capacity is `SizeMax` and the executor throws;
* `ProfileRead`: a capacity that is read is a `size_t`, and a batch is longer than a vector
  only if the document asks for it; `AssembledRuns` and `PresetRuns` collect what else was
  looked at on the way, and `LoadDeployment` refuses what an `int64_t` cannot hold;
* `SelectedInside`: a prefix of a prefix is one, hence the artifact is in its package;
* `OutputsHaveRoom`, `DecisionHasRoom`: whatever a plugin asks room for, in which order and
  how often, an output that exists has the bytes its shape needs (`MetadataExact`), so that a
  decision from an output with one element reads bytes that are there.

**Model-checked only.** All liveness (`CloseReleasesAll`, `RunEnds`, `SessionEnds`, `FrameRunEnds`,
`RunIsReported`, `EveryTaskDelivered`, `WaitReturns`, `StopReleasesSubmitters`, and the
fairness in the refinements of the queue and of the parallel executor) is out of the
prover's reach. Every invariant that a passing run checks is proved.

## 6. Not modelled

Vendor SDKs, inference engines and plugins appear as calls that succeed or fail; of the
Hikrobot device only acquisition, selection, settings and frame numbers are modelled, not
the leases of SDK frames. The arithmetic on pixels, timestamps, durations and metrics
values, and the texts of payloads, manifests and logs are left out, and so are the
classification and detection postprocessors, OpenCV pipelines, and the user interface
part of a profile. `VisionService` is modelled up to the client's last call, not its
destruction. The Qt shell, samples and tools are a user interface, examples and build
scripts. `isRunning()` and `running_` in the trigger source only answer a query.

## 7. Plan

1. **Composition**: `MultiCameraSession` over `BatchPipelineExecutor` itself, where
   both are reduced now; `SessionController` over `MultiCameraSession`.
2. **Hikrobot frame leases**: frames that outlive the device, and its handle's last owner.
