# TLA+ models of mcraw-speedtranscode

`mcraw convert` reads a MotionCam RAW clip, develops every frame (on the CPU or
on a Vulkan device), encodes it as ProRes, and publishes a MOV with a JSON
sidecar. Most of the program is arithmetic on pixels. What is hard to get
right, and hard to test, is how frames travel: through a pool of workers, a
reorder buffer or a chain of GPU stages, past a muxer that wants them in order,
into a file that replaces another one. These modules model that part.

Paths below are relative to the repository; `writer` is
`src/output/ffmpeg_writer.cpp`, `main` is `src/cli/main.cpp`.

## 1. Inventory

| Component | State | Operations | Interacts with | Must hold |
|---|---|---|---|---|
| Conversion loop (`command_convert`, main) | `pending` futures, `frames_completed`, `audio_index` | submit a frame, consume the oldest future, write due audio, finish | worker pool (futures), writer (calls, exceptions) | frames and audio merged in order; in-flight bound; the scope always ends |
| `PersistentWorkerPool` (`core/worker_pool.hpp`) | queue, `accepting_`, telemetry, worker threads | `submit`, `cancel`, `run`, `telemetry` | shared queue under `mutex_`, stop tokens | every future completes or breaks; workers join; telemetry counts tasks |
| `FfmpegWriter`, CPU video (writer) | `job_queue`, `completed` (reorder buffer), sequence numbers, `jobs_in_flight`, failure and stop flags, encode threads | constructor, `write_video`, `finish`, destructor, `worker_main`, `complete_job` | `pipe_mutex`, `job_cv`, `space_cv`, `mux_mutex`; codec contexts; muxer | packets in submission order, none lost; one drainer; bounded memory; errors reach the caller; nothing hangs |
| `FfmpegWriter`, Vulkan video (writer) | three bounded queues, stop / abort / failed / done flags, three threads, encoder delay | `write_video`, `vulkan_prepare_main`, `vulkan_gpu_main`, `vulkan_packet_main`, `fail_vulkan_pipeline`, `stop_vulkan_threads` | `vulkan_mutex`, six condition variables; frame writer; encoder; muxer | no queue drops a frame; flush last; a failure cancels everything; frame pool never empty |
| `FfmpegWriter`, audio (writer) | encoder, `audio_pts_clock` | `write_audio`, flush in `finish` | muxer under `mux_mutex` | sample-contiguous PTS, in step with the video |
| `VulkanRgbToYuvFrameWriter` (`vulkan/vulkan_rgb_to_yuv_frame.cpp`) | ring of slots: buffers, status word, views, fence, `in_flight` | `pack`, `pack_camera_rgb`, `pack_raw_mosaic`, `wait`, destructor | GPU queue, FFmpeg frame pool | no reuse before the fence; rejections reported; teardown after the GPU |
| GPU command stream, camera and RAW resources, packer (`vulkan/*`, the shaders) | buffers, descriptor sets, pipelines, fences, query pools | construct, record dispatches and barriers, submit, wait, destroy | GPU, host memory | no unsynchronised access; nothing leaked; waits end |
| `VulkanProResEncoder`, `CpuProResEncoder` (`output/*_encoder.cpp`) | `buffered`, `flush_sent`, `reached_eof` | `send`, `drain`, `flush` | libavcodec | every packet handed out once |
| Output publication (main, `output/sidecar.cpp`) | partial file, output, sidecar | open, validate, remove, rename, write sidecar | file system, other programs, restarts | nothing half-written is published |
| Audio timing (`core/audio_timing.cpp`) | none (pure), `AudioPtsClock` | analyse, normalise, crop | main, writer | no overflow, contiguous timeline |
| Backend selection, configuration, execution plan (`output/backend_selection.cpp`, `core/config.cpp`, main) | none (pure), one encoder during the preflight | probe, validate, select, plan | main, encoder | fallback rules; a thread for every frame; pool large enough |
| MCRAW reader (`io/mcraw_reader.cpp`) | idle decoder pool | lease, return, load | workers | one decoder, one user |
| `VulkanRuntime` (`vulkan/vulkan_runtime.cpp`) | instance, device, queue | create, select a device | driver | — |
| Image processing, metadata, pixel types, timings, other commands, wrappers, benchmark tool | none that evolves | — | — | numerical |

Behaviours that are hard here: threads that release a mutex around slow work
(writer:1311, writer:1078-1100), condition variables notified after the
unlock, two or more components failing at once, teardown from any state
(constructor exceptions included), results that come out of order, a GPU that
reads buffers long after the call that filled them and runs dispatches in any
order the barriers allow, libavcodec calls that answer "again" at any time,
positions rounded back and forth between samples and nanoseconds, and a process
that may be killed between `remove` and `rename`. `PROJECT.json` lists the hazards one by
one with the lines where they bite and the properties that guard them.

## 2. Modules

| Module | Models | State and actions against the code |
|---|---|---|
| `OrderedSink` | what the writer promises about its video track | `accepted`, `written`, `status`; a frame is its timestamp |
| `CpuEncodePipeline` | CPU path of `FfmpegWriter` | one step per critical section or per call made outside the lock. Variables carry the members' names; `worker` and `caller` say where the threads are, `job` what each holds; `submitted` and `muxed` are the history of accepted frames and of the file |
| `CpuEncodePipelineProps` | properties, inductive invariant, refinement mapping of it | — |
| `CpuEncodePipeline_proofs` | theorems | — |
| `VulkanPipeline`, `VulkanPipelineProps` | Vulkan path of `FfmpegWriter` | `pc[t]` for the prepare, GPU and packet threads; the queues have the members' names; `preparing`, `batch`, `writing` are the locals an element lives in between two queues; `encoder` is what the codec holds back; `thrown` the exception a thread is about to report |
| `CommonFacts` | lemmas the proofs share: sequences, induction, arithmetic | — |
| `VulkanPipeline_proofs` | theorems | — |
| `VideoEncoder` | what an encoder promises its caller | `inside` is what it owes, in order; `returned` what it has handed over |
| `ProResEncoder` | `VulkanProResEncoder` around libavcodec | one step per call of libavcodec; `held`, `full`, `draining` are the codec, the rest has the members' names |
| `BackendPlan` | `select_backend`, `resolve_execution_plan`, the sizes of `create_video` | operators; no state |
| `Startup` | preflight, selection, plan, creation of the encoder and its use | `phase` says where `command_convert` is |
| `Startup_proofs` | theorems, also about `BackendPlan` | — |
| `FrameSlots` | the slot ring of `VulkanRgbToYuvFrameWriter` with the GPU | `queue` is what was submitted and not finished; `image[f]` records from which upload an output was computed |
| `FrameSlots_proofs` | theorems | — |
| `RcdDemosaic` | the eight passes of `rcd_demosaic.comp.glsl` | the cells an invocation reads and writes; no state |
| `GpuCommands` | the command buffers of the four classes that record any | for each operation the dispatches, copies, fills and barriers with the buffers each touches |
| `GpuQueue` | external: the queue, fences, timestamp queries, visibility of memory | `pending` submissions, whose commands execute in any order the barriers allow; at its end `Synchronized`, the test on pairs of commands a recording must pass |
| `GpuClient` | construction, operations and destruction of `VulkanRgbToYuvFrameWriter`, `VulkanCameraPipelineResources`, `VulkanRawPipelineResources`, `VulkanRgbToYuv422` | `step` counts the resources made, then the steps of a call, each of which may throw; `live` is what exists |
| `GpuClient_proofs` | theorems, also about `RcdDemosaic` | — |
| `WorkerPool` | `PersistentWorkerPool` | worker steps, and operators for what `submit` and `cancel` do |
| `DecoderPool` | the decoder leases of `McrawReader` | `idle_decoders`; `lease[u]` and `decoder[u]` say where a thread is and what it holds |
| `AudioTiming` | `audio_timing.cpp`, the crop of main, `AudioPtsClock` | operators with their 64-bit checks |
| `Conversion`, `ConversionProps` | the loop of `command_convert` | `main` says where the loop is; `file` is what the writer was given, in order |
| `Conversion_proofs` | theorems, also about `AudioTiming` | — |
| `OutputPublish` | the partial file, the output and the sidecar | a file is who wrote it, whether it is complete and what is wrong with it |
| `OutputPublish_proofs` | theorems | — |
| `MC*` | instances for TLC | model values and small sets |

How they compose. `Conversion` extends `WorkerPool`, `DecoderPool` and
`AudioTiming` and steps them together: a worker runs a task by loading its
frame with a leased decoder. `CpuEncodePipeline` and `VulkanPipeline` both
refine `OrderedSink`, so `Conversion` uses the writer as that: a call that
accepts the next frame or throws. `Startup` extends `ProResEncoder` and
`BackendPlan`: the preflight uses one encoder, the conversion another one.
`ProResEncoder` implements `VideoEncoder` (`QueueSpec`), which is the queue
`VulkanPipeline` keeps in `encoder`; the bound of that queue and the size of
the frame pool meet in `PoolFits`. `VulkanPipeline` uses the slot ring as a call
that succeeds or throws, which is what `FrameSlots` shows it to be
(`DrainedAreGood`, `WaitsEnd`). `GpuClient` runs the operations of
`GpuCommands` on `GpuQueue`; `FrameSlots` has in one step what `GpuClient` shows
a submission of the frame writer to compute. `OutputPublish` uses the whole
conversion as a step that seals the partial file or fails.

Some modules contain definitions marked *Faulty*. They are no part of any
specification: each is the next definition with one plausible mistake, and
substituting it must make the property named in `PROJECT.json` fail. They
document what each property is sensitive to.

## 3. Runs

| Run | Checks | Bounds, and why they suffice |
|---|---|---|
| `cpu` | order, completeness, limit, exclusive drain, no write after a failure, refinement of `OrderedSink`; every call returns, accepted frames get written, a caller that waits is told the first failure | two contexts, which finish in both orders, limit 4 (contexts + 2, as `create_video` computes it), up to 5 frames: one more than fit, so the caller waits. The theorems carry the safety part to all sizes |
| `vulkan_safety` | nothing dropped, flush last, cancellation, teardown, pool size, no timestamp refused at the muxer, the cause of a failure not hidden by cancellations, refinement of `OrderedSink` | all capacities 1 and an encoder that holds one frame, so each queue is full and empty in turn; a clip of 6 frames fills every stage; two more clips repeat a timestamp or go back |
| `vulkan_liveness` | every call returns; submitted frames reach the encoder | same capacities, clips of 3 and 2 frames |
| `slots_safety` | buffers, fences, rejections, termination | two slots (the code uses at most two), five frames: each slot is reused twice; any set of frames may be rejected |
| `slots_teardown` | expected to fail, see below | two frames |
| `gpu` | results are the recorded ones but of frames abandoned by `cleanup()`, nothing leaked, waits end, RCD passes free of races | all four classes, two slots, three operations: the first slot comes round again while the second is in flight, and `cleanup()` meets both in flight. Each step of a constructor or call may throw, any status word may reject its frame, the device may be lost at any time. The races are looked for on grids from 2x2 (all border) to 20x19, the last ones larger than the widest border and stencil together, both parities, all colour patterns |
| `startup` | a forced backend never falls back and Vulkan is used only after a preflight that ended; the plan is sound and the pool lacks no frame up to depth 61 and depth - 61 beyond; the encoder is the queue of `VideoEncoder` | every backend, fallback and mode, `async_depth` 0, 1, 2, 61, 62, 64 and 65, thread and frame counts at and beyond their limits, machines with unknown cores and memory, few and many; three frames to an encoder of depth 1, 2 or more, so it fills up, refuses and flushes with packets left |
| `conversion_safety` | merge order, in-flight bound, failure order, audio within a sample of the video and accepted by the writer, exclusive decoders, termination | two workers, window and queue of 2, four frames; the video that ends with the selection and one that goes on; six audio tracks (none, early and jittering, late, cropped as a whole, negative, too long). 5 samples in 12 ns round both ways, and `MaxInt` 77 is reached by a track |
| `conversion_telemetry` | expected to fail, see below | same |
| `publish_safety` | published files were validated; a success is whole; the sidecar never precedes its MOV | three runs of the command with every option and a kill anywhere, so leftovers of two runs meet |
| `publish_replace`, `publish_leftover` | expected to fail, see below | one run |

Capacities of 1 in the Vulkan runs exercise every wait, but `FramePoolSuffices`
is checked for these numbers only; what `create_video`'s pool lacks at every depth
(nothing up to 61) is the theorem `PoolShortage` of `Startup_proofs`.

`gpu` and `startup` do not look for deadlocks: their clients may stop calling,
and an object may be gone. `CallsReturn` says what must not stop.

### Disagreements the runs show

* `slots_teardown` / `RetainedUntilFence`: `wait()` throws at the first slot
  whose frame was rejected; `cleanup()` swallows the exception and destroys the
  resources of all slots, also of those the GPU has not finished
  (`vulkan_rgb_to_yuv_frame.cpp:1605`). The design documents ask that they be
  kept until the fence signals. The loop has to go on after an exception.
  `GpuClient` has the same path (`CleanupGivesUp`), so there a destroyed slot may
  have had work running; `ResultsAreComputed` excepts these frames, the
  `Abandoned` ones, and no others.
* `conversion_telemetry` / `TelemetryComplete`: a worker counts a task after the
  task made its future ready (`worker_pool.hpp:115-119`), so
  `tests/test_worker_pool.cpp:38` and the sidecar's numbers depend on timing.
* `publish_replace` / `AtomicReplace`: with `--overwrite` the old output is
  removed before the rename (main:835-836); the README calls the replacement
  atomic.
* `publish_leftover` / `PartialRemoved`: a failing conversion does not remove
  its partial file, against `docs/GPU_PHASE8_PRODUCTION.md:13-14`.

Also seen, without a run:

* `docs/GPU_PHASE6_VALIDATION.md:30` says `async_depth` selects 1..32 processing
  slots; `create_video` caps the slots at 2 (writer:164).
* `create_video` clamps the depth to 1..32 for the pool (writer:159-166) and
  passes it unclamped, up to 64, to the encoder (writer:188). From 62 on the
  encoder may keep more frames than the pool was sized for; FFmpeg then
  allocates more. `PoolFits` states how many: one, two and three frames for
  62, 63 and 64, and none below.
* `automatic_frame_worker_limit` asks for the configured backend: `auto` in
  `fast` mode that falls back to the CPU still gets two frames at a time.
* `vulkan_raw_pipeline_resources.cpp:725` resets the fence before recording
  and submitting. If one of them throws, the destructor (:870) waits without
  timeout for a fence nothing will signal. `CallsReturn` of `GpuClient` excepts
  exactly this (`Stranded`); the other classes do not have it.
* `create_buffer` calls `memory_type` outside its `try`
  (`vulkan_rgb_to_yuv_frame.cpp:299`): if it throws, the buffer is not
  destroyed. `NothingLeaked` excepts exactly this (`orphan`).
* `VulkanRgbToYuv422` submits without the runtime's queue lock
  (`vulkan_rgb_to_yuv.cpp:366`), which the other classes take.

## 4. Fairness

Weak fairness of every thread, and nothing stronger: each thread that can take
a step eventually does (the operating system schedules it; codec, muxer, file
and GPU calls return; a mutex that is free often enough is eventually had,
which weak fairness gives because a critical section is one step). The caller
is not obliged to call anything: only a call it has begun (`CallerContinues`)
and the destructor must go on. The GPU finishes what was submitted unless the
device is lost, and then its waits return with an error. Spurious wake-ups are left out: every wait in the code
re-evaluates its predicate, and leaving them out only makes liveness harder to
satisfy, since no lost notification is repaired by accident.

## 5. Proofs

`CpuEncodePipeline_proofs` proves, for every set of contexts, every limit and
every number of frames, from the named assumptions on the constants in
`CpuEncodePipeline`:

| Theorem | Statement |
|---|---|
| `Invariance`, `TypeCorrect` | the inductive invariant `IInv`, its type part |
| `InOrder` | `MuxedInOrder` |
| `Complete` | `FinishedComplete` |
| `ExclusiveDrain` | `OneDrainer` |
| `PtsAccepted` | the muxer-side timestamp check never fires |
| `Bounded` | `InFlightBounded` |
| `StopsWriting` | `NoWriteAfterFailure` |
| `Refinement` | `Spec => SinkSpec`: the pipeline implements `OrderedSink` |

The argument. None of these properties is inductive: that a drained packet is
the next one of the file needs to know that the packet whose number is
`next_mux_sequence` is the only one with that number anywhere. `IInv`
therefore follows each sequence number through the pipeline:
`QueueConsecutive` (the queue holds the last numbers handed out),
`OutstandingRange` and `OutstandingDistinct` (each older number not yet written
is in exactly one thread or in the reorder buffer), `DrainInOrder` (a thread
that drains holds the number whose turn it is, and the file is one packet ahead
exactly while that thread takes the lock again), `JobsCarryPts`,
`SubmittedIncreasing` and `PreviousIsOlder` (timestamps follow the numbers),
`InFlightCount`, `FailureFlags` and `CallerKnows` (past the wait of `finish()`
the pipeline stays empty and healthy). One drainer then follows from
distinctness, order from `DrainInOrder` and `JobsCarryPts`, completeness from
`InFlightCount` with `CallerKnows`. The preservation proof has a lemma per action (or per group of
actions that leave the jobs alone), and below it a step per conjunct the action
disturbs.

`Bounded` counts. `JobsCounted`: the jobs that threads and the reorder buffer
hold have different sequence numbers, all in one interval, so there are no
more of them than the interval is long. `RoomKept`: a frame is admitted only while
the count the code keeps is below its limit.

`VulkanPipeline_proofs` proves, for all capacities and depths and every set of
clips, from the named assumptions in `VulkanPipeline`:

| Theorem | Statement |
|---|---|
| `Invariance`, `TypeCorrect` | the inductive invariant `IInv`, `TypeOK` |
| `NothingDropped` | `NoFrameDropped` |
| `Complete` | `FinishedComplete` |
| `PoolSuffices` | `FramePoolSuffices` |
| `Cancelled`, `RootCause` | `FailureCancels`, `CancelledIsNoCause` |
| `Joined` | `TeardownAlone` |
| `PtsAccepted` | `NoPtsRejection` |
| `Refinement` | `Spec => SinkSpec` |

The argument. `NoFrameDropped` says nothing once a thread has failed, and a
stage that is drained on a failure breaks its equation; `FinishedComplete`
needs to know what each stage is known to be empty of when its thread has ended.
`IInv` therefore has a part for the order of creation and joining
(`ThreadOrder`), for what the caller's place says of the threads (`CallerPhase`),
for a failure and the abort it causes (`FailureFlags`), and one for each stage:
what its thread holds at which place, and what is empty upstream when it has
ended (`PrepareStage`, `GpuStage`, `PacketStage`). `FramesInOrder` then states the
flow as nested prefixes: what is in the file and being written is a prefix of
what was checked even after a failure, with the queued batches while nothing is
aborted, with the frames behind them while the GPU thread has not failed either,
and while no thread has failed all stages together *are* what was checked.
`PtsChecked` adds that checked timestamps increase, so that the second check,
at the muxer, compares with the element before it. The proof of the step has one
lemma for the control part and one for the flow per group of actions. The
packet queue is a queue of batches; that flattening it distributes over
appending and taking one is an induction over its length (`FlattenAppend`,
`FlattenHead`), done by a least counterexample, since an induction rule with a
predicate as a parameter cannot be instantiated.

`FrameSlots_proofs` proves for any number of slots and frames `Intact`
(`ImagesIntact`), `Tracked` (`SlotsTrackGpu`) and `Drained` (`DrainedAreGood`).
`IInv` says what a submission in the queue has claimed (`QueueHeld`: its slot, whose
fence is not signaled and whose buffers hold its frame), that the thread works
on a slot only after having waited for it (`SlotRecycled`), what a signaled
fence tells of the image and the status word (`FenceTells`), and that every frame
submitted is good already or is in a slot still to be waited for
(`FramesAccounted`): when the loop of `wait()` has passed all slots none is left.

`OutputPublish_proofs` proves for any number of runs `Published`
(`PublishedIsValidated`), `Whole` (`SuccessIsWhole`) and `NotAhead`
(`SidecarIsNotAhead`). The kill between two steps is what makes them hard: `IInv`
ties what the process knows of the partial file to the file
(`PartialValidated`), states that what was renamed stays in place until the end
(`OutputInPlace`), and how old a sidecar can be at each step (`SidecarAge`).

`Startup_proofs` proves, for all configurations, machines and depths:

| Theorem | Statement |
|---|---|
| `PlanIsSound` | every frame in work has a thread, the threads are not oversubscribed, what the program chooses by itself fits a quarter of the memory |
| `PoolShortage` | what the frame pool lacks of the frames that can be held at once: none for depths 1 to 61, depth - 61 for 62 to 64 |
| `Invariance` | the inductive invariant `IInv` |
| `PlannedResourcesFit` | `ResourcesFit`: every plan made at run time is sound, and every pool lacks exactly what `PoolShortage` says; it is not enough for depths 62 to 64 |
| `Honoured` | `BackendHonoured` |
| `Refinement` | `Spec => QueueSpec`: `VulkanProResEncoder` implements `VideoEncoder` |

The argument. The divisions of the plan are handled by one lemma, `Division`; the rest
is a comparison of nested minima. `WithinLimits` carries it to the
specification: once a backend has been selected, `config` is within the limits
`validate` enforces, and the plan and the encoder are made from nothing else.
`Chosen` says what the phase knows of the selection, and `OneFrameSent` that
the preflight sent one frame: hence a packet in its hands is that frame's.
For the refinement the abstract queue is `buffered \o output \o received \o held`,
from the oldest packet to the frame libavcodec took last. `EncoderTyped`
bounds the frames in it by the last one given, `CallStage` says which of the
four parts is in use at which place of a call, and `EndOfStream` that a codec
seen at its end holds nothing: so `flush` returns only with all four empty.
Each call of libavcodec moves a frame from one part to the next, which leaves their
concatenation alone, or is `Send`, `Drain`, `End` or `Flush`; an exception
drops `received` or `output`, one contiguous run in the middle.

`CommonFacts` holds what the two refinements say of concatenation. The SMT
backend reads `\o` and `SubSeq` as its own theory and gives up on three of them in
a row; `Then` and `Leaves` hide them behind a name, and the lemmas state
associativity, the first element, and what a cut in the middle leaves.
`SetInduction` is induction over the naturals as a fact about a set of them, the
form in which it needs no predicate as a parameter.

`Conversion_proofs` proves, for any number of workers, frames and chunks, and for
every rate and length of a second:

| Theorem | Statement |
|---|---|
| `Invariance`, `TypeCorrect` | the inductive invariant `IInv`, its type part |
| `MergedFile` | `FileIsMerge` |
| `FailuresInOrder` | `FailureInOrder` |
| `NoChunkRefused` | `AudioAccepted` |
| `InSync` | `AudioInSync` |
| `Bounded` | `InFlightBounded` |
| `LeasesAreExclusive` | `DecodersExclusive` |
| `UncheckedProductsFit` | the products `AudioTiming` computes without asking stay in 64 bits, if `maxRate * NanosPerSecond + maxRate + NanosPerSecond` does |
| `TrimmedEndsInside` | the samples kept by the crop, converted back, do not reach past the end they were cut at, although the conversion rounds to nearest |

Its first part has the lemmas on audio positions the loop needs: how far each
conversion is from the exact quotient, that `normalize_sequential_audio_chunks`
makes a timeline on which a chunk begins where the one before it ended
(`NormalizedIs`), that the crop keeps a contiguous part of it (`CroppedIs`), and that a
chunk's timestamp and end, each rounded by itself, are near the samples written
before it (`PtsIsNear`, `EndIsNear`). What they say of all chunks is an induction
over their number.

The argument. The futures pending are those of the next frames of the file
(`PendingInOrder`); of their tasks the queue holds the last ones and each worker
an older one, no two the same (`TasksInOrder`, `RunningTask`). So the frames in
flight are an interval, which gives their number, and the oldest future is the
one whose failure ends the loop: everything before it is in the file. For the merge,
`AudioPlaced` says where on the timeline the audio lies, `ClockCounts` which
chunks were given to the writer and what the clock made of them, and `MergePoint`
where the loop stands: no chunk given is later than the frame that comes next, and
none left is as early as the last frame written. With the timeline sorted, that
is `FileIsMerge`. No chunk is refused, because its timestamp in samples
is no larger than its end in nanoseconds, which has been checked to fit: a sample is
no shorter than a nanosecond. `InSync` adds
the rounding bounds.

That no decoder is shared or lost is followed decoder by decoder (`HeldOnce`,
`IdleOnce`, `IdleNotHeld`, `NoneLost`). That there are never more than workers
needs `RoomToOpen`: a thread goes on to open a decoder only when none is idle,
hence every decoder has a leasing thread, and leasing and opening threads are
different ones; so the decoders there are and those being opened together are
at most as many as the threads. The counting uses the library's facts about
finite sets.

`GpuClient_proofs` proves:

| Theorem | Statement |
|---|---|
| `AnyGridRaceFree` | `RaceFree` and `InBounds`, of every pass of the demosaicing shader, for every width, height and CFA pattern |
| `PassesAreRaceFree` | `PassesRaceFree`, the same of the grids a run tries |
| `Leakless` | `NothingLeaked`, for any number of slots and calls |
| `AlwaysComputed` | `ResultsAreComputed`, for any number of slots and calls: only frames `cleanup()` abandons may come out wrong |

A cell belongs to one pixel because rows do not overlap (`RowsApart`). A half-size
cell belongs to two, perhaps of different rows where the width is odd; but the
pixels that write one have an odd column, or are red or blue, and keep away from
the borders, so no two of them share it (`PairsApart`). The passes that read the
colour they write do so an odd number of pixels away, where the colour is another
one. For `Leakless`, `Owned` says that what exists is what `cleanup()` destroys, or
the buffer `create_buffer` drops: the sequence of each constructor has only
what its class destroys (`AllDestroyed`), and only the writer has image views.

`AlwaysComputed` separates what a command buffer says from when it runs.
`Synchronized` is the first half, a test on the commands of one recording:
of any two that conflict, a barrier keeps one before the other (`Separated`), and
what a command touches was made visible to it by a barrier after its last writer
(`AccessVisible`), or was uploaded. The recordings are fixed sequences of at most
28 commands, no constant occurs in them, and the prover would only
compute: that all of them pass is the assumption `RecordingsAssumption` of
`GpuClient`, which TLC evaluates in the run `gpu`. The test is sharp: take any barrier
out of a chain and it fails, but for three that are redundant, the one between the
passes `green` and `pq_hpf` of both RAW chains (neither writes what the other
touches) and the last one of `record_rcd`, which the barrier to the copy follows.

The second half is proved. The commands executed so far are closed under the order
the barriers impose, so when a command may execute, the last writer
executed of a buffer it touches is the last one recorded, and the barriers between
them have been executed (`ExecutionOrder`). Hence the buffers of a submission are
as its last executed writers left them (`ExecutedRight`, kept by each command:
`WorkExecuted`, `BarrierExecuted`), and when all have executed they hold the
results (`SubmissionResult`). The rest is the host's side. `Control` says that a
slot has at most one submission and that its fence is then not signaled.
`SlotsInUse` says that such a slot is either marked in flight or the one waited
for, so the thread never writes to or resets a slot the GPU works on. It may
destroy one, of the writer: `cleanup()` stops waiting at a status word that is
rejected or cannot be mapped (or at a lost device), and then (`DoneWaiting`) the
slots after it may still be at work, and only those. From there to the end
`Control` alone is claimed of them: what completes after its buffers are
gone belongs to a frame that is `Abandoned` (`GoneNext`). Until then `Memory` says
what the buffers hold at each place of a call: the uploads are in place before
the submission (`Uploaded`), a slot at rest hides nothing from the next one
(`SlotsRested`), the LUT all slots share stays as the constructor left it
(`LutInPlace`), and after the wait the results have reached the host
(`AwaitedLanded`, and `RecycledLanded` for the status word read when the slot
comes round again or is waited for by `cleanup()`). A lost
device ends what is claimed of the submissions, since nothing waits for them any
more, but not what has landed.

Every safety property the runs check is proved. Left to TLC for good: liveness under
fairness, which the prover does not do, and the test of the recordings.

## 6. Assumptions and what is not modelled

* The CPU encoder returns one packet per frame (the code throws otherwise,
  which is the failing branch of `EncodeFails`). The Vulkan encoder returns packets in frame
  order and holds fewer than `AsyncDepth` frames
  (docs/GPU_PIPELINE_SERIALIZATION_ANALYSIS_2026-07-15.md); a packet keeps its frame's
  timestamp.
* Memory exhaustion is not modelled, but for calls of Vulkan in `GpuClient`, any of
  which may fail, the mapping of a status word in `cleanup()` among them. The caller
  of the writer unwinds after any exception, as `command_convert`, the only caller, does.
* In `VulkanPipeline` a notification sent after the unlock is a step of its own,
  merged with the thread-local step after it. Audio packets of the writer
  appear in `Conversion`, not in the two video pipelines.
* `ProResEncoder`: libavcodec keeps its contract. It refuses input only while its
  one waiting place is taken, the place is free once a receive has answered
  EAGAIN, packets come in order. Any call may fail. `CpuProResEncoder` has the
  same three calls, and only tests use it.
* `AudioTiming`: the rate is at most 10^9, so a sample is not shorter than a
  nanosecond. PCM data, channels and the diagnostics that only feed
  warnings and the sidecar are left out. The PCM encoder with its flush is one
  step with the muxer.
* `DecoderPool`: opening a decoder may fail; loading a frame succeeds or throws.
* `GpuQueue` is Vulkan as the code relies on it: one queue; a barrier orders what
  it names; the end of a submission makes its writes visible to the device; host
  memory is coherent where the code asks for coherent memory (raw and packer
  rely on that instead of a barrier to the host); timestamps are supported.
  Calls rejected for bad arguments change nothing and are left out. The planes of
  a colour are one buffer except within the RCD passes; the half-precision
  variants record the same commands on other formats. What a dispatch computes is
  the set of commands whose results it read.
* `FrameSlots`: arguments of `pack` are valid; one queue executes submissions
  in order; the device may be lost at any time. What a submission computes is
  one step.
* `WorkerPool`: `submit` is modelled past its wait, as a guard;
  `InFlightBounded` shows that `command_convert` never makes it wait.
* `OutputPublish`: one conversion per output path at a time; files survive a
  kill as they were written (no power loss). Errors on closing the MOV, which
  the code does not look at, are defects of class `content` that only
  `--verify-output` finds. The sidecar's stream is checked before its last bytes
  are flushed, so a success does not promise a complete sidecar.
* Not modelled: image processing (floating point), parsing of containers,
  metadata and the configuration file, device discovery and creation
  (`VulkanRuntime`), the contents of descriptor sets and of the sidecar, the
  other commands and the benchmark tool. They have no control state for TLC
  to explore.

## 7. Plan

Done: every module of the plan, and the proofs of section 5.

Next: that `FrameSlots`, where a submission is one step, is what `GpuClient` does
for the class `writer`, as a refinement mapping instead of the two separate
theorems about them.
