--------------------------- MODULE VulkanPipeline ---------------------------
(***************************************************************************)
(* The Vulkan video path of FfmpegWriter: the caller queues frames, a      *)
(* prepare thread checks their timestamps and records the GPU work, a GPU  *)
(* thread feeds prores_ks_vulkan, and a packet thread writes what comes    *)
(* out.  Three bounded queues connect the four threads; all of them are    *)
(* guarded by vulkan_mutex.                                                *)
(*                                                                         *)
(* Each of the six condition variables has one thread that ever waits on   *)
(* it, so notify_one and notify_all coincide.  The code notifies after it  *)
(* released the mutex: a notification is part of the step after the        *)
(* critical section.                                                       *)
(*                                                                         *)
(* Definitions marked Faulty are not part of the specification: each is    *)
(* the definition after it with one plausible mistake, which a property    *)
(* of VulkanPipelineProps tells from the original.                         *)
(***************************************************************************)
EXTENDS Integers, Sequences

CONSTANTS
  JobCapacity,     \* vulkan_job_capacity
  FrameCapacity,   \* vulkan_frame_capacity
  PacketCapacity,  \* vulkan_packet_capacity
  AsyncDepth,      \* frames the encoder works on at once
  Clips            \* the timestamps of the frames the caller has, in order

ASSUME CapacityAssumption ==
  /\ JobCapacity \in Nat \ {0}
  /\ FrameCapacity \in Nat \ {0}
  /\ PacketCapacity \in Nat \ {0}
  /\ AsyncDepth \in Nat \ {0}
ASSUME ClipsAssumption == Clips \subseteq Seq(Nat)

\* The presentation timestamps that occur.
Pts == UNION {{c[i] : i \in 1..Len(c)} : c \in Clips}

NoPts == -1        \* AV_NOPTS_VALUE: smaller than every timestamp
NoError == "none"  \* a null std::exception_ptr

Threads == {"prepare", "gpu", "packet"}

VARIABLES
  clip,                \* the frames of this run
  caller,              \* where the caller's thread is
  unwinding,           \* the destructor runs, after finish() or an exception
  finished,            \* finish() completed the file
  error,               \* the exception the caller received
  pc,                  \* where each pipeline thread is
  thrown,              \* the exception a failing thread is reporting
  vulkan_jobs,
  preparing,           \* the job or frame the prepare thread holds
  vulkan_frames_ready,
  encoder,             \* frames sent to the encoder, packets not received
  flush_sent,
  batch,               \* what the GPU thread holds: a frame, then packets
  vulkan_packets,      \* a queue of batches
  writing,             \* what is left of the batch the packet thread holds
  vulkan_stop,
  vulkan_abort,
  vulkan_failed,
  vulkan_prepare_done,
  vulkan_gpu_done,
  vulkan_worker_error,
  last_video_pts,      \* last timestamp make_vulkan_metadata let through
  previous_video_pts,  \* last timestamp validate_video_packet let through
  submitted,           \* history: frames write_video queued
  accepted,            \* history: frames make_vulkan_metadata let through
  muxed                \* the video packets in the file, by timestamp

callerVars  == <<caller, unwinding, finished, error>>
threadVars  == <<pc, thrown>>
jobVars     == <<clip, vulkan_jobs, submitted>>
prepareVars == <<preparing, last_video_pts, accepted>>
gpuVars     == <<encoder, flush_sent, batch>>
writeVars   == <<writing, previous_video_pts, muxed>>
stopVars    == <<vulkan_stop, vulkan_abort, vulkan_prepare_done, vulkan_gpu_done>>
failVars    == <<vulkan_failed, vulkan_worker_error>>
flowVars    == <<jobVars, prepareVars, vulkan_frames_ready, gpuVars,
                 vulkan_packets, writeVars>>
controlVars == <<stopVars, failVars>>
vars == <<callerVars, threadVars, flowVars, controlVars>>

-----------------------------------------------------------------------------
(* Helpers.                                                                *)

Goto(t, l) == pc' = [pc EXCEPT ![t] = l]

\* std::thread::joinable().
Joinable(t) == pc[t] \notin {"none", "joined"}

\* What the waits on the six condition variables become when notified.
Woken ==
  [job_sleep |-> "job", frame_space_sleep |-> "frame_space",
   frame_sleep |-> "frame", packet_space_sleep |-> "packet_space",
   packet_sleep |-> "packet"]

Wake(l) == IF l \in DOMAIN Woken THEN Woken[l] ELSE l

WakeCaller(l) == IF l = "submit_sleep" THEN "submit" ELSE l

\* Thread t moves on to l and notifies the condition variable thread u is
\* waiting on, if u sleeps at s.
GotoNotify(t, l, u, s) ==
  pc' = [pc EXCEPT ![t] = l, ![u] = IF @ = s THEN Wake(@) ELSE @]

\* An exception leaves the writer (or the block that owns it): unwind.
Throw(e) ==
  /\ error' = e
  /\ caller' = "stop"
  /\ unwinding' = TRUE

-----------------------------------------------------------------------------
(* Construction.                                                           *)

Init ==
  /\ clip \in Clips
  /\ caller = "construct"
  /\ unwinding = FALSE
  /\ finished = FALSE
  /\ error = NoError
  /\ pc = [t \in Threads |-> "none"]
  /\ thrown = [t \in Threads |-> NoError]
  /\ vulkan_jobs = << >>
  /\ preparing = NoPts
  /\ vulkan_frames_ready = << >>
  /\ encoder = << >>
  /\ flush_sent = FALSE
  /\ batch = << >>
  /\ vulkan_packets = << >>
  /\ writing = << >>
  /\ vulkan_stop = FALSE
  /\ vulkan_abort = FALSE
  /\ vulkan_failed = FALSE
  /\ vulkan_prepare_done = FALSE
  /\ vulkan_gpu_done = FALSE
  /\ vulkan_worker_error = NoError
  /\ last_video_pts = NoPts
  /\ previous_video_pts = NoPts
  /\ submitted = << >>
  /\ accepted = << >>
  /\ muxed = << >>

\* Where each thread begins, in the order they are created.
FirstState == [prepare |-> "job", gpu |-> "frame", packet |-> "packet"]

NextThread(t) ==
  /\ pc[t] = "none"
  /\ t = "gpu" => pc["prepare"] # "none"
  /\ t = "packet" => pc["gpu"] # "none"

StartThread(t) ==
  /\ caller = "construct"
  /\ NextThread(t)
  /\ Goto(t, FirstState[t])
  /\ caller' = IF t = "packet" THEN "ready" ELSE "construct"
  /\ UNCHANGED <<unwinding, finished, error, thrown, flowVars, controlVars>>

\* A device, a codec, the file or one of the threads cannot be created.
ConstructFails ==
  /\ caller = "construct"
  /\ Throw("construct")
  /\ UNCHANGED <<finished, threadVars, flowVars, controlVars>>

-----------------------------------------------------------------------------
(* write_video and enqueue_vulkan_job.                                     *)

WriteVideo ==
  /\ caller = "ready"
  /\ Len(submitted) < Len(clip)
  /\ \/ /\ finished
        /\ Throw("finished")
     \/ /\ ~finished
        /\ vulkan_worker_error # NoError
        /\ Throw(vulkan_worker_error)
     \/ /\ ~finished
        /\ vulkan_worker_error = NoError
        /\ caller' = "submit"
        /\ UNCHANGED <<unwinding, error>>
  /\ UNCHANGED <<finished, threadVars, flowVars, controlVars>>

JobRoom == Len(vulkan_jobs) < JobCapacity

SubmitWait ==
  /\ caller = "submit"
  /\ ~vulkan_failed /\ ~vulkan_abort /\ ~JobRoom
  /\ caller' = "submit_sleep"
  /\ UNCHANGED <<unwinding, finished, error, threadVars, flowVars,
                 controlVars>>

SubmitFails ==
  /\ caller = "submit"
  /\ vulkan_failed \/ vulkan_abort
  /\ Throw(IF vulkan_worker_error # NoError THEN vulkan_worker_error
                                            ELSE "cancelled")
  /\ UNCHANGED <<finished, threadVars, flowVars, controlVars>>

\* Faulty: a producer woken by a failure pushes nevertheless.
MaySubmitAnyway == vulkan_failed \/ JobRoom

MaySubmit == ~vulkan_failed /\ ~vulkan_abort /\ JobRoom

Submit ==
  /\ caller = "submit"
  /\ MaySubmit
  /\ LET pts == clip[Len(submitted) + 1] IN
       /\ vulkan_jobs' = Append(vulkan_jobs, pts)
       /\ submitted' = Append(submitted, pts)
  /\ caller' = "submit_notify"
  /\ UNCHANGED <<clip, unwinding, finished, error, threadVars, prepareVars,
                 vulkan_frames_ready, gpuVars, vulkan_packets, writeVars,
                 controlVars>>

\* Faulty: the prepare thread is not notified.
NotNotified(l) == l

\* vulkan_job_cv.notify_one(): only the prepare thread waits on it.
JobNotified(l) == IF l = "job_sleep" THEN "job" ELSE l

SubmitNotify ==
  /\ caller = "submit_notify"
  /\ caller' = "ready"
  /\ pc' = [pc EXCEPT !["prepare"] = JobNotified(@)]
  /\ UNCHANGED <<unwinding, finished, error, thrown, flowVars, controlVars>>

\* Anything else the caller does with the writer alive may throw: a frame
\* that cannot be decoded, an audio chunk that cannot be written.
CallerThrows ==
  /\ caller = "ready"
  /\ ~finished
  /\ Throw("caller")
  /\ UNCHANGED <<finished, threadVars, flowVars, controlVars>>

-----------------------------------------------------------------------------
(* finish, cleanup and stop_vulkan_threads.                                *)

Finish ==
  /\ caller = "ready"
  /\ ~finished
  /\ caller' = "stop"
  /\ UNCHANGED <<unwinding, finished, error, threadVars, flowVars,
                 controlVars>>

\* The owning block ends after finish(): ~Impl runs cleanup().
Destroy ==
  /\ caller = "ready"
  /\ finished
  /\ caller' = "stop"
  /\ unwinding' = TRUE
  /\ UNCHANGED <<finished, error, threadVars, flowVars, controlVars>>

\* Faulty: a pipeline whose construction stopped half-way is taken for idle.
NothingToStopYet == ~Joinable("packet")

NothingToStop == \A t \in Threads : ~Joinable(t)

\* The flags under the lock; nothing to do when no thread can be joined.
StopFlags ==
  /\ caller = "stop"
  /\ \/ /\ NothingToStop
        /\ caller' = "stopped"
        /\ UNCHANGED <<vulkan_stop, vulkan_abort, vulkan_jobs,
                       vulkan_frames_ready, vulkan_packets>>
     \/ /\ ~NothingToStop
        /\ vulkan_stop' = TRUE
        /\ caller' = "stop_notify"
        /\ \/ /\ unwinding
              /\ vulkan_abort' = TRUE
              /\ vulkan_jobs' = << >>
              /\ vulkan_frames_ready' = << >>
              /\ vulkan_packets' = << >>
           \/ /\ ~unwinding
              /\ UNCHANGED <<vulkan_abort, vulkan_jobs, vulkan_frames_ready,
                             vulkan_packets>>
  /\ UNCHANGED <<unwinding, finished, error, threadVars, clip, submitted,
                 prepareVars, gpuVars, writeVars, vulkan_prepare_done,
                 vulkan_gpu_done, failVars>>

\* Faulty: vulkan_frame_space_cv is not notified.
StopWakesOthers(l) == IF l = "frame_space_sleep" THEN l ELSE Wake(l)

\* Every condition variable is notified.
StopWakes(l) == Wake(l)

StopNotify ==
  /\ caller = "stop_notify"
  /\ caller' = "join"
  /\ pc' = [t \in Threads |-> StopWakes(pc[t])]
  /\ UNCHANGED <<unwinding, finished, error, thrown, flowVars, controlVars>>

\* The threads are joined in pipeline order; joining one notifies the next.
Join(t) ==
  /\ caller = "join"
  /\ pc[t] = "exited"
  /\ t = "gpu" => ~Joinable("prepare")
  /\ t = "packet" => ~Joinable("prepare") /\ ~Joinable("gpu")
  /\ pc' = [u \in Threads |->
              IF u = t THEN "joined"
              ELSE IF \/ t = "prepare" /\ pc[u] = "frame_sleep"
                      \/ t = "gpu" /\ pc[u] = "packet_sleep"
                   THEN Wake(pc[u]) ELSE pc[u]]
  /\ caller' = IF \E u \in Threads \ {t} : Joinable(u) THEN "join" ELSE "stopped"
  /\ UNCHANGED <<unwinding, finished, error, thrown, flowVars, controlVars>>

\* finish() goes on: rethrow, flush the audio, write the trailer.
FinishStopped ==
  /\ caller = "stopped"
  /\ ~unwinding
  /\ \/ /\ vulkan_worker_error # NoError
        /\ Throw(vulkan_worker_error)
        /\ UNCHANGED finished
     \/ /\ vulkan_worker_error = NoError
        /\ Throw("trailer")
        /\ UNCHANGED finished
     \/ /\ vulkan_worker_error = NoError
        /\ finished' = TRUE
        /\ caller' = "ready"
        /\ UNCHANGED <<unwinding, error>>
  /\ UNCHANGED <<threadVars, flowVars, controlVars>>

\* cleanup() goes on: the partial trailer, then codec, slots and file go.
CleanupStopped ==
  /\ caller = "stopped"
  /\ unwinding
  /\ caller' = "closed"
  /\ UNCHANGED <<unwinding, finished, error, threadVars, flowVars,
                 controlVars>>

-----------------------------------------------------------------------------
(* fail_vulkan_pipeline, the catch of every thread.                        *)

\* An exception reaches the catch of thread t.
Raise(t, e) ==
  /\ thrown' = [thrown EXCEPT ![t] = e]
  /\ Goto(t, "failing")

\* Faulty: the last exception wins.
Overwritten(e) == e

\* The first exception is kept.
Recorded(e) == IF vulkan_worker_error = NoError THEN e ELSE vulkan_worker_error

\* Under the lock: keep the first exception, abort, empty the queues.
FailFlags(t) ==
  /\ pc[t] = "failing"
  /\ vulkan_worker_error' = Recorded(thrown[t])
  /\ vulkan_failed' = TRUE
  /\ vulkan_abort' = TRUE
  /\ vulkan_jobs' = << >>
  /\ vulkan_frames_ready' = << >>
  /\ vulkan_packets' = << >>
  /\ Goto(t, "fail_notify")
  /\ UNCHANGED <<callerVars, thrown, clip, submitted, prepareVars, gpuVars,
                 writeVars, vulkan_stop, vulkan_prepare_done,
                 vulkan_gpu_done>>

\* With the lock released: every waiter is notified and the thread returns.
FailNotify(t) ==
  /\ pc[t] = "fail_notify"
  /\ pc' = [u \in Threads |-> IF u = t THEN "exited" ELSE Wake(pc[u])]
  /\ caller' = WakeCaller(caller)
  /\ UNCHANGED <<unwinding, finished, error, thrown, flowVars, controlVars>>

-----------------------------------------------------------------------------
(* vulkan_prepare_main.                                                    *)

\* The wait on vulkan_job_cv: sleep, return, take a job or leave the loop.
PrepareJob ==
  /\ pc["prepare"] = "job"
  /\ \/ /\ ~vulkan_abort /\ ~vulkan_stop /\ vulkan_jobs = << >>
        /\ Goto("prepare", "job_sleep")
        /\ UNCHANGED <<vulkan_jobs, preparing>>
     \/ /\ vulkan_abort
        /\ Goto("prepare", "exited")
        /\ UNCHANGED <<vulkan_jobs, preparing>>
     \/ /\ ~vulkan_abort /\ vulkan_jobs # << >>
        /\ preparing' = Head(vulkan_jobs)
        /\ vulkan_jobs' = Tail(vulkan_jobs)
        /\ Goto("prepare", "job_taken")
     \/ /\ ~vulkan_abort /\ vulkan_stop /\ vulkan_jobs = << >>
        /\ Goto("prepare", "wait_slots")
        /\ UNCHANGED <<vulkan_jobs, preparing>>
  /\ UNCHANGED <<callerVars, thrown, clip, submitted, last_video_pts,
                 accepted, vulkan_frames_ready, gpuVars, vulkan_packets,
                 writeVars, controlVars>>

PrepareTaken ==
  /\ pc["prepare"] = "job_taken"
  /\ Goto("prepare", "prepare")
  /\ caller' = WakeCaller(caller)
  /\ UNCHANGED <<unwinding, finished, error, thrown, flowVars, controlVars>>

\* Faulty: a repeated timestamp passes.
NotEarlier(pts) == pts >= last_video_pts

\* The timestamp check of make_vulkan_metadata.
Later(pts) == pts > last_video_pts

\* prepare_vulkan_job: the timestamp, then the frame writer's slot, whose
\* last dispatch may turn out to have failed.
Prepare ==
  /\ pc["prepare"] = "prepare"
  /\ \/ /\ ~Later(preparing)
        /\ Raise("prepare", "pts")
        /\ UNCHANGED <<last_video_pts, accepted>>
     \/ /\ Later(preparing)
        /\ last_video_pts' = preparing
        /\ accepted' = Append(accepted, preparing)
        /\ \/ /\ Goto("prepare", "frame_space")
              /\ UNCHANGED thrown
           \/ Raise("prepare", "pack")
  /\ UNCHANGED <<callerVars, jobVars, preparing, vulkan_frames_ready, gpuVars,
                 vulkan_packets, writeVars, controlVars>>

\* Faulty: the limit is taken for the last index instead of the count.
FrameRoomForOneMore == Len(vulkan_frames_ready) <= FrameCapacity

FrameRoom == Len(vulkan_frames_ready) < FrameCapacity

\* enqueue_vulkan_frame.
PrepareEnqueue ==
  /\ pc["prepare"] = "frame_space"
  /\ \/ /\ ~vulkan_abort /\ ~FrameRoom
        /\ Goto("prepare", "frame_space_sleep")
        /\ UNCHANGED <<thrown, vulkan_frames_ready, preparing>>
     \/ /\ vulkan_abort
        /\ Raise("prepare", "cancelled")
        /\ UNCHANGED <<vulkan_frames_ready, preparing>>
     \/ /\ ~vulkan_abort /\ FrameRoom
        /\ vulkan_frames_ready' = Append(vulkan_frames_ready, preparing)
        /\ preparing' = NoPts
        /\ Goto("prepare", "frame_pushed")
        /\ UNCHANGED thrown
  /\ UNCHANGED <<callerVars, jobVars, last_video_pts, accepted, gpuVars,
                 vulkan_packets, writeVars, controlVars>>

PreparePushed ==
  /\ pc["prepare"] = "frame_pushed"
  /\ GotoNotify("prepare", "job", "gpu", "frame_sleep")
  /\ UNCHANGED <<callerVars, thrown, flowVars, controlVars>>

\* vulkan_frame_writer->wait(): the slots still in flight.
PrepareWaitSlots ==
  /\ pc["prepare"] = "wait_slots"
  /\ \/ /\ Goto("prepare", "set_done")
        /\ UNCHANGED thrown
     \/ Raise("prepare", "pack")
  /\ UNCHANGED <<callerVars, flowVars, controlVars>>

PrepareDone ==
  /\ pc["prepare"] = "set_done"
  /\ vulkan_prepare_done' = TRUE
  /\ Goto("prepare", "done_notify")
  /\ UNCHANGED <<callerVars, thrown, flowVars, vulkan_stop, vulkan_abort,
                 vulkan_gpu_done, failVars>>

PrepareReturns ==
  /\ pc["prepare"] = "done_notify"
  /\ GotoNotify("prepare", "exited", "gpu", "frame_sleep")
  /\ UNCHANGED <<callerVars, thrown, flowVars, controlVars>>

-----------------------------------------------------------------------------
(* vulkan_gpu_main.                                                        *)

\* Faulty: the encoder is flushed as soon as the caller asked to stop.
PreparedAllEarly == vulkan_stop /\ vulkan_frames_ready = << >>

\* The GPU thread leaves its loop.
PreparedAll == vulkan_prepare_done /\ vulkan_frames_ready = << >>

\* The wait on vulkan_frame_cv: sleep, return, take a frame or leave the
\* loop.  The frame is sent before anything else looks at the encoder.
GpuFrame ==
  /\ pc["gpu"] = "frame"
  /\ \/ /\ ~vulkan_abort /\ ~PreparedAll /\ vulkan_frames_ready = << >>
        /\ Goto("gpu", "frame_sleep")
        /\ UNCHANGED <<vulkan_frames_ready, batch>>
     \/ /\ vulkan_abort
        /\ Goto("gpu", "exited")
        /\ UNCHANGED <<vulkan_frames_ready, batch>>
     \/ /\ ~vulkan_abort /\ vulkan_frames_ready # << >>
        /\ batch' = <<Head(vulkan_frames_ready)>>
        /\ vulkan_frames_ready' = Tail(vulkan_frames_ready)
        /\ Goto("gpu", "frame_taken")
     \/ /\ ~vulkan_abort /\ PreparedAll
        /\ Goto("gpu", "flush")
        /\ UNCHANGED <<vulkan_frames_ready, batch>>
  /\ UNCHANGED <<callerVars, thrown, jobVars, prepareVars, encoder,
                 flush_sent, vulkan_packets, writeVars, controlVars>>

GpuTaken ==
  /\ pc["gpu"] = "frame_taken"
  /\ GotoNotify("gpu", "encode", "prepare", "frame_space_sleep")
  /\ UNCHANGED <<callerVars, thrown, flowVars, controlVars>>

\* An empty batch is not handed over: on to what follows it.
HandOver(packets) ==
  /\ batch' = packets
  /\ Goto("gpu", IF packets # << >> THEN "packet_space"
                 ELSE IF flush_sent' THEN "set_done" ELSE "frame")

\* process_vulkan_frame: send the frame, then take the packets that are
\* ready.  The encoder works on AsyncDepth frames and gives packets out in
\* the order of the frames; what it keeps stays below AsyncDepth.
GpuEncode ==
  /\ pc["gpu"] = "encode"
  /\ \/ /\ ~flush_sent
        /\ LET frames == encoder \o batch IN
             \E n \in 0..Len(frames) :
               /\ Len(frames) - n < AsyncDepth
               /\ encoder' = SubSeq(frames, n + 1, Len(frames))
               /\ UNCHANGED flush_sent
               /\ HandOver(SubSeq(frames, 1, n))
        /\ UNCHANGED thrown
     \/ /\ Raise("gpu", "encode")
        /\ UNCHANGED gpuVars
  /\ UNCHANGED <<callerVars, jobVars, prepareVars, vulkan_frames_ready,
                 vulkan_packets, writeVars, controlVars>>

\* Faulty: the packets the flush returns are not handed over.
FlushedNothing == << >>

\* What the encoder gives out once it is flushed.
Flushed == encoder

\* vulkan_encoder->flush(): the null frame, then every packet left.
GpuFlush ==
  /\ pc["gpu"] = "flush"
  /\ \/ /\ flush_sent' = TRUE
        /\ encoder' = << >>
        /\ HandOver(Flushed)
        /\ UNCHANGED thrown
     \/ /\ Raise("gpu", "flush")
        /\ UNCHANGED gpuVars
  /\ UNCHANGED <<callerVars, jobVars, prepareVars, vulkan_frames_ready,
                 vulkan_packets, writeVars, controlVars>>

PacketRoom == Len(vulkan_packets) < PacketCapacity

\* Where the GPU thread goes after handing over a batch.
AfterBatch == IF flush_sent THEN "set_done" ELSE "frame"

\* enqueue_vulkan_packets: on failure or abort the batch is dropped and the
\* function returns normally.
GpuEnqueue ==
  /\ pc["gpu"] = "packet_space"
  /\ \/ /\ ~vulkan_failed /\ ~vulkan_abort /\ ~PacketRoom
        /\ Goto("gpu", "packet_space_sleep")
        /\ UNCHANGED <<vulkan_packets, batch>>
     \/ /\ vulkan_failed \/ vulkan_abort
        /\ batch' = << >>
        /\ Goto("gpu", AfterBatch)
        /\ UNCHANGED vulkan_packets
     \/ /\ ~vulkan_failed /\ ~vulkan_abort /\ PacketRoom
        /\ vulkan_packets' = Append(vulkan_packets, batch)
        /\ batch' = << >>
        /\ Goto("gpu", "packet_pushed")
  /\ UNCHANGED <<callerVars, thrown, jobVars, prepareVars, encoder,
                 flush_sent, vulkan_frames_ready, writeVars, controlVars>>

GpuPushed ==
  /\ pc["gpu"] = "packet_pushed"
  /\ GotoNotify("gpu", AfterBatch, "packet", "packet_sleep")
  /\ UNCHANGED <<callerVars, thrown, flowVars, controlVars>>

GpuDone ==
  /\ pc["gpu"] = "set_done"
  /\ vulkan_gpu_done' = TRUE
  /\ Goto("gpu", "done_notify")
  /\ UNCHANGED <<callerVars, thrown, flowVars, vulkan_stop, vulkan_abort,
                 vulkan_prepare_done, failVars>>

GpuReturns ==
  /\ pc["gpu"] = "done_notify"
  /\ GotoNotify("gpu", "exited", "packet", "packet_sleep")
  /\ UNCHANGED <<callerVars, thrown, flowVars, controlVars>>

-----------------------------------------------------------------------------
(* vulkan_packet_main.                                                     *)

\* The wait on vulkan_packet_cv: sleep, return or take a batch.
PacketTake ==
  /\ pc["packet"] = "packet"
  /\ \/ /\ ~vulkan_abort /\ ~vulkan_gpu_done /\ vulkan_packets = << >>
        /\ Goto("packet", "packet_sleep")
        /\ UNCHANGED <<vulkan_packets, writing>>
     \/ /\ vulkan_abort \/ (vulkan_gpu_done /\ vulkan_packets = << >>)
        /\ Goto("packet", "exited")
        /\ UNCHANGED <<vulkan_packets, writing>>
     \/ /\ ~vulkan_abort /\ vulkan_packets # << >>
        /\ writing' = Head(vulkan_packets)
        /\ vulkan_packets' = Tail(vulkan_packets)
        /\ Goto("packet", "packet_taken")
  /\ UNCHANGED <<callerVars, thrown, jobVars, prepareVars,
                 vulkan_frames_ready, gpuVars, previous_video_pts, muxed,
                 controlVars>>

PacketTaken ==
  /\ pc["packet"] = "packet_taken"
  /\ GotoNotify("packet", "write", "gpu", "packet_space_sleep")
  /\ UNCHANGED <<callerVars, thrown, flowVars, controlVars>>

\* write_vulkan_packets, one packet: validation, then the muxer.
PacketWrite ==
  /\ pc["packet"] = "write"
  /\ \/ /\ Head(writing) > previous_video_pts
        /\ previous_video_pts' = Head(writing)
        /\ \/ /\ muxed' = Append(muxed, Head(writing))
              /\ writing' = Tail(writing)
              /\ Goto("packet", IF Len(writing) = 1 THEN "packet" ELSE "write")
              /\ UNCHANGED thrown
           \/ /\ Raise("packet", "write")
              /\ UNCHANGED <<muxed, writing>>
     \/ /\ Head(writing) <= previous_video_pts
        /\ Raise("packet", "packet_pts")
        /\ UNCHANGED writeVars
  /\ UNCHANGED <<callerVars, jobVars, prepareVars, vulkan_frames_ready,
                 gpuVars, vulkan_packets, controlVars>>

-----------------------------------------------------------------------------

PrepareThread ==
  \/ PrepareJob \/ PrepareTaken \/ Prepare \/ PrepareEnqueue \/ PreparePushed
  \/ PrepareWaitSlots \/ PrepareDone \/ PrepareReturns
  \/ FailFlags("prepare") \/ FailNotify("prepare")

GpuThread ==
  \/ GpuFrame \/ GpuTaken \/ GpuEncode \/ GpuFlush \/ GpuEnqueue \/ GpuPushed
  \/ GpuDone \/ GpuReturns
  \/ FailFlags("gpu") \/ FailNotify("gpu")

PacketThread ==
  \/ PacketTake \/ PacketTaken \/ PacketWrite
  \/ FailFlags("packet") \/ FailNotify("packet")

\* Inside a call: the caller goes on as soon as the code lets it.
CallerContinues ==
  \/ \E t \in Threads : StartThread(t)
  \/ ConstructFails
  \/ SubmitWait \/ SubmitFails \/ Submit \/ SubmitNotify
  \/ StopFlags \/ StopNotify \/ (\E t \in Threads : Join(t))
  \/ FinishStopped \/ CleanupStopped

\* Between two calls: what the caller asks next.
CallerCalls == WriteVideo \/ CallerThrows \/ Finish \/ Destroy

\* The writer is gone; nothing more happens.
Terminated ==
  /\ caller = "closed"
  /\ UNCHANGED vars

Next ==
  \/ CallerContinues
  \/ CallerCalls
  \/ PrepareThread \/ GpuThread \/ PacketThread
  \/ Terminated

Spec == Init /\ [][Next]_vars

\* The operating system schedules every runnable thread, codec, muxer and
\* GPU calls return, and vulkan_mutex is eventually granted.
Fairness ==
  /\ WF_vars(CallerContinues)
  /\ WF_vars(PrepareThread) /\ WF_vars(GpuThread) /\ WF_vars(PacketThread)

FairSpec == Spec /\ Fairness

=============================================================================
