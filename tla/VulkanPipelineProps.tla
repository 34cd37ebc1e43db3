------------------------ MODULE VulkanPipelineProps ------------------------
(***************************************************************************)
(* What the Vulkan video path of FfmpegWriter guarantees.                  *)
(***************************************************************************)
EXTENDS VulkanPipeline

CallerStates ==
  {"construct", "ready", "submit", "submit_sleep", "submit_notify", "stop",
   "stop_notify", "join", "stopped", "closed"}

CommonStates == {"none", "failing", "fail_notify", "done_notify", "exited", "joined"}

States ==
  [prepare |-> {"job", "job_sleep", "job_taken", "prepare", "frame_space",
                "frame_space_sleep", "frame_pushed", "wait_slots", "set_done"},
   gpu     |-> {"frame", "frame_sleep", "frame_taken", "encode", "flush",
                "packet_space", "packet_space_sleep", "packet_pushed", "set_done"},
   packet  |-> {"packet", "packet_sleep", "packet_taken", "write"}]

PcStates == CommonStates \union UNION {States[t] : t \in Threads}

ThreadErrors ==
  {NoError, "pts", "pack", "cancelled", "encode", "flush", "write", "packet_pts"}
Errors == ThreadErrors \union {"construct", "finished", "caller", "trailer"}

ThreadsTyped ==
  /\ pc \in [Threads -> PcStates]
  /\ \A t \in Threads : pc[t] \in States[t] \union CommonStates
  /\ thrown \in [Threads -> ThreadErrors]

ControlTyped ==
  /\ caller \in CallerStates
  /\ unwinding \in BOOLEAN
  /\ finished \in BOOLEAN
  /\ error \in Errors
  /\ vulkan_stop \in BOOLEAN
  /\ vulkan_abort \in BOOLEAN
  /\ vulkan_failed \in BOOLEAN
  /\ vulkan_prepare_done \in BOOLEAN
  /\ vulkan_gpu_done \in BOOLEAN
  /\ vulkan_worker_error \in ThreadErrors

FlowTyped ==
  /\ clip \in Clips
  /\ vulkan_jobs \in Seq(Nat)
  /\ preparing \in Nat \union {NoPts}
  /\ vulkan_frames_ready \in Seq(Nat)
  /\ encoder \in Seq(Nat)
  /\ flush_sent \in BOOLEAN
  /\ batch \in Seq(Nat)
  /\ vulkan_packets \in Seq(Seq(Nat))
  /\ writing \in Seq(Nat)
  /\ last_video_pts \in Nat \union {NoPts}
  /\ previous_video_pts \in Nat \union {NoPts}
  /\ submitted \in Seq(Nat)
  /\ accepted \in Seq(Nat)
  /\ muxed \in Seq(Nat)

\* Every variable has the type the code gives it.
TypeOK == ThreadsTyped /\ ControlTyped /\ FlowTyped

-----------------------------------------------------------------------------
(* Safety.                                                                 *)

\* The packets queued, one batch after the other.
Flatten(batches) ==
  LET flat[n \in 0..Len(batches)] ==
        IF n = 0 THEN << >> ELSE flat[n - 1] \o batches[n]
  IN flat[Len(batches)]

Prepared == IF preparing = NoPts THEN << >> ELSE <<preparing>>

\* The frames on their way, oldest first: packets being written, packets
\* queued, what the GPU thread holds, what the encoder holds, ... a frame
\* the GPU thread is about to send is younger than those in the encoder.
InTransit ==
  LET sending == pc["gpu"] \in {"frame_taken", "encode"}
  IN writing \o Flatten(vulkan_packets)
     \o (IF sending THEN encoder \o batch ELSE batch \o encoder)
     \o vulkan_frames_ready \o Prepared \o vulkan_jobs

\* Nobody has failed, is about to report a failure or tears the pipeline down.
Healthy ==
  ~vulkan_abort /\ \A t \in Threads : pc[t] \notin {"failing", "fail_notify"}

\* docs/GPU_PHASE6_VALIDATION.md:42, "No queue drops a frame": while the
\* pipeline is healthy every frame write_video queued is in the file or in
\* exactly one stage, and the stages hold them in the order of submission.
NoFrameDropped == Healthy => muxed \o InTransit = submitted

\* finish() returning normally means that every frame submitted is in the
\* file although four threads handed it on, and that none of them failed.
FinishedComplete == finished => muxed = submitted /\ ~vulkan_failed

\* Hardware frames alive: one being packed, those queued, the one being
\* sent and those in the encoder.
HardwareFrames ==
  (IF pc["prepare"] \in {"frame_space", "frame_space_sleep"} THEN 1 ELSE 0)
  + Len(vulkan_frames_ready)
  + (IF pc["gpu"] \in {"frame_taken", "encode"} THEN 1 ELSE 0)
  + Len(encoder)

\* create_video sizes FFmpeg's frame pool for this many frames, so that
\* av_hwframe_get_buffer finds one in it.
FramePoolSuffices ==
  HardwareFrames <= FrameCapacity + 2 + (AsyncDepth - 1)

\* docs/GPU_PHASE6_VALIDATION.md:51: a failure cancels all the queues at
\* once, and no thread that was under way puts anything into them again.
FailureCancels ==
  vulkan_failed => /\ vulkan_jobs = << >>
                   /\ vulkan_frames_ready = << >>
                   /\ vulkan_packets = << >>

\* docs/GPU_PHASE6_VALIDATION.md:53: no pipeline thread is left when the
\* container, the codec and the frame writer are torn down, wherever the
\* construction or the run was interrupted.
TeardownAlone ==
  caller = "closed" \/ finished => \A t \in Threads : ~Joinable(t)

\* validate_video_packet never refuses a packet: timestamps were checked by
\* the prepare thread, and every later stage keeps their order.
NoPtsRejection == vulkan_worker_error # "packet_pts"

\* A thread cancelled because another one failed, or because the caller
\* unwinds, never hides the error that started it.
CancelledIsNoCause ==
  vulkan_worker_error = "cancelled" => unwinding

-----------------------------------------------------------------------------
(* The inductive invariant behind them, in named parts.                    *)

\* s is where t begins.
IsPrefix(s, t) == Len(s) <= Len(t) /\ SubSeq(t, 1, Len(s)) = s

\* Threads are created and joined in pipeline order; between construction
\* and the first stop all three of them run.
ThreadOrder ==
  /\ pc["gpu"] # "none" => pc["prepare"] # "none"
  /\ pc["packet"] # "none" => pc["gpu"] # "none"
  /\ pc["gpu"] = "joined" => pc["prepare"] = "joined"
  /\ pc["packet"] = "joined" => pc["gpu"] = "joined"
  /\ ~unwinding /\ caller # "construct" => pc["packet"] # "none"

\* What the caller's place tells of the threads and of finish().
CallerPhase ==
  /\ caller = "construct" => pc["packet"] = "none" /\ ~unwinding /\ ~vulkan_stop
  /\ caller \in {"ready", "submit", "submit_sleep", "submit_notify"} => ~unwinding
  /\ caller \in {"submit", "submit_sleep"} =>
       ~finished /\ ~vulkan_stop /\ Len(submitted) < Len(clip)
  /\ caller \in {"submit_notify", "construct"} => ~finished /\ ~vulkan_stop
  /\ caller = "ready" /\ ~finished => ~vulkan_stop
  /\ caller \in {"stop_notify", "join"} => vulkan_stop /\ ~NothingToStop /\ ~finished
  /\ caller \in {"stopped", "closed"} \/ finished => NothingToStop
  /\ finished => caller = "ready" \/ unwinding
  /\ caller = "closed" => unwinding
  /\ caller = "stop" /\ vulkan_stop => NothingToStop

\* The first failure is recorded together with the abort it causes.
FailureFlags ==
  /\ vulkan_failed <=> vulkan_worker_error # NoError
  /\ vulkan_failed => vulkan_abort
  /\ vulkan_abort => vulkan_failed \/ unwinding
  /\ vulkan_abort => /\ vulkan_jobs = << >>
                     /\ vulkan_frames_ready = << >>
                     /\ vulkan_packets = << >>
  /\ vulkan_worker_error # "packet_pts"
  /\ vulkan_worker_error = "cancelled" => unwinding
  /\ \A t \in Threads :
       /\ pc[t] = "fail_notify" => vulkan_failed
       /\ pc[t] = "failing" => thrown[t] # NoError
       /\ thrown[t] # "packet_pts"
       /\ thrown[t] = "cancelled" => vulkan_abort
  /\ finished => ~vulkan_failed

\* What the prepare thread holds, and what it leaves when it is done.
PrepareStage ==
  LET P == pc["prepare"] IN
    /\ preparing \in Nat => P \in {"job_taken", "prepare", "frame_space",
         "frame_space_sleep", "failing", "fail_notify", "exited", "joined"}
    /\ P \in {"job_taken", "prepare", "frame_space", "frame_space_sleep"} =>
         preparing \in Nat
    /\ ~vulkan_abort
       /\ P \in {"wait_slots", "set_done", "done_notify", "exited", "joined"} =>
         vulkan_jobs = << >> /\ vulkan_stop /\ preparing = NoPts
    /\ ~vulkan_abort /\ P \in {"done_notify", "exited", "joined"} =>
         vulkan_prepare_done
    /\ vulkan_prepare_done => P \in {"done_notify", "exited", "joined"}

\* What the GPU thread and the encoder hold.
GpuStage ==
  LET G == pc["gpu"] IN
    /\ Len(encoder) < AsyncDepth
    /\ Len(vulkan_frames_ready) <= FrameCapacity
    /\ G \in {"none", "frame", "frame_sleep", "flush", "set_done", "done_notify",
              "packet_pushed"} => batch = << >>
    /\ G \in {"frame_taken", "encode"} => Len(batch) = 1
    /\ G \in {"packet_space", "packet_space_sleep"} => batch # << >>
    /\ flush_sent => encoder = << >>
    /\ G \in {"none", "frame", "frame_sleep", "frame_taken", "encode", "flush"} =>
         ~flush_sent
    /\ ~vulkan_abort /\ (G = "flush" \/ flush_sent) =>
         vulkan_prepare_done /\ vulkan_frames_ready = << >>
    /\ ~vulkan_abort /\ G \in {"set_done", "done_notify", "exited", "joined"} =>
         flush_sent /\ batch = << >>
    /\ ~vulkan_abort /\ G \in {"done_notify", "exited", "joined"} => vulkan_gpu_done
    /\ vulkan_gpu_done => G \in {"done_notify", "exited", "joined"}

\* What the packet thread holds, and what it leaves when it is done.
PacketStage ==
  LET K == pc["packet"] IN
    /\ K \in {"none", "packet", "packet_sleep"} => writing = << >>
    /\ K \in {"packet_taken", "write"} => writing # << >>
    /\ \A i \in 1..Len(vulkan_packets) : vulkan_packets[i] # << >>
    /\ ~vulkan_abort /\ K \in {"exited", "joined"} =>
         vulkan_gpu_done /\ vulkan_packets = << >> /\ writing = << >>

\* A job whose timestamp has not been checked, and a frame not yet queued.
Unchecked == IF pc["prepare"] \in {"job_taken", "prepare"}
             THEN <<preparing>> ELSE << >>
Unsent == IF pc["prepare"] \in {"frame_space", "frame_space_sleep"}
          THEN <<preparing>> ELSE << >>

\* What the GPU thread and the encoder hold, oldest first.
Held == IF pc["gpu"] \in {"frame_taken", "encode"}
        THEN encoder \o batch ELSE batch \o encoder

\* The frames past the timestamp check, the one in it, and those before it.
Checked == accepted \o Unchecked
Taken == Checked \o vulkan_jobs

\* The packets in the file and on their way to it, then the frames behind
\* them, ever further back.
Written == muxed \o writing
Outgoing == Written \o Flatten(vulkan_packets)
Encoded == Outgoing \o Held
Stream == Encoded \o vulkan_frames_ready
Sent == Stream \o Unsent

\* Each stage hands on what the stage before it produced, and nothing else:
\* whatever a failure discards, what remains is in order and gapless from
\* the first frame.
FramesInOrder ==
  /\ IsPrefix(submitted, clip)
  /\ IsPrefix(Checked, submitted)
  /\ ~vulkan_abort /\ pc["prepare"] # "failing" => Taken = submitted
  /\ IsPrefix(Written, accepted)
  /\ ~vulkan_abort => IsPrefix(Outgoing, accepted)
  /\ ~vulkan_abort /\ pc["gpu"] # "failing" =>
       /\ IsPrefix(Stream, accepted)
       /\ pc["prepare"] # "failing" => Sent = accepted
  /\ finished => muxed = submitted

\* The checks compare with the last timestamp let through.
LastOf(s) == IF s = << >> THEN NoPts ELSE s[Len(s)]

PtsChecked ==
  /\ \A i, j \in 1..Len(accepted) : i < j => accepted[i] < accepted[j]
  /\ last_video_pts = LastOf(accepted)
  /\ pc["packet"] \notin {"failing", "fail_notify", "exited", "joined"} =>
       previous_video_pts = LastOf(muxed)

IInv ==
  /\ TypeOK
  /\ ThreadOrder
  /\ CallerPhase
  /\ FailureFlags
  /\ PrepareStage
  /\ GpuStage
  /\ PacketStage
  /\ FramesInOrder
  /\ PtsChecked

-----------------------------------------------------------------------------
(* The abstract specification implemented: a frame counts as accepted when *)
(* the prepare thread has let its timestamp through.                       *)

Sink ==
  INSTANCE OrderedSink WITH
    written <- muxed,
    status <- IF finished THEN "sealed"
              ELSE IF caller = "closed" THEN "abandoned" ELSE "open"

SinkSpec == Sink!Spec

-----------------------------------------------------------------------------
(* Liveness.                                                               *)

\* Every call returns or throws, whichever of the four threads fails and
\* when: no wake-up is lost and joining never hangs.
CallsReturn == caller # "ready" ~> caller \in {"ready", "closed"}

\* The length of the longest clip.
Longest ==
  CHOOSE n \in {Len(c) : c \in Clips} : \A c \in Clips : Len(c) <= n

\* A frame reaches the packet thread or the encoder without further calls:
\* everything but the encoder's own delay passes through.
SubmittedIsEncoded ==
  \A n \in 1..Longest :
    Len(submitted) >= n ~>
      vulkan_abort \/ Len(muxed) + Len(encoder) >= n

=============================================================================
