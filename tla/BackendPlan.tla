---------------------------- MODULE BackendPlan ----------------------------
(***************************************************************************)
(* What a conversion decides before it starts: select_backend, the         *)
(* execution plan of the command line program, and the sizes create_video  *)
(* derives.  Memory is counted in MiB.                                     *)
(*                                                                         *)
(* Definitions marked Faulty are not part of the specification: each is    *)
(* the definition after it with one plausible mistake.                     *)
(***************************************************************************)
EXTENDS Integers

Lesser(a, b) == IF a <= b THEN a ELSE b
Greater(a, b) == IF a >= b THEN a ELSE b
Clamp(x, lo, hi) == Greater(lo, Lesser(x, hi))

-----------------------------------------------------------------------------
(* EffectiveConfig.  0 stands for automatic.                               *)

Config ==
  [backend : {"auto", "cpu", "vulkan"},
   fallback : {"prores_ks", "none"},
   demosaic : {"rcd", "other"},
   gpu_performance_mode : {"precise", "fast"},
   async_depth : Nat, cpu_threads : Nat, max_parallel_frames : Nat]

Valid(config) ==
  /\ config.cpu_threads <= 256
  /\ config.max_parallel_frames <= 64
  /\ config.async_depth \in 1..64

-----------------------------------------------------------------------------
(* select_backend.                                                         *)

Refused == [backend |-> "none", used_fallback |-> FALSE]

\* What auto comes to when Vulkan cannot be used.
FallBack(config, capabilities) ==
  IF config.fallback = "prores_ks" /\ capabilities.cpu_available
  THEN [backend |-> "cpu", used_fallback |-> TRUE]
  ELSE Refused

VulkanUsable(config, capabilities) ==
  /\ capabilities.vulkan_compiled
  /\ capabilities.vulkan_backend_available
  /\ capabilities.prores_ks_vulkan_available
  /\ config.demosaic = "rcd"

\* Faulty: a forced backend falls back like an automatic one.
SelectBackendAnyhow(config, capabilities) ==
  IF ~Valid(config) THEN Refused
  ELSE IF config.backend = "cpu"
       THEN IF capabilities.cpu_available
            THEN [backend |-> "cpu", used_fallback |-> FALSE]
            ELSE Refused
  ELSE IF VulkanUsable(config, capabilities)
       THEN [backend |-> "vulkan", used_fallback |-> FALSE]
       ELSE FallBack(config, capabilities)

SelectBackend(config, capabilities) ==
  IF ~Valid(config) THEN Refused
  ELSE IF config.backend = "cpu"
       THEN IF capabilities.cpu_available
            THEN [backend |-> "cpu", used_fallback |-> FALSE]
            ELSE Refused
  ELSE IF VulkanUsable(config, capabilities)
       THEN [backend |-> "vulkan", used_fallback |-> FALSE]
       ELSE IF config.backend = "vulkan"
            THEN Refused
            ELSE FallBack(config, capabilities)

-----------------------------------------------------------------------------
(* resolve_execution_plan.                                                 *)

SizeMax == 2147483647         \* stands for the largest size_t
EstimatedFrame == 384         \* estimated_frame_bytes

TotalThreads(config, cores) ==
  IF config.cpu_threads = 0 THEN Greater(1, cores) ELSE config.cpu_threads

FrameWorkerLimit(config) ==
  IF config.backend # "cpu" /\ config.gpu_performance_mode = "fast" THEN 2 ELSE 6

\* A quarter of the memory, in frames; unknown memory is no bound.
MemoryFrames(memory) ==
  IF memory = 0 THEN SizeMax ELSE Greater(1, (memory \div 4) \div EstimatedFrame)

AutomaticFrames(config, total, memory) ==
  Greater(1, Lesser(FrameWorkerLimit(config),
                    Lesser(Greater(1, total \div 2), MemoryFrames(memory))))

RequestedFrames(config, total, memory) ==
  IF config.max_parallel_frames = 0
  THEN AutomaticFrames(config, total, memory)
  ELSE config.max_parallel_frames

\* Faulty: more frames than threads.
ParallelFramesUnbounded(config, total, memory, frames) ==
  Greater(1, Lesser(RequestedFrames(config, total, memory), frames))

ParallelFrames(config, total, memory, frames) ==
  Greater(1, Lesser(RequestedFrames(config, total, memory),
                    Lesser(frames, total)))

ExecutionPlan(config, cores, memory, frames) ==
  LET total == TotalThreads(config, cores)
      parallel == ParallelFrames(config, total, memory, frames)
  IN  [total_threads |-> total,
       parallel_frames |-> parallel,
       threads_per_frame |-> Greater(1, total \div parallel),
       encode_contexts |-> Clamp(total, 1, 16)]

-----------------------------------------------------------------------------
(* create_video.                                                           *)

EncoderDepth(async_depth) == Clamp(async_depth, 1, 32)
SlotCount(async_depth) == Lesser(EncoderDepth(async_depth), 2)
PoolSize(async_depth) == Clamp(EncoderDepth(async_depth) * 2 + 4, 8, 64)
JobCapacity(async_depth) == Clamp(EncoderDepth(async_depth) + 2, 4, 64)
PacketCapacity(async_depth) == Clamp(EncoderDepth(async_depth) * 2, 8, 128)
MaxJobsInFlight(contexts) == Clamp(contexts, 1, 16) + 2

-----------------------------------------------------------------------------
(* What the numbers are to satisfy.                                        *)

\* A plan made for a configuration: every frame in work has a thread, the
\* threads are not oversubscribed, and what the program chooses by itself
\* fits a quarter of the memory.
PlanFits(config, plan, memory, frames) ==
  LET n == plan.parallel_frames
  IN  /\ n >= 1 /\ n <= frames /\ n <= 64
      /\ plan.threads_per_frame >= 1
      /\ n * plan.threads_per_frame <= plan.total_threads
      /\ plan.encode_contexts \in 1..16
      /\ config.max_parallel_frames = 0 /\ memory # 0 =>
           n = 1 \/ 4 * n * EstimatedFrame <= memory

\* Frames queued, held by the threads and kept by the encoder, which together
\* are the sum of FramePoolSuffices of VulkanPipeline, beyond what the pool has.
Shortage(depth, slots, pool) == Greater(0, slots + 2 + (depth - 1) - pool)

\* The pool is sized for a depth of at most 32 and made no larger than 64; the
\* encoder gets the depth unclamped.  Up to 61 the pool has all that may be
\* needed; each depth above that lacks one frame more.
PoolFits(depth, slots, pool) ==
  Shortage(depth, slots, pool) = Greater(0, depth - 61)
=============================================================================
