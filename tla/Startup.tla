------------------------------ MODULE Startup ------------------------------
(***************************************************************************)
(* How command_convert chooses a backend and sets it up: for any backend   *)
(* but the CPU's a preflight encodes one frame with an encoder of its own; *)
(* then select_backend decides, the execution plan is made, and the        *)
(* writer's create_video makes the encoder of the conversion.              *)
(*                                                                         *)
(* What uses that encoder is any caller of IVideoEncoder; the GPU thread   *)
(* of VulkanPipeline is one, which drains after every frame and flushes at *)
(* the end.  The CPU backend is the subject of CpuEncodePipeline.          *)
(*                                                                         *)
(* Definitions marked Faulty are not part of the specification: each is    *)
(* the definition after it with one plausible mistake.                     *)
(***************************************************************************)
EXTENDS ProResEncoder, BackendPlan

CONSTANTS
  Configs,       \* the configurations explored
  Machines       \* cores, memory in MiB, and the frames to convert

ASSUME ConfigsAssumption == Configs \subseteq Config
ASSUME MachinesAssumption ==
  Machines \subseteq [cores : Nat, memory : Nat, frames : Nat \ {0}]

VARIABLES
  config, machine,
  phase,         \* where command_convert is
  capabilities,
  smoke,         \* frames whose packets the preflight got
  selection,     \* the BackendSelection
  execution,     \* the CpuExecutionPlan
  sizes          \* what create_video has sized for the Vulkan pipeline

startVars == <<config, machine, phase, capabilities, smoke, selection,
               execution, sizes>>
vars == <<encoderVars, startVars>>

NoPlan == [total_threads |-> 0]
NoSizes == [pool |-> 0]

Init ==
  /\ InitEncoder
  /\ config \in Configs
  /\ machine \in Machines
  /\ phase = "probe"
  /\ capabilities \in
       [cpu_available : BOOLEAN, vulkan_compiled : BOOLEAN,
        prores_ks_vulkan_available : BOOLEAN,
        vulkan_backend_available : {FALSE}]
  /\ smoke = << >>
  /\ selection = Refused
  /\ execution = NoPlan
  /\ sizes = NoSizes

-----------------------------------------------------------------------------
(* probe_backend_capabilities.                                             *)

\* Without a GPU to try, or when no encoder comes about for the preflight.
ProbeWithoutGpu ==
  /\ phase = "probe"
  /\ phase' = "select"
  /\ UNCHANGED <<encoderVars, config, machine, capabilities, smoke, selection,
                 execution, sizes>>

\* The runtime, a small frame pool, a frame writer and an encoder of depth 2.
ProbeGpu ==
  /\ phase = "probe"
  /\ config.backend # "cpu"
  /\ capabilities.vulkan_compiled
  /\ capabilities.prores_ks_vulkan_available
  /\ Construct(2)
  /\ phase' = "smoke"
  /\ UNCHANGED <<config, machine, capabilities, smoke, selection, execution,
                 sizes>>

\* One frame is packed and sent, then drain and flush.
SmokeCall ==
  /\ phase = "smoke"
  /\ CASE outcome = "none" -> Send("vulkan")
       [] outcome = "send" -> Drain
       [] outcome = "drain" -> Flush
       [] OTHER -> FALSE
  /\ UNCHANGED startVars

\* After the wait for the GPU: one packet, which is not empty.
SmokePassed ==
  /\ phase = "smoke"
  /\ Idle /\ outcome = "flush"
  /\ Len(returned) = 1
  /\ smoke' = returned
  /\ capabilities' = [capabilities EXCEPT !.vulkan_backend_available = TRUE]
  /\ phase' = "select"
  /\ Destroy
  /\ UNCHANGED <<config, machine, selection, execution, sizes>>

\* Packing, a call of the encoder, the wait or the packet fails.
SmokeFailed ==
  /\ phase = "smoke"
  /\ Idle
  /\ phase' = "select"
  /\ Destroy
  /\ UNCHANGED <<config, machine, capabilities, smoke, selection, execution,
                 sizes>>

-----------------------------------------------------------------------------
(* command_convert, up to the first frame.                                 *)

Select ==
  /\ phase = "select"
  /\ selection' = SelectBackend(config, capabilities)
  /\ phase' = IF selection' = Refused THEN "failed" ELSE "plan"
  /\ UNCHANGED <<encoderVars, config, machine, capabilities, smoke, execution,
                 sizes>>

\* The plan replaces what the configuration left to it.
Resolved(c, plan) ==
  [c EXCEPT !.cpu_threads = plan.total_threads,
            !.max_parallel_frames = plan.parallel_frames]

Plan ==
  /\ phase = "plan"
  /\ execution' =
       ExecutionPlan(config, machine.cores, machine.memory, machine.frames)
  /\ config' = Resolved(config, execution')
  /\ phase' = "create"
  /\ UNCHANGED <<encoderVars, machine, capabilities, smoke, selection, sizes>>

\* create_video for Vulkan.
CreateVulkan ==
  /\ phase = "create"
  /\ selection.backend = "vulkan"
  /\ sizes' = [pool |-> PoolSize(config.async_depth),
               slots |-> SlotCount(config.async_depth),
               jobs |-> JobCapacity(config.async_depth),
               packets |-> PacketCapacity(config.async_depth)]
  /\ Construct(config.async_depth)
  /\ phase' = "convert"
  /\ UNCHANGED <<config, machine, capabilities, smoke, selection, execution>>

\* create_video for the CPU: one context or more.
CreateCpu ==
  /\ phase = "create"
  /\ selection.backend = "cpu"
  /\ sizes' = [jobs |-> MaxJobsInFlight(execution.encode_contexts)]
  /\ phase' = "convert_cpu"
  /\ UNCHANGED <<encoderVars, config, machine, capabilities, smoke, selection,
                 execution>>

CreateFails ==
  /\ phase = "create"
  /\ phase' = "failed"
  /\ UNCHANGED <<encoderVars, config, machine, capabilities, smoke, selection,
                 execution, sizes>>

-----------------------------------------------------------------------------
(* The encoder at work, in the preflight and in the conversion.            *)

ConvertCall ==
  /\ phase = "convert"
  /\ (\E kind \in {"cpu", "vulkan"} : Send(kind)) \/ SendRefused
       \/ Drain \/ Flush
  /\ UNCHANGED startVars

Encode == EncoderStep /\ UNCHANGED startVars

\* The writer goes, and the encoder with it.
Finish ==
  /\ phase = "convert"
  /\ Idle
  /\ Destroy
  /\ phase' = "done"
  /\ UNCHANGED <<config, machine, capabilities, smoke, selection, execution,
                 sizes>>

Next ==
  \/ ProbeWithoutGpu \/ ProbeGpu
  \/ SmokeCall \/ SmokePassed \/ SmokeFailed
  \/ Select \/ Plan
  \/ CreateVulkan \/ CreateCpu \/ CreateFails
  \/ ConvertCall \/ Encode \/ Finish

Spec == Init /\ [][Next]_vars

-----------------------------------------------------------------------------
(* Properties.                                                             *)

\* Whatever the codec answers and whatever order send, drain and flush come
\* in, also after a call that threw, the encoder is the queue IVideoEncoder
\* promises: packets in order, none lost by a call that returns, none left
\* by a flush that returns.  (VulkanProResEncoder.)
QueueSpec == Queue!Spec

\* Vulkan is chosen only when the preflight has got the packet of the frame
\* it sent; a backend asked for by name is the one used or none; and the CPU
\* stands in only where the configuration allows it.  (select_backend,
\* probe_backend_capabilities.)
BackendHonoured ==
  /\ selection.backend = "vulkan" => smoke = <<1>> /\ config.demosaic = "rcd"
  /\ config.backend # "auto" => selection.backend \in {"none", config.backend}
  /\ selection.used_fallback => /\ selection.backend = "cpu"
                                /\ config.fallback = "prores_ks"
  /\ config.backend = "cpu" => depth = 0

\* The plan made of cores, memory, frames and configuration never leaves a
\* frame without a thread nor uses more than there is, and the frame pool
\* made is large enough for the encoder made beside it up to a depth of 61;
\* for 62, 63 and 64, which are valid, it lacks one, two and three frames.
\* (resolve_execution_plan, create_video.)
ResourcesFit ==
  [][/\ execution' # execution =>
          PlanFits(config, execution', machine.memory, machine.frames)
     /\ phase' = "convert" /\ phase # "convert" =>
          PoolFits(depth', sizes'.slots, sizes'.pool)]_vars

-----------------------------------------------------------------------------
(* The inductive invariant behind them, in named parts.                    *)

StartTyped ==
  /\ config \in Config
  /\ machine \in [cores : Nat, memory : Nat, frames : Nat \ {0}]
  /\ capabilities \in
       [cpu_available : BOOLEAN, vulkan_compiled : BOOLEAN,
        prores_ks_vulkan_available : BOOLEAN,
        vulkan_backend_available : BOOLEAN]

\* What select_backend has validated: the plan puts other numbers into the
\* configuration, but no larger number of frames and no other depth.
Limits ==
  /\ config.max_parallel_frames <= 64
  /\ config.async_depth \in 1..64

WithinLimits == phase \in {"plan", "create"} => Limits

\* What each phase knows of the preflight and of the selection.
Chosen ==
  /\ phase \in {"probe", "smoke", "select"} => selection = Refused
  /\ phase = "smoke" => config.backend # "cpu"
  /\ capabilities.vulkan_backend_available => smoke = <<1>>

\* The preflight sends one frame.
OneFrameSent ==
  phase = "smoke" =>
    sent <= 1 /\ (sent = 1 => call = "send" \/ outcome # "none")

IInv ==
  /\ StartTyped
  /\ WithinLimits
  /\ Chosen
  /\ BackendHonoured
  /\ OneFrameSent
  /\ EncoderTyped
  /\ CallStage
  /\ EndOfStream
=============================================================================
