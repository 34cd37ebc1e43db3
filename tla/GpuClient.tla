----------------------------- MODULE GpuClient -----------------------------
(***************************************************************************)
(* The life of one of the classes that own Vulkan resources:               *)
(*   writer  VulkanRgbToYuvFrameWriter, resident frames for the encoder    *)
(*   camera  VulkanCameraPipelineResources                                 *)
(*   raw     VulkanRawPipelineResources                                    *)
(*   packer  VulkanRgbToYuv422                                             *)
(* A constructor creates its resources one by one and any of them may      *)
(* fail; operations use a ring of slots, submit a command buffer and wait  *)
(* for its fence, at once or when the slot comes round again; the          *)
(* destructor waits and destroys.  A member that throws leaves the object  *)
(* in the state it has reached, and the caller may go on using it.         *)
(*                                                                         *)
(* Definitions marked Faulty are not part of the specification: each is    *)
(* the definition after it with one plausible mistake.                     *)
(***************************************************************************)
EXTENDS GpuQueue

CONSTANTS
  MaxCalls       \* bound: operations called

ASSUME MaxCallsAssumption == MaxCalls \in Nat

VARIABLES
  client,        \* the class: chosen in Init
  ops,           \* its operations
  thread,        \* constructing, idle, calling, waiting to destroy, gone
  step,          \* resources created; then the next step of the operation
  op,            \* the operation being executed
  frame,         \* operations called; 0 is the constructor's LUT upload
  slot,          \* the slot being used
  next_slot,
  in_flight,     \* Slot::in_flight; raw and packer have no such flag
  submitted,     \* the operation and frame of the slot's last submission
  live,          \* resources created and not destroyed
  outcome        \* frames whose result was seen, as it should be or not

Coherent(class) == class \in {"raw", "packer"}

\* Every command buffer the classes record keeps its commands apart and makes
\* what they write visible.  No constant occurs in it: TLC decides it.
ASSUME RecordingsAssumption ==
  \A class \in DOMAIN Operations : \A name \in DOMAIN Operations[class] :
    Synchronized(Operations[class][name], name, DOMAIN Operations[class], Coherent(class))

programVars == <<client, ops>>
clientVars == <<programVars, thread, step, op, frame, slot, next_slot,
                in_flight, submitted, live, outcome>>
vars == <<queueVars, clientVars>>

Frames == 0..MaxCalls
None == [op |-> "none", frame |-> 0]
Clients == DOMAIN Operations
HasLut == "lut" \in DOMAIN ops

-----------------------------------------------------------------------------
(* What the constructors create, in order.  A kind of resource stands for  *)
(* all of the kind a step creates, in each slot.                           *)

WriterBuffers == <<"buffers">>
WriterDescriptors ==
  <<"layout", "camera_layout", "di_layout", "calibration_layout",
    "rcd_layout", "descriptor_pool">>
WriterPipeline == <<"pipeline_layout", "pipeline">>
\* create_camera_pipeline makes one pipeline and its layout.
CameraPipeline(output_layout, output_pipeline) == <<output_layout, output_pipeline>>
WriterCameraPipelines ==
  CameraPipeline("calibration_pipeline_layout", "calibration_pipeline")
    \o CameraPipeline("rcd_pipeline_layout", "rcd_pipeline")
    \o CameraPipeline("color_pipeline_layout", "color_pipeline")
    \o CameraPipeline("sharpen_pipeline_layout", "sharpen_pipeline")
    \o CameraPipeline("di_pipeline_layout", "di_pipeline")
WriterQueries == <<"query_pool">>
WriterCommands == <<"command_pool", "fences">>
WriterCreates ==
  WriterBuffers \o WriterDescriptors \o WriterPipeline
    \o WriterCameraPipelines \o WriterQueries \o WriterCommands

CameraBuffers == <<"buffers">>
CameraDescriptors == <<"layout", "di_layout", "descriptor_pool">>
CameraColorPipeline == <<"color_pipeline_layout", "color_pipeline">>
CameraSharpenPipeline == <<"sharpen_pipeline_layout", "sharpen_pipeline">>
CameraDiPipeline == <<"di_pipeline_layout", "di_pipeline">>
CameraQueries == <<"query_pool">>
CameraCommands == <<"command_pool", "fences">>
CameraCreates ==
  CameraBuffers \o CameraDescriptors \o CameraColorPipeline
    \o CameraSharpenPipeline \o CameraDiPipeline \o CameraQueries
    \o CameraCommands

RawBuffers == <<"buffers">>
RawCalibrationPipeline ==
  <<"calibration_layout", "calibration_pool", "calibration_pipeline_layout",
    "calibration_pipeline">>
RawRcdPipeline ==
  <<"rcd_layout", "rcd_pool", "rcd_pipeline_layout", "rcd_pipeline">>
RawQueries == <<"query_pool">>
RawCommands == <<"command_pool", "fences">>
RawCreates ==
  RawBuffers \o RawCalibrationPipeline \o RawRcdPipeline \o RawQueries
    \o RawCommands

PackerBuffers == <<"buffers">>
PackerDescriptors == <<"layout", "descriptor_pool">>
PackerPipeline == <<"pipeline_layout", "pipeline">>
PackerCommands == <<"command_pool", "fences">>
PackerQueries == <<"query_pool">>
PackerCreates ==
  PackerBuffers \o PackerDescriptors \o PackerPipeline \o PackerCommands
    \o PackerQueries

Creates ==
  [writer |-> WriterCreates, camera |-> CameraCreates, raw |-> RawCreates,
   packer |-> PackerCreates][client]

\* What cleanup() destroys, in each class.
WriterDestroys ==
  {"views", "fences", "command_pool", "query_pool", "pipeline",
   "pipeline_layout", "color_pipeline", "color_pipeline_layout",
   "sharpen_pipeline", "sharpen_pipeline_layout", "di_pipeline",
   "di_pipeline_layout", "calibration_pipeline",
   "calibration_pipeline_layout", "rcd_pipeline", "rcd_pipeline_layout",
   "descriptor_pool", "layout", "camera_layout", "di_layout",
   "calibration_layout", "rcd_layout", "buffers"}

CameraDestroys ==
  {"fences", "command_pool", "query_pool", "color_pipeline",
   "color_pipeline_layout", "sharpen_pipeline", "sharpen_pipeline_layout",
   "di_pipeline", "di_pipeline_layout", "descriptor_pool", "layout",
   "di_layout", "buffers"}

\* Faulty: the layout of the second set is forgotten.
RawDestroysButRcdLayout ==
  {"fences", "buffers", "command_pool", "query_pool", "calibration_pipeline",
   "calibration_pipeline_layout", "calibration_pool", "calibration_layout",
   "rcd_pipeline", "rcd_pipeline_layout", "rcd_pool"}

RawDestroys ==
  {"fences", "buffers", "command_pool", "query_pool", "calibration_pipeline",
   "calibration_pipeline_layout", "calibration_pool", "calibration_layout",
   "rcd_pipeline", "rcd_pipeline_layout", "rcd_pool", "rcd_layout"}

PackerDestroys ==
  {"fences", "command_pool", "query_pool", "pipeline", "pipeline_layout",
   "descriptor_pool", "layout", "buffers"}

Destroys ==
  [writer |-> WriterDestroys, camera |-> CameraDestroys, raw |-> RawDestroys,
   packer |-> PackerDestroys][client]

-----------------------------------------------------------------------------
(* The steps of an operation.  prepare waits for the slot and takes it;    *)
(* submit includes the recording.                                          *)

WriterSteps == <<"prepare", "upload", "reset", "submit">>
CameraSteps == <<"prepare", "upload", "reset", "submit", "wait", "read">>
RawSteps == <<"prepare", "reset", "upload", "submit", "wait", "read">>
PackerSteps == <<"upload", "reset", "submit", "wait", "read">>
LutSteps == <<"upload", "reset", "submit", "wait">>

Steps ==
  IF op = "lut" THEN LutSteps
  ELSE [writer |-> WriterSteps, camera |-> CameraSteps, raw |-> RawSteps,
        packer |-> PackerSteps][client]

AtStep(name) == thread = "call" /\ step <= Len(Steps) /\ Steps[step] = name

Init ==
  /\ client \in Clients
  /\ ops = Operations[client]
  /\ QueueInit(client = "raw")
  /\ thread = "construct"
  /\ step = 0
  /\ op = "none"
  /\ frame = 0
  /\ slot = 0
  /\ next_slot = 0
  /\ in_flight = [s \in Slots |-> FALSE]
  /\ submitted = [s \in Slots |-> None]
  /\ live = {}
  /\ outcome = [f \in Frames |-> "none"]

\* The member function returns after its last step, or goes on.
Advance ==
  IF step = Len(Steps)
  THEN thread' = "idle" /\ step' = 0
  ELSE thread' = thread /\ step' = step + 1

\* The exception leaves the member, or the constructor, which cleans up.
Throws ==
  /\ thread' = IF frame = 0 THEN "destroy" ELSE "idle"
  /\ step' = 0
  /\ slot' = IF frame = 0 THEN 0 ELSE slot

-----------------------------------------------------------------------------
(* Construction.                                                           *)

\* The LUT is uploaded through slot 0, whose fence is reset first.
Create ==
  /\ thread = "construct"
  /\ live' = live \cup {Creates[step + 1]}
  /\ LET last == step + 1 = Len(Creates)
     IN  IF last /\ HasLut
         THEN thread' = "call" /\ op' = "lut" /\ step' = 1
         ELSE /\ thread' = IF last THEN "idle" ELSE thread
              /\ step' = IF last THEN 0 ELSE step + 1
              /\ op' = op
  /\ UNCHANGED <<queueVars, programVars, frame, slot, next_slot, in_flight,
                 submitted, outcome>>

\* A step fails, having created some of its resources or none.  create_buffer
\* looks for a memory type outside its try: a buffer for which there is none
\* is not destroyed.
CreateFails ==
  /\ thread = "construct"
  /\ \/ live' \in {live, live \cup {Creates[step + 1]}}
     \/ Creates[step + 1] = "buffers" /\ live' = live \cup {"buffers", "orphan"}
  /\ thread' = "destroy"
  /\ step' = 0
  /\ UNCHANGED <<queueVars, programVars, op, frame, slot, next_slot, in_flight,
                 submitted, outcome>>

-----------------------------------------------------------------------------
(* Operations.                                                             *)

Call ==
  /\ thread = "idle"
  /\ frame < MaxCalls
  /\ frame' = frame + 1
  /\ op' \in DOMAIN ops \ {"lut"}
  /\ slot' = IF client = "packer" THEN 0 ELSE next_slot
  /\ next_slot' = IF client = "packer" THEN 0 ELSE (next_slot + 1) % NumSlots
  /\ thread' = "call"
  /\ step' = 1
  /\ UNCHANGED <<queueVars, programVars, in_flight, submitted, live, outcome>>

\* The shader of the slot's last submission leaves a status word, which
\* rejects the frame when it is not zero: any frame may be.
HasStatus(s) ==
  submitted[s].op \in DOMAIN ops /\ "status" \in ops[submitted[s].op].results

\* The host reads the status word the slot's frame left, if it has one.
ReadStatus(s) ==
  LET old == submitted[s]
      wrong == /\ HasStatus(s)
               /\ ~HostReads(ops, s, old.op, old.frame, {"status"})
  IN  outcome' = IF wrong THEN [outcome EXCEPT ![old.frame] = "garbage"]
                          ELSE outcome

\* Faulty: a slot that comes round again is used at once.
WaitsForNothing == FALSE

\* recycle_slot and wait_slot wait for what is in flight; raw waits for a
\* fence that is signaled unless an operation has been abandoned.
WaitsForSlot == IF client = "raw" THEN TRUE ELSE in_flight[slot]

TimestampsReady ==
  client = "writer" => ops[submitted[slot].op].reads \subseteq available[slot]

\* recycle_slot has waited, and there is a status word to look at.
StatusAtHand == fence[slot] /\ TimestampsReady /\ HasStatus(slot)

Prepare ==
  /\ AtStep("prepare")
  /\ IF WaitsForSlot
     THEN /\ fence[slot]
          /\ TimestampsReady
          /\ in_flight' = [in_flight EXCEPT ![slot] = FALSE]
          /\ IF client = "writer" THEN ReadStatus(slot) ELSE outcome' = outcome
     ELSE UNCHANGED <<in_flight, outcome>>
  /\ live' = live \ {"views"}
  /\ Advance
  /\ UNCHANGED <<queueVars, programVars, op, frame, slot, next_slot, submitted>>

\* The slot's earlier frame turns out to be rejected: the slot is free, and the
\* exception leaves the call that was to use it.
PrepareRejects ==
  /\ AtStep("prepare")
  /\ client = "writer"
  /\ WaitsForSlot
  /\ StatusAtHand
  /\ ReadStatus(slot)
  /\ in_flight' = [in_flight EXCEPT ![slot] = FALSE]
  /\ live' = live \ {"views"}
  /\ Throws
  /\ UNCHANGED <<queueVars, programVars, op, frame, next_slot, submitted>>

\* The frame, the views and the descriptors of a writer's output come here.
Upload ==
  /\ AtStep("upload")
  /\ HostWrite(slot, frame,
               ops[op].uploads \cup (ops[op].results \cap {"image"}))
  /\ live' = IF "image" \in ops[op].results THEN live \cup {"views"} ELSE live
  /\ Advance
  /\ UNCHANGED <<pending, fence, available, lost, programVars, op, frame, slot,
                 next_slot, in_flight, submitted, outcome>>

ResetFence ==
  /\ AtStep("reset")
  /\ fence' = [fence EXCEPT ![slot] = FALSE]
  /\ Advance
  /\ UNCHANGED <<pending, mem, available, lost, programVars, op, frame, slot,
                 next_slot, in_flight, submitted, live, outcome>>

Submit ==
  /\ AtStep("submit")
  /\ ~lost
  /\ Enqueue(ops, slot, op, frame)
  /\ submitted' = [submitted EXCEPT ![slot] = [op |-> op, frame |-> frame]]
  /\ in_flight' = [in_flight EXCEPT ![slot] =
                     client = "camera" \/ (client = "writer" /\ op # "lut")]
  /\ Advance
  /\ UNCHANGED <<fence, lost, programVars, op, frame, slot, next_slot, live, outcome>>

Wait ==
  /\ AtStep("wait")
  /\ fence[slot]
  /\ in_flight' = [in_flight EXCEPT ![slot] = FALSE]
  /\ Advance
  /\ UNCHANGED <<queueVars, programVars, op, frame, slot, next_slot, submitted,
                 live, outcome>>

\* Timestamps (which waits for their results), then status, then the planes.
ReadResults ==
  /\ AtStep("read")
  /\ ops[op].reads \subseteq available[slot]
  /\ outcome' = [outcome EXCEPT ![frame] =
                   IF HostReads(ops, slot, op, frame, ops[op].results)
                   THEN "good" ELSE "garbage"]
  /\ Advance
  /\ UNCHANGED <<queueVars, programVars, op, frame, slot, next_slot, in_flight,
                 submitted, live>>

\* The status word rejects the frame (camera): its result is not read.
ReadRejects ==
  /\ AtStep("read")
  /\ ops[op].reads \subseteq available[slot]
  /\ HasStatus(slot)
  /\ ReadStatus(slot)
  /\ Throws
  /\ UNCHANGED <<queueVars, programVars, op, frame, next_slot, in_flight,
                 submitted, live>>

\* A Vulkan call fails.  Waits fail when the device is lost; once they have
\* ended, the memory to be read may fail to be mapped.  pack_impl destroys the
\* views it has created.
StepFails ==
  /\ thread = "call"
  /\ AtStep("wait") => lost
  /\ AtStep("prepare") => lost \/ (client = "writer" /\ WaitsForSlot /\ StatusAtHand)
  /\ AtStep("read") => lost \/ ops[op].reads \subseteq available[slot]
  /\ live' = IF client = "writer" /\ ~AtStep("prepare") THEN live \ {"views"}
                                                        ELSE live
  /\ Throws
  /\ UNCHANGED <<queueVars, programVars, op, frame, next_slot, in_flight,
                 submitted, outcome>>

-----------------------------------------------------------------------------
(* Destruction.                                                            *)

Destroy ==
  /\ thread = "idle"
  /\ thread' = "destroy"
  /\ slot' = 0
  /\ UNCHANGED <<queueVars, programVars, step, op, frame, next_slot, in_flight,
                 submitted, live, outcome>>

\* raw waits for every fence it has created, packer for none.
CleanupWaits ==
  CASE client = "raw" -> "fences" \in live
    [] client = "packer" -> FALSE
    [] OTHER -> in_flight[slot]

\* The slots in turn.  camera and raw ignore that a wait has failed.
CleanupSlot ==
  /\ thread = "destroy"
  /\ slot < NumSlots
  /\ CleanupWaits => (fence[slot] /\ TimestampsReady) \/ (lost /\ client # "writer")
  /\ IF CleanupWaits /\ client = "writer" THEN ReadStatus(slot)
                                          ELSE outcome' = outcome
  /\ in_flight' = [in_flight EXCEPT ![slot] = FALSE]
  /\ slot' = slot + 1
  /\ UNCHANGED <<queueVars, programVars, thread, step, op, frame, next_slot,
                 submitted, live>>

\* The writer's wait() throws at the first slot that fails, and cleanup()
\* swallows the exception: the slots after it are not waited for.  The device
\* is lost, the status word cannot be mapped, or it rejects the frame.
CleanupGivesUp ==
  /\ thread = "destroy"
  /\ slot < NumSlots
  /\ client = "writer" /\ CleanupWaits
  /\ \/ /\ lost \/ StatusAtHand
        /\ UNCHANGED <<in_flight, outcome>>
     \/ /\ StatusAtHand
        /\ ReadStatus(slot)
        /\ in_flight' = [in_flight EXCEPT ![slot] = FALSE]
  /\ slot' = NumSlots
  /\ UNCHANGED <<queueVars, programVars, thread, step, op, frame, next_slot,
                 submitted, live>>

\* What a submission still finds in the buffers is garbage; the images are
\* the encoder's.
CleanupDestroy ==
  /\ thread = "destroy"
  /\ slot = NumSlots
  /\ live' = live \ Destroys
  /\ mem' = [l \in Locations |->
               IF l[2] = "image" THEN mem[l] ELSE [mem[l] EXCEPT !.tag = Garbage]]
  /\ thread' = "gone"
  /\ UNCHANGED <<pending, fence, available, lost, programVars, step, op, frame,
                 slot, next_slot, in_flight, submitted, outcome>>

-----------------------------------------------------------------------------
Gpu ==
  \/ Execute(ops) /\ UNCHANGED clientVars
  \/ /\ Complete(ops, Coherent(client))
     /\ LET sub == Head(pending)
        IN  outcome' = IF "image" \in ops[sub.op].results
                       THEN [outcome EXCEPT ![sub.frame] =
                               IF Computed(ops, "image") THEN "good" ELSE "garbage"]
                       ELSE outcome
     /\ UNCHANGED <<programVars, thread, step, op, frame, slot, next_slot,
                    in_flight, submitted, live>>

Host ==
  \/ Create \/ CreateFails
  \/ Prepare \/ Upload \/ ResetFence \/ Submit \/ Wait \/ ReadResults
  \/ PrepareRejects \/ ReadRejects \/ StepFails
  \/ CleanupSlot \/ CleanupGivesUp \/ CleanupDestroy

Caller == Call \/ Destroy

Next == Gpu \/ Host \/ Caller \/ (DeviceLost /\ UNCHANGED clientVars)

Spec == Init /\ [][Next]_vars

\* The GPU makes progress and a call that can go on does; nothing makes the
\* caller call again or destroy the object.
FairSpec == Spec /\ WF_vars(Gpu) /\ WF_vars(Host)

-----------------------------------------------------------------------------
(* Properties.                                                             *)

\* The writer's cleanup() has given up at a slot whose status word it came to
\* read, and has destroyed what the frame of a later slot may still need: the
\* disagreement RetainedUntilFence of FrameSlots shows.
Abandoned(f) ==
  /\ client = "writer"
  /\ thread = "gone"
  /\ \E s \in Slots :
       /\ in_flight[s] /\ submitted[s].frame = f
       /\ \E r \in 0..(s - 1) : HasStatus(r)

\* Whatever order the GPU executes commands in, every image and every result
\* the host reads is what the recorded chain means it to be: no dispatch
\* reads a buffer early, late, after the next frame has overwritten it or
\* after it has been destroyed, but for the frames cleanup() abandons when
\* it gives up at a status word.
\* (pack_impl, camera_to_dwg_*_for_test, calibrate, demosaic_rcd, pack, and
\* the cleanup of each class.)
ResultsAreComputed ==
  \A f \in Frames : outcome[f] = "garbage" => Abandoned(f)

\* An object that is gone leaves nothing behind, whichever call failed in
\* its constructor or later, but for the buffer create_buffer drops when no
\* memory type fits it.  (cleanup.)
NothingLeaked == thread = "gone" => live \subseteq {"orphan"}

\* Wherever a wait is, it ends: the operation returns or throws and the
\* destructor finishes.  The exception is raw: an operation that threw
\* between resetting the fence and submitting leaves a fence nothing will
\* signal, and the next use of the slot, or the destructor, waits for ever.
\* (recycle_slot, wait_slot, submit_and_wait, cleanup.)
Stranded ==
  /\ client = "raw"
  /\ AtStep("prepare") \/ thread = "destroy"
  /\ slot < NumSlots
  /\ ~fence[slot] /\ ~Busy(slot)
CallsReturn ==
  (thread \in {"call", "destroy"}) ~> (thread \in {"idle", "gone"} \/ Stranded)

Grids == {[w |-> d[1], h |-> d[2], cfa |-> c] :
            d \in {<<2, 2>>, <<8, 10>>, <<12, 12>>, <<14, 13>>, <<20, 19>>},
            c \in CfaPatterns}
GridsRaceFree ==
  \A n \in Passes, g \in Grids : RaceFree(n, g) /\ InBounds(n, g)

\* While a RAW frame is demosaiced, the invocations of a pass touch nothing
\* another one writes, and nothing outside the buffers, for every CFA pattern
\* and frames smaller and larger than the borders the guards leave.
\* (pack_raw_mosaic, demosaic_rcd, rcd_demosaic.comp.glsl.)
PassesRaceFree == op \in {"pack_raw_mosaic", "demosaic_rcd"} => GridsRaceFree
=============================================================================
