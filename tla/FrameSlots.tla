----------------------------- MODULE FrameSlots -----------------------------
(***************************************************************************)
(* The ring of resident slots of VulkanRgbToYuvFrameWriter.  A slot owns   *)
(* the buffers a frame is uploaded to, a control-status word the shaders   *)
(* write, the image views, and a fence the GPU signals when it is done.    *)
(* The prepare thread packs frames and drains the ring; the destructor     *)
(* waits for what is in flight and destroys the resources.  The two never  *)
(* overlap: cleanup() of FfmpegWriter joins the thread first.              *)
(*                                                                         *)
(* The GPU executes submissions to the one compute queue in order, on its  *)
(* own time, and reads a slot's buffers until its fence is signaled.       *)
(*                                                                         *)
(* Definitions marked Faulty are not part of the specification: each is    *)
(* the definition after it with one plausible mistake.                     *)
(***************************************************************************)
EXTENDS Integers, Sequences

CONSTANTS
  NumSlots,      \* config.slots
  NumFrames      \* bound: frames packed

ASSUME NumSlotsAssumption == NumSlots \in Nat \ {0}
ASSUME NumFramesAssumption == NumFrames \in Nat

Slots == 0..(NumSlots - 1)
Frames == 1..NumFrames
NoFrame == 0

VARIABLES
  camera_chain,  \* Camera RGB or RAW entry (else TargetLog RGB, no status word)
  rejected,      \* frames in which the shaders find a value to reject
  device_lost,   \* Vulkan calls report VK_ERROR_DEVICE_LOST
  thread,        \* where the thread that uses the writer is
  frame,         \* the frame being packed, or the last one packed
  slot,          \* the slot being used
  next_slot,
  in_flight,     \* Slot::in_flight
  views,         \* the slot holds image views
  buffer,        \* the frame whose data the slot's upload buffers hold
  status,        \* the control-status word reports a rejected value
  fence,         \* the slot's fence is signaled
  queue,         \* submissions the GPU has not finished, by slot and frame
  image          \* the frame whose data each output image was computed from

slotVars == <<in_flight, views, buffer, status, fence>>
inputVars == <<camera_chain, rejected>>
vars == <<inputVars, device_lost, thread, frame, slot, next_slot, slotVars,
          queue, image>>

\* The GPU may still use the resources of slot s.
Busy(s) == \E i \in 1..Len(queue) : queue[i].slot = s

Init ==
  /\ camera_chain \in BOOLEAN
  /\ rejected \in SUBSET Frames
  /\ device_lost = FALSE
  /\ thread = "idle"
  /\ frame = NoFrame
  /\ slot = 0
  /\ next_slot = 0
  /\ in_flight = [s \in Slots |-> FALSE]
  /\ views = [s \in Slots |-> FALSE]
  /\ buffer = [s \in Slots |-> NoFrame]
  /\ status = [s \in Slots |-> FALSE]
  /\ fence = [s \in Slots |-> FALSE]
  /\ queue = << >>
  /\ image = [f \in Frames |-> NoFrame]

-----------------------------------------------------------------------------
(* recycle_slot.                                                           *)

\* Faulty: the control-status word is not read.
RecycledUnread(good, bad) ==
  /\ fence[slot]
  /\ in_flight' = [in_flight EXCEPT ![slot] = FALSE]
  /\ views' = [views EXCEPT ![slot] = FALSE]
  /\ thread' = good

\* The fence wait returns: the slot is free, and if its control-status word
\* reports a rejected value the thread goes on to `bad', else to `good'.
\* A TargetLog submission has no status word to read.
Recycled(good, bad) ==
  /\ fence[slot]
  /\ in_flight' = [in_flight EXCEPT ![slot] = FALSE]
  /\ views' = [views EXCEPT ![slot] = FALSE]
  /\ thread' = IF camera_chain /\ status[slot] THEN bad ELSE good

-----------------------------------------------------------------------------
(* pack_impl.                                                              *)

AfterSlot(s) == (s + 1) % NumSlots

\* The next slot of the ring; recycle_slot has nothing to do for a free one.
Pack ==
  /\ thread = "idle"
  /\ frame < NumFrames
  /\ frame' = frame + 1
  /\ slot' = next_slot
  /\ next_slot' = AfterSlot(next_slot)
  /\ thread' = IF in_flight[next_slot] THEN "recycle" ELSE "upload"
  /\ UNCHANGED <<inputVars, device_lost, slotVars, queue, image>>

\* Faulty: the fence is not waited for.
PackRecycleAtOnce ==
  /\ thread = "recycle"
  /\ in_flight' = [in_flight EXCEPT ![slot] = FALSE]
  /\ views' = [views EXCEPT ![slot] = FALSE]
  /\ thread' = "upload"
  /\ UNCHANGED <<inputVars, device_lost, frame, slot, next_slot, buffer,
                 status, fence, queue, image>>

\* The rejection of an earlier frame is reported by the pack that reuses
\* its slot.
PackRecycle ==
  /\ thread = "recycle"
  /\ Recycled("upload", "failed")
  /\ UNCHANGED <<inputVars, device_lost, frame, slot, next_slot, buffer,
                 status, fence, queue, image>>

Upload ==
  /\ thread = "upload"
  /\ buffer' = [buffer EXCEPT ![slot] = frame]
  /\ thread' = "submit"
  /\ UNCHANGED <<inputVars, device_lost, frame, slot, next_slot, in_flight,
                 views, status, fence, queue, image>>

\* Faulty: the fence is not reset before it is submitted again.
SubmitStaleFence ==
  /\ thread = "submit"
  /\ ~device_lost
  /\ views' = [views EXCEPT ![slot] = TRUE]
  /\ in_flight' = [in_flight EXCEPT ![slot] = TRUE]
  /\ queue' = Append(queue, [slot |-> slot, frame |-> frame])
  /\ thread' = "idle"
  /\ UNCHANGED <<inputVars, device_lost, frame, slot, next_slot, buffer,
                 status, fence, image>>

\* Frame from the pool, views, commands, vkQueueSubmit.  The command buffer
\* begins by clearing the control-status word.
Submit ==
  /\ thread = "submit"
  /\ ~device_lost
  /\ views' = [views EXCEPT ![slot] = TRUE]
  /\ fence' = [fence EXCEPT ![slot] = FALSE]
  /\ in_flight' = [in_flight EXCEPT ![slot] = TRUE]
  /\ queue' = Append(queue, [slot |-> slot, frame |-> frame])
  /\ thread' = "idle"
  /\ UNCHANGED <<inputVars, device_lost, frame, slot, next_slot, buffer,
                 status, image>>

\* Faulty: the slot was marked in flight before the submission failed.
SubmitFailsInFlight ==
  /\ thread = "submit"
  /\ fence' = [fence EXCEPT ![slot] = FALSE]
  /\ in_flight' = [in_flight EXCEPT ![slot] = TRUE]
  /\ thread' = "failed"
  /\ UNCHANGED <<inputVars, device_lost, frame, slot, next_slot, views,
                 buffer, status, queue, image>>

\* The pool is empty, or a Vulkan call fails before the submission: the
\* views are destroyed again; the fence may have been reset already.
SubmitFails ==
  /\ thread = "submit"
  /\ \/ UNCHANGED fence
     \/ fence' = [fence EXCEPT ![slot] = FALSE]
  /\ thread' = "failed"
  /\ UNCHANGED <<inputVars, device_lost, frame, slot, next_slot, in_flight,
                 views, buffer, status, queue, image>>

-----------------------------------------------------------------------------
(* wait() and the destructor.                                              *)

\* The prepare thread drains the ring once the caller has finished.
Drain ==
  /\ thread = "idle"
  /\ slot' = 0
  /\ thread' = "drain"
  /\ UNCHANGED <<inputVars, device_lost, frame, next_slot, slotVars, queue, image>>

\* The writer is destroyed: after a drain, a failure, or at any time between
\* two frames because the caller gave up.
Cleanup ==
  /\ thread \in {"idle", "drained", "failed"}
  /\ slot' = 0
  /\ thread' = "cleanup"
  /\ UNCHANGED <<inputVars, device_lost, frame, next_slot, slotVars, queue, image>>

\* What each loop over the slots does when done, and on an exception: the
\* one of cleanup() is swallowed and the resources are destroyed all the same.
Done == [drain |-> "drained", cleanup |-> "destroyed"]
Thrown == [drain |-> "failed", cleanup |-> "destroyed"]

\* wait(): one slot after the other.  A rejected value ends the loop.
WaitSlot ==
  /\ thread \in DOMAIN Done
  /\ \/ /\ in_flight[slot]
        /\ Recycled(IF slot = NumSlots - 1 THEN Done[thread] ELSE thread,
                    Thrown[thread])
     \/ /\ ~in_flight[slot]
        /\ thread' = IF slot = NumSlots - 1 THEN Done[thread] ELSE thread
        /\ UNCHANGED <<in_flight, views>>
  /\ slot' = IF slot = NumSlots - 1 THEN slot ELSE slot + 1
  /\ UNCHANGED <<inputVars, device_lost, frame, next_slot, buffer, status,
                 fence, queue, image>>

\* A Vulkan call on a lost device fails: an in-flight slot stays in flight.
DeviceCallFails ==
  /\ device_lost
  /\ \/ /\ thread \in {"recycle", "submit"}
        /\ thread' = "failed"
     \/ /\ thread \in DOMAIN Thrown
        /\ in_flight[slot]
        /\ thread' = Thrown[thread]
  /\ UNCHANGED <<inputVars, device_lost, frame, slot, next_slot, slotVars,
                 queue, image>>

-----------------------------------------------------------------------------
(* The GPU.                                                                *)

\* The oldest submission completes: the image is computed from whatever the
\* upload buffers hold, and the status word says whether a value was
\* rejected.
GpuCompletes ==
  /\ queue # << >>
  /\ ~device_lost
  /\ LET done == Head(queue) IN
       /\ image' = [image EXCEPT ![done.frame] = buffer[done.slot]]
       /\ status' = [status EXCEPT ![done.slot] =
                       camera_chain /\ buffer[done.slot] \in rejected]
       /\ fence' = [fence EXCEPT ![done.slot] = TRUE]
  /\ queue' = Tail(queue)
  /\ UNCHANGED <<inputVars, device_lost, thread, frame, slot, next_slot,
                 in_flight, views, buffer>>

\* The device is lost: nothing of what was submitted goes on executing.
DeviceLost ==
  /\ ~device_lost
  /\ thread # "destroyed"
  /\ device_lost' = TRUE
  /\ queue' = << >>
  /\ UNCHANGED <<inputVars, thread, frame, slot, next_slot, slotVars, image>>

-----------------------------------------------------------------------------

Thread ==
  \/ Pack \/ PackRecycle \/ Upload \/ Submit \/ SubmitFails
  \/ Drain \/ Cleanup \/ WaitSlot \/ DeviceCallFails

Terminated ==
  /\ thread = "destroyed"
  /\ UNCHANGED vars

Next == Thread \/ GpuCompletes \/ DeviceLost \/ Terminated

Spec == Init /\ [][Next]_vars

\* The thread keeps going and the GPU finishes what was submitted.
Fairness == WF_vars(Thread) /\ WF_vars(GpuCompletes)

FairSpec == Spec /\ Fairness

-----------------------------------------------------------------------------
(* Properties.                                                             *)

Places == {"idle", "recycle", "upload", "submit", "drain", "drained",
           "failed", "cleanup", "destroyed"}

\* Every variable has the type the code gives it.
TypeOK ==
  /\ camera_chain \in BOOLEAN /\ device_lost \in BOOLEAN
  /\ rejected \subseteq Frames
  /\ thread \in Places
  /\ frame \in 0..NumFrames
  /\ slot \in Slots /\ next_slot \in Slots
  /\ in_flight \in [Slots -> BOOLEAN]
  /\ views \in [Slots -> BOOLEAN]
  /\ buffer \in [Slots -> 0..NumFrames]
  /\ status \in [Slots -> BOOLEAN]
  /\ fence \in [Slots -> BOOLEAN]
  /\ queue \in Seq([slot : Slots, frame : Frames])
  /\ image \in [Frames -> 0..NumFrames]

\* An output image is computed from its own frame: no later upload reaches
\* buffers the GPU still reads, although there are fewer slots than frames.
ImagesIntact == \A f \in Frames : image[f] \in {NoFrame, f}

\* A slot the GPU works on is in flight, keeps its views and is used by one
\* submission; its fence tells when that is over.
SlotsTrackGpu ==
  /\ \A s \in Slots : Busy(s) /\ thread # "destroyed" =>
       in_flight[s] /\ views[s] /\ ~fence[s]
  /\ \A i, j \in 1..Len(queue) : queue[i].slot = queue[j].slot => i = j

\* A drain that returns normally means that the GPU finished every frame
\* and rejected a value in none: the rejections of frames whose slots were
\* reused were reported when they were reused.
DrainedAreGood ==
  thread = "drained" =>
    \A f \in 1..frame : /\ image[f] = f
                        /\ camera_chain => f \notin rejected

\* docs/GPU_STAGE1_CAMERA_RGB_TECHNICAL_DESIGN.md:198, "retain
\* upload/intermediate buffers and image views until the slot fence signals".
RetainedUntilFence == thread = "destroyed" => queue = << >>

\* Packing a frame and draining come to an end, whatever the GPU rejects
\* and also when the device is lost.
WaitsEnd == thread # "idle" ~> thread \in {"idle", "destroyed"}

-----------------------------------------------------------------------------
(* The inductive invariant behind them, in named parts.                    *)

\* A submission is the only one of its slot, whose buffers hold its frame
\* and whose fence is not signaled.
QueueHeld ==
  /\ \A i \in 1..Len(queue) :
       LET s == queue[i].slot IN
         /\ in_flight[s] /\ views[s] /\ ~fence[s]
         /\ buffer[s] = queue[i].frame
  /\ \A i, j \in 1..Len(queue) : queue[i].slot = queue[j].slot => i = j

\* What the thread does to a slot, it does to one it has recycled.
SlotRecycled ==
  /\ thread \in {"upload", "submit"} => ~in_flight[slot]
  /\ thread = "submit" => buffer[slot] = frame
  /\ thread \in {"recycle", "upload", "submit"} => frame # NoFrame

\* Whether the GPU finished f and found nothing to reject in it.
Good(f) == image[f] = f /\ (camera_chain => f \notin rejected)

\* What the fence of a slot in flight tells once it is signaled.
FenceTells ==
  \A s \in Slots : in_flight[s] /\ fence[s] =>
    /\ buffer[s] \in Frames
    /\ image[buffer[s]] = buffer[s]
    /\ status[s] <=> camera_chain /\ buffer[s] \in rejected

\* The last frame packed whose commands may have been submitted.
LastSubmitted ==
  IF thread \in {"recycle", "upload", "submit"} THEN frame - 1 ELSE frame

\* A frame submitted is good or its slot has still to be recycled, in a
\* drain by what is left of the loop.
FramesAccounted ==
  thread \in {"idle", "recycle", "upload", "submit", "drain", "drained"} =>
    \A f \in 1..LastSubmitted :
      \/ Good(f)
      \/ /\ thread # "drained"
         /\ \E s \in Slots : /\ in_flight[s] /\ buffer[s] = f
                             /\ thread = "drain" => slot <= s

IInv ==
  /\ TypeOK
  /\ ImagesIntact
  /\ QueueHeld
  /\ SlotRecycled
  /\ FenceTells
  /\ FramesAccounted

=============================================================================
