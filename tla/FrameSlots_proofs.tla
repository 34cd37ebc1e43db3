-------------------------- MODULE FrameSlots_proofs --------------------------
(***************************************************************************)
(* Proofs about the ring of resident slots, for any number of slots and of *)
(* frames.                                                                 *)
(***************************************************************************)
EXTENDS FrameSlots, SequenceTheorems, TLAPS

USE NumSlotsAssumption, NumFramesAssumption
USE DEF Slots, Frames, NoFrame, slotVars, inputVars

-----------------------------------------------------------------------------
(* Type correctness.                                                       *)

\* The slot after a slot of the ring is one of the ring.
LEMMA RingCloses ==
  ASSUME NEW s \in Slots
  PROVE  AfterSlot(s) \in Slots
BY SMT DEF AfterSlot

\* No step leaves the types.
LEMMA TypeNext == ASSUME IInv, [Next]_vars PROVE TypeOK'
<1> USE DEF TypeOK, Places
<1>0. /\ TypeOK
      /\ thread = "submit" => frame \in Frames
      /\ 0 \in Slots
  BY DEF IInv, SlotRecycled
<1>1. CASE Pack
  <2>1. AfterSlot(next_slot) \in Slots
    BY <1>0, RingCloses
  <2>2. QED
    BY <1>0, <1>1, <2>1 DEF Pack
<1>2. CASE PackRecycle
  BY <1>0, <1>2 DEF PackRecycle, Recycled
<1>3. CASE Upload
  BY <1>0, <1>3 DEF Upload
<1>4. CASE Submit
  <2>1. [slot |-> slot, frame |-> frame] \in [slot : Slots, frame : Frames]
    BY <1>0, <1>4 DEF Submit
  <2>2. queue' \in Seq([slot : Slots, frame : Frames])
    BY <1>0, <1>4, <2>1, AppendProperties DEF Submit
  <2>3. QED
    BY <1>0, <1>4, <2>2 DEF Submit
<1>5. CASE SubmitFails
  BY <1>0, <1>5 DEF SubmitFails
<1>6. CASE Drain \/ Cleanup
  BY <1>0, <1>6 DEF Drain, Cleanup
<1>7. CASE WaitSlot
  <2>1. thread \in {"drain", "cleanup"}
        /\ Done[thread] \in {"drained", "destroyed"}
        /\ Thrown[thread] \in {"failed", "destroyed"}
    BY <1>7 DEF WaitSlot, Done, Thrown
  <2>2. slot' \in Slots
    BY <1>0, <1>7 DEF WaitSlot
  <2>3. thread' \in Places
    BY <1>0, <1>7, <2>1 DEF WaitSlot, Recycled
  <2>4. in_flight' \in [Slots -> BOOLEAN] /\ views' \in [Slots -> BOOLEAN]
    BY <1>0, <1>7 DEF WaitSlot, Recycled
  <2>5. QED
    BY <1>0, <1>7, <2>2, <2>3, <2>4 DEF WaitSlot
<1>8. CASE DeviceCallFails
  BY <1>0, <1>8 DEF DeviceCallFails, Thrown
<1>9. CASE GpuCompletes
  <2>1. /\ Head(queue) \in [slot : Slots, frame : Frames]
        /\ Tail(queue) \in Seq([slot : Slots, frame : Frames])
    BY <1>0, <1>9, HeadTailProperties DEF GpuCompletes
  <2>2. buffer[Head(queue).slot] \in 0..NumFrames
    BY <1>0, <2>1
  <2>3. (camera_chain /\ buffer[Head(queue).slot] \in rejected) \in BOOLEAN
    OBVIOUS
  <2>4. QED
    BY <1>0, <1>9, <2>1, <2>2, <2>3 DEF GpuCompletes
<1>10. CASE DeviceLost
  <2>1. queue' \in Seq([slot : Slots, frame : Frames])
    BY <1>10 DEF DeviceLost
  <2>2. QED
    BY <1>0, <1>10, <2>1 DEF DeviceLost
<1>11. CASE UNCHANGED vars
  BY <1>0, <1>11 DEF vars
<1>12. QED
  BY <1>1, <1>2, <1>3, <1>4, <1>5, <1>6, <1>7, <1>8, <1>9, <1>10, <1>11
  DEF Next, Thread, Terminated

-----------------------------------------------------------------------------
(* What the GPU and the thread agree on.                                   *)

\* A slot whose fence is signaled, and one that is not in flight, is not
\* busy: what the thread does to it, the GPU does not see.
LEMMA FreeNotBusy ==
  ASSUME IInv, NEW s \in Slots, fence[s] \/ ~in_flight[s]
  PROVE  \A i \in 1..Len(queue) : queue[i].slot # s
BY DEF IInv, QueueHeld

Submission == [slot : Slots, frame : Frames]

\* A submission in the queue.
LEMMA InQueue ==
  ASSUME NEW q \in Seq(Submission), NEW i \in 1..Len(q)
  PROVE  q[i] \in Submission /\ q[i].slot \in Slots /\ q[i].frame \in Frames
<1>1. q[i] \in Submission
  BY ElementOfSeq
<1>2. QED
  BY <1>1 DEF Submission

\* What a completed submission leaves in the queue.
LEMMA QueueShift ==
  ASSUME IInv, GpuCompletes
  PROVE  LET done == Head(queue) IN
         /\ done.slot \in Slots /\ done.frame \in Frames
         /\ buffer[done.slot] = done.frame
         /\ in_flight[done.slot]
         /\ Len(queue') = Len(queue) - 1 /\ Len(queue) \in Nat
         /\ \A i \in 1..Len(queue') : /\ i \in 1..Len(queue) /\ i + 1 \in 1..Len(queue)
                                      /\ queue'[i] = queue[i + 1]
                                      /\ queue'[i].slot # done.slot
                                      /\ queue'[i].slot \in Slots
<1> DEFINE done == Head(queue)
<1>1. queue \in Seq(Submission) /\ queue # << >> /\ queue' = Tail(queue)
  BY DEF IInv, TypeOK, GpuCompletes, Submission
<1>2. /\ done \in Submission /\ done = queue[1]
      /\ Len(queue') = Len(queue) - 1 /\ Len(queue) \in Nat \ {0}
      /\ \A i \in 1..Len(queue') : queue'[i] = queue[i + 1]
  BY <1>1, HeadTailProperties
<1>3. 1 \in 1..Len(queue)
  BY <1>2
<1>4. ASSUME NEW i \in 1..Len(queue')
      PROVE  /\ i \in 1..Len(queue) /\ i + 1 \in 1..Len(queue)
             /\ queue'[i].slot # done.slot /\ queue'[i].slot \in Slots
  <2>1. i \in 1..Len(queue) /\ i + 1 \in 1..Len(queue) /\ i + 1 # 1
    BY <1>2
  <2>2. queue[i + 1].slot # queue[1].slot
    BY <1>3, <2>1 DEF IInv, QueueHeld
  <2>3. queue[i + 1].slot \in Slots
    BY <1>1, <2>1, InQueue
  <2>4. QED
    BY <1>2, <2>1, <2>2, <2>3
<1>5. in_flight[done.slot] /\ buffer[done.slot] = done.frame
  BY <1>2, <1>3 DEF IInv, QueueHeld
<1>6. done.slot \in Slots /\ done.frame \in Frames
  BY <1>1, <1>2, <1>3, InQueue
<1>7. QED
  BY <1>2, <1>4, <1>5, <1>6

\* The submissions and the slots keep track of each other.
LEMMA QueueHeldNext == ASSUME IInv, [Next]_vars PROVE QueueHeld'
<1>0. TypeOK /\ QueueHeld
  BY DEF IInv
<1>1. CASE Submit
  <2> DEFINE new == [slot |-> slot, frame |-> frame]
  <2>1. /\ thread = "submit" /\ queue' = Append(queue, new)
        /\ ~in_flight[slot] /\ buffer[slot] = frame
        /\ buffer' = buffer /\ slot \in Slots
        /\ in_flight' = [in_flight EXCEPT ![slot] = TRUE]
        /\ views' = [views EXCEPT ![slot] = TRUE]
        /\ fence' = [fence EXCEPT ![slot] = FALSE]
        /\ queue \in Seq([slot : Slots, frame : Frames])
        /\ new \in [slot : Slots, frame : Frames]
    BY <1>1 DEF Submit, IInv, TypeOK, SlotRecycled
  <2>2. /\ Len(queue') = Len(queue) + 1 /\ Len(queue) \in Nat
        /\ \A i \in 1..Len(queue) : queue'[i] = queue[i]
        /\ queue'[Len(queue) + 1] = new
    BY <2>1, AppendProperties
  <2>3. \A i \in 1..Len(queue) : queue[i].slot # slot
    BY <2>1, FreeNotBusy
  <2>4. \A i \in 1..Len(queue) : queue[i].slot \in Slots
    BY <2>1, InQueue DEF Submission
  <2>5. \A i \in 1..Len(queue') : i \in 1..Len(queue) \/ i = Len(queue) + 1
    BY <2>2
  <2>6. \A i \in 1..Len(queue) :
          LET s == queue[i].slot IN
            /\ in_flight'[s] /\ views'[s] /\ ~fence'[s]
            /\ buffer'[s] = queue[i].frame
    BY <1>0, <2>1, <2>3, <2>4 DEF TypeOK, QueueHeld
  <2>7. in_flight'[slot] /\ views'[slot] /\ ~fence'[slot] /\ buffer'[slot] = frame
    BY <1>0, <2>1 DEF TypeOK
  <2>8. \A i \in 1..Len(queue') :
          LET s == queue'[i].slot IN
            /\ in_flight'[s] /\ views'[s] /\ ~fence'[s]
            /\ buffer'[s] = queue'[i].frame
    BY <2>2, <2>5, <2>6, <2>7
  <2>9. \A i, j \in 1..Len(queue') : queue'[i].slot = queue'[j].slot => i = j
    BY <1>0, <2>2, <2>3, <2>5 DEF QueueHeld
  <2>10. QED
    BY <2>8, <2>9 DEF QueueHeld
<1>2. CASE GpuCompletes
  <2>1. /\ UNCHANGED <<in_flight, views, buffer>>
        /\ fence' = [fence EXCEPT ![Head(queue).slot] = TRUE]
    BY <1>2 DEF GpuCompletes
  <2> DEFINE s(i) == queue'[i].slot
  <2>2. ASSUME NEW i \in 1..Len(queue')
        PROVE  /\ in_flight'[s(i)] /\ views'[s(i)] /\ ~fence'[s(i)]
               /\ buffer'[s(i)] = queue'[i].frame
    <3>1. /\ i + 1 \in 1..Len(queue) /\ queue'[i] = queue[i + 1]
          /\ s(i) # Head(queue).slot /\ s(i) \in Slots
      BY <1>2, QueueShift
    <3>2. /\ in_flight[s(i)] /\ views[s(i)] /\ ~fence[s(i)]
          /\ buffer[s(i)] = queue'[i].frame
      BY <1>0, <3>1 DEF QueueHeld
    <3>3. fence'[s(i)] = fence[s(i)]
      BY <1>0, <2>1, <3>1 DEF TypeOK
    <3>4. QED
      BY <2>1, <3>2, <3>3
  <2>3. ASSUME NEW i \in 1..Len(queue'), NEW j \in 1..Len(queue'),
               queue'[i].slot = queue'[j].slot
        PROVE  i = j
    <3>1. /\ i + 1 \in 1..Len(queue) /\ queue'[i] = queue[i + 1]
          /\ j + 1 \in 1..Len(queue) /\ queue'[j] = queue[j + 1]
      BY <1>2, QueueShift
    <3>2. i + 1 = j + 1
      BY <1>0, <2>3, <3>1 DEF QueueHeld
    <3>3. QED
      BY <3>2
  <2>4. QED
    BY <2>2, <2>3 DEF QueueHeld
<1>3. CASE DeviceLost
  <2>1. Len(queue') = 0
    BY <1>3 DEF DeviceLost
  <2>2. QED
    BY <2>1 DEF QueueHeld
<1>4. ASSUME queue' = queue,
             \A i \in 1..Len(queue) :
               LET s == queue[i].slot IN
                 /\ in_flight'[s] = in_flight[s] /\ views'[s] = views[s]
                 /\ fence'[s] => fence[s]
                 /\ buffer'[s] = buffer[s]
      PROVE  QueueHeld'
  BY <1>0, <1>4 DEF QueueHeld
<1>5. CASE \/ Pack \/ Drain \/ Cleanup \/ DeviceCallFails \/ UNCHANGED vars
  <2>1. queue' = queue /\ UNCHANGED slotVars
    BY <1>5 DEF Pack, Drain, Cleanup, DeviceCallFails, vars
  <2>2. QED
    BY <1>4, <2>1
<1>6. \A i \in 1..Len(queue) : queue[i].slot \in Slots
  BY <1>0, InQueue DEF TypeOK, Submission
<1>7. CASE Upload \/ SubmitFails
  <2>1. /\ queue' = queue /\ UNCHANGED <<in_flight, views>> /\ slot \in Slots
        /\ fence' = fence \/ fence' = [fence EXCEPT ![slot] = FALSE]
        /\ buffer' = buffer \/ buffer' = [buffer EXCEPT ![slot] = frame]
        /\ ~in_flight[slot]
    BY <1>0, <1>7 DEF Upload, SubmitFails, IInv, TypeOK, SlotRecycled
  <2>2. \A i \in 1..Len(queue) : queue[i].slot # slot
    BY <2>1, FreeNotBusy
  <2>3. QED
    BY <1>0, <1>4, <1>6, <2>1, <2>2 DEF TypeOK
<1>8. CASE PackRecycle \/ WaitSlot
  <2>1. /\ queue' = queue /\ UNCHANGED <<buffer, fence>> /\ slot \in Slots
        /\ \/ UNCHANGED <<in_flight, views>>
           \/ /\ fence[slot]
              /\ in_flight' = [in_flight EXCEPT ![slot] = FALSE]
              /\ views' = [views EXCEPT ![slot] = FALSE]
    BY <1>0, <1>8 DEF PackRecycle, WaitSlot, Recycled, TypeOK
  <2>2. CASE UNCHANGED <<in_flight, views>>
    BY <1>4, <2>1, <2>2
  <2>3. CASE ~UNCHANGED <<in_flight, views>>
    <3>1. \A i \in 1..Len(queue) : queue[i].slot # slot
      BY <2>1, <2>3, FreeNotBusy
    <3>2. QED
      BY <1>0, <1>4, <1>6, <2>1, <2>3, <3>1 DEF TypeOK
  <2>4. QED
    BY <2>2, <2>3
<1>9. QED
  BY <1>1, <1>2, <1>3, <1>5, <1>7, <1>8 DEF Next, Thread, Terminated

\* The thread packs into slots it has recycled.
LEMMA SlotRecycledNext == ASSUME IInv, [Next]_vars PROVE SlotRecycled'
<1> USE DEF SlotRecycled
<1>0. TypeOK /\ SlotRecycled
  BY DEF IInv
<1>1. CASE Pack
  BY <1>0, <1>1 DEF Pack, TypeOK
<1>2. CASE PackRecycle
  BY <1>0, <1>2 DEF PackRecycle, Recycled, TypeOK
<1>3. CASE Upload
  BY <1>0, <1>3 DEF Upload, TypeOK
<1>4. CASE Submit \/ SubmitFails \/ Drain \/ Cleanup
  BY <1>4 DEF Submit, SubmitFails, Drain, Cleanup
<1>5. CASE WaitSlot
  BY <1>5 DEF WaitSlot, Recycled, Done, Thrown
<1>6. CASE DeviceCallFails
  BY <1>6 DEF DeviceCallFails, Thrown
<1>7. CASE GpuCompletes \/ DeviceLost \/ UNCHANGED vars
  BY <1>0, <1>7 DEF GpuCompletes, DeviceLost, vars
<1>8. QED
  BY <1>1, <1>2, <1>3, <1>4, <1>5, <1>6, <1>7 DEF Next, Thread, Terminated

-----------------------------------------------------------------------------
(* What becomes of the frames.                                             *)

\* A completed submission computes its image from its own frame; no other
\* step computes an image.
LEMMA ImagesNext == ASSUME IInv, [Next]_vars PROVE ImagesIntact'
<1>1. CASE GpuCompletes
  <2>1. /\ image' = [image EXCEPT ![Head(queue).frame] = Head(queue).frame]
        /\ Head(queue).frame \in Frames
    BY <1>1, QueueShift DEF GpuCompletes
  <2>2. QED
    BY <2>1 DEF IInv, TypeOK, ImagesIntact
<1>2. ASSUME image' = image PROVE ImagesIntact'
  BY <1>2 DEF IInv, ImagesIntact
<1>3. CASE Pack \/ PackRecycle \/ Upload \/ Submit \/ SubmitFails
  BY <1>2, <1>3 DEF Pack, PackRecycle, Upload, Submit, SubmitFails
<1>4. CASE Drain \/ Cleanup \/ WaitSlot \/ DeviceCallFails \/ DeviceLost
           \/ UNCHANGED vars
  BY <1>2, <1>4 DEF Drain, Cleanup, WaitSlot, DeviceCallFails, DeviceLost, vars
<1>5. QED
  BY <1>1, <1>3, <1>4 DEF Next, Thread, Terminated

\* A completion leaves every image that is right as it is.
LEMMA ImagesStay ==
  ASSUME IInv, GpuCompletes
  PROVE  \A f \in Frames : image[f] = f => image'[f] = f
<1>1. /\ image' = [image EXCEPT ![Head(queue).frame] = Head(queue).frame]
      /\ Head(queue).frame \in Frames
  BY QueueShift DEF GpuCompletes
<1>2. QED
  BY <1>1 DEF IInv, TypeOK

\* A signaled fence keeps telling the truth.
LEMMA FenceTellsNext == ASSUME IInv, [Next]_vars PROVE FenceTells'
<1>0. TypeOK /\ FenceTells
  BY DEF IInv
<1>1. CASE GpuCompletes
  <2> DEFINE done == Head(queue)
  <2>1. /\ done.slot \in Slots /\ done.frame \in Frames
        /\ buffer[done.slot] = done.frame
    BY <1>1, QueueShift
  <2>2. /\ image' = [image EXCEPT ![done.frame] = buffer[done.slot]]
        /\ status' = [status EXCEPT ![done.slot] =
                        camera_chain /\ buffer[done.slot] \in rejected]
        /\ fence' = [fence EXCEPT ![done.slot] = TRUE]
        /\ UNCHANGED <<camera_chain, rejected, in_flight, buffer>>
    BY <1>1 DEF GpuCompletes
  <2> HIDE DEF done
  <2>3. ASSUME NEW s \in Slots, in_flight'[s], fence'[s]
        PROVE  /\ buffer'[s] \in Frames
               /\ image'[buffer'[s]] = buffer'[s]
               /\ status'[s] <=> camera_chain' /\ buffer'[s] \in rejected'
    <3>1. CASE s = done.slot
      BY <1>0, <2>1, <2>2, <3>1 DEF TypeOK
    <3>2. CASE s # done.slot
      <4>1. in_flight[s] /\ fence[s] /\ status'[s] = status[s] /\ buffer'[s] = buffer[s]
        BY <1>0, <2>2, <2>3, <3>2 DEF TypeOK
      <4>2. /\ buffer[s] \in Frames
            /\ image[buffer[s]] = buffer[s]
            /\ status[s] <=> camera_chain /\ buffer[s] \in rejected
        BY <1>0, <4>1 DEF FenceTells
      <4>3. QED
        BY <1>1, <2>2, <4>1, <4>2, ImagesStay
    <3>3. QED
      BY <3>1, <3>2
  <2>4. QED
    BY <2>3 DEF FenceTells
<1>2. ASSUME UNCHANGED <<camera_chain, rejected, image, status>>,
             \A s \in Slots : in_flight'[s] /\ fence'[s] =>
               in_flight[s] /\ fence[s] /\ buffer'[s] = buffer[s]
      PROVE  FenceTells'
  BY <1>0, <1>2 DEF FenceTells
<1>3. CASE Pack \/ Drain \/ Cleanup \/ DeviceCallFails \/ DeviceLost \/ UNCHANGED vars
  <2>1. UNCHANGED <<inputVars, slotVars, image>>
    BY <1>3 DEF Pack, Drain, Cleanup, DeviceCallFails, DeviceLost, vars
  <2>2. QED
    BY <1>2, <2>1
<1>4. CASE Upload
  BY <1>0, <1>2, <1>4 DEF IInv, SlotRecycled, Upload, TypeOK
<1>5. CASE Submit
  BY <1>0, <1>2, <1>5 DEF Submit, TypeOK
<1>6. CASE SubmitFails
  BY <1>0, <1>2, <1>6 DEF SubmitFails, TypeOK
<1>7. CASE PackRecycle
  BY <1>0, <1>2, <1>7 DEF PackRecycle, Recycled, TypeOK
<1>8. CASE WaitSlot
  <2>1. \/ in_flight' = in_flight
        \/ in_flight' = [in_flight EXCEPT ![slot] = FALSE]
    BY <1>8 DEF WaitSlot, Recycled
  <2>2. UNCHANGED <<inputVars, buffer, status, fence, image>>
    BY <1>8 DEF WaitSlot
  <2>3. QED
    BY <1>0, <1>2, <2>1, <2>2 DEF TypeOK
<1>9. QED
  BY <1>1, <1>3, <1>4, <1>5, <1>6, <1>7, <1>8 DEF Next, Thread, Terminated

\* A slot recycled without a complaint held a good frame.
LEMMA RecycledIsGood ==
  ASSUME IInv, in_flight[slot], fence[slot], ~(camera_chain /\ status[slot])
  PROVE  Good(buffer[slot])
BY DEF IInv, TypeOK, FenceTells, Good

\* What is accounted for when nothing is drained.
Pending(f) == \E s \in Slots : in_flight[s] /\ buffer[s] = f

\* No frame is lost sight of.
LEMMA FramesAccountedNext == ASSUME IInv, [Next]_vars PROVE FramesAccounted'
<1> DEFINE Watched == {"idle", "recycle", "upload", "submit", "drain", "drained"}
<1>0. TypeOK /\ FramesAccounted /\ FenceTells
  BY DEF IInv
<1>1. LastSubmitted \in Int
  BY <1>0 DEF TypeOK, LastSubmitted
<1>2. ASSUME thread' \notin Watched PROVE FramesAccounted'
  BY <1>2 DEF FramesAccounted
<1>3. ASSUME thread \in {"idle", "recycle", "upload", "submit"}
      PROVE  \A f \in 1..LastSubmitted : Good(f) \/ Pending(f)
  BY <1>0, <1>3 DEF FramesAccounted, Pending
<1>4. ASSUME thread' \in {"idle", "recycle", "upload", "submit"},
             \A f \in 1..LastSubmitted' : (Good(f) \/ Pending(f))'
      PROVE  FramesAccounted'
  BY <1>4 DEF FramesAccounted, Pending
<1>5. ASSUME UNCHANGED <<camera_chain, rejected, image>>, NEW f, Good(f)
      PROVE  Good(f)'
  BY <1>5 DEF Good
<1>6. CASE Pack
  <2>1. /\ thread = "idle" /\ thread' \in {"recycle", "upload"}
        /\ frame' = frame + 1 /\ UNCHANGED <<camera_chain, rejected, image, slotVars>>
    BY <1>6 DEF Pack
  <2>2. LastSubmitted' = LastSubmitted
    BY <1>0, <2>1 DEF LastSubmitted, TypeOK
  <2>3. \A f \in 1..LastSubmitted : (Good(f) \/ Pending(f))'
    BY <1>3, <2>1 DEF Good, Pending
  <2>4. QED
    BY <1>4, <2>1, <2>2, <2>3
<1>7. CASE PackRecycle
  <2>1. /\ thread = "recycle" /\ fence[slot] /\ slot \in Slots
        /\ in_flight' = [in_flight EXCEPT ![slot] = FALSE]
        /\ thread' = IF camera_chain /\ status[slot] THEN "failed" ELSE "upload"
        /\ UNCHANGED <<camera_chain, rejected, image, buffer, frame>>
    BY <1>0, <1>7 DEF PackRecycle, Recycled, TypeOK
  <2>2. CASE camera_chain /\ status[slot]
    BY <1>2, <2>1, <2>2
  <2>3. CASE ~(camera_chain /\ status[slot])
    <3>1. LastSubmitted' = LastSubmitted
      BY <2>1, <2>3 DEF LastSubmitted
    <3>2. ASSUME NEW f \in 1..LastSubmitted PROVE (Good(f) \/ Pending(f))'
      <4>1. CASE Good(f)
        BY <1>5, <2>1, <4>1
      <4>2. ASSUME NEW s \in Slots, in_flight[s], buffer[s] = f, s # slot
            PROVE  Pending(f)'
        BY <1>0, <2>1, <4>2 DEF Pending, TypeOK
      <4>3. ASSUME in_flight[slot], buffer[slot] = f PROVE Good(f)'
        BY <1>5, <2>1, <2>3, <4>3, RecycledIsGood
      <4>4. QED
        BY <1>3, <2>1, <4>1, <4>2, <4>3 DEF Pending
    <3>3. QED
      BY <1>4, <2>1, <2>3, <3>1, <3>2
  <2>4. QED
    BY <2>2, <2>3
<1>8. CASE Upload
  <2>1. /\ thread = "upload" /\ thread' = "submit" /\ slot \in Slots /\ ~in_flight[slot]
        /\ buffer' = [buffer EXCEPT ![slot] = frame]
        /\ UNCHANGED <<camera_chain, rejected, image, in_flight, frame>>
    BY <1>0, <1>8 DEF Upload, TypeOK, IInv, SlotRecycled
  <2>2. LastSubmitted' = LastSubmitted
    BY <2>1 DEF LastSubmitted
  <2>3. ASSUME NEW f \in 1..LastSubmitted PROVE (Good(f) \/ Pending(f))'
    <3>1. CASE Good(f)
      BY <1>5, <2>1, <3>1
    <3>2. ASSUME NEW s \in Slots, in_flight[s], buffer[s] = f PROVE Pending(f)'
      BY <1>0, <2>1, <3>2 DEF Pending, TypeOK
    <3>3. QED
      BY <1>3, <2>1, <3>1, <3>2 DEF Pending
  <2>4. QED
    BY <1>4, <2>1, <2>2, <2>3
<1>9. CASE Submit
  <2>1. /\ thread = "submit" /\ thread' = "idle" /\ slot \in Slots /\ buffer[slot] = frame
        /\ in_flight' = [in_flight EXCEPT ![slot] = TRUE]
        /\ UNCHANGED <<camera_chain, rejected, image, buffer, frame>>
    BY <1>0, <1>9 DEF Submit, TypeOK, IInv, SlotRecycled
  <2>2. ASSUME NEW s \in Slots, in_flight[s] \/ s = slot
        PROVE  in_flight'[s] /\ buffer'[s] = buffer[s]
    BY <1>0, <2>1, <2>2 DEF TypeOK
  <2>3. LastSubmitted' = frame /\ LastSubmitted = frame - 1 /\ frame \in Nat
    BY <1>0, <2>1 DEF LastSubmitted, TypeOK
  <2>4. ASSUME NEW f \in 1..frame PROVE (Good(f) \/ Pending(f))'
    <3>1. CASE f = frame
      BY <2>1, <2>2, <3>1 DEF Pending
    <3>2. CASE f # frame
      <4>1. f \in 1..LastSubmitted
        BY <2>3, <3>2
      <4>2. Good(f) \/ Pending(f)
        BY <1>3, <2>1, <4>1
      <4>3. Pending(f) => Pending(f)'
        BY <2>2 DEF Pending
      <4>4. QED
        BY <1>5, <2>1, <4>2, <4>3
    <3>3. QED
      BY <3>1, <3>2
  <2>5. QED
    BY <1>4, <2>1, <2>3, <2>4
<1>10. CASE SubmitFails \/ Cleanup
  BY <1>2, <1>10 DEF SubmitFails, Cleanup
<1>11. CASE Drain
  <2>1. /\ thread = "idle" /\ thread' = "drain" /\ slot' = 0
        /\ UNCHANGED <<camera_chain, rejected, image, in_flight, buffer, frame>>
    BY <1>11 DEF Drain
  <2>2. LastSubmitted' = LastSubmitted
    BY <2>1 DEF LastSubmitted
  <2>3. \A s \in Slots : 0 <= s
    OBVIOUS
  <2>4. \A f \in 1..LastSubmitted : Good(f)' \/ Pending(f)
    BY <1>3, <1>5, <2>1
  <2>5. QED
    BY <2>1, <2>2, <2>3, <2>4 DEF FramesAccounted, Pending
<1>12. CASE WaitSlot
  <2>1. CASE thread = "cleanup"
    BY <1>2, <1>12, <2>1 DEF WaitSlot, Recycled, Done, Thrown
  <2>2. CASE thread = "drain"
    <3>1. /\ slot \in Slots /\ UNCHANGED <<camera_chain, rejected, image, buffer, frame>>
          /\ slot' = IF slot = NumSlots - 1 THEN slot ELSE slot + 1
          /\ in_flight' = [in_flight EXCEPT ![slot] = FALSE]
          /\ in_flight[slot] => fence[slot]
          /\ thread' = IF in_flight[slot] /\ camera_chain /\ status[slot] THEN "failed"
                       ELSE IF slot = NumSlots - 1 THEN "drained" ELSE "drain"
      BY <1>0, <1>12, <2>2 DEF WaitSlot, Recycled, Done, Thrown, TypeOK
    <3>2. CASE in_flight[slot] /\ camera_chain /\ status[slot]
      BY <1>2, <3>1, <3>2
    <3>3. CASE ~(in_flight[slot] /\ camera_chain /\ status[slot])
      <4>1. LastSubmitted' = LastSubmitted
        BY <2>2, <3>1, <3>3 DEF LastSubmitted
      <4>2. ASSUME NEW f \in 1..LastSubmitted
            PROVE  \/ Good(f)'
                   \/ /\ thread' # "drained"
                      /\ \E s \in Slots : /\ in_flight'[s] /\ buffer'[s] = f
                                          /\ slot' <= s
        <5>1. CASE Good(f)
          BY <1>5, <3>1, <5>1
        <5>2. ASSUME NEW s \in Slots, in_flight[s], buffer[s] = f, slot <= s, s # slot
              PROVE  /\ thread' # "drained"
                     /\ in_flight'[s] /\ buffer'[s] = f /\ slot' <= s
          <6>1. slot # NumSlots - 1 /\ slot + 1 <= s
            BY <3>1, <5>2
          <6>2. QED
            BY <1>0, <3>1, <5>2, <6>1 DEF TypeOK
        <5>3. ASSUME in_flight[slot], buffer[slot] = f PROVE Good(f)'
          BY <1>5, <3>1, <3>3, <5>3, RecycledIsGood
        <5>4. \/ Good(f)
              \/ \E s \in Slots : in_flight[s] /\ buffer[s] = f /\ slot <= s
          BY <1>0, <2>2 DEF FramesAccounted
        <5>5. QED
          BY <5>1, <5>2, <5>3, <5>4
      <4>3. QED
        BY <4>1, <4>2 DEF FramesAccounted
    <3>4. QED
      BY <3>2, <3>3
  <2>3. QED
    BY <1>12, <2>1, <2>2 DEF WaitSlot, Done
<1>13. CASE DeviceCallFails
  BY <1>2, <1>13 DEF DeviceCallFails, Thrown
<1>14. CASE GpuCompletes \/ DeviceLost \/ UNCHANGED vars
  <2>1. UNCHANGED <<camera_chain, rejected, thread, frame, slot, in_flight, buffer>>
    BY <1>14 DEF GpuCompletes, DeviceLost, vars
  <2>2. LastSubmitted' = LastSubmitted
    BY <2>1 DEF LastSubmitted
  <2>3. \A f \in Frames : image[f] = f => image'[f] = f
    BY <1>14, ImagesStay DEF DeviceLost, vars
  <2>4. \A f \in 1..LastSubmitted : f \in Frames
    BY <1>0 DEF TypeOK, LastSubmitted
  <2>5. \A f \in 1..LastSubmitted : Good(f) => Good(f)'
    BY <2>1, <2>3, <2>4 DEF Good
  <2>6. QED
    BY <1>0, <2>1, <2>2, <2>5 DEF FramesAccounted
<1>15. QED
  BY <1>6, <1>7, <1>8, <1>9, <1>10, <1>11, <1>12, <1>13, <1>14
  DEF Next, Thread, Terminated

-----------------------------------------------------------------------------
(* The theorems.                                                           *)

\* The ring starts empty.
LEMMA InitInv == Init => IInv
<1> SUFFICES ASSUME Init PROVE IInv
  OBVIOUS
<1> USE DEF Init
<1>1. TypeOK
  <2>1. 0 \in Slots /\ queue \in Seq([slot : Slots, frame : Frames])
    OBVIOUS
  <2>2. /\ 0 \in 0..NumFrames /\ camera_chain \in BOOLEAN
        /\ rejected \subseteq Frames /\ thread \in Places
    BY DEF Places
  <2>3. /\ in_flight \in [Slots -> BOOLEAN] /\ views \in [Slots -> BOOLEAN]
        /\ status \in [Slots -> BOOLEAN] /\ fence \in [Slots -> BOOLEAN]
    OBVIOUS
  <2>4. buffer \in [Slots -> 0..NumFrames] /\ image \in [Frames -> 0..NumFrames]
    BY <2>2
  <2>5. QED
    BY <2>1, <2>2, <2>3, <2>4 DEF TypeOK
<1>2. QueueHeld
  <2>1. Len(queue) = 0
    OBVIOUS
  <2>2. QED
    BY <2>1 DEF QueueHeld
<1>3. ImagesIntact /\ SlotRecycled /\ FenceTells /\ FramesAccounted
  BY DEF ImagesIntact, SlotRecycled, FenceTells, FramesAccounted, LastSubmitted
<1>4. QED
  BY <1>1, <1>2, <1>3 DEF IInv

\* Every step keeps the invariant.
LEMMA NextInv == IInv /\ [Next]_vars => IInv'
BY TypeNext, ImagesNext, QueueHeldNext, SlotRecycledNext, FenceTellsNext,
   FramesAccountedNext DEF IInv

\* Hence it always holds.
THEOREM Invariance == Spec => []IInv
BY InitInv, NextInv, PTL DEF Spec

\* Every variable of the ring keeps its type.
THEOREM TypeCorrect == Spec => []TypeOK
<1>1. IInv => TypeOK
  BY DEF IInv
<1>2. QED
  BY <1>1, Invariance, PTL

\* No upload reaches buffers the GPU still reads.
THEOREM Intact == Spec => []ImagesIntact
<1>1. IInv => ImagesIntact
  BY DEF IInv
<1>2. QED
  BY <1>1, Invariance, PTL

\* What the GPU works on is in flight, has its views and one fence of its own.
THEOREM Tracked == Spec => []SlotsTrackGpu
<1>1. IInv => SlotsTrackGpu
  BY DEF IInv, QueueHeld, SlotsTrackGpu, Busy
<1>2. QED
  BY <1>1, Invariance, PTL

\* A drain that returns normally has seen every frame finished and good.
THEOREM Drained == Spec => []DrainedAreGood
<1>1. IInv => DrainedAreGood
  BY DEF IInv, FramesAccounted, LastSubmitted, Good, DrainedAreGood
<1>2. QED
  BY <1>1, Invariance, PTL

=============================================================================
