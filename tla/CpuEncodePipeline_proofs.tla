---------------------- MODULE CpuEncodePipeline_proofs ----------------------
(***************************************************************************)
(* Proofs about the CPU video path, for any set of contexts, any capacity, *)
(* any timestamps and any number of frames.                                *)
(***************************************************************************)
EXTENDS CpuEncodePipelineProps, FiniteSetTheorems, TLAPS

USE PtsAssumption, MaxInFlightAssumption, MaxFramesAssumption
USE DEF NoPts, NoError, WorkerErrors, Errors,
        callerVars, ptsVars, queueVars, muxVars, failVars, stopVars,
        threadVars, flowVars, controlVars, NotifyOne, Recorded

-----------------------------------------------------------------------------
(* Type correctness.                                                       *)

\* Waking the sleepers keeps every thread and the caller in legal states.
LEMMA WakeType ==
  TypeOK => /\ WakeAll(worker) \in [Contexts -> WorkerStates]
            /\ WakeCaller(caller) \in CallerStates
            /\ WakeCaller(caller) = "submit" => caller \in {"submit", "submit_sleep"}
            /\ WakeCaller(caller) # "submit_sleep"
BY DEF TypeOK, WakeAll, WorkerStates, WakeCaller, CallerStates

\* The drain loop leaves the thread either with an entry to mux or free.
LEMMA DrainLoopType ==
  ASSUME TypeOK, NEW w \in Contexts, NEW entries \in SUBSET Job, NEW sequence,
         DrainLoop(w, entries, sequence)
  PROVE  /\ worker' \in [Contexts -> WorkerStates]
         /\ job' \in [Contexts -> Job]
         /\ completed' \subseteq Job
<1>1. worker' \in [Contexts -> WorkerStates]
  BY DEF DrainLoop, Goto, TypeOK, WorkerStates
<1>2. CASE completed' = entries /\ job' = [job EXCEPT ![w] = NoJob]
  <2>1. NoJob \in Job
    BY DEF NoJob, Job
  <2>2. QED
    BY <1>1, <1>2, <2>1 DEF TypeOK
<1>3. ASSUME NEW e \in Ready(entries, sequence),
             completed' = entries \ {e}, job' = [job EXCEPT ![w] = e]
      PROVE  completed' \subseteq Job /\ job' \in [Contexts -> Job]
  <2>1. e \in Job
    BY DEF Ready
  <2>2. QED
    BY <1>3, <2>1 DEF TypeOK
<1>4. QED
  BY <1>1, <1>2, <1>3 DEF DrainLoop

\* The constructor starts every variable with its type.
LEMMA InitType == Init => TypeOK
<1> SUFFICES ASSUME Init PROVE TypeOK
  OBVIOUS
<1>1. /\ worker \in [Contexts -> WorkerStates]
      /\ job \in [Contexts -> Job]
  BY DEF Init, WorkerStates, Job, NoJob
<1>2. /\ job_queue \in Seq(Job)
      /\ completed \subseteq Job
      /\ submitted \in Seq(Nat)
      /\ muxed \in Seq(Nat)
  BY DEF Init
<1>3. QED
  BY <1>1, <1>2 DEF TypeOK, Init, CallerStates

\* Steps of the caller's thread.
LEMMA CallerType == TypeOK /\ (CallerContinues \/ CallerCalls) => TypeOK'
<1> SUFFICES ASSUME TypeOK PROVE CallerContinues \/ CallerCalls => TypeOK'
  OBVIOUS
<1>1. CASE OpenOutput \/ OpenOutputFails \/ StartWorkerFails
  BY <1>1 DEF TypeOK, CallerStates, OpenOutput, OpenOutputFails, StartWorkerFails, Throw
<1>2. ASSUME NEW w \in Contexts, StartWorker(w) PROVE TypeOK'
  <2>1. worker' \in [Contexts -> WorkerStates]
    BY <1>2 DEF StartWorker, TypeOK, WorkerStates
  <2>2. QED
    BY <1>2, <2>1 DEF StartWorker, TypeOK, CallerStates
<1>3. ASSUME NEW pts \in Pts, WriteVideo(pts) PROVE TypeOK'
  <2>1. error' \in Errors /\ caller' \in CallerStates
    BY <1>3 DEF WriteVideo, Throw, TypeOK, CallerStates
  <2>2. /\ last_video_pts' \in Nat \union {NoPts}
        /\ pending_pts' \in Nat \union {NoPts}
        /\ caller' \in {"submit", "submit_sleep"} => pending_pts' \in Nat
    BY <1>3 DEF WriteVideo, Throw, TypeOK
  <2>3. QED
    BY <1>3, <2>1, <2>2 DEF WriteVideo, TypeOK
<1>4. CASE SubmitWait \/ SubmitFails
  BY <1>4 DEF SubmitWait, SubmitFails, Throw, TypeOK, CallerStates
<1>5. CASE Submit
  <2>1. /\ job_queue' \in Seq(Job)
        /\ submitted' \in Seq(Nat)
        /\ next_submit_sequence' \in Nat
    BY <1>5 DEF Submit, TypeOK, Job
  <2>2. worker' \in [Contexts -> WorkerStates]
    BY <1>5 DEF Submit, TypeOK, WorkerStates
  <2>3. QED
    BY <1>5, <2>1, <2>2 DEF Submit, TypeOK, CallerStates
<1>6. CASE CallerThrows \/ Finish \/ FinishWait \/ FinishDrained \/ FinishJoined \/ Destroy
  <2>1. error' \in Errors /\ caller' \in CallerStates /\ finished' \in BOOLEAN
    BY <1>6 DEF CallerThrows, Finish, FinishWait, FinishDrained, FinishJoined,
       Destroy, Throw, TypeOK, CallerStates
  <2>2. caller' \notin {"submit", "submit_sleep"}
    BY <1>6 DEF CallerThrows, Finish, FinishWait, FinishDrained, FinishJoined,
       Destroy, Throw
  <2>3. QED
    BY <1>6, <2>1, <2>2 DEF CallerThrows, Finish, FinishWait, FinishDrained,
       FinishJoined, Destroy, TypeOK
<1>7. CASE StopFlags
  BY <1>7 DEF StopFlags, TypeOK, CallerStates
<1>8. CASE StopNotify
  <2>1. worker' \in [Contexts -> WorkerStates]
    BY <1>8, WakeType DEF StopNotify
  <2>2. QED
    BY <1>8, <2>1 DEF StopNotify, TypeOK, CallerStates
<1>9. CASE CleanupJoined
  <2>1. job_queue' \in Seq(Job) /\ completed' \subseteq Job
    BY <1>9 DEF CleanupJoined
  <2>2. QED
    BY <1>9, <2>1 DEF CleanupJoined, TypeOK, CallerStates
<1>10. QED
  BY <1>1, <1>2, <1>3, <1>4, <1>5, <1>6, <1>7, <1>8, <1>9
  DEF CallerContinues, CallerCalls, Construct

\* Steps of an encode thread.
LEMMA WorkerType ==
  ASSUME TypeOK, InFlightCount, OutstandingRange, NEW w \in Contexts, Worker(w)
  PROVE  TypeOK'
<1>1. CASE WorkerWait(w) \/ WorkerReturns(w) \/ Encode(w)
  <2>1. worker' \in [Contexts -> WorkerStates]
    BY <1>1 DEF WorkerWait, WorkerReturns, Encode, Goto, TypeOK, WorkerStates
  <2>2. CASE WorkerWait(w)
    BY <2>1, <2>2 DEF WorkerWait, TypeOK
  <2>3. CASE WorkerReturns(w)
    BY <2>1, <2>3 DEF WorkerReturns, TypeOK
  <2>4. CASE Encode(w)
    BY <2>1, <2>4 DEF Encode, TypeOK
  <2>5. QED
    BY <1>1, <2>2, <2>3, <2>4
<1>2. CASE TakeJob(w)
  <2>1. worker' \in [Contexts -> WorkerStates]
    BY <1>2 DEF TakeJob, Goto, TypeOK, WorkerStates
  <2>2. Head(job_queue) \in Job /\ job_queue' \in Seq(Job)
    BY <1>2 DEF TakeJob, TypeOK
  <2>3. job' \in [Contexts -> Job]
    BY <1>2, <2>2 DEF TakeJob, TypeOK
  <2>4. QED
    BY <1>2, <2>1, <2>2, <2>3 DEF TakeJob, TypeOK
<1>3. CASE EncodeFails(w)
  <2>1. worker' \in [Contexts -> WorkerStates]
    BY <1>3, WakeType DEF EncodeFails, WorkerFails, WorkerStates
  <2>2. QED
    BY <1>3, <2>1, WakeType DEF EncodeFails, WorkerFails, TypeOK
<1>4. CASE CompleteJob(w)
  <2>1. completed \union {job[w]} \in SUBSET Job
    BY DEF TypeOK
  <2>2. DrainLoop(w, completed \union {job[w]}, next_mux_sequence)
    BY <1>4 DEF CompleteJob
  <2>3. /\ worker' \in [Contexts -> WorkerStates]
        /\ job' \in [Contexts -> Job]
        /\ completed' \subseteq Job
    BY <2>1, <2>2, DrainLoopType
  <2>4. QED
    BY <1>4, <2>3 DEF CompleteJob, TypeOK
<1>5. CASE MuxPacket(w)
  <2>1. muxed' \in Seq(Nat) /\ previous_video_pts' \in Nat
    BY <1>5 DEF MuxPacket, TypeOK, Job
  <2>2. worker' \in [Contexts -> WorkerStates]
    BY <1>5 DEF MuxPacket, Goto, TypeOK, WorkerStates
  <2>3. QED
    BY <1>5, <2>1, <2>2 DEF MuxPacket, TypeOK
<1>6. CASE MuxFails(w)
  <2>1. worker' \in [Contexts -> WorkerStates]
    BY <1>6, WakeType DEF MuxFails, WorkerFails, WorkerStates
  <2>2. previous_video_pts' \in Nat \union {NoPts}
    BY <1>6 DEF MuxFails, TypeOK, Job
  <2>3. worker_error' \in WorkerErrors /\ pipeline_failed' \in BOOLEAN
    BY <1>6 DEF MuxFails, WorkerFails, TypeOK
  <2>4. QED
    BY <1>6, <2>1, <2>2, <2>3, WakeType DEF MuxFails, WorkerFails, TypeOK
<1>7. CASE Advance(w)
  <2>1. jobs_in_flight' \in Nat /\ next_mux_sequence' \in Nat
    BY <1>7 DEF Advance, TypeOK, InFlightCount, OutstandingRange, Active, QueueHead, Job
  <2>2. /\ worker' \in [Contexts -> WorkerStates]
        /\ job' \in [Contexts -> Job]
        /\ completed' \subseteq Job
    BY <1>7, DrainLoopType DEF Advance, TypeOK
  <2>3. QED
    BY <1>7, <2>1, <2>2, WakeType DEF Advance, TypeOK
<1>8. QED
  BY <1>1, <1>2, <1>3, <1>4, <1>5, <1>6, <1>7 DEF Worker

\* Every step keeps the types; the count of jobs in flight stays natural
\* because a packet is accounted for only while its job is outstanding.
LEMMA NextType == TypeOK /\ InFlightCount /\ OutstandingRange /\ [Next]_vars => TypeOK'
<1>1. TypeOK /\ UNCHANGED vars => TypeOK'
  BY DEF vars, TypeOK
<1>2. QED
  BY <1>1, CallerType, WorkerType DEF Next, Terminated

-----------------------------------------------------------------------------
(* Where the jobs are.                                                     *)

\* An empty pipeline: no thread holds a job and none is queued.
LEMMA EmptyPipeline ==
  ASSUME TypeOK, JobsInv, jobs_in_flight = 0
  PROVE  /\ \A w \in Contexts : ~Active(w)
         /\ next_mux_sequence = next_submit_sequence
BY DEF TypeOK, JobsInv, InFlightCount, OutstandingRange, QueueHead, Job

\* The numbers the invariant speaks of are integers.
LEMMA IntegerTypes ==
  TypeOK => /\ QueueHead \in Int
            /\ Len(job_queue) \in Nat
            /\ Len(submitted) \in Nat
            /\ Len(muxed) \in Nat
            /\ next_mux_sequence \in Nat
            /\ next_submit_sequence \in Nat
            /\ jobs_in_flight \in Nat
            /\ \A w \in Contexts : job[w].sequence \in Nat /\ job[w].pts \in Nat
            /\ \A e \in completed : e.sequence \in Nat /\ e.pts \in Nat
            /\ \A i \in 1..Len(job_queue) :
                 job_queue[i].sequence \in Nat /\ job_queue[i].pts \in Nat
<1> SUFFICES ASSUME TypeOK
             PROVE  /\ QueueHead \in Int
                    /\ Len(job_queue) \in Nat
                    /\ Len(submitted) \in Nat
                    /\ Len(muxed) \in Nat
                    /\ \A w \in Contexts : job[w] \in Job
                    /\ \A i \in 1..Len(job_queue) : job_queue[i] \in Job
  BY DEF TypeOK, Job
<1>1. job_queue \in Seq(Job) /\ submitted \in Seq(Nat) /\ muxed \in Seq(Nat)
  BY DEF TypeOK
<1>2. Len(job_queue) \in Nat /\ Len(submitted) \in Nat /\ Len(muxed) \in Nat
  BY <1>1
<1>3. \A i \in 1..Len(job_queue) : job_queue[i] \in Job
  BY <1>1
<1>4. QED
  BY <1>2, <1>3 DEF TypeOK, QueueHead

\* A step that moves no job: threads only sleep, wake, start, return,
\* give up their job, or finish encoding it.
Quiet ==
  /\ \A w \in Contexts :
       \/ worker'[w] = worker[w]
       \/ worker[w] \notin {"encode", "complete", "mux", "relock"}
          /\ worker'[w] \notin {"encode", "complete", "mux", "relock"}
       \/ worker[w] # "relock" /\ worker'[w] = "exited"
       \/ worker[w] = "encode" /\ worker'[w] = "complete"
  /\ UNCHANGED <<job, queueVars, completed, next_mux_sequence, jobs_in_flight, muxed>>

\* A step that moves no job keeps the part of the invariant about jobs.
LEMMA QuietJobs == TypeOK /\ JobsInv /\ Quiet => JobsInv'
<1> SUFFICES ASSUME TypeOK, JobsInv, Quiet PROVE JobsInv'
  OBVIOUS
<1>0. /\ job' = job
      /\ completed' = completed
      /\ job_queue' = job_queue
      /\ submitted' = submitted
      /\ muxed' = muxed
      /\ next_mux_sequence' = next_mux_sequence
      /\ next_submit_sequence' = next_submit_sequence
      /\ jobs_in_flight' = jobs_in_flight
  BY DEF Quiet
<1>1. \A w \in Contexts : /\ Active(w)' => Active(w)
                          /\ worker'[w] \in {"mux", "relock"} => worker'[w] = worker[w]
                          /\ worker[w] = "relock" => worker'[w] = "relock"
  BY DEF Quiet, Active
<1>2. QueueHead' = QueueHead
  BY <1>0 DEF QueueHead
<1>3. QueueConsecutive' /\ InFlightCount' /\ MuxedInOrder'
  BY <1>0, <1>2 DEF JobsInv, QueueConsecutive, InFlightCount, MuxedInOrder
<1>4. OutstandingRange'
  BY <1>0, <1>1, <1>2 DEF JobsInv, OutstandingRange
<1>5. OutstandingDistinct'
  BY <1>0, <1>1 DEF JobsInv, OutstandingDistinct
<1>6. DrainInOrder'
  BY <1>0, <1>1 DEF JobsInv, DrainInOrder
<1>7. JobsCarryPts'
  BY <1>0, <1>1 DEF JobsInv, JobsCarryPts
<1>8. QED
  BY <1>3, <1>4, <1>5, <1>6, <1>7 DEF JobsInv

\* write_video queueing a frame keeps the jobs where they belong.
LEMMA SubmitJobs ==
  ASSUME TypeOK, JobsInv, SubmittedIncreasing, Submit PROVE JobsInv'
<1> DEFINE new == [sequence |-> next_submit_sequence, pts |-> pending_pts]
<1> HIDE DEF new
<1>1. /\ pending_pts \in Nat
      /\ new \in Job
      /\ new.sequence = next_submit_sequence
      /\ new.pts = pending_pts
      /\ job_queue' = Append(job_queue, new)
      /\ submitted' = Append(submitted, pending_pts)
      /\ next_submit_sequence' = next_submit_sequence + 1
      /\ jobs_in_flight' = jobs_in_flight + 1
      /\ next_mux_sequence' = next_mux_sequence
      /\ job' = job
      /\ completed' = completed
      /\ muxed' = muxed
  BY DEF Submit, TypeOK, Job, new
<1>2. /\ Len(job_queue') = Len(job_queue) + 1
      /\ \A i \in 1..Len(job_queue) : job_queue'[i] = job_queue[i]
      /\ job_queue'[Len(job_queue) + 1] = new
  BY <1>1 DEF TypeOK
<1>3. /\ Len(submitted) = next_submit_sequence
      /\ Len(submitted') = Len(submitted) + 1
      /\ \A i \in 1..Len(submitted) : submitted'[i] = submitted[i]
      /\ submitted'[next_submit_sequence + 1] = pending_pts
  <2>1. Len(submitted) = next_submit_sequence
    BY DEF SubmittedIncreasing
  <2>2. QED
    BY <1>1, <2>1 DEF TypeOK
<1>n. /\ Len(job_queue) \in Nat /\ Len(submitted) \in Nat /\ Len(muxed) \in Nat
            /\ next_submit_sequence \in Nat /\ next_mux_sequence \in Nat
  BY IntegerTypes
<1>4. QueueHead' = QueueHead /\ QueueHead \in Int /\ QueueHead <= next_submit_sequence
  <2>1. QueueHead = next_submit_sequence - Len(job_queue)
    BY DEF QueueHead
  <2>2. QueueHead' = next_submit_sequence' - Len(job_queue')
    BY DEF QueueHead
  <2>3. next_submit_sequence' = next_submit_sequence + 1 /\ Len(job_queue') = Len(job_queue) + 1
    BY <1>1, <1>2
  <2>4. QED
    BY <1>n, <2>1, <2>2, <2>3
<1>5. /\ \A w \in Contexts : Active(w)' => Active(w)
      /\ \A w \in Contexts : worker'[w] \in {"mux", "relock"} => worker'[w] = worker[w]
      /\ \A w \in Contexts : worker[w] = "relock" => worker'[w] = "relock"
  BY DEF Submit, TypeOK, Active
<1>6. QueueConsecutive'
  <2>1. \A i \in 1..Len(job_queue) : job_queue'[i].sequence = QueueHead + i - 1
    BY <1>2 DEF JobsInv, QueueConsecutive
  <2>2. job_queue'[Len(job_queue) + 1].sequence = QueueHead + (Len(job_queue) + 1) - 1
    <3>1. job_queue'[Len(job_queue) + 1].sequence = next_submit_sequence
      BY <1>1, <1>2
    <3>2. QED
      BY <1>n, <3>1 DEF QueueHead
  <2>3. ASSUME NEW i \in 1..Len(job_queue')
        PROVE  job_queue'[i].sequence = QueueHead' + i - 1
    <3>1. i \in 1..Len(job_queue) \/ i = Len(job_queue) + 1
      BY <1>2, <1>n
    <3>2. QED
      BY <1>4, <2>1, <2>2, <3>1
  <2>4. QED
    BY <2>3 DEF QueueConsecutive
<1>7. OutstandingRange'
  BY <1>1, <1>4, <1>5 DEF JobsInv, OutstandingRange
<1>8. OutstandingDistinct'
  BY <1>1, <1>5 DEF JobsInv, OutstandingDistinct
<1>9. DrainInOrder'
  BY <1>1, <1>5 DEF JobsInv, DrainInOrder
<1>10. JobsCarryPts'
  <2>1. ASSUME NEW w \in Contexts, Active(w)'
        PROVE  job'[w].pts = submitted'[job'[w].sequence + 1]
    <3>1. job[w].sequence \in 0..(QueueHead - 1) /\ job[w].pts = submitted[job[w].sequence + 1]
      BY <1>5, <2>1, IntegerTypes DEF JobsInv, JobsCarryPts, OutstandingRange
    <3>2. job[w].sequence + 1 \in 1..Len(submitted)
      BY <1>3, <1>4, <1>n, <3>1
    <3>3. QED
      BY <1>1, <1>3, <3>1, <3>2
  <2>2. ASSUME NEW e \in completed
        PROVE  e.pts = submitted'[e.sequence + 1]
    <3>1. e.sequence \in 0..(QueueHead - 1) /\ e.pts = submitted[e.sequence + 1]
      BY IntegerTypes DEF JobsInv, JobsCarryPts, OutstandingRange
    <3>2. e.sequence + 1 \in 1..Len(submitted)
      BY <1>3, <1>4, <1>n, <3>1
    <3>3. QED
      BY <1>3, <3>1, <3>2
  <2>3. ASSUME NEW i \in 1..Len(job_queue)
        PROVE  job_queue'[i].pts = submitted'[job_queue'[i].sequence + 1]
    <3>1. job_queue[i].sequence = QueueHead + i - 1
      BY DEF JobsInv, QueueConsecutive
    <3>2. job_queue[i].sequence + 1 \in 1..Len(submitted)
      <4>1. next_mux_sequence <= QueueHead
        BY DEF JobsInv, OutstandingRange
      <4>2. QueueHead + Len(job_queue) = Len(submitted)
        BY <1>3, <1>n DEF QueueHead
      <4>3. QED
        BY <1>4, <1>n, <3>1, <4>1, <4>2
    <3>3. job_queue[i].pts = submitted[job_queue[i].sequence + 1]
      BY DEF JobsInv, JobsCarryPts
    <3>4. QED
      BY <1>2, <1>3, <3>2, <3>3
  <2>4. job_queue'[Len(job_queue) + 1].pts =
          submitted'[job_queue'[Len(job_queue) + 1].sequence + 1]
    BY <1>1, <1>2, <1>3
  <2>5. \A i \in 1..Len(job_queue') : job_queue'[i].pts = submitted'[job_queue'[i].sequence + 1]
    <3>1. \A i \in 1..Len(job_queue') : i \in 1..Len(job_queue) \/ i = Len(job_queue) + 1
      BY <1>2, <1>n
    <3>2. QED
      BY <2>3, <2>4, <3>1
  <2>6. QED
    BY <1>1, <2>1, <2>2, <2>5 DEF JobsCarryPts
<1>11. InFlightCount'
  BY <1>1, <1>n DEF JobsInv, InFlightCount
<1>12. MuxedInOrder'
  <2>1. Len(muxed) <= Len(submitted)
    <3>1. next_mux_sequence <= QueueHead
      BY DEF JobsInv, OutstandingRange
    <3>2. CASE \E w \in Contexts : worker[w] = "relock"
      <4>1. PICK w \in Contexts : worker[w] = "relock"
        BY <3>2
      <4>2. Len(muxed) = next_mux_sequence + 1
        BY <4>1 DEF JobsInv, DrainInOrder
      <4>3. job[w].sequence \in next_mux_sequence..(QueueHead - 1)
        BY <4>1 DEF JobsInv, OutstandingRange, Active
      <4>4. QED
        BY <1>3, <1>4, <1>n, <4>2, <4>3
    <3>3. CASE \A w \in Contexts : worker[w] # "relock"
      <4>1. Len(muxed) = next_mux_sequence
        BY <3>3 DEF JobsInv, DrainInOrder
      <4>2. QED
        BY <1>3, <1>4, <1>n, <3>1, <4>1
    <3>4. QED
      BY <3>2, <3>3
  <2>2. SubSeq(submitted', 1, Len(muxed)) = SubSeq(submitted, 1, Len(muxed))
    BY <1>1, <1>3, <2>1 DEF TypeOK
  <2>3. QED
    BY <1>1, <2>2 DEF JobsInv, MuxedInOrder
<1>13. QED
  BY <1>6, <1>7, <1>8, <1>9, <1>10, <1>11, <1>12 DEF JobsInv

\* A thread taking the head of the queue keeps the jobs where they belong.
LEMMA TakeJobJobs ==
  ASSUME TypeOK, JobsInv, NEW w \in Contexts, TakeJob(w) PROVE JobsInv'
<1>1. /\ job_queue # << >>
      /\ job_queue' = Tail(job_queue)
      /\ job' = [job EXCEPT ![w] = Head(job_queue)]
      /\ worker' = [worker EXCEPT ![w] = "encode"]
      /\ worker[w] = "check"
      /\ next_submit_sequence' = next_submit_sequence
      /\ next_mux_sequence' = next_mux_sequence
      /\ jobs_in_flight' = jobs_in_flight
      /\ submitted' = submitted
      /\ completed' = completed
      /\ muxed' = muxed
  BY DEF TakeJob, Goto
<1>2. /\ Len(job_queue) \in Nat /\ Len(job_queue) >= 1
      /\ Len(job_queue') = Len(job_queue) - 1
      /\ \A i \in 1..Len(job_queue') : job_queue'[i] = job_queue[i + 1]
      /\ Head(job_queue) = job_queue[1]
  BY <1>1 DEF TypeOK
<1>3. QueueHead' = QueueHead + 1 /\ QueueHead \in Int
  BY <1>1, <1>2, IntegerTypes DEF QueueHead
<1>4. /\ job'[w] = job_queue[1]
      /\ \A v \in Contexts : v # w => job'[v] = job[v]
      /\ \A v \in Contexts : v # w => worker'[v] = worker[v]
      /\ worker'[w] = "encode"
      /\ job_queue[1].sequence = QueueHead
      /\ job_queue[1].pts = submitted[job_queue[1].sequence + 1]
  <2>1. 1 \in 1..Len(job_queue)
    BY <1>2
  <2>2. job_queue[1].sequence = QueueHead + 1 - 1
    BY <2>1 DEF JobsInv, QueueConsecutive
  <2>3. job_queue[1].pts = submitted[job_queue[1].sequence + 1]
    BY <2>1 DEF JobsInv, JobsCarryPts
  <2>4. QED
    BY <1>1, <1>2, <1>3, <2>2, <2>3 DEF TypeOK
<1>5. /\ \A v \in Contexts : Active(v)' => v = w \/ Active(v)
      /\ \A v \in Contexts : worker'[v] \in {"mux", "relock"} => v # w /\ worker'[v] = worker[v]
      /\ \A v \in Contexts : worker[v] = "relock" => worker'[v] = "relock"
  BY <1>1, <1>4 DEF TypeOK, Active
<1>6. QueueConsecutive'
  <2>1. ASSUME NEW i \in 1..Len(job_queue')
        PROVE  job_queue'[i].sequence = QueueHead' + i - 1
    <3>1. i + 1 \in 1..Len(job_queue)
      BY <1>2
    <3>2. job_queue[i + 1].sequence = QueueHead + (i + 1) - 1
      BY <3>1 DEF JobsInv, QueueConsecutive
    <3>3. QED
      BY <1>2, <1>3, <3>2
  <2>2. QED
    BY <2>1 DEF QueueConsecutive
<1>7. OutstandingRange'
  <2>1. next_mux_sequence <= QueueHead /\ next_mux_sequence \in Nat
    BY IntegerTypes DEF JobsInv, OutstandingRange
  <2>2. ASSUME NEW v \in Contexts, Active(v)'
        PROVE  job'[v].sequence \in next_mux_sequence..(QueueHead' - 1)
    <3>1. CASE v = w
      BY <1>3, <1>4, <2>1, <3>1
    <3>2. CASE v # w
      BY <1>3, <1>4, <1>5, <2>2, <3>2, IntegerTypes DEF JobsInv, OutstandingRange
    <3>3. QED
      BY <3>1, <3>2
  <2>3. ASSUME NEW e \in completed
        PROVE  e.sequence \in next_mux_sequence..(QueueHead' - 1)
    BY <1>3, IntegerTypes DEF JobsInv, OutstandingRange
  <2>4. QED
    BY <1>1, <1>3, <2>1, <2>2, <2>3 DEF OutstandingRange
<1>8. OutstandingDistinct'
  <2>1. ASSUME NEW v \in Contexts, v # w, Active(v)'
        PROVE  job'[v].sequence < QueueHead
    <3>1. job'[v] = job[v] /\ Active(v)
      BY <1>4, <1>5, <2>1
    <3>2. job[v].sequence \in next_mux_sequence..(QueueHead - 1)
      BY <3>1 DEF JobsInv, OutstandingRange
    <3>3. QED
      BY <1>3, <3>1, <3>2, IntegerTypes
  <2>2. ASSUME NEW e \in completed
        PROVE  e.sequence < QueueHead
    BY <1>3, IntegerTypes DEF JobsInv, OutstandingRange
  <2>3. \A u, v \in Contexts :
          Active(u)' /\ Active(v)' /\ job'[u].sequence = job'[v].sequence => u = v
    BY <1>3, <1>4, <1>5, <2>1 DEF JobsInv, OutstandingDistinct
  <2>4. \A v \in Contexts, e \in completed : Active(v)' => job'[v].sequence # e.sequence
    BY <1>3, <1>4, <1>5, <2>2 DEF JobsInv, OutstandingDistinct
  <2>5. QED
    BY <1>1, <2>3, <2>4 DEF JobsInv, OutstandingDistinct
<1>9. DrainInOrder'
  BY <1>1, <1>4, <1>5 DEF JobsInv, DrainInOrder
<1>10. JobsCarryPts'
  <2>1. ASSUME NEW i \in 1..Len(job_queue')
        PROVE  job_queue'[i].pts = submitted[job_queue'[i].sequence + 1]
    <3>1. i + 1 \in 1..Len(job_queue)
      BY <1>2
    <3>2. QED
      BY <1>2, <3>1 DEF JobsInv, JobsCarryPts
  <2>2. QED
    BY <1>1, <1>4, <1>5, <2>1 DEF JobsInv, JobsCarryPts
<1>11. InFlightCount' /\ MuxedInOrder'
  BY <1>1 DEF JobsInv, InFlightCount, MuxedInOrder
<1>12. QED
  BY <1>6, <1>7, <1>8, <1>9, <1>10, <1>11 DEF JobsInv

\* The drain loop entered with the reorder buffer `entries' and the counter
\* `sequence', when the thread itself holds no job any more.
LEMMA DrainJobs ==
  ASSUME TypeOK, QueueConsecutive, MuxedInOrder,
         NEW w \in Contexts, NEW entries \in SUBSET Job, NEW sequence \in Nat,
         DrainLoop(w, entries, sequence),
         UNCHANGED <<job_queue, next_submit_sequence, submitted, muxed>>,
         next_mux_sequence' = sequence,
         jobs_in_flight' = next_submit_sequence - sequence,
         sequence <= QueueHead,
         \A i \in 1..Len(job_queue) :
           job_queue[i].pts = submitted[job_queue[i].sequence + 1],
         \A v \in Contexts \ {w} : Active(v) =>
           /\ job[v].sequence \in sequence..(QueueHead - 1)
           /\ job[v].pts = submitted[job[v].sequence + 1],
         \A e \in entries :
           /\ e.sequence \in sequence..(QueueHead - 1)
           /\ e.pts = submitted[e.sequence + 1],
         \A u, v \in Contexts \ {w} :
           Active(u) /\ Active(v) /\ job[u].sequence = job[v].sequence => u = v,
         \A v \in Contexts \ {w}, e \in entries :
           Active(v) => job[v].sequence # e.sequence,
         \A e, f \in entries : e.sequence = f.sequence => e = f,
         \A v \in Contexts \ {w} :
           worker[v] \in {"mux", "relock"} => job[v].sequence = sequence,
         \A v \in Contexts \ {w} : worker[v] = "relock" => Len(muxed) = sequence + 1,
         (\A v \in Contexts \ {w} : worker[v] # "relock") => Len(muxed) = sequence
  PROVE  JobsInv'
<1>1. /\ \A v \in Contexts \ {w} : worker'[v] = worker[v] /\ job'[v] = job[v]
      /\ \/ /\ worker'[w] = "check"
            /\ completed' = entries
         \/ /\ worker'[w] = "mux"
            /\ job'[w] \in entries
            /\ completed' = entries \ {job'[w]}
            /\ job'[w].sequence = sequence
  BY DEF DrainLoop, Ready, Goto, TypeOK
<1>2. /\ QueueHead' = QueueHead
      /\ completed' \subseteq entries
      /\ \A v \in Contexts \ {w} : Active(v)' <=> Active(v)
      /\ Active(w)' => /\ job'[w] \in entries
                       /\ completed' = entries \ {job'[w]}
                       /\ job'[w].sequence = sequence
      /\ worker'[w] # "relock"
  BY <1>1 DEF QueueHead, Active
<1>3. QueueConsecutive' /\ MuxedInOrder' /\ InFlightCount'
  BY <1>2 DEF QueueConsecutive, MuxedInOrder, InFlightCount
<1>4. OutstandingRange'
  BY <1>1, <1>2 DEF OutstandingRange
<1>5. OutstandingDistinct'
  <2>1. \A u, v \in Contexts :
          Active(u)' /\ Active(v)' /\ job'[u].sequence = job'[v].sequence => u = v
    BY <1>1, <1>2
  <2>2. \A v \in Contexts, e \in completed' : Active(v)' => job'[v].sequence # e.sequence
    BY <1>1, <1>2
  <2>3. QED
    BY <1>2, <2>1, <2>2 DEF OutstandingDistinct
<1>6. DrainInOrder'
  BY <1>1, <1>2 DEF DrainInOrder
<1>7. JobsCarryPts'
  BY <1>1, <1>2 DEF JobsCarryPts
<1>8. QED
  BY <1>3, <1>4, <1>5, <1>6, <1>7 DEF JobsInv

\* complete_job filing a packet keeps the jobs where they belong.
LEMMA CompleteJobJobs ==
  ASSUME TypeOK, JobsInv, NEW w \in Contexts, CompleteJob(w) PROVE JobsInv'
<1> DEFINE entries == completed \union {job[w]}
<1>1. /\ worker[w] = "complete"
      /\ Active(w)
      /\ entries \in SUBSET Job
      /\ DrainLoop(w, entries, next_mux_sequence)
      /\ UNCHANGED <<job_queue, next_submit_sequence, submitted, muxed>>
      /\ next_mux_sequence \in Nat
      /\ next_mux_sequence' = next_mux_sequence
      /\ jobs_in_flight' = next_submit_sequence - next_mux_sequence
  BY DEF CompleteJob, TypeOK, Active, JobsInv, InFlightCount
<1>2. /\ QueueConsecutive /\ MuxedInOrder
      /\ next_mux_sequence <= QueueHead
      /\ \A i \in 1..Len(job_queue) :
           job_queue[i].pts = submitted[job_queue[i].sequence + 1]
      /\ \A v \in Contexts \ {w} : Active(v) =>
           /\ job[v].sequence \in next_mux_sequence..(QueueHead - 1)
           /\ job[v].pts = submitted[job[v].sequence + 1]
      /\ \A e \in entries :
           /\ e.sequence \in next_mux_sequence..(QueueHead - 1)
           /\ e.pts = submitted[e.sequence + 1]
  BY <1>1 DEF JobsInv, OutstandingRange, JobsCarryPts
<1>3. /\ \A u, v \in Contexts \ {w} :
           Active(u) /\ Active(v) /\ job[u].sequence = job[v].sequence => u = v
      /\ \A v \in Contexts \ {w}, e \in entries :
           Active(v) => job[v].sequence # e.sequence
      /\ \A e, f \in entries : e.sequence = f.sequence => e = f
  BY <1>1 DEF JobsInv, OutstandingDistinct
<1>4. /\ \A v \in Contexts \ {w} :
           worker[v] \in {"mux", "relock"} => job[v].sequence = next_mux_sequence
      /\ \A v \in Contexts \ {w} : worker[v] = "relock" => Len(muxed) = next_mux_sequence + 1
      /\ (\A v \in Contexts \ {w} : worker[v] # "relock") => Len(muxed) = next_mux_sequence
  BY <1>1 DEF JobsInv, DrainInOrder
<1> HIDE DEF entries
<1>5. QED
  BY <1>1, <1>2, <1>3, <1>4, DrainJobs

\* Accounting for a written packet keeps the jobs where they belong.
LEMMA AdvanceJobs ==
  ASSUME TypeOK, JobsInv, NEW w \in Contexts, Advance(w) PROVE JobsInv'
<1> DEFINE sequence == next_mux_sequence + 1
<1>1. /\ worker[w] = "relock"
      /\ Active(w)
      /\ completed \in SUBSET Job
      /\ DrainLoop(w, completed, sequence)
      /\ UNCHANGED <<job_queue, next_submit_sequence, submitted, muxed>>
      /\ sequence \in Nat
      /\ next_mux_sequence' = sequence
      /\ jobs_in_flight' = next_submit_sequence - sequence
  BY DEF Advance, TypeOK, Active, JobsInv, InFlightCount
<1>2. /\ job[w].sequence = next_mux_sequence
      /\ Len(muxed) = sequence
      /\ \A v \in Contexts \ {w} : worker[v] \notin {"mux", "relock"}
      /\ \A v \in Contexts \ {w} : Active(v) => job[v].sequence # next_mux_sequence
      /\ \A e \in completed : e.sequence # next_mux_sequence
  BY <1>1 DEF JobsInv, DrainInOrder, OutstandingDistinct, Active
<1>3. /\ QueueConsecutive /\ MuxedInOrder
      /\ sequence <= QueueHead
      /\ \A i \in 1..Len(job_queue) :
           job_queue[i].pts = submitted[job_queue[i].sequence + 1]
      /\ \A v \in Contexts \ {w} : Active(v) =>
           /\ job[v].sequence \in sequence..(QueueHead - 1)
           /\ job[v].pts = submitted[job[v].sequence + 1]
      /\ \A e \in completed :
           /\ e.sequence \in sequence..(QueueHead - 1)
           /\ e.pts = submitted[e.sequence + 1]
  <2>1. QueueHead \in Int /\ next_mux_sequence \in Nat
    BY IntegerTypes
  <2>2. \A v \in Contexts \ {w} : Active(v) =>
           /\ job[v].sequence \in sequence..(QueueHead - 1)
           /\ job[v].pts = submitted[job[v].sequence + 1]
    BY <1>2, <2>1, IntegerTypes DEF JobsInv, OutstandingRange, JobsCarryPts
  <2>3. \A e \in completed :
           /\ e.sequence \in sequence..(QueueHead - 1)
           /\ e.pts = submitted[e.sequence + 1]
    BY <1>2, <2>1, IntegerTypes DEF JobsInv, OutstandingRange, JobsCarryPts
  <2>4. job[w].sequence <= QueueHead - 1
    BY <1>1 DEF JobsInv, OutstandingRange
  <2>5. sequence <= QueueHead
    BY <1>2, <2>1, <2>4
  <2>6. QED
    BY <2>2, <2>3, <2>5 DEF JobsInv, JobsCarryPts
<1>4. /\ \A u, v \in Contexts \ {w} :
           Active(u) /\ Active(v) /\ job[u].sequence = job[v].sequence => u = v
      /\ \A v \in Contexts \ {w}, e \in completed :
           Active(v) => job[v].sequence # e.sequence
      /\ \A e, f \in completed : e.sequence = f.sequence => e = f
  BY DEF JobsInv, OutstandingDistinct
<1> HIDE DEF sequence
<1>5. QED
  BY <1>1, <1>2, <1>3, <1>4, DrainJobs

\* Writing a packet appends the frame whose turn it is to the file.
LEMMA MuxPacketJobs ==
  ASSUME TypeOK, JobsInv, SubmittedIncreasing, NEW w \in Contexts, MuxPacket(w)
  PROVE  JobsInv'
<1>1. /\ worker[w] = "mux"
      /\ worker' = [worker EXCEPT ![w] = "relock"]
      /\ muxed' = Append(muxed, job[w].pts)
      /\ UNCHANGED <<job, job_queue, next_submit_sequence, submitted, completed,
                     next_mux_sequence, jobs_in_flight>>
  BY DEF MuxPacket, Goto
<1>2. /\ worker'[w] = "relock"
      /\ \A v \in Contexts \ {w} : worker'[v] = worker[v]
      /\ \A v \in Contexts : Active(v)' <=> Active(v)
  BY <1>1 DEF TypeOK, Active
<1>3. /\ Active(w)
      /\ job[w].sequence = next_mux_sequence
      /\ job[w].pts = submitted[next_mux_sequence + 1]
      /\ next_mux_sequence \in 0..(QueueHead - 1)
      /\ \A v \in Contexts \ {w} : worker[v] \notin {"mux", "relock"}
      /\ Len(muxed) = next_mux_sequence
  <2>1. Active(w) /\ job[w].sequence = next_mux_sequence
    BY <1>1 DEF Active, JobsInv, DrainInOrder
  <2>2. \A v \in Contexts \ {w} : worker[v] \notin {"mux", "relock"}
    BY <2>1 DEF JobsInv, DrainInOrder, OutstandingDistinct, Active
  <2>3. Len(muxed) = next_mux_sequence
    BY <1>1, <2>2 DEF JobsInv, DrainInOrder
  <2>4. job[w].pts = submitted[next_mux_sequence + 1]
    BY <2>1 DEF JobsInv, JobsCarryPts
  <2>5. next_mux_sequence \in 0..(QueueHead - 1)
    BY <2>1, IntegerTypes DEF JobsInv, OutstandingRange
  <2>6. QED
    BY <2>1, <2>2, <2>3, <2>4, <2>5
<1>4. QueueConsecutive' /\ InFlightCount' /\ OutstandingRange'
  BY <1>1, <1>2 DEF JobsInv, QueueConsecutive, QueueHead, InFlightCount, OutstandingRange
<1>5. OutstandingDistinct' /\ JobsCarryPts'
  BY <1>1, <1>2 DEF JobsInv, OutstandingDistinct, JobsCarryPts
<1>6. DrainInOrder'
  <2>1. Len(muxed') = next_mux_sequence + 1
    BY <1>1, <1>3 DEF TypeOK, Job
  <2>2. QED
    BY <1>1, <1>2, <1>3, <2>1 DEF JobsInv, DrainInOrder
<1>7. MuxedInOrder'
  <2>1. next_mux_sequence + 1 \in 1..Len(submitted)
    BY <1>3, IntegerTypes DEF SubmittedIncreasing, QueueHead
  <2>2. muxed = SubSeq(submitted, 1, next_mux_sequence)
    BY <1>3 DEF JobsInv, MuxedInOrder
  <2>3. Append(SubSeq(submitted, 1, next_mux_sequence), submitted[next_mux_sequence + 1])
          = SubSeq(submitted, 1, next_mux_sequence + 1)
    BY <2>1, IntegerTypes DEF TypeOK
  <2>4. Len(muxed') = next_mux_sequence + 1
    BY <1>1, <1>3 DEF TypeOK, Job
  <2>5. QED
    BY <1>1, <1>3, <2>2, <2>3, <2>4 DEF MuxedInOrder
<1>8. QED
  BY <1>4, <1>5, <1>6, <1>7 DEF JobsInv

\* Dropping what is left once no thread runs breaks nothing about jobs.
LEMMA CleanupJobs ==
  ASSUME TypeOK, JobsInv, CleanupJoined PROVE JobsInv'
<1>1. /\ \A w \in Contexts : ~Active(w)
      /\ \A w \in Contexts : worker[w] # "relock"
  BY DEF CleanupJoined, Live, Active
<1>2. /\ job_queue' = << >>
      /\ completed' = {}
      /\ UNCHANGED <<worker, job, next_submit_sequence, submitted,
                     next_mux_sequence, jobs_in_flight, muxed>>
  BY DEF CleanupJoined
<1>3. QueueHead' = next_submit_sequence /\ QueueHead <= next_submit_sequence
  BY <1>2, IntegerTypes DEF QueueHead
<1>4. QueueConsecutive' /\ JobsCarryPts'
  BY <1>1, <1>2 DEF QueueConsecutive, JobsCarryPts, Active
<1>5. OutstandingRange' /\ OutstandingDistinct'
  BY <1>1, <1>2, <1>3, IntegerTypes DEF JobsInv, OutstandingRange, OutstandingDistinct, Active
<1>6. DrainInOrder' /\ InFlightCount' /\ MuxedInOrder'
  BY <1>2 DEF JobsInv, DrainInOrder, InFlightCount, MuxedInOrder
<1>7. QED
  BY <1>4, <1>5, <1>6 DEF JobsInv

-----------------------------------------------------------------------------
(* Timestamps.                                                             *)

\* The packet being written is older than every frame still to be written.
LEMMA TurnIsOldest ==
  ASSUME TypeOK, JobsInv, SubmittedIncreasing, NEW w \in Contexts, worker[w] = "mux"
  PROVE  /\ job[w].pts <= last_video_pts
         /\ caller \in {"submit", "submit_sleep"} => job[w].pts < pending_pts
         /\ \A i \in 1..Len(job_queue) : job[w].pts < job_queue[i].pts
         /\ \A v \in Contexts \ {w} : Active(v) => job[w].pts < job[v].pts
         /\ \A e \in completed : job[w].pts < e.pts
<1> DEFINE n == next_mux_sequence
<1>1. /\ Active(w)
      /\ job[w].sequence = n
      /\ job[w].pts = submitted[n + 1]
  BY DEF Active, JobsInv, DrainInOrder, JobsCarryPts
<1>2. /\ n \in Nat /\ QueueHead \in Int /\ n <= QueueHead - 1
      /\ QueueHead + Len(job_queue) = Len(submitted)
      /\ Len(submitted) \in Nat
  BY <1>1, IntegerTypes DEF JobsInv, OutstandingRange, SubmittedIncreasing, QueueHead
<1>3. n + 1 \in 1..Len(submitted)
  BY <1>2, IntegerTypes
<1>4. ASSUME NEW k \in (n + 1)..(Len(submitted) - 1)
      PROVE  job[w].pts < submitted[k + 1]
  BY <1>1, <1>2, <1>3, <1>4 DEF SubmittedIncreasing
<1>5. ASSUME NEW i \in 1..Len(job_queue)
      PROVE  job[w].pts < job_queue[i].pts
  <2>1. job_queue[i].sequence = QueueHead + i - 1
    BY DEF JobsInv, QueueConsecutive
  <2>2. job_queue[i].sequence \in (n + 1)..(Len(submitted) - 1)
    BY <1>2, <2>1, IntegerTypes
  <2>3. QED
    BY <1>4, <2>2 DEF JobsInv, JobsCarryPts
<1>6. ASSUME NEW v \in Contexts \ {w}, Active(v)
      PROVE  job[w].pts < job[v].pts
  <2>1. job[v].sequence \in n..(QueueHead - 1) /\ job[v].sequence # n
    BY <1>1, <1>6 DEF JobsInv, OutstandingRange, OutstandingDistinct
  <2>2. job[v].sequence \in (n + 1)..(Len(submitted) - 1)
    BY <1>2, <2>1, IntegerTypes
  <2>3. QED
    BY <1>4, <1>6, <2>2 DEF JobsInv, JobsCarryPts
<1>7. ASSUME NEW e \in completed
      PROVE  job[w].pts < e.pts
  <2>1. e.sequence \in n..(QueueHead - 1) /\ e.sequence # n
    BY <1>1 DEF JobsInv, OutstandingRange, OutstandingDistinct
  <2>2. e.sequence \in (n + 1)..(Len(submitted) - 1)
    BY <1>2, <2>1, IntegerTypes
  <2>3. QED
    BY <1>4, <2>2 DEF JobsInv, JobsCarryPts
<1>8. QED
  BY <1>1, <1>3, <1>5, <1>6, <1>7 DEF SubmittedIncreasing

\* The timestamp invariants survive a step that leaves the timestamps, the
\* queue and the reorder buffer alone and brings no new packet to a thread.
LEMMA SubmittedFrame ==
  ASSUME SubmittedIncreasing,
         UNCHANGED <<submitted, next_submit_sequence, last_video_pts, pending_pts>>,
         caller' \in {"submit", "submit_sleep"} => caller \in {"submit", "submit_sleep"}
  PROVE  SubmittedIncreasing'
BY DEF SubmittedIncreasing

\* The last packet validated stays older than what is still to be written
\* when a step changes none of the variables concerned.
LEMMA PreviousFrame ==
  ASSUME PreviousIsOlder,
         UNCHANGED <<previous_video_pts, last_video_pts, pending_pts, job_queue, completed>>,
         caller' \in {"submit", "submit_sleep"} => caller \in {"submit", "submit_sleep"},
         \A w \in Contexts : Active(w)' /\ worker'[w] # "relock" =>
           Active(w) /\ worker[w] # "relock" /\ job'[w] = job[w]
  PROVE  PreviousIsOlder'
BY DEF PreviousIsOlder

\* The timestamp check of write_video keeps accepted timestamps increasing.
LEMMA WriteVideoPts ==
  ASSUME TypeOK, SubmittedIncreasing, PreviousIsOlder, NEW pts \in Pts, WriteVideo(pts)
  PROVE  SubmittedIncreasing' /\ PreviousIsOlder'
<1>1. /\ UNCHANGED <<submitted, next_submit_sequence, job_queue, job, completed,
                     worker, previous_video_pts>>
      /\ last_video_pts \in Int /\ previous_video_pts \in Int /\ pts \in Int
      /\ \A i \in 1..Len(submitted) : submitted[i] \in Int
      /\ \A w \in Contexts : Active(w)' <=> Active(w)
  BY DEF WriteVideo, TypeOK, Active
<1>2. CASE caller' # "submit"
  <2>1. UNCHANGED <<last_video_pts, pending_pts>> /\ caller' = "cleanup"
    BY <1>2 DEF WriteVideo, Throw
  <2>2. QED
    BY <1>1, <2>1, SubmittedFrame, PreviousFrame
<1>3. CASE caller' = "submit"
  <2>1. last_video_pts' = pts /\ pending_pts' = pts /\ pts > last_video_pts
    BY <1>3 DEF WriteVideo, Later, Throw
  <2>2. SubmittedIncreasing'
    BY <1>1, <2>1 DEF SubmittedIncreasing
  <2>3. previous_video_pts' <= last_video_pts' /\ previous_video_pts' < pending_pts'
    BY <1>1, <2>1 DEF PreviousIsOlder
  <2>4. QED
    BY <1>1, <2>1, <2>2, <2>3 DEF PreviousIsOlder
<1>4. QED
  BY <1>2, <1>3

\* The frame submitted is later than every frame submitted before.
LEMMA SubmitPts ==
  ASSUME TypeOK, SubmittedIncreasing, PreviousIsOlder, Submit
  PROVE  SubmittedIncreasing' /\ PreviousIsOlder'
<1>1. /\ caller = "submit" /\ caller' = "ready"
      /\ submitted' = Append(submitted, pending_pts)
      /\ next_submit_sequence' = next_submit_sequence + 1
      /\ job_queue' = Append(job_queue, [sequence |-> next_submit_sequence,
                                         pts |-> pending_pts])
      /\ UNCHANGED <<last_video_pts, previous_video_pts, job, completed>>
      /\ pending_pts \in Nat
      /\ \A w \in Contexts : Active(w)' => Active(w) /\ worker'[w] = worker[w]
  BY DEF Submit, TypeOK, Active
<1>2. /\ Len(submitted') = Len(submitted) + 1
      /\ \A i \in 1..Len(submitted) : submitted'[i] = submitted[i]
      /\ submitted'[Len(submitted) + 1] = pending_pts
      /\ Len(submitted) \in Nat
  BY <1>1 DEF TypeOK
<1>3. \A i \in 1..Len(submitted') : i \in 1..Len(submitted) \/ i = Len(submitted) + 1
  BY <1>2
<1>4. /\ pending_pts = last_video_pts
      /\ \A i \in 1..Len(submitted) : submitted[i] < pending_pts
      /\ previous_video_pts < pending_pts
  BY <1>1 DEF SubmittedIncreasing, PreviousIsOlder
<1>5. SubmittedIncreasing'
  <2>1. Len(submitted') = next_submit_sequence'
    BY <1>1, <1>2 DEF SubmittedIncreasing
  <2>2. ASSUME NEW i \in 1..Len(submitted'), NEW j \in 1..Len(submitted'), i < j
        PROVE  submitted'[i] < submitted'[j]
    <3>1. i \in 1..Len(submitted)
      BY <1>2, <2>2
    <3>2. CASE j \in 1..Len(submitted)
      BY <1>2, <2>2, <3>1, <3>2 DEF SubmittedIncreasing
    <3>3. CASE j = Len(submitted) + 1
      BY <1>2, <1>4, <3>1, <3>3
    <3>4. QED
      BY <1>3, <3>2, <3>3
  <2>3. \A i \in 1..Len(submitted') : submitted'[i] <= last_video_pts'
    BY <1>1, <1>2, <1>3, <1>4 DEF SubmittedIncreasing
  <2>4. QED
    BY <1>1, <2>1, <2>2, <2>3 DEF SubmittedIncreasing
<1>6. PreviousIsOlder'
  <2>1. ASSUME NEW i \in 1..Len(job_queue')
        PROVE  previous_video_pts < job_queue'[i].pts
    BY <1>1, <1>4 DEF TypeOK, PreviousIsOlder
  <2>2. QED
    BY <1>1, <2>1 DEF PreviousIsOlder
<1>7. QED
  BY <1>5, <1>6

\* What an encode thread does to the timestamps.
LEMMA WorkerPts ==
  ASSUME TypeOK, JobsInv, SubmittedIncreasing, PreviousIsOlder,
         NEW w \in Contexts, Worker(w)
  PROVE  SubmittedIncreasing' /\ PreviousIsOlder'
<1>1. /\ UNCHANGED <<submitted, next_submit_sequence, last_video_pts, pending_pts>>
      /\ caller' \in {"submit", "submit_sleep"} => caller \in {"submit", "submit_sleep"}
  BY DEF Worker, WorkerWait, WorkerReturns, TakeJob, Encode, EncodeFails, CompleteJob,
     MuxPacket, MuxFails, Advance, WorkerFails, WakeCaller
<1>2. SubmittedIncreasing'
  BY <1>1, SubmittedFrame
<1>3. CASE WorkerWait(w) \/ WorkerReturns(w) \/ Encode(w) \/ EncodeFails(w)
  <2>1. UNCHANGED <<previous_video_pts, job_queue, completed, job>>
    BY <1>3 DEF WorkerWait, WorkerReturns, Encode, EncodeFails
  <2>2. \A v \in Contexts : Active(v)' /\ worker'[v] # "relock" =>
          Active(v) /\ worker[v] # "relock"
    BY <1>3 DEF WorkerWait, WorkerReturns, Encode, EncodeFails, WorkerFails, WakeAll,
       Goto, TypeOK, Active
  <2>3. QED
    BY <1>1, <1>2, <2>1, <2>2, PreviousFrame
<1>4. CASE TakeJob(w)
  <2>1. /\ job_queue # << >>
        /\ job_queue' = Tail(job_queue)
        /\ job' = [job EXCEPT ![w] = Head(job_queue)]
        /\ worker' = [worker EXCEPT ![w] = "encode"]
        /\ UNCHANGED <<previous_video_pts, completed, caller>>
    BY <1>4 DEF TakeJob, Goto
  <2>2. /\ Len(job_queue) \in Nat /\ Len(job_queue) >= 1
        /\ Len(job_queue') = Len(job_queue) - 1
        /\ \A i \in 1..Len(job_queue') : i + 1 \in 1..Len(job_queue)
                                        /\ job_queue'[i] = job_queue[i + 1]
        /\ Head(job_queue) = job_queue[1]
    BY <2>1 DEF TypeOK
  <2>3. previous_video_pts < job_queue[1].pts
    BY <2>2 DEF PreviousIsOlder
  <2>4. \A i \in 1..Len(job_queue') : previous_video_pts < job_queue'[i].pts
    BY <2>2 DEF PreviousIsOlder
  <2>5. \A v \in Contexts : Active(v)' /\ worker'[v] # "relock" =>
          previous_video_pts < job'[v].pts
    BY <2>1, <2>2, <2>3 DEF PreviousIsOlder, TypeOK, Active
  <2>6. QED
    BY <1>1, <1>2, <2>1, <2>4, <2>5 DEF PreviousIsOlder
<1>5. ASSUME NEW entries \in SUBSET Job, NEW sequence,
             DrainLoop(w, entries, sequence),
             \A e \in entries : previous_video_pts < e.pts,
             UNCHANGED <<previous_video_pts, job_queue>>
      PROVE  PreviousIsOlder'
  <2>1. /\ \A v \in Contexts \ {w} : worker'[v] = worker[v] /\ job'[v] = job[v]
        /\ completed' \subseteq entries
        /\ worker'[w] = "check" \/ job'[w] \in entries
    BY <1>5 DEF DrainLoop, Ready, Goto, TypeOK
  <2>2. \A v \in Contexts : Active(v)' /\ worker'[v] # "relock" =>
          previous_video_pts < job'[v].pts
    BY <1>5, <2>1 DEF PreviousIsOlder, Active
  <2>3. \A e \in completed' : previous_video_pts < e.pts
    BY <1>5, <2>1
  <2>4. QED
    BY <1>1, <1>5, <2>2, <2>3 DEF PreviousIsOlder
<1>6. CASE CompleteJob(w)
  <2>1. /\ completed \union {job[w]} \in SUBSET Job
        /\ DrainLoop(w, completed \union {job[w]}, next_mux_sequence)
        /\ UNCHANGED <<previous_video_pts, job_queue>>
        /\ \A e \in completed \union {job[w]} : previous_video_pts < e.pts
    BY <1>6 DEF CompleteJob, TypeOK, PreviousIsOlder, Active
  <2>2. QED
    BY <1>2, <1>5, <2>1
<1>7. CASE Advance(w)
  <2>1. /\ completed \in SUBSET Job
        /\ DrainLoop(w, completed, next_mux_sequence')
        /\ UNCHANGED <<previous_video_pts, job_queue>>
        /\ \A e \in completed : previous_video_pts < e.pts
    BY <1>7 DEF Advance, TypeOK, PreviousIsOlder
  <2>2. QED
    BY <1>2, <1>5, <2>1
<1>8. CASE MuxPacket(w) \/ MuxFails(w)
  <2>1. previous_video_pts < job[w].pts /\ previous_video_pts \in Int /\ job[w].pts \in Nat
    BY <1>8 DEF MuxPacket, MuxFails, PreviousIsOlder, Active, TypeOK, Job
  <2>2. /\ worker[w] = "mux"
        /\ previous_video_pts' = job[w].pts
        /\ UNCHANGED <<job, job_queue, completed>>
        /\ worker'[w] \in {"relock", "exited"}
        /\ \A v \in Contexts \ {w} : Active(v)' /\ worker'[v] # "relock" =>
             Active(v)
    <3>1. CASE MuxPacket(w)
      BY <3>1 DEF MuxPacket, Goto, TypeOK, Active
    <3>2. CASE MuxFails(w)
      <4>1. /\ worker[w] = "mux"
            /\ previous_video_pts' = job[w].pts
            /\ UNCHANGED <<job, job_queue, completed>>
            /\ worker' = [WakeAll(worker) EXCEPT ![w] = "exited"]
        BY <2>1, <3>2 DEF MuxFails, WorkerFails
      <4>2. QED
        BY <4>1 DEF WakeAll, TypeOK, Active
    <3>3. QED
      BY <1>8, <3>1, <3>2
  <2>3. QED
    BY <1>1, <1>2, <2>2, TurnIsOldest DEF PreviousIsOlder, Active
<1>9. QED
  BY <1>2, <1>3, <1>4, <1>6, <1>7, <1>8 DEF Worker

-----------------------------------------------------------------------------
(* Failure flags and what the caller knows.                                *)

\* The failure flag and the recorded exception change together.
LEMMA FlagsInv ==
  ASSUME TypeOK, JobsInv, PreviousIsOlder, FailureFlags, [Next]_vars
  PROVE  FailureFlags'
<1>1. ASSUME NEW w \in Contexts, EncodeFails(w) PROVE FailureFlags'
  BY <1>1 DEF EncodeFails, WorkerFails, FailureFlags, TypeOK
<1>2. ASSUME NEW w \in Contexts, MuxFails(w) PROVE FailureFlags'
  <2>1. job[w].pts > previous_video_pts
    BY <1>2 DEF MuxFails, PreviousIsOlder, Active, TypeOK, Job
  <2>2. WorkerFails(w, "write")
    BY <1>2, <2>1 DEF MuxFails, TypeOK, Job
  <2>3. QED
    BY <2>2 DEF WorkerFails, FailureFlags, TypeOK
<1>3. ASSUME NEW w \in Contexts, Worker(w), ~EncodeFails(w), ~MuxFails(w)
      PROVE  UNCHANGED <<pipeline_failed, worker_error>>
  BY <1>3 DEF Worker, WorkerWait, WorkerReturns, TakeJob, Encode, CompleteJob,
     MuxPacket, Advance
<1>4. CallerContinues \/ CallerCalls => UNCHANGED <<pipeline_failed, worker_error>>
  BY DEF CallerContinues, CallerCalls, Construct, OpenOutput, OpenOutputFails,
     StartWorker, StartWorkerFails, WriteVideo, SubmitWait, SubmitFails, Submit,
     CallerThrows, Finish, FinishWait, FinishDrained, StopFlags, StopNotify,
     FinishJoined, Destroy, CleanupJoined
<1>5. UNCHANGED <<pipeline_failed, worker_error>> => FailureFlags'
  BY DEF FailureFlags
<1>6. QED
  BY <1>1, <1>2, <1>3, <1>4, <1>5 DEF Next, Terminated, vars

\* What the caller may conclude once finish() stopped waiting stays true.
LEMMA KnowsInv ==
  ASSUME TypeOK, JobsInv, FailureFlags, CallerKnows, [Next]_vars
  PROVE  CallerKnows'
<1>1. ASSUME NEW w \in Contexts, Worker(w) PROVE CallerKnows'
  <2>1. caller # "closed"
    BY <1>1 DEF Worker, WorkerWait, WorkerReturns, TakeJob, Encode, EncodeFails,
       CompleteJob, MuxPacket, MuxFails, Advance, CallerKnows, Live
  <2>2. CASE ~Active(w)
    <3>1. UNCHANGED <<caller, finished, jobs_in_flight, worker_error>>
      BY <1>1, <2>2 DEF Worker, WorkerWait, WorkerReturns, TakeJob, Encode, EncodeFails,
         CompleteJob, MuxPacket, MuxFails, Advance, Active
    <3>2. QED
      BY <2>1, <3>1 DEF CallerKnows
  <2>3. CASE Active(w)
    <3>1. jobs_in_flight # 0
      BY <2>3, EmptyPipeline
    <3>2. ~finished /\ caller \notin {"finish_stop", "finish_notify", "finish_join", "closed"}
      BY <2>1, <3>1 DEF CallerKnows
    <3>3. finished' = finished /\ caller' \in {caller, "submit", "drain"}
      BY <1>1 DEF Worker, WorkerWait, WorkerReturns, TakeJob, Encode, EncodeFails,
         CompleteJob, MuxPacket, MuxFails, Advance, WorkerFails, WakeCaller
    <3>4. QED
      BY <3>2, <3>3 DEF CallerKnows
  <2>4. QED
    BY <2>2, <2>3
<1>2. CASE CallerContinues \/ CallerCalls
  <2>1. CASE \/ OpenOutput \/ OpenOutputFails \/ StartWorkerFails \/ SubmitWait
             \/ SubmitFails \/ FinishWait \/ Finish \/ CallerThrows \/ Destroy
             \/ StopFlags \/ StopNotify \/ CleanupJoined
    BY <2>1 DEF OpenOutput, OpenOutputFails, StartWorkerFails, SubmitWait, SubmitFails,
       FinishWait, Finish, CallerThrows, Destroy, StopFlags, StopNotify, CleanupJoined,
       Throw, CallerKnows, Live
  <2>2. ASSUME NEW w \in Contexts, StartWorker(w) PROVE CallerKnows'
    BY <2>2 DEF StartWorker, CallerKnows
  <2>3. ASSUME NEW pts \in Pts, WriteVideo(pts) PROVE CallerKnows'
    BY <2>3 DEF WriteVideo, Throw, CallerKnows
  <2>4. CASE Submit
    BY <2>4 DEF Submit, CallerKnows
  <2>5. CASE FinishDrained
    <3>1. worker_error = NoError => jobs_in_flight = 0
      BY <2>5 DEF FinishDrained, FailureFlags
    <3>2. QED
      BY <2>5, <3>1 DEF FinishDrained, Throw, CallerKnows
  <2>6. CASE FinishJoined
    BY <2>6 DEF FinishJoined, Throw, CallerKnows
  <2>7. QED
    BY <1>2, <2>1, <2>2, <2>3, <2>4, <2>5, <2>6
    DEF CallerContinues, CallerCalls, Construct
<1>3. CASE UNCHANGED vars
  BY <1>3 DEF vars, CallerKnows, Live
<1>4. QED
  BY <1>1, <1>2, <1>3 DEF Next, Terminated

-----------------------------------------------------------------------------
(* The invariant.                                                          *)

\* Steps of the caller other than Submit and CleanupJoined move no job.
LEMMA CallerQuiet ==
  ASSUME TypeOK, CallerContinues \/ CallerCalls, ~Submit, ~CleanupJoined
  PROVE  /\ Quiet
         /\ UNCHANGED previous_video_pts
         /\ \A w \in Contexts : Active(w)' => Active(w) /\ worker'[w] = worker[w]
<1>1. CASE StopNotify
  BY <1>1 DEF StopNotify, WakeAll, Quiet, TypeOK, Active
<1>2. ASSUME NEW w \in Contexts, StartWorker(w)
      PROVE  /\ Quiet
             /\ UNCHANGED previous_video_pts
             /\ \A v \in Contexts : Active(v)' => Active(v) /\ worker'[v] = worker[v]
  BY <1>2 DEF StartWorker, Quiet, TypeOK, Active
<1>3. CASE ~StopNotify /\ ~(\E w \in Contexts : StartWorker(w))
  <2>1. UNCHANGED <<worker, job, job_queue, next_submit_sequence, submitted, completed,
                    next_mux_sequence, jobs_in_flight, muxed, previous_video_pts>>
    BY <1>3 DEF CallerContinues, CallerCalls, Construct, OpenOutput, OpenOutputFails,
       StartWorkerFails, WriteVideo, SubmitWait, SubmitFails, CallerThrows, Finish,
       FinishWait, FinishDrained, StopFlags, FinishJoined, Destroy
  <2>2. QED
    BY <2>1 DEF Quiet, Active
<1>4. QED
  BY <1>1, <1>2, <1>3

\* The inductive invariant is kept by every step of the caller's thread.
LEMMA CallerInv ==
  ASSUME IInv, CallerContinues \/ CallerCalls
  PROVE  JobsInv' /\ SubmittedIncreasing' /\ PreviousIsOlder'
<1> USE DEF IInv
<1>1. CASE Submit
  BY <1>1, SubmitJobs, SubmitPts
<1>2. CASE CleanupJoined
  <2>1. JobsInv'
    BY <1>2, CleanupJobs
  <2>2. /\ UNCHANGED <<submitted, next_submit_sequence, last_video_pts, pending_pts,
                       previous_video_pts>>
        /\ caller' = "closed"
        /\ job_queue' = << >> /\ completed' = {}
        /\ \A w \in Contexts : ~Active(w)'
    BY <1>2 DEF CleanupJoined, Live, Active
  <2>3. SubmittedIncreasing'
    BY <2>2, SubmittedFrame
  <2>4. PreviousIsOlder'
    BY <2>2 DEF PreviousIsOlder
  <2>5. QED
    BY <2>1, <2>3, <2>4
<1>3. ASSUME NEW pts \in Pts, WriteVideo(pts)
      PROVE  JobsInv' /\ SubmittedIncreasing' /\ PreviousIsOlder'
  <2>1. Quiet
    BY <1>3 DEF WriteVideo, Quiet
  <2>2. QED
    BY <1>3, <2>1, QuietJobs, WriteVideoPts
<1>4. CASE ~Submit /\ ~CleanupJoined /\ ~(\E pts \in Pts : WriteVideo(pts))
  <2>1. /\ Quiet
        /\ UNCHANGED previous_video_pts
        /\ \A w \in Contexts : Active(w)' => Active(w) /\ worker'[w] = worker[w]
    BY <1>4, CallerQuiet
  <2>2. /\ UNCHANGED <<submitted, next_submit_sequence, last_video_pts, pending_pts,
                       job_queue, completed, job>>
        /\ caller' \in {"submit", "submit_sleep"} => caller \in {"submit", "submit_sleep"}
    BY <1>4 DEF CallerContinues, CallerCalls, Construct, OpenOutput, OpenOutputFails,
       StartWorker, StartWorkerFails, SubmitWait, SubmitFails, CallerThrows, Finish,
       FinishWait, FinishDrained, StopFlags, StopNotify, FinishJoined, Destroy, Throw
  <2>3. JobsInv'
    BY <2>1, QuietJobs
  <2>4. SubmittedIncreasing'
    BY <2>2, SubmittedFrame
  <2>5. PreviousIsOlder'
    BY <2>1, <2>2, PreviousFrame
  <2>6. QED
    BY <2>3, <2>4, <2>5
<1>5. QED
  BY <1>1, <1>2, <1>3, <1>4

\* The part of the invariant about jobs is kept by every encode thread.
LEMMA WorkerJobs ==
  ASSUME IInv, NEW w \in Contexts, Worker(w)
  PROVE  JobsInv'
<1> USE DEF IInv
<1>1. CASE WorkerWait(w) \/ WorkerReturns(w) \/ Encode(w)
  <2>1. Quiet
    BY <1>1 DEF WorkerWait, WorkerReturns, Encode, Goto, Quiet, TypeOK
  <2>2. QED
    BY <2>1, QuietJobs
<1>2. CASE EncodeFails(w) \/ MuxFails(w)
  <2>1. /\ worker' = [WakeAll(worker) EXCEPT ![w] = "exited"]
        /\ worker[w] \in {"encode", "mux"}
        /\ UNCHANGED <<job, queueVars, completed, next_mux_sequence, jobs_in_flight, muxed>>
    BY <1>2 DEF EncodeFails, MuxFails, WorkerFails
  <2>2. Quiet
    BY <2>1 DEF WakeAll, Quiet, TypeOK
  <2>3. QED
    BY <2>2, QuietJobs
<1>3. QED
  BY <1>1, <1>2, TakeJobJobs, CompleteJobJobs, MuxPacketJobs, AdvanceJobs DEF Worker

\* The inductive invariant holds when construction begins.
LEMMA InitInv == Init => IInv
<1> SUFFICES ASSUME Init PROVE IInv
  OBVIOUS
<1>1. TypeOK
  BY InitType
<1>2. /\ \A w \in Contexts : worker[w] = "none" /\ ~Active(w)
      /\ Len(job_queue) = 0 /\ Len(submitted) = 0 /\ Len(muxed) = 0
      /\ QueueHead = 0
  <2>1. \A w \in Contexts : worker[w] = "none" /\ ~Active(w)
    BY DEF Init, Active
  <2>2. job_queue = << >> /\ submitted = << >> /\ muxed = << >> /\ next_submit_sequence = 0
    BY DEF Init
  <2>3. Len(job_queue) = 0 /\ Len(submitted) = 0 /\ Len(muxed) = 0
    BY <2>2
  <2>4. QueueHead = 0
    <3>1. 0 - 0 = 0
      OBVIOUS
    <3>2. QED
      BY <2>2, <2>3, <3>1, Zenon DEF QueueHead
  <2>5. QED
    BY <2>1, <2>3, <2>4
<1>3. MuxedInOrder
  BY DEF Init, MuxedInOrder
<1>4. JobsInv
  BY <1>2, <1>3 DEF Init, JobsInv, QueueConsecutive, OutstandingRange,
     OutstandingDistinct, DrainInOrder, JobsCarryPts, InFlightCount
<1>5. SubmittedIncreasing /\ PreviousIsOlder /\ FailureFlags
  BY <1>2 DEF Init, SubmittedIncreasing, PreviousIsOlder, FailureFlags
<1>6. CallerKnows
  BY DEF Init, CallerKnows
<1>7. QED
  BY <1>1, <1>4, <1>5, <1>6 DEF IInv

\* The inductive invariant is kept by every step.
LEMMA NextInv == IInv /\ [Next]_vars => IInv'
<1> SUFFICES ASSUME IInv, [Next]_vars PROVE IInv'
  OBVIOUS
<1>1. TypeOK'
  BY NextType DEF IInv, JobsInv
<1>2. FailureFlags' /\ CallerKnows'
  BY FlagsInv, KnowsInv DEF IInv
<1>3. CASE CallerContinues \/ CallerCalls
  BY <1>1, <1>2, <1>3, CallerInv DEF IInv
<1>4. ASSUME NEW w \in Contexts, Worker(w) PROVE IInv'
  BY <1>1, <1>2, <1>4, WorkerJobs, WorkerPts DEF IInv
<1>5. CASE UNCHANGED vars
  <2>1. Quiet /\ (\A w \in Contexts : Active(w)' <=> Active(w))
    BY <1>5 DEF vars, Quiet, Active
  <2>2. JobsInv'
    BY <2>1, QuietJobs DEF IInv
  <2>3. SubmittedIncreasing'
    BY <1>5, SubmittedFrame DEF vars, IInv
  <2>4. PreviousIsOlder'
    BY <1>5, <2>1, PreviousFrame DEF vars, IInv
  <2>5. QED
    BY <1>1, <1>2, <2>2, <2>3, <2>4 DEF IInv
<1>6. QED
  BY <1>3, <1>4, <1>5 DEF Next, Terminated

\* The inductive invariant holds in every reachable state.
THEOREM Invariance == Spec => []IInv
BY InitInv, NextInv, PTL DEF Spec

-----------------------------------------------------------------------------
(* The theorems.                                                           *)

\* Every variable of the CPU video path keeps its type.
THEOREM TypeCorrect == Spec => []TypeOK
<1>1. IInv => TypeOK
  BY DEF IInv
<1>2. QED
  BY <1>1, Invariance, PTL

\* The video packets in the file are the accepted frames in the order
\* write_video accepted them, none missing and none twice.
THEOREM InOrder == Spec => []MuxedInOrder
<1>1. IInv => MuxedInOrder
  BY DEF IInv, JobsInv
<1>2. QED
  BY <1>1, Invariance, PTL

\* When finish() has returned normally, every accepted frame is in the file.
THEOREM Complete == Spec => []FinishedComplete
<1>1. IInv => FinishedComplete
  <2> SUFFICES ASSUME IInv, finished PROVE Len(muxed) = Len(submitted) /\ ~pipeline_failed
    BY DEF FinishedComplete
  <2>1. jobs_in_flight = 0 /\ worker_error = NoError
    BY DEF IInv, CallerKnows
  <2>2. /\ \A w \in Contexts : ~Active(w)
        /\ next_mux_sequence = next_submit_sequence
    BY <2>1, EmptyPipeline DEF IInv
  <2>3. Len(muxed) = next_mux_sequence
    BY <2>2 DEF IInv, JobsInv, DrainInOrder, Active
  <2>4. QED
    BY <2>1, <2>2, <2>3 DEF IInv, SubmittedIncreasing, FailureFlags
<1>2. QED
  BY <1>1, Invariance, PTL

\* Two encode threads are never in the drain together, although the lock is
\* released while one of them writes.
THEOREM ExclusiveDrain == Spec => []OneDrainer
<1>1. IInv => OneDrainer
  BY DEF IInv, JobsInv, OneDrainer, DrainInOrder, OutstandingDistinct, Active
<1>2. QED
  BY <1>1, Invariance, PTL

\* The muxer never refuses a packet for its timestamp.
THEOREM PtsAccepted == Spec => []NoPtsRejection
<1>1. IInv => NoPtsRejection
  BY DEF IInv, FailureFlags, NoPtsRejection
<1>2. QED
  BY <1>1, Invariance, PTL

\* A failed pipeline begins no further write to the file.
THEOREM StopsWriting == Spec => NoWriteAfterFailure
<1>1. ASSUME IInv, [Next]_vars, pipeline_failed, NEW w \in Contexts,
             worker'[w] = "mux"
      PROVE  worker[w] = "mux"
  <2> worker \in [Contexts -> WorkerStates]
    BY <1>1 DEF IInv, TypeOK
  <2>1. CASE UNCHANGED vars
    BY <1>1, <2>1 DEF vars
  <2>2. CASE CallerContinues \/ CallerCalls \/ Terminated
    BY <1>1, <2>2 DEF CallerContinues, Construct, CallerCalls, Terminated, OpenOutput,
       OpenOutputFails, StartWorker, StartWorkerFails, SubmitWait, SubmitFails,
       Submit, FinishWait, FinishDrained, StopFlags, StopNotify, FinishJoined, WakeAll,
       CleanupJoined, WriteVideo, CallerThrows, Finish, Destroy, vars
  <2>3. ASSUME NEW v \in Contexts, Worker(v)
        PROVE  worker[w] = "mux"
    BY <1>1, <2>3 DEF Worker, WorkerWait, WorkerReturns, TakeJob, Encode, EncodeFails,
       CompleteJob, MuxPacket, MuxFails, Advance, DrainLoop, WorkerFails, WakeAll, Goto
  <2>4. QED
    BY <1>1, <2>1, <2>2, <2>3 DEF Next
<1>2. IInv /\ [Next]_vars =>
        (pipeline_failed => \A w \in Contexts : worker'[w] = "mux" => worker[w] = "mux")
  BY <1>1
<1>3. QED
  BY <1>2, Invariance, PTL DEF Spec, NoWriteAfterFailure

\* Every job alive has a sequence number of its own between the next to mux
\* and the next to submit, and jobs_in_flight is how many there are.
LEMMA JobsCounted ==
  ASSUME IInv
  PROVE  Len(job_queue) + Cardinality(completed) + Cardinality(Holders) <= jobs_in_flight
<1> DEFINE a == next_mux_sequence
           b == QueueHead - 1
           packet == [e \in completed |-> e.sequence]
           held == [w \in Holders |-> job[w].sequence]
           packets == {packet[e] : e \in completed}
           holds == {held[w] : w \in Holders}
<1>1. /\ a \in Int /\ b \in Int /\ a <= b + 1 /\ jobs_in_flight \in Nat
      /\ b - a + 1 = jobs_in_flight - Len(job_queue)
  BY IntegerTypes DEF IInv, TypeOK, JobsInv, OutstandingRange, InFlightCount, QueueHead
<1>2. packet \in [completed -> a..b] /\ held \in [Holders -> a..b]
  BY DEF IInv, JobsInv, OutstandingRange, Holders, Active
<1>3. /\ \A e, f \in completed : packet[e] = packet[f] => e = f
      /\ \A v, w \in Holders : held[v] = held[w] => v = w
      /\ \A e \in completed, w \in Holders : packet[e] # held[w]
  BY DEF IInv, JobsInv, OutstandingDistinct, Holders, Active
<1>4. /\ packets \cap holds = {}
      /\ packets \subseteq a..b /\ holds \subseteq a..b
      /\ packet \in [completed -> packets] /\ held \in [Holders -> holds]
      /\ \A n \in packets : \E e \in completed : packet[e] = n
      /\ \A n \in holds : \E w \in Holders : held[w] = n
  BY <1>2, <1>3
<1> HIDE DEF a, b, packet, held, packets, holds
<1>5. IsFiniteSet(packets) /\ IsFiniteSet(holds)
  BY <1>1, <1>4, FS_Interval, FS_Subset
<1>6. /\ Cardinality(completed) = Cardinality(packets)
      /\ Cardinality(Holders) = Cardinality(holds)
  <2>1. packet \in Injection(completed, packets) /\ packet \in Surjection(completed, packets)
    BY <1>3, <1>4 DEF Injection, IsInjective, Surjection
  <2>2. held \in Injection(Holders, holds) /\ held \in Surjection(Holders, holds)
    BY <1>3, <1>4 DEF Injection, IsInjective, Surjection
  <2>3. QED
    BY <1>5, <2>1, <2>2, FS_Injection
<1>7. Cardinality(packets \cup holds) = Cardinality(packets) + Cardinality(holds)
  <2>1. Cardinality(packets \cup holds) =
          Cardinality(packets) + Cardinality(holds) - Cardinality(packets \cap holds)
    BY <1>5, FS_Union
  <2>2. Cardinality(packets) \in Nat /\ Cardinality(holds) \in Nat
    BY <1>5, FS_CardinalityType
  <2>3. Cardinality(packets \cap holds) = 0
    BY <1>4, FS_EmptySet
  <2>4. QED
    BY <2>1, <2>2, <2>3
<1>8. Cardinality(packets \cup holds) <= Cardinality(a..b)
  BY <1>1, <1>4, FS_Interval, FS_Subset
<1>9. Cardinality(a..b) = b - a + 1
  BY <1>1, FS_Interval
<1>10. Cardinality(packets) \in Nat /\ Cardinality(holds) \in Nat
  BY <1>5, FS_CardinalityType
<1>11. Len(job_queue) \in Nat
  BY IntegerTypes DEF IInv
<1>12. QED
  BY <1>1, <1>6, <1>7, <1>8, <1>9, <1>10, <1>11

\* Only Submit counts a job, and only when there is room.
LEMMA RoomKept ==
  ASSUME IInv, [Next]_vars, jobs_in_flight <= MaxInFlight
  PROVE  jobs_in_flight' <= MaxInFlight
<1>0. jobs_in_flight \in Nat
  BY DEF IInv, TypeOK
<1>1. CASE Submit
  BY <1>0, <1>1 DEF Submit, Room
<1>2. ASSUME NEW w \in Contexts, Worker(w)
      PROVE  jobs_in_flight' \in {jobs_in_flight, jobs_in_flight - 1}
  BY <1>0, <1>2 DEF Worker, WorkerWait, WorkerReturns, TakeJob, Encode, EncodeFails,
     CompleteJob, MuxPacket, MuxFails, Advance
<1>3. CASE ~Submit /\ (CallerContinues \/ CallerCalls)
  BY <1>3 DEF CallerContinues, CallerCalls, Construct, OpenOutput,
     OpenOutputFails, StartWorker, StartWorkerFails, WriteVideo, SubmitWait,
     SubmitFails, CallerThrows, Finish, FinishWait, FinishDrained, StopFlags,
     StopNotify, FinishJoined, CleanupJoined, Destroy
<1>4. CASE UNCHANGED vars
  BY <1>4 DEF vars
<1>5. ASSUME NEW w \in Contexts, Worker(w) PROVE jobs_in_flight' <= MaxInFlight
  BY <1>0, <1>2, <1>5
<1>6. QED
  BY <1>1, <1>3, <1>4, <1>5 DEF Next, Terminated

\* Frames and packets alive in the writer never exceed max_jobs_in_flight,
\* also with packets waiting in the reorder buffer for a slow context.
\* (write_video's wait on space_cv, complete_job.)
THEOREM Bounded == Spec => []InFlightBounded
<1> DEFINE Roomy == jobs_in_flight <= MaxInFlight
<1>1. Init => Roomy
  BY DEF Init
<1>2. IInv /\ Roomy /\ [Next]_vars => Roomy'
  BY RoomKept
<1>3. IInv /\ Roomy => InFlightBounded
  BY JobsCounted DEF InFlightBounded
<1> HIDE DEF Roomy
<1>4. QED
  BY <1>1, <1>2, <1>3, Invariance, PTL DEF Spec

\* The CPU video path implements OrderedSink.
THEOREM Refinement == Spec => SinkSpec
<1>1. Init => Sink!Init
  BY DEF Init, Sink!Init
<1>2. IInv /\ IInv' /\ [Next]_vars => [Sink!Next]_(Sink!vars)
  <2> SUFFICES ASSUME IInv, IInv', [Next]_vars
               PROVE  Sink!Next \/ UNCHANGED Sink!vars
    OBVIOUS
  <2> DEFINE bar == IF finished THEN "sealed"
                    ELSE IF caller = "closed" THEN "abandoned" ELSE "open"
  <2>1. CASE Submit
    <3>1. ~finished /\ ~finished' /\ caller # "closed" /\ caller' # "closed"
      BY <2>1 DEF Submit, IInv, CallerKnows
    <3>2. submitted' = Append(submitted, pending_pts) /\ muxed' = muxed
      BY <2>1 DEF Submit
    <3>3. pending_pts \in Pts /\ \A i \in 1..Len(submitted) : submitted[i] < pending_pts
      BY <2>1 DEF Submit, IInv, SubmittedIncreasing
    <3>4. QED
      BY <3>1, <3>2, <3>3 DEF Sink!Next, Sink!Accept
  <2>2. ASSUME NEW w \in Contexts, MuxPacket(w) PROVE Sink!Write
    <3>1. /\ Active(w) /\ caller' = caller /\ finished' = finished
          /\ worker[w] = "mux" /\ submitted' = submitted
          /\ muxed' = Append(muxed, job[w].pts)
      BY <2>2 DEF MuxPacket, Active
    <3>2. ~finished /\ caller # "closed"
      BY <3>1, EmptyPipeline DEF IInv, CallerKnows, Live
    <3>3. Len(muxed) < Len(submitted) /\ job[w].pts = submitted[Len(muxed) + 1]
      <4>1. job[w].sequence = next_mux_sequence
        BY <3>1 DEF IInv, JobsInv, DrainInOrder
      <4>2. \A v \in Contexts : worker[v] # "relock"
        BY <3>1, <4>1 DEF IInv, JobsInv, DrainInOrder, OutstandingDistinct, Active
      <4>3. Len(muxed) = next_mux_sequence
        BY <4>2 DEF IInv, JobsInv, DrainInOrder
      <4>4. job[w].pts = submitted[job[w].sequence + 1]
        BY <3>1 DEF IInv, JobsInv, JobsCarryPts
      <4>5. next_mux_sequence \in Nat /\ next_mux_sequence <= QueueHead - 1 /\ QueueHead \in Int
        BY <3>1, <4>1, IntegerTypes DEF IInv, JobsInv, OutstandingRange
      <4>6. QueueHead <= Len(submitted)
        BY IntegerTypes DEF IInv, QueueHead, SubmittedIncreasing
      <4>7. Len(submitted) \in Nat
        BY IntegerTypes DEF IInv
      <4>8. QED
        BY <4>1, <4>3, <4>4, <4>5, <4>6, <4>7
    <3>4. QED
      BY <3>1, <3>2, <3>3 DEF Sink!Write
  <2>3. CASE FinishJoined /\ finished'
    <3>1. caller = "finish_join" /\ caller' = "ready" /\ ~finished
          /\ UNCHANGED <<submitted, muxed>>
      BY <2>3 DEF FinishJoined, Throw, IInv, CallerKnows
    <3>2. muxed = submitted
      <4>1. Len(muxed') = Len(submitted')
        <5>1. jobs_in_flight' = 0
          BY <2>3 DEF IInv, CallerKnows
        <5>2. /\ \A w \in Contexts : ~Active(w)
              /\ next_mux_sequence = next_submit_sequence
          BY <3>1, EmptyPipeline DEF IInv, CallerKnows
        <5>3. Len(muxed) = Len(submitted)
          BY <5>2 DEF IInv, JobsInv, DrainInOrder, Active, SubmittedIncreasing
        <5>4. QED
          BY <3>1, <5>3
      <4>2. SubSeq(submitted, 1, Len(submitted)) = submitted
        BY DEF IInv, TypeOK
      <4>3. QED
        BY <3>1, <4>1, <4>2 DEF IInv, JobsInv, MuxedInOrder
    <3>3. QED
      BY <2>3, <3>1, <3>2 DEF Sink!Next, Sink!Seal
  <2>4. CASE CleanupJoined
    BY <2>4 DEF CleanupJoined, Sink!Next, Sink!Abandon, Sink!vars
  <2>5. ASSUME ~Submit, ~CleanupJoined, ~(FinishJoined /\ finished'),
               ~(\E w \in Contexts : MuxPacket(w)), ~UNCHANGED vars
        PROVE  UNCHANGED <<submitted, muxed, finished>>
               /\ (caller' = "closed" <=> caller = "closed")
    <3>1. ASSUME NEW w \in Contexts, Worker(w)
          PROVE  UNCHANGED <<submitted, muxed, finished>>
                 /\ (caller' = "closed" <=> caller = "closed")
      BY <2>5, <3>1 DEF Worker, WorkerWait, WorkerReturns, TakeJob, Encode, EncodeFails,
         CompleteJob, MuxFails, Advance, WorkerFails, WakeCaller
    <3>2. CASE CallerContinues \/ CallerCalls
      BY <2>5, <3>2 DEF CallerContinues, CallerCalls, Construct, OpenOutput,
         OpenOutputFails, StartWorker, StartWorkerFails, WriteVideo, SubmitWait,
         SubmitFails, CallerThrows, Finish, FinishWait, FinishDrained, StopFlags,
         StopNotify, FinishJoined, Destroy, Throw, IInv, CallerKnows
    <3>3. QED
      BY <2>5, <3>1, <3>2 DEF Next, Terminated
  <2>6. CASE UNCHANGED vars
    BY <2>6 DEF vars, Sink!vars
  <2>7. QED
    BY <2>1, <2>2, <2>3, <2>4, <2>5, <2>6 DEF Sink!Next, Sink!vars
<1>3. QED
  BY <1>1, <1>2, Invariance, PTL DEF Spec, SinkSpec, Sink!Spec

=============================================================================
