----------------------- MODULE CpuEncodePipelineProps -----------------------
(***************************************************************************)
(* What the CPU video path of FfmpegWriter guarantees.                     *)
(***************************************************************************)
EXTENDS CpuEncodePipeline, FiniteSets

CallerStates ==
  {"construct", "start", "ready", "submit", "submit_sleep", "drain",
   "drain_sleep", "finish_stop", "finish_notify", "finish_join", "cleanup",
   "cleanup_notify", "cleanup_join", "closed"}

WorkerStates ==
  {"none", "check", "sleep", "encode", "complete", "mux", "relock", "exited"}

WorkerErrors == {NoError, "encode", "write", "packet_pts"}
Errors == WorkerErrors \union {"open", "start", "finished", "pts", "caller", "flush"}

\* Every variable has the type the code gives it.
TypeOK ==
  /\ caller \in CallerStates
  /\ header_written \in BOOLEAN
  /\ finished \in BOOLEAN
  /\ error \in Errors
  /\ last_video_pts \in Nat \union {NoPts}
  /\ pending_pts \in Nat \union {NoPts}
  /\ caller \in {"submit", "submit_sleep"} => pending_pts \in Nat
  /\ worker \in [Contexts -> WorkerStates]
  /\ job \in [Contexts -> Job]
  /\ job_queue \in Seq(Job)
  /\ completed \subseteq Job
  /\ next_submit_sequence \in Nat
  /\ next_mux_sequence \in Nat
  /\ jobs_in_flight \in Nat
  /\ pipeline_failed \in BOOLEAN
  /\ worker_error \in WorkerErrors
  /\ stop_workers \in BOOLEAN
  /\ abort_workers \in BOOLEAN
  /\ previous_video_pts \in Nat \union {NoPts}
  /\ submitted \in Seq(Nat)
  /\ muxed \in Seq(Nat)

-----------------------------------------------------------------------------
(* Safety.                                                                 *)

\* Whatever order the contexts finish in, the video packets in the file are
\* the frames write_video accepted, from the first on, none missing, none
\* twice (complete_job's reorder buffer).
MuxedInOrder == muxed = SubSeq(submitted, 1, Len(muxed))

\* finish() returning normally means that every accepted frame is in the
\* file and that no encode thread ever failed.
FinishedComplete ==
  finished => /\ Len(muxed) = Len(submitted)
              /\ ~pipeline_failed

\* Threads that still hold the frame or the packet of a job.
Holders == {w \in Contexts : worker[w] \in {"encode", "complete", "mux"}}

\* write_video's back-pressure: the frames and packets alive in the writer
\* never exceed max_jobs_in_flight, whatever waits in the reorder buffer.
InFlightBounded ==
  /\ Len(job_queue) + Cardinality(completed) + Cardinality(Holders)
       <= jobs_in_flight
  /\ jobs_in_flight <= MaxInFlight

\* The drain releases pipe_mutex around the write, yet two threads are
\* never inside it together (next_mux_sequence moves only afterwards).
OneDrainer ==
  \A v, w \in Contexts :
    worker[v] \in {"mux", "relock"} /\ worker[w] \in {"mux", "relock"} => v = w

\* validate_video_packet never refuses a packet: the timestamps that pass
\* write_video reach the muxer strictly increasing.
NoPtsRejection == worker_error # "packet_pts"

-----------------------------------------------------------------------------
(* The inductive invariant behind the safety properties.                   *)

\* The thread holds a job that is still counted in jobs_in_flight.
Active(w) == worker[w] \in {"encode", "complete", "mux", "relock"}

\* The first sequence number no thread has taken yet.
QueueHead == next_submit_sequence - Len(job_queue)

\* Sequence numbers are handed out in order and the queue is first-in
\* first-out, so it holds the last numbers handed out.
QueueConsecutive ==
  \A i \in 1..Len(job_queue) : job_queue[i].sequence = QueueHead + i - 1

\* Jobs in threads and in the reorder buffer were taken from the queue and
\* not written yet.
OutstandingRange ==
  /\ next_mux_sequence <= QueueHead
  /\ \A w \in Contexts : Active(w) =>
       job[w].sequence \in next_mux_sequence..(QueueHead - 1)
  /\ \A e \in completed :
       e.sequence \in next_mux_sequence..(QueueHead - 1)

\* A job is in one place only.
OutstandingDistinct ==
  /\ \A v, w \in Contexts :
       Active(v) /\ Active(w) /\ job[v].sequence = job[w].sequence => v = w
  /\ \A w \in Contexts, e \in completed :
       Active(w) => job[w].sequence # e.sequence
  /\ \A e, f \in completed : e.sequence = f.sequence => e = f

\* A draining thread holds the packet whose turn it is, and the file is one
\* packet ahead of next_mux_sequence exactly while it takes the lock again.
DrainInOrder ==
  /\ \A w \in Contexts : worker[w] \in {"mux", "relock"} =>
       job[w].sequence = next_mux_sequence
  /\ \A w \in Contexts : worker[w] = "relock" =>
       Len(muxed) = next_mux_sequence + 1
  /\ (\A w \in Contexts : worker[w] # "relock") =>
       Len(muxed) = next_mux_sequence

\* A job carries the timestamp its frame was accepted with.
JobsCarryPts ==
  /\ \A i \in 1..Len(job_queue) :
       job_queue[i].pts = submitted[job_queue[i].sequence + 1]
  /\ \A w \in Contexts : Active(w) =>
       job[w].pts = submitted[job[w].sequence + 1]
  /\ \A e \in completed : e.pts = submitted[e.sequence + 1]

\* Accepted timestamps increase, and write_video remembers the last one.
SubmittedIncreasing ==
  /\ Len(submitted) = next_submit_sequence
  /\ \A i, j \in 1..Len(submitted) : i < j => submitted[i] < submitted[j]
  /\ \A i \in 1..Len(submitted) : submitted[i] <= last_video_pts
  /\ caller \in {"submit", "submit_sleep"} =>
       /\ pending_pts \in Pts
       /\ pending_pts = last_video_pts
       /\ \A i \in 1..Len(submitted) : submitted[i] < pending_pts

\* Nothing still to be written is older than the last packet validated.
PreviousIsOlder ==
  /\ previous_video_pts <= last_video_pts
  /\ caller \in {"submit", "submit_sleep"} => previous_video_pts < pending_pts
  /\ \A i \in 1..Len(job_queue) : previous_video_pts < job_queue[i].pts
  /\ \A w \in Contexts : Active(w) /\ worker[w] # "relock" =>
       previous_video_pts < job[w].pts
  /\ \A e \in completed : previous_video_pts < e.pts

\* jobs_in_flight counts what was submitted and not yet accounted as muxed.
InFlightCount == jobs_in_flight = next_submit_sequence - next_mux_sequence

\* The failure flag and the exception are set together, and only by a
\* codec or the muxer.
FailureFlags ==
  /\ worker_error \in {NoError, "encode", "write"}
  /\ pipeline_failed <=> worker_error # NoError

\* Past the wait of finish(), and ever after, the pipeline is empty and
\* healthy; past the joins of the destructor no thread is left.
CallerKnows ==
  /\ caller \in {"finish_stop", "finish_notify", "finish_join"} \/ finished =>
       jobs_in_flight = 0 /\ worker_error = NoError
  /\ finished => caller \in {"ready", "cleanup", "cleanup_notify",
                             "cleanup_join", "closed"}
  /\ caller = "closed" => Live = {}

\* The part of the invariant about where the jobs are.
JobsInv ==
  /\ QueueConsecutive
  /\ OutstandingRange
  /\ OutstandingDistinct
  /\ DrainInOrder
  /\ JobsCarryPts
  /\ InFlightCount
  /\ MuxedInOrder

IInv ==
  /\ TypeOK
  /\ JobsInv
  /\ SubmittedIncreasing
  /\ PreviousIsOlder
  /\ FailureFlags
  /\ CallerKnows

-----------------------------------------------------------------------------
(* Actions.                                                                *)

\* Once an encode thread has failed no write begins: the one packet whose
\* write is already under way may still reach the file, no other does.
NoWriteAfterFailure ==
  [][pipeline_failed =>
       \A w \in Contexts : worker'[w] = "mux" => worker[w] = "mux"]_vars

-----------------------------------------------------------------------------
(* The abstract specification implemented.                                 *)

Sink ==
  INSTANCE OrderedSink WITH
    accepted <- submitted,
    written <- muxed,
    status <- IF finished THEN "sealed"
              ELSE IF caller = "closed" THEN "abandoned" ELSE "open"

SinkSpec == Sink!Spec

-----------------------------------------------------------------------------
(* Liveness.                                                               *)

\* Every call returns or throws, however the threads are scheduled: no
\* wake-up of space_cv or job_cv is lost, and joining never hangs.
CallsReturn == caller # "ready" ~> caller \in {"ready", "closed"}

\* An accepted frame reaches the file without anybody calling finish(),
\* unless the pipeline failed or is being torn down.
AcceptedIsMuxed ==
  \A n \in 1..MaxFrames :
    Len(submitted) >= n ~> Len(muxed) >= n \/ pipeline_failed \/ abort_workers

\* A caller that is waiting, for room or for the last frame, when a thread
\* fails is woken and told why, and told the first cause: a thread that fails
\* before the caller gets to look does not change it.  (The two waits on
\* space_cv, the catch of worker_main, rethrow_pipeline_error.)
Waiting == {"submit", "submit_sleep", "drain", "drain_sleep"}
FirstErrorReported ==
  \A e \in WorkerErrors \ {NoError} :
    worker_error = e /\ caller \in Waiting ~> error = e

=============================================================================
