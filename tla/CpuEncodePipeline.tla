------------------------- MODULE CpuEncodePipeline -------------------------
(***************************************************************************)
(* The CPU video path of FfmpegWriter: one caller thread (write_video,     *)
(* finish, the destructor), one encode thread per prores_ks context, a     *)
(* job queue, and a reorder buffer whose in-order prefix is drained into   *)
(* the muxer by whichever thread completed the lowest sequence number.     *)
(*                                                                         *)
(* The caller is command_convert: an exception leaving the writer unwinds  *)
(* the block that owns it, so the destructor runs next.                    *)
(*                                                                         *)
(* A step of a thread is what it does in one critical section of           *)
(* pipe_mutex, or between two of them.  A condition variable is a set of   *)
(* sleeping threads: a thread whose wait predicate is false goes to sleep  *)
(* and only a notification wakes it, after which it evaluates the          *)
(* predicate again.                                                        *)
(*                                                                         *)
(* Definitions marked Faulty are not part of the specification: each is    *)
(* the definition after it with one plausible mistake, which a property    *)
(* of CpuEncodePipelineProps tells from the original.                      *)
(***************************************************************************)
EXTENDS Integers, Sequences

CONSTANTS
  Contexts,        \* the codec contexts, each served by one encode thread
  MaxInFlight,     \* max_jobs_in_flight, the number of contexts plus two
  Pts,             \* the presentation timestamps frames may carry
  MaxFrames        \* bound: write_video accepts at most this many frames

ASSUME MaxInFlightAssumption == MaxInFlight \in Nat \ {0}
ASSUME PtsAssumption == Pts \subseteq Nat
ASSUME MaxFramesAssumption == MaxFrames \in Nat

NoPts == -1        \* AV_NOPTS_VALUE: smaller than every timestamp
NoError == "none"  \* a null std::exception_ptr

VARIABLES
  caller,                 \* where the caller's thread is
  header_written,         \* the MOV header is in the file
  finished,               \* finish() completed the file
  error,                  \* the exception the caller received
  last_video_pts,         \* last timestamp write_video let through
  pending_pts,            \* timestamp of the frame write_video is submitting
  worker,                 \* where each encode thread is
  job,                    \* the job or packet each encode thread holds
  job_queue,              \* frames waiting for a context
  completed,              \* encoded packets waiting for their turn
  next_submit_sequence,
  next_mux_sequence,
  jobs_in_flight,
  pipeline_failed,
  worker_error,
  stop_workers,
  abort_workers,
  previous_video_pts,     \* last timestamp validate_video_packet let through
  submitted,              \* history: timestamps of the frames pushed
  muxed                   \* the video packets in the file, by timestamp

callerVars == <<caller, header_written, finished, error>>
ptsVars    == <<last_video_pts, pending_pts>>
queueVars  == <<job_queue, next_submit_sequence, submitted>>
muxVars    == <<previous_video_pts, muxed>>
failVars   == <<pipeline_failed, worker_error>>
stopVars   == <<stop_workers, abort_workers>>
threadVars == <<worker, job>>
flowVars   == <<queueVars, completed, next_mux_sequence, jobs_in_flight, muxVars>>
controlVars == <<failVars, stopVars>>
vars == <<callerVars, ptsVars, threadVars, flowVars, controlVars>>

-----------------------------------------------------------------------------
(* Helpers.                                                                *)

Job == [sequence : Nat, pts : Nat]
NoJob == [sequence |-> 0, pts |-> 0]

\* Threads that exist (workers.emplace_back done) and have not returned.
Live == {w \in Contexts : worker[w] \notin {"none", "exited"}}

\* cv.notify_all() on job_cv.
WakeAll(pcs) == [w \in Contexts |-> IF pcs[w] = "sleep" THEN "check" ELSE pcs[w]]

\* Faulty: job_cv is not notified.
NotifyNone == UNCHANGED worker

\* job_cv.notify_one().
NotifyOne ==
  \/ \E w \in Contexts :
       /\ worker[w] = "sleep"
       /\ worker' = [worker EXCEPT ![w] = "check"]
  \/ /\ \A w \in Contexts : worker[w] # "sleep"
     /\ UNCHANGED worker

\* Faulty: nobody is notified.
WakeNobody(pc) == pc

\* space_cv.notify_all(): only the caller's thread ever waits on it.
WakeCaller(pc) ==
  CASE pc = "submit_sleep" -> "submit"
    [] pc = "drain_sleep"  -> "drain"
    [] OTHER               -> pc

\* Faulty: the oldest packet at hand, whether or not it is its turn.
ReadyOldest(entries, sequence) ==
  {e \in entries : \A f \in entries : e.sequence <= f.sequence}

\* completed.begin() is the entry the muxer waits for.
Ready(entries, sequence) ==
  {e \in entries : e.sequence = sequence
                   /\ \A f \in entries : e.sequence <= f.sequence}

-----------------------------------------------------------------------------
(* Construction.                                                           *)

Init ==
  /\ caller = "construct"
  /\ header_written = FALSE
  /\ finished = FALSE
  /\ error = NoError
  /\ last_video_pts = NoPts
  /\ pending_pts = NoPts
  /\ worker = [w \in Contexts |-> "none"]
  /\ job = [w \in Contexts |-> NoJob]
  /\ job_queue = << >>
  /\ completed = {}
  /\ next_submit_sequence = 0
  /\ next_mux_sequence = 0
  /\ jobs_in_flight = 0
  /\ pipeline_failed = FALSE
  /\ worker_error = NoError
  /\ stop_workers = FALSE
  /\ abort_workers = FALSE
  /\ previous_video_pts = NoPts
  /\ submitted = << >>
  /\ muxed = << >>

\* An exception leaves the writer (or the block that owns it): unwind.
Throw(e) ==
  /\ error' = e
  /\ caller' = "cleanup"

\* Streams and codecs are created and the header is written.
OpenOutput ==
  /\ caller = "construct"
  /\ header_written' = TRUE
  /\ caller' = "start"
  /\ UNCHANGED <<finished, error, ptsVars, threadVars, flowVars, controlVars>>

OpenOutputFails ==
  /\ caller = "construct"
  /\ Throw("open")
  /\ UNCHANGED <<header_written, finished, ptsVars, threadVars, flowVars,
                 controlVars>>

\* start_workers() creates one thread per context, one after the other.
StartWorker(w) ==
  /\ caller = "start"
  /\ worker[w] = "none"
  /\ worker' = [worker EXCEPT ![w] = "check"]
  /\ caller' = IF \A v \in Contexts \ {w} : worker[v] # "none"
               THEN "ready" ELSE "start"
  /\ UNCHANGED <<header_written, finished, error, ptsVars, job, flowVars,
                 controlVars>>

\* The system refuses another thread; those already created are running.
StartWorkerFails ==
  /\ caller = "start"
  /\ Throw("start")
  /\ UNCHANGED <<header_written, finished, ptsVars, threadVars, flowVars,
                 controlVars>>

-----------------------------------------------------------------------------
(* write_video.                                                            *)

\* Faulty: a timestamp equal to the last one passes.
NotEarlier(pts) == pts >= last_video_pts

\* The timestamp check of write_video.
Later(pts) == pts > last_video_pts

\* Up to the pipe_mutex: the error check and the timestamp check.
WriteVideo(pts) ==
  /\ caller = "ready"
  /\ next_submit_sequence < MaxFrames
  /\ \/ /\ finished
        /\ Throw("finished")
        /\ UNCHANGED ptsVars
     \/ /\ ~finished
        /\ worker_error # NoError
        /\ Throw(worker_error)
        /\ UNCHANGED ptsVars
     \/ /\ ~finished
        /\ worker_error = NoError
        /\ ~Later(pts)
        /\ Throw("pts")
        /\ UNCHANGED ptsVars
     \/ /\ ~finished
        /\ worker_error = NoError
        /\ Later(pts)
        /\ last_video_pts' = pts
        /\ pending_pts' = pts
        /\ caller' = "submit"
        /\ UNCHANGED error
  /\ UNCHANGED <<header_written, finished, threadVars, flowVars, controlVars>>

\* Faulty: the limit is taken for the last index instead of the count.
RoomForOneMore == jobs_in_flight <= MaxInFlight

\* The predicate of the wait, apart from the failure of the pipeline.
Room == jobs_in_flight < MaxInFlight

\* The wait on space_cv, predicate false.
SubmitWait ==
  /\ caller = "submit"
  /\ ~pipeline_failed
  /\ ~Room
  /\ caller' = "submit_sleep"
  /\ UNCHANGED <<header_written, finished, error, ptsVars, threadVars,
                 flowVars, controlVars>>

\* Woken because the pipeline failed: the worker's exception is rethrown.
SubmitFails ==
  /\ caller = "submit"
  /\ pipeline_failed
  /\ worker_error # NoError
  /\ Throw(worker_error)
  /\ UNCHANGED <<header_written, finished, ptsVars, threadVars, flowVars,
                 controlVars>>

\* Room in the pipeline: the job is queued and one sleeping thread woken.
Submit ==
  /\ caller = "submit"
  /\ ~pipeline_failed
  /\ Room
  /\ job_queue' = Append(job_queue, [sequence |-> next_submit_sequence,
                                     pts |-> pending_pts])
  /\ next_submit_sequence' = next_submit_sequence + 1
  /\ jobs_in_flight' = jobs_in_flight + 1
  /\ submitted' = Append(submitted, pending_pts)
  /\ pending_pts' = NoPts
  /\ NotifyOne
  /\ caller' = "ready"
  /\ UNCHANGED <<header_written, finished, error, last_video_pts, job,
                 completed, next_mux_sequence, controlVars, muxVars>>

\* Anything else the caller does with the writer alive may throw: a frame
\* that cannot be decoded, an audio chunk that cannot be written.
CallerThrows ==
  /\ caller = "ready"
  /\ ~finished
  /\ Throw("caller")
  /\ UNCHANGED <<header_written, finished, ptsVars, threadVars, flowVars,
                 controlVars>>

-----------------------------------------------------------------------------
(* finish and stop_worker_threads.                                         *)

Finish ==
  /\ caller = "ready"
  /\ ~finished
  /\ caller' = "drain"
  /\ UNCHANGED <<header_written, finished, error, ptsVars, threadVars,
                 flowVars, controlVars>>

FinishWait ==
  /\ caller = "drain"
  /\ ~pipeline_failed
  /\ jobs_in_flight # 0
  /\ caller' = "drain_sleep"
  /\ UNCHANGED <<header_written, finished, error, ptsVars, threadVars,
                 flowVars, controlVars>>

\* The wait is over: rethrow, or go on to stop_worker_threads(false).
FinishDrained ==
  /\ caller = "drain"
  /\ pipeline_failed \/ jobs_in_flight = 0
  /\ \/ /\ worker_error # NoError
        /\ Throw(worker_error)
     \/ /\ worker_error = NoError
        /\ caller' = "finish_stop"
        /\ UNCHANGED error
  /\ UNCHANGED <<header_written, finished, ptsVars, threadVars, flowVars,
                 controlVars>>

\* stop_worker_threads: the flags under the lock ...
StopFlags ==
  /\ \/ /\ caller = "finish_stop"
        /\ caller' = "finish_notify"
        /\ UNCHANGED abort_workers
     \/ /\ caller = "cleanup"
        /\ caller' = "cleanup_notify"
        /\ abort_workers' = TRUE
  /\ stop_workers' = TRUE
  /\ UNCHANGED <<header_written, finished, error, ptsVars, threadVars,
                 flowVars, failVars>>

\* ... then job_cv.notify_all() with the lock released.
StopNotify ==
  /\ \/ /\ caller = "finish_notify"
        /\ caller' = "finish_join"
     \/ /\ caller = "cleanup_notify"
        /\ caller' = "cleanup_join"
  /\ worker' = WakeAll(worker)
  /\ UNCHANGED <<header_written, finished, error, ptsVars, job, flowVars,
                 controlVars>>

\* Every thread joined: the contexts are flushed and the trailer written.
FinishJoined ==
  /\ caller = "finish_join"
  /\ Live = {}
  /\ \/ /\ worker_error # NoError
        /\ Throw(worker_error)
        /\ UNCHANGED finished
     \/ /\ worker_error = NoError
        /\ Throw("flush")
        /\ UNCHANGED finished
     \/ /\ worker_error = NoError
        /\ finished' = TRUE
        /\ caller' = "ready"
        /\ UNCHANGED error
  /\ UNCHANGED <<header_written, ptsVars, threadVars, flowVars, controlVars>>

-----------------------------------------------------------------------------
(* The destructor.                                                         *)

\* The owning block ends after finish(): ~Impl runs cleanup().
Destroy ==
  /\ caller = "ready"
  /\ finished
  /\ caller' = "cleanup"
  /\ UNCHANGED <<header_written, finished, error, ptsVars, threadVars,
                 flowVars, controlVars>>

\* Threads joined: queued frames, waiting packets, contexts and file go.
CleanupJoined ==
  /\ caller = "cleanup_join"
  /\ Live = {}
  /\ job_queue' = << >>
  /\ completed' = {}
  /\ caller' = "closed"
  /\ UNCHANGED <<header_written, finished, error, ptsVars, threadVars,
                 next_submit_sequence, submitted, next_mux_sequence,
                 jobs_in_flight, controlVars, muxVars>>

-----------------------------------------------------------------------------
(* worker_main, encode_job and complete_job.                               *)

Goto(w, pc) == worker' = [worker EXCEPT ![w] = pc]

\* The wait on job_cv, predicate false.
WorkerWait(w) ==
  /\ worker[w] = "check"
  /\ ~abort_workers /\ ~stop_workers /\ job_queue = << >>
  /\ Goto(w, "sleep")
  /\ UNCHANGED <<callerVars, ptsVars, job, flowVars, controlVars>>

WorkerReturns(w) ==
  /\ worker[w] = "check"
  /\ abort_workers \/ (stop_workers /\ job_queue = << >>)
  /\ Goto(w, "exited")
  /\ UNCHANGED <<callerVars, ptsVars, job, flowVars, controlVars>>

TakeJob(w) ==
  /\ worker[w] = "check"
  /\ ~abort_workers
  /\ job_queue # << >>
  /\ job' = [job EXCEPT ![w] = Head(job_queue)]
  /\ job_queue' = Tail(job_queue)
  /\ Goto(w, "encode")
  /\ UNCHANGED <<callerVars, ptsVars, next_submit_sequence, submitted,
                 completed, next_mux_sequence, jobs_in_flight, controlVars,
                 muxVars>>

\* avcodec_send_frame and avcodec_receive_packet: the context is intra-only
\* and slice-threaded, so the frame's one packet comes out at once ...
Encode(w) ==
  /\ worker[w] = "encode"
  /\ Goto(w, "complete")
  /\ UNCHANGED <<callerVars, ptsVars, job, flowVars, controlVars>>

\* Faulty: the exception is forgotten.
Forgotten(e) == worker_error

\* Faulty: the last exception wins.
Overwritten(e) == e

\* The first exception is kept.
Recorded(e) == IF worker_error = NoError THEN e ELSE worker_error

\* The catch of worker_main: record the first error, wake everyone, return.
WorkerFails(w, e) ==
  /\ worker_error' = Recorded(e)
  /\ pipeline_failed' = TRUE
  /\ worker' = [WakeAll(worker) EXCEPT ![w] = "exited"]
  /\ caller' = WakeCaller(caller)

\* ... or the encoder reports an error, or buffers the frame.
EncodeFails(w) ==
  /\ worker[w] = "encode"
  /\ WorkerFails(w, "encode")
  /\ UNCHANGED <<header_written, finished, error, ptsVars, job, flowVars,
                 stopVars>>

\* Faulty: the loop drains on although another thread has failed.
DrainLoopRegardless(w, entries, sequence) ==
  \/ /\ \E e \in Ready(entries, sequence) :
          /\ completed' = entries \ {e}
          /\ job' = [job EXCEPT ![w] = e]
     /\ Goto(w, "mux")
  \/ /\ Ready(entries, sequence) = {}
     /\ completed' = entries
     /\ job' = [job EXCEPT ![w] = NoJob]
     /\ Goto(w, "check")

\* The test of the drain loop of complete_job, with `entries' the reorder
\* buffer and `sequence' the next one to mux: take that entry, or return.
DrainLoop(w, entries, sequence) ==
  \/ /\ ~pipeline_failed
     /\ \E e \in Ready(entries, sequence) :
          /\ completed' = entries \ {e}
          /\ job' = [job EXCEPT ![w] = e]
     /\ Goto(w, "mux")
  \/ /\ pipeline_failed \/ Ready(entries, sequence) = {}
     /\ completed' = entries
     /\ job' = [job EXCEPT ![w] = NoJob]
     /\ Goto(w, "check")

CompleteJob(w) ==
  /\ worker[w] = "complete"
  /\ DrainLoop(w, completed \union {job[w]}, next_mux_sequence)
  /\ UNCHANGED <<callerVars, ptsVars, queueVars, next_mux_sequence,
                 jobs_in_flight, controlVars, muxVars>>

\* validate_video_packet and av_interleaved_write_frame under mux_mutex,
\* with pipe_mutex released.
MuxPacket(w) ==
  /\ worker[w] = "mux"
  /\ job[w].pts > previous_video_pts
  /\ previous_video_pts' = job[w].pts
  /\ muxed' = Append(muxed, job[w].pts)
  /\ Goto(w, "relock")
  /\ UNCHANGED <<callerVars, ptsVars, job, queueVars, completed,
                 next_mux_sequence, jobs_in_flight, controlVars>>

\* The muxer refuses the packet (validated already), or validation does.
MuxFails(w) ==
  /\ worker[w] = "mux"
  /\ \/ /\ job[w].pts > previous_video_pts
        /\ previous_video_pts' = job[w].pts
        /\ WorkerFails(w, "write")
     \/ /\ job[w].pts <= previous_video_pts
        /\ WorkerFails(w, "packet_pts")
        /\ UNCHANGED previous_video_pts
  /\ UNCHANGED <<header_written, finished, error, ptsVars, job, queueVars,
                 completed, next_mux_sequence, jobs_in_flight, stopVars,
                 muxed>>

\* pipe_mutex again: account for the packet and go round the drain loop.
Advance(w) ==
  /\ worker[w] = "relock"
  /\ next_mux_sequence' = next_mux_sequence + 1
  /\ jobs_in_flight' = jobs_in_flight - 1
  /\ caller' = WakeCaller(caller)
  /\ DrainLoop(w, completed, next_mux_sequence')
  /\ UNCHANGED <<header_written, finished, error, ptsVars, queueVars,
                 controlVars, muxVars>>

-----------------------------------------------------------------------------

Worker(w) ==
  \/ WorkerWait(w) \/ WorkerReturns(w) \/ TakeJob(w)
  \/ Encode(w) \/ EncodeFails(w)
  \/ CompleteJob(w) \/ MuxPacket(w) \/ MuxFails(w) \/ Advance(w)

Construct ==
  \/ OpenOutput \/ OpenOutputFails
  \/ \E w \in Contexts : StartWorker(w)
  \/ StartWorkerFails

\* Inside a call: the caller goes on as soon as the code lets it.
CallerContinues ==
  \/ Construct
  \/ SubmitWait \/ SubmitFails \/ Submit
  \/ FinishWait \/ FinishDrained
  \/ StopFlags \/ StopNotify \/ FinishJoined \/ CleanupJoined

\* Between two calls: what the caller asks next.
CallerCalls ==
  \/ \E pts \in Pts : WriteVideo(pts)
  \/ CallerThrows \/ Finish \/ Destroy

\* The writer is gone; nothing more happens.
Terminated ==
  /\ caller = "closed"
  /\ UNCHANGED vars

Next ==
  \/ CallerContinues
  \/ CallerCalls
  \/ \E w \in Contexts : Worker(w)
  \/ Terminated

Spec == Init /\ [][Next]_vars

\* The operating system schedules every runnable thread, codec and muxer
\* calls return, and pipe_mutex is eventually granted.
Fairness ==
  /\ WF_vars(CallerContinues)
  /\ \A w \in Contexts : WF_vars(Worker(w))

FairSpec == Spec /\ Fairness

=============================================================================
