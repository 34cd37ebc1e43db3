----------------------------- MODULE Conversion -----------------------------
(***************************************************************************)
(* command_convert from the audio on: the timeline is rebuilt and cropped, *)
(* then the scope that owns the FfmpegWriter, the PersistentWorkerPool and *)
(* the deque of pending futures.  The main thread submits one task per     *)
(* frame, consumes their futures in source order, and interleaves audio    *)
(* and video into the writer; a task loads its frame with a decoder leased *)
(* from the reader.                                                        *)
(*                                                                         *)
(* Of the writer only the audio clock is modelled; otherwise its calls     *)
(* return or throw (CpuEncodePipeline and VulkanPipeline say what happens  *)
(* inside).                                                                *)
(*                                                                         *)
(* Definitions marked Faulty are not part of the specification: each is    *)
(* the definition after it with one plausible mistake.                     *)
(***************************************************************************)
EXTENDS WorkerPool, DecoderPool, AudioTiming

CONSTANTS
  NumFrames,       \* frame_limit
  ParallelFrames,  \* execution.parallel_frames: workers and queue capacity
  Videos,          \* timestamps of the frames, one sequence per source
  AudioTracks      \* the audio, one track per source

ASSUME FramesAssumption ==
  /\ NumFrames \in Nat \ {0}
  /\ ParallelFrames \in 1..NumFrames
  /\ Tasks = 1..NumFrames
  /\ QueueCapacity = ParallelFrames
  /\ IsFiniteSet(Workers) /\ Cardinality(Workers) = ParallelFrames
  /\ Users = Workers
\* parse_index refuses timestamps that do not increase.
ASSUME VideosAssumption ==
  \A v \in Videos :
    /\ v \in Seq(Nat) /\ Len(v) >= NumFrames
    /\ \A i, j \in 1..Len(v) : i < j => v[i] < v[j]
\* A sample is never shorter than a nanosecond.
ASSUME AudioAssumption ==
  \A a \in AudioTracks :
    /\ a.rate \in 1..NanosPerSecond
    /\ a.chunks \in Seq([timestamp : Int, samples : Nat])

NoError == <<"none", 0>>

VARIABLES
  main,            \* where the main thread is
  submitted,       \* i, the frames submitted so far
  pending,         \* the deque of futures, by frame
  frames_completed,
  consumed,        \* the frame consume_front is writing
  frames,          \* timestamps of all frames of this source
  source,          \* the track of this source
  audio,           \* audio_chunks: normalized and cropped
  origin,          \* of the output timeline
  audio_index,     \* audio chunks written
  clock,           \* audio_pts_clock and first_audio_anchor_ns
  audio_pts,       \* the PTS of the chunks written
  file,            \* what the writer was given, in order
  reported,        \* the telemetry snapshot taken after finish()
  error            \* the exception that left the scope

audioVars == <<frames, source, audio, origin, clock, audio_pts>>
mainVars == <<main, submitted, pending, frames_completed, consumed, audioVars,
              audio_index, file, reported, error>>
vars == <<poolVars, decoderVars, mainVars>>

Timestamp(i) == frames[i]

Init ==
  /\ PoolInit
  /\ DecoderInit
  /\ main = "prepare"
  /\ submitted = 0
  /\ pending = << >>
  /\ frames_completed = 0
  /\ consumed = 0
  /\ frames \in Videos
  /\ source \in AudioTracks
  /\ audio = << >>
  /\ origin = 0
  /\ audio_index = 0
  /\ clock = NoClock
  /\ audio_pts = << >>
  /\ file = << >>
  /\ reported = << >>
  /\ error = NoError

-----------------------------------------------------------------------------
(* The main thread.                                                        *)

\* An exception: pending futures go, then the pool, then the writer.
Throw(what, i) ==
  /\ error' = <<what, i>>
  /\ main' = "cancel"
  /\ pending' = << >>

Selected == NumFrames < Len(frames)

\* video_end_ns: the frame after the selected ones, or one more interval.
VideoEnd ==
  LET n == Len(frames)
  IN  IF Selected THEN frames[NumFrames + 1]
      ELSE frames[n] + (IF n > 1 THEN frames[n] - frames[n - 1] ELSE 0)

\* load_audio to the construction of the writer.
Prepare ==
  /\ main = "prepare"
  /\ Normalizable(source)
  /\ audio' = IF Selected THEN Cropped(Normalized(source), VideoEnd, source.rate)
              ELSE Normalized(source)
  /\ Fits(AudioEnd(audio', source.rate))
  /\ origin' = IF audio' # << >> /\ audio'[1].timestamp < Timestamp(1)
               THEN audio'[1].timestamp ELSE Timestamp(1)
  /\ main' = "construct"
  /\ UNCHANGED <<poolVars, submitted, pending, frames_completed,
                 consumed, frames, source, audio_index, clock, audio_pts, file,
                 reported, error>>

\* The audio cannot be read, is missing or has no timeline.
PrepareFails ==
  /\ main = "prepare"
  /\ error' = <<"prepare", 0>>
  /\ main' = "left"
  /\ UNCHANGED <<poolVars, submitted, pending, frames_completed,
                 consumed, audioVars, audio_index, file, reported>>

\* The writer is open; the workers are created.
Construct ==
  /\ main = "construct"
  /\ StartWorkers(Workers)
  /\ main' = "loop"
  /\ UNCHANGED <<submitted, pending, frames_completed, consumed, audioVars,
                 audio_index, file, reported, error>>

\* The writer, or one of the worker threads, cannot be created: no pool, so
\* no cancel(), but the threads created so far are stopped and joined.
ConstructFails ==
  /\ main = "construct"
  /\ \E started \in SUBSET Workers : started # Workers /\ StartWorkers(started)
  /\ error' = <<"construct", 0>>
  /\ main' = "request_stop"
  /\ UNCHANGED <<submitted, pending, frames_completed, consumed, audioVars,
                 audio_index, file, reported>>

\* Faulty: one frame more than the pool was sized for.
KeepSubmittingOneMore == Len(pending) <= ParallelFrames /\ submitted < NumFrames

\* The loop condition and the test after push_back: there is another frame
\* and the pool is not full of pending ones.
KeepSubmitting == Len(pending) < ParallelFrames /\ submitted < NumFrames

\* submit(): the wait on space_available_ is the guard of PushTask.  Whether
\* it ever has to be waited for is what InFlightBounded says.
SubmitFrame ==
  /\ main = "loop"
  /\ KeepSubmitting
  /\ PushTask(submitted + 1)
  /\ submitted' = submitted + 1
  /\ pending' = Append(pending, submitted + 1)
  /\ UNCHANGED <<main, frames_completed, consumed, audioVars, audio_index, file,
                 reported, error>>

\* Faulty: the first future that is ready, in whatever order.
ConsumeAnyReady ==
  /\ main = "loop"
  /\ ~KeepSubmitting
  /\ \E i \in 1..Len(pending) :
       /\ future[pending[i]] = "ready"
       /\ future' = [future EXCEPT ![pending[i]] = "consumed"]
       /\ consumed' = pending[i]
       /\ pending' = SubSeq(pending, 1, i - 1) \o SubSeq(pending, i + 1, Len(pending))
  /\ main' = "audio"
  /\ UNCHANGED <<accepting, tasks, worker, running, stop, poolCounters,
                 submitted, frames_completed, audioVars, audio_index, file,
                 reported, error>>

\* consume_front: pending.front().get() returns a frame ...
Consume ==
  /\ main = "loop"
  /\ ~KeepSubmitting
  /\ pending # << >>
  /\ future[Head(pending)] = "ready"
  /\ future' = [future EXCEPT ![Head(pending)] = "consumed"]
  /\ consumed' = Head(pending)
  /\ pending' = Tail(pending)
  /\ main' = "audio"
  /\ UNCHANGED <<accepting, tasks, worker, running, stop, poolCounters,
                 submitted, frames_completed, audioVars, audio_index, file,
                 reported, error>>

\* ... or rethrows what the task threw.
ConsumeFails ==
  /\ main = "loop"
  /\ ~KeepSubmitting
  /\ pending # << >>
  /\ future[Head(pending)] = "failed"
  /\ Throw("task", Head(pending))
  /\ future' = [future EXCEPT ![Head(pending)] = "consumed"]
  /\ UNCHANGED <<accepting, tasks, worker, running, stop, poolCounters,
                 submitted, frames_completed, consumed, audioVars, audio_index,
                 file, reported>>

\* Faulty: a chunk that begins with the frame comes after it.
AudioDueStrictly ==
  audio_index < Len(audio) /\ audio[audio_index + 1].timestamp < Timestamp(consumed)

\* The next audio chunk is not later than the frame to be written.
AudioDue ==
  audio_index < Len(audio) /\ audio[audio_index + 1].timestamp <= Timestamp(consumed)

\* The clock begins with the first chunk written.
ClockFor(chunk) ==
  IF clock.started THEN clock ELSE NewClock(chunk.timestamp, origin, source.rate)

\* What write_audio demands of a chunk.
Accepts(chunk) ==
  LET c == ClockFor(chunk)
  IN  /\ chunk.samples > 0
      /\ c.anchor >= origin
      /\ chunk.timestamp = c.anchor + SamplesToNs(c.written, source.rate)
      /\ Fits(c.pts + chunk.samples)

\* write_audio writes the chunk, or refuses it, or the encoder or the muxer
\* fails.
WriteAudio ==
  LET chunk == audio[audio_index + 1]
      c == ClockFor(chunk)
  IN  /\ audio_index' = audio_index + 1
      /\ \/ /\ Accepts(chunk)
            /\ clock' = Advanced(c, chunk.samples)
            /\ audio_pts' = Append(audio_pts, c.pts)
            /\ file' = Append(file, <<"audio", audio_index + 1>>)
            /\ UNCHANGED <<main, pending, error>>
         \/ /\ Throw(IF Accepts(chunk) THEN "audio" ELSE "refused", audio_index + 1)
            /\ UNCHANGED <<clock, audio_pts, file>>
      /\ UNCHANGED <<frames, source, audio, origin>>

WriteDueAudio ==
  /\ main = "audio"
  /\ AudioDue
  /\ WriteAudio
  /\ UNCHANGED <<poolVars, submitted, frames_completed, consumed, reported>>

\* write_video and the end of consume_front.
WriteVideo ==
  /\ main = "audio"
  /\ ~AudioDue
  /\ \/ /\ file' = Append(file, <<"video", consumed>>)
        /\ frames_completed' = frames_completed + 1
        /\ main' = "loop"
        /\ UNCHANGED <<pending, error>>
     \/ /\ Throw("video", consumed)
        /\ UNCHANGED <<file, frames_completed>>
  /\ UNCHANGED <<poolVars, submitted, consumed, audioVars, audio_index, reported>>

AllConsumed == main = "loop" /\ submitted = NumFrames /\ pending = << >>

AudioLeft == audio_index < Len(audio)

WriteRemainingAudio ==
  /\ AllConsumed
  /\ AudioLeft
  /\ WriteAudio
  /\ UNCHANGED <<poolVars, submitted, frames_completed, consumed, reported>>

\* writer.finish() returns, or throws.
Finish ==
  /\ AllConsumed
  /\ ~AudioLeft
  /\ \/ /\ main' = "telemetry"
        /\ UNCHANGED <<pending, error>>
     \/ Throw("finish", 0)
  /\ UNCHANGED <<poolVars, submitted, frames_completed, consumed, audioVars,
                 audio_index, file, reported>>

\* workers.telemetry(), the last statement of the scope.
Telemetry ==
  /\ main = "telemetry"
  /\ reported' = <<tasks_started, tasks_completed, tasks_cancelled>>
  /\ main' = "cancel"
  /\ UNCHANGED <<poolVars, submitted, pending, frames_completed, consumed,
                 audioVars, audio_index, file, error>>

\* ~PersistentWorkerPool: cancel(), in its two parts, then the joins.
Cancel ==
  /\ main = "cancel"
  /\ CancelTasks
  /\ main' = "request_stop"
  /\ UNCHANGED <<submitted, pending, frames_completed, consumed, audioVars,
                 audio_index, file, reported, error>>

Stop ==
  /\ main = "request_stop"
  /\ RequestStops
  /\ main' = "join"
  /\ UNCHANGED <<submitted, pending, frames_completed, consumed, audioVars,
                 audio_index, file, reported, error>>

\* Every worker joined: the scope is left and the writer destroyed.
Leave ==
  /\ main = "join"
  /\ Alive = {}
  /\ main' = "left"
  /\ UNCHANGED <<poolVars, submitted, pending, frames_completed, consumed,
                 audioVars, audio_index, file, reported, error>>

-----------------------------------------------------------------------------

Main ==
  /\ \/ Prepare \/ PrepareFails \/ Construct \/ ConstructFails
     \/ SubmitFrame
     \/ Consume \/ ConsumeFails \/ WriteDueAudio \/ WriteVideo
     \/ WriteRemainingAudio \/ Finish \/ Telemetry
     \/ Cancel \/ Stop \/ Leave
  /\ UNCHANGED decoderVars

\* A task loads its frame with a leased decoder and computes it.
LoadFrame(w) ==
  /\ worker[w] = "run"
  /\ Lease(w) \/ OpenDecoder(w) \/ ReturnDecoder(w)
  /\ UNCHANGED poolVars

EndTask(w) ==
  /\ EndLoad(w)
  /\ \/ lease[w] = "loaded" /\ WorkerRuns(w, "ready")
     \/ WorkerRuns(w, "failed")

Worker(w) ==
  /\ \/ PoolWorker(w) /\ UNCHANGED decoderVars
     \/ LoadFrame(w)
     \/ EndTask(w)
  /\ UNCHANGED mainVars

Terminated == main = "left" /\ UNCHANGED vars

Next == Main \/ (\E w \in Workers : Worker(w)) \/ Terminated

Spec == Init /\ [][Next]_vars

\* Every thread is scheduled, tasks end and calls of the writer return.
Fairness == WF_vars(Main) /\ \A w \in Workers : WF_vars(Worker(w))

FairSpec == Spec /\ Fairness

=============================================================================
