-------------------------- MODULE ConversionProps --------------------------
(***************************************************************************)
(* What the conversion loop and its worker pool guarantee.                 *)
(***************************************************************************)
EXTENDS Conversion, Functions

Places ==
  {"prepare", "construct", "loop", "audio", "telemetry", "cancel",
   "request_stop", "join", "left"}

Entries == {"audio", "video"} \X Nat
Failures ==
  {"none", "prepare", "construct", "task", "refused", "audio", "video", "finish"}
    \X Nat

\* Every variable has the type the code gives it.
TypeOK ==
  /\ accepting \in BOOLEAN
  /\ tasks \in Seq(Tasks)
  /\ worker \in [Workers -> {"none", "loop", "sleep", "run", "account", "exited"}]
  /\ running \in [Workers -> {<< >>} \union {<<t>> : t \in Tasks}]
  /\ stop \in [Workers -> BOOLEAN]
  /\ future \in [Tasks -> FutureStates]
  /\ tasks_started \in Nat /\ tasks_completed \in Nat /\ tasks_cancelled \in Nat
  /\ main \in Places
  /\ submitted \in 0..NumFrames
  /\ pending \in Seq(Tasks)
  /\ frames_completed \in 0..NumFrames
  /\ consumed \in 0..NumFrames
  /\ frames \in Videos /\ source \in AudioTracks
  /\ audio \in Seq([timestamp : Nat, samples : Nat])
  /\ origin \in Nat
  /\ audio_index \in 0..Len(audio)
  /\ clock \in [started : BOOLEAN, anchor : Nat, pts : Nat, written : Nat]
  /\ audio_pts \in Seq(Nat)
  /\ opened \in Nat
  /\ idle_decoders \in Seq(1..opened)
  /\ lease \in [Workers -> {"none", "open", "leased", "loaded", "failed"}]
  /\ decoder \in [Workers -> 0..opened]
  /\ file \in Seq(Entries)
  /\ reported \in Seq(Nat)
  /\ error \in Failures

\* The entries of one kind in the file, by number.
Entry(kind) == {file[n][2] : n \in {m \in DOMAIN file : file[m][1] = kind}}

\* Although frames are computed concurrently, the writer is given the frames
\* in source order and the audio chunks in order, none missing, none twice,
\* and each chunk exactly before the first frame that is not earlier than it.
FileIsMerge ==
  /\ Entry("video") = 1..frames_completed
  /\ Entry("audio") = 1..Len(audio_pts)
  /\ \A m, n \in DOMAIN file :
       m < n /\ file[m][1] = file[n][1] => file[m][2] < file[n][2]
  /\ \A i, j \in DOMAIN file :
       file[i][1] = "audio" /\ file[j][1] = "video" =>
         (i < j <=> audio[file[i][2]].timestamp <= Timestamp(file[j][2]))

\* Frames queued, being computed, or computed and waiting to be consumed.
InFlight == {t \in Tasks : future[t] \in {"pending", "ready", "failed"}}

\* README.md:107: max_parallel_frames bounds the frames in flight.  So the
\* queue of the pool, of the same capacity, never makes submit() wait.
InFlightBounded ==
  main \notin {"cancel", "request_stop", "join", "left"} =>
    /\ Cardinality(InFlight) <= ParallelFrames
    /\ main = "loop" /\ KeepSubmitting => accepting /\ HasSpace

\* docs/GPU_BATCH_EB_PERSISTENT_WORKERS.md: the exception of a task reaches
\* the caller through the ordered future: every frame before the one that
\* failed was written, and none after it.
FailureInOrder ==
  error[1] \in {"task", "video"} => frames_completed = error[2] - 1

\* Positions in the file in units of 1/rate of a nanosecond: a PTS, and a
\* time of the source.
AtPts(pts) == pts * NanosPerSecond
AtTime(time) == (time - origin) * source.rate

\* docs/MCRAW_AUDIO_TIMESTAMP_NORMALIZATION_TECHNICAL_DESIGN.md:230: the PTS of
\* the audio have no gap and no overlap; and although anchor, timeline and
\* crop are each rounded, every chunk is within a sample of its place beside
\* the video, and the audio of selected frames ends within a sample of them.
\* (analyze_and_normalize_audio, the crop, AudioPtsClock.)
AudioInSync ==
  \A i \in DOMAIN audio_pts :
    LET end == audio_pts[i] + audio[i].samples
    IN  /\ i < Len(audio_pts) => audio_pts[i + 1] = end
        /\ AtPts(audio_pts[i]) - AtTime(audio[i].timestamp)
              \in (- NanosPerSecond)..NanosPerSecond
        /\ Selected => AtPts(end) <= AtTime(VideoEnd) + NanosPerSecond

\* :117-118 of that document: the writer's check of the timeline is an
\* assertion.  No track that was normalized, cropped or not, makes write_audio
\* refuse a chunk.
AudioAccepted == error[1] # "refused"

\* Leases never share a decoder nor lose one, and there are at most as many
\* decoders as frames may be loaded at once, although a lease that finds none
\* idle opens one without the mutex.  (DecoderLease.)
DecodersExclusive ==
  /\ \A u, v \in Workers : decoder[u] = decoder[v] => u = v \/ decoder[u] = 0
  /\ \A i, j \in DOMAIN idle_decoders : idle_decoders[i] = idle_decoders[j] => i = j
  /\ Range(idle_decoders) \cap Range(decoder) = {}
  /\ 1..opened \subseteq Range(idle_decoders) \cup Range(decoder)
  /\ opened <= ParallelFrames

-----------------------------------------------------------------------------
(* The inductive invariant behind the safety properties.                   *)

\* The scope has not been left by an exception nor torn down.
Going == main \in {"prepare", "construct", "loop", "audio", "telemetry"}

\* Frames whose futures were consumed.
Taken == frames_completed + (IF main = "audio" THEN 1 ELSE 0)

\* The futures pending are those of the next frames, in source order, and
\* only theirs have a result to come or to be fetched.
PendingInOrder ==
  Going =>
    /\ accepting /\ error = NoError
    /\ Taken + Len(pending) = submitted /\ Len(pending) <= ParallelFrames
    /\ \A i \in 1..Len(pending) : pending[i] = Taken + i
    /\ InFlight = (Taken + 1)..submitted
    /\ main = "audio" => consumed = Taken
    /\ main \in {"prepare", "construct"} => submitted = 0
    /\ main = "telemetry" => frames_completed = NumFrames

\* The queue of the pool has the last of them, the workers older ones, each
\* another one.
TasksInOrder ==
  Going =>
    /\ \A i \in 1..Len(tasks) : /\ tasks[i] = submitted - Len(tasks) + i
                                /\ future[tasks[i]] = "pending"
    /\ \A w \in Workers : worker[w] = "run" =>
         /\ future[running[w][1]] = "pending"
         /\ running[w][1] <= submitted - Len(tasks)
    /\ \A v, w \in Workers :
         worker[v] = "run" /\ worker[w] = "run" /\ running[v] = running[w] => v = w

\* Who runs a task has one.
RunningTask == \A w \in Workers : worker[w] = "run" => running[w] # << >>

\* The audio lies on its timeline, begins with the output or later, and ends
\* with the frames selected.
AudioPlaced ==
  /\ main = "prepare" => audio = << >>
  /\ OnTimeline(audio, source.rate)
  /\ Fits(AudioEnd(audio, source.rate))
  /\ audio # << >> => origin <= audio[1].timestamp
  /\ Selected => \A i \in 1..Len(audio) :
       /\ audio[i].timestamp < VideoEnd
       /\ i = Len(audio) => audio[i].samples <=
            NsToSamplesFloor(VideoEnd - audio[i].timestamp, source.rate)

\* The PTS of the chunk after i others.
PtsAfter(i) ==
  NsToSamplesNearest(audio[1].timestamp - origin, source.rate) + Cumulative(audio)[i]

\* The clock has counted the chunks written.
ClockCounts ==
  /\ Len(audio_pts) <= Len(audio)
  /\ Going => audio_index = Len(audio_pts)
  /\ \A i \in 1..Len(audio_pts) : audio_pts[i] = PtsAfter(i - 1)
  /\ clock = IF audio_pts = << >> THEN NoClock
             ELSE [started |-> TRUE, anchor |-> audio[1].timestamp,
                   pts |-> PtsAfter(Len(audio_pts)),
                   written |-> Cumulative(audio)[Len(audio_pts)]]

\* The audio written was due with the next frame at the latest, and what is
\* left of it is later than the frames written.
MergePoint ==
  /\ frames_completed < NumFrames =>
       \A i \in 1..Len(audio_pts) : audio[i].timestamp <= Timestamp(frames_completed + 1)
  /\ frames_completed > 0 /\ Len(audio_pts) < Len(audio) =>
       audio[Len(audio_pts) + 1].timestamp > Timestamp(frames_completed)

IInv ==
  /\ TypeOK
  /\ PendingInOrder
  /\ TasksInOrder
  /\ RunningTask
  /\ AudioPlaced
  /\ ClockCounts
  /\ MergePoint
  /\ FileIsMerge
  /\ FailureInOrder
  /\ AudioAccepted

-----------------------------------------------------------------------------
\* The scope is left, normally or by an exception, with every worker joined:
\* no task is stuck, no future is waited for that nobody will complete.
ConversionEnds == <>(main = "left")

\* tests/test_worker_pool.cpp:36-39: once every future has been consumed the
\* telemetry counts every task as started and as completed.
TelemetryComplete == reported # << >> => reported = <<NumFrames, NumFrames, 0>>

=============================================================================
