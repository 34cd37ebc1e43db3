---------------------------- MODULE AudioTiming ----------------------------
(***************************************************************************)
(* audio_timing.cpp and its callers: positions in samples and in           *)
(* nanoseconds, the timeline rebuilt from the sample count, the crop to    *)
(* the selected frames, and the PTS clock of the writer.                   *)
(*                                                                         *)
(* A chunk is [timestamp, samples], a track [rate, chunks]; the PCM data   *)
(* and the channels are left out.  The code checks every sum and product   *)
(* that may leave 64 bits, and throws; here the value is computed and Fits *)
(* is asked of it.  All terms are non-negative, so a partial result leaves *)
(* the range only if the whole does.                                       *)
(*                                                                         *)
(* Definitions marked Faulty are not part of the specification: each is    *)
(* the definition after it with one plausible mistake.                     *)
(***************************************************************************)
EXTENDS Integers, Sequences, FiniteSets

CONSTANTS
  NanosPerSecond,   \* nanoseconds_per_second
  MaxInt            \* the largest std::int64_t

ASSUME NanosAssumption == NanosPerSecond \in Nat \ {0}
ASSUME MaxIntAssumption == MaxInt \in Nat

Fits(n) == n <= MaxInt

-----------------------------------------------------------------------------
(* Conversions, to the nearest unit or down.                               *)

SamplesToNs(samples, rate) ==
  (samples \div rate) * NanosPerSecond
    + ((samples % rate) * NanosPerSecond + rate \div 2) \div rate

NsToSamplesNearest(ns, rate) ==
  (ns \div NanosPerSecond) * rate
    + ((ns % NanosPerSecond) * rate + NanosPerSecond \div 2) \div NanosPerSecond

NsToSamplesFloor(ns, rate) ==
  (ns \div NanosPerSecond) * rate
    + ((ns % NanosPerSecond) * rate) \div NanosPerSecond

-----------------------------------------------------------------------------
(* analyze_and_normalize_audio.                                            *)

\* cumulative_samples after the first i chunks.
Cumulative(chunks) ==
  LET sum[i \in 0..Len(chunks)] ==
        IF i = 0 THEN 0 ELSE sum[i - 1] + chunks[i].samples
  IN  sum

\* Faulty: the length of each chunk is rounded by itself.
NormalizedStepwise(track) ==
  LET start[i \in 1..Len(track.chunks)] ==
        IF i = 1 THEN track.chunks[1].timestamp
        ELSE start[i - 1] + SamplesToNs(track.chunks[i - 1].samples, track.rate)
  IN  [i \in 1..Len(track.chunks) |->
         [track.chunks[i] EXCEPT !.timestamp = start[i]]]

\* Chunk i begins where the samples before it, counted from the first
\* source timestamp, end.
Normalized(track) ==
  LET before == Cumulative(track.chunks)
  IN  [i \in 1..Len(track.chunks) |->
         [track.chunks[i] EXCEPT !.timestamp =
            track.chunks[1].timestamp + SamplesToNs(before[i - 1], track.rate)]]

\* What a normalized track is: chunks that follow one another, each where the
\* samples before it, counted from the first, end.
OnTimeline(chunks, rate) ==
  \A i \in 1..Len(chunks) :
    /\ chunks[i].samples > 0
    /\ chunks[i].timestamp = chunks[1].timestamp
                               + SamplesToNs(Cumulative(chunks)[i - 1], rate)

\* The median length, that of the nominal chunk interval.
Median(chunks) ==
  CHOOSE m \in {chunks[i].samples : i \in DOMAIN chunks} :
    /\ Cardinality({i \in DOMAIN chunks : chunks[i].samples < m}) <= Len(chunks) \div 2
    /\ Cardinality({i \in DOMAIN chunks : chunks[i].samples <= m}) > Len(chunks) \div 2

\* The analysis does not throw.
Normalizable(track) ==
  LET chunks == track.chunks
  IN  chunks # << >> =>
        /\ \A i \in DOMAIN chunks : chunks[i].timestamp >= 0 /\ chunks[i].samples > 0
        /\ \A i \in DOMAIN chunks : Fits(Normalized(track)[i].timestamp)
        /\ Fits(Cumulative(chunks)[Len(chunks)])
        /\ Fits(SamplesToNs(Median(chunks), track.rate))

-----------------------------------------------------------------------------
(* The crop of command_convert, and audio_end_timestamp_ns.                *)

\* remove_if: what is left are the chunks that begin before the end.
Earlier(chunks, end) ==
  LET kept[i \in 0..Len(chunks)] ==
        IF i = 0 THEN << >>
        ELSE IF chunks[i].timestamp < end THEN Append(kept[i - 1], chunks[i])
             ELSE kept[i - 1]
  IN  kept[Len(chunks)]

\* The last chunk cut to what fits before the end; a chunk of which nothing
\* is left goes.
Trimmed(chunks, end, rate) ==
  LET n == Len(chunks)
      available == NsToSamplesFloor(end - chunks[n].timestamp, rate)
  IN  IF available = 0 THEN SubSeq(chunks, 1, n - 1)
      ELSE IF available < chunks[n].samples
           THEN [chunks EXCEPT ![n].samples = available]
           ELSE chunks

\* Faulty: whole chunks only.
CroppedWhole(chunks, end, rate) == Earlier(chunks, end)

Cropped(chunks, end, rate) ==
  LET kept == Earlier(chunks, end)
  IN  IF kept = << >> THEN << >> ELSE Trimmed(kept, end, rate)

AudioEnd(chunks, rate) ==
  IF chunks = << >> THEN 0
  ELSE LET last == chunks[Len(chunks)]
       IN  last.timestamp + SamplesToNs(last.samples, rate)

-----------------------------------------------------------------------------
(* AudioPtsClock, with the anchor the writer keeps beside it.              *)

NoClock == [started |-> FALSE, anchor |-> 0, pts |-> 0, written |-> 0]

NewClock(anchor, origin, rate) ==
  [started |-> TRUE, anchor |-> anchor,
   pts |-> NsToSamplesNearest(anchor - origin, rate), written |-> 0]

Advanced(clock, samples) ==
  [started |-> clock.started, anchor |-> clock.anchor,
   pts |-> clock.pts + samples, written |-> clock.written + samples]

=============================================================================
