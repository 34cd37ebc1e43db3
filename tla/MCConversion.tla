---------------------------- MODULE MCConversion ----------------------------
(***************************************************************************)
(* Four frames on two workers: frames finish out of order, the pipeline of *)
(* futures fills up, and the last frames find no further frame to submit.  *)
(***************************************************************************)
EXTENDS ConversionProps

CONSTANTS w1, w2

MCWorkers == {w1, w2}
MCTasks == 1..4

\* The last frames of the source, and one more frame than selected.
MCVideos == {<<3, 10, 14, 20>>, <<3, 10, 14, 20, 27>>}

\* Five samples in twelve nanoseconds.
Track(chunks) ==
  [rate |-> 5, chunks |->
     [i \in DOMAIN chunks |-> [timestamp |-> chunks[i][1], samples |-> chunks[i][2]]]]

\* No audio; audio that begins before the video, jitters and has to be cut;
\* that begins late and ends with a chunk of which nothing is left; that is
\* cropped as a whole; that has no timeline, or one that does not fit.
MCAudioTracks ==
  {Track(<< >>), Track(<<<<1, 1>>, <<5, 1>>, <<4, 4>>, <<20, 6>>>>),
   Track(<<<<23, 1>>, <<26, 2>>>>), Track(<<<<27, 1>>>>),
   Track(<<<<-1, 1>>>>), Track(<<<<0, 40>>>>)}

=============================================================================
