---------------------------- MODULE OrderedSink ----------------------------
(***************************************************************************)
(* What FfmpegWriter promises its caller about the video track, whatever   *)
(* backend encodes it.  The caller hands frames over in timestamp order;   *)
(* the file receives exactly those frames, one packet each, in the order   *)
(* they were handed over; and the file is sealed (finish() returned        *)
(* normally) only when every frame handed over is in it.  A writer that    *)
(* fails abandons the file: what it wrote is still a prefix.               *)
(*                                                                         *)
(* A frame is represented by its presentation timestamp, the only thing    *)
(* about it that the writer inspects.                                      *)
(***************************************************************************)
EXTENDS Integers, Sequences

CONSTANTS Pts           \* the presentation timestamps a frame may carry

VARIABLES
  accepted,             \* timestamps of the frames handed over so far
  written,              \* timestamps of the packets in the file
  status                \* "open", "sealed" or "abandoned"

vars == <<accepted, written, status>>

-----------------------------------------------------------------------------

Init ==
  /\ accepted = << >>
  /\ written = << >>
  /\ status = "open"

\* The caller hands over a frame later than every frame before it.
Accept(p) ==
  /\ status = "open"
  /\ \A i \in 1..Len(accepted) : accepted[i] < p
  /\ accepted' = Append(accepted, p)
  /\ UNCHANGED <<written, status>>

\* The oldest frame not yet in the file is written.
Write ==
  /\ status = "open"
  /\ Len(written) < Len(accepted)
  /\ written' = Append(written, accepted[Len(written) + 1])
  /\ UNCHANGED <<accepted, status>>

\* The file is completed: nothing handed over is missing from it.
Seal ==
  /\ status = "open"
  /\ written = accepted
  /\ status' = "sealed"
  /\ UNCHANGED <<accepted, written>>

\* The writer gives up, or is destroyed before it was finished.
Abandon ==
  /\ status = "open"
  /\ status' = "abandoned"
  /\ UNCHANGED <<accepted, written>>

Next ==
  \/ \E p \in Pts : Accept(p)
  \/ Write
  \/ Seal
  \/ Abandon

Spec == Init /\ [][Next]_vars

=============================================================================
