---------------------------- MODULE VideoEncoder ----------------------------
(***************************************************************************)
(* What IVideoEncoder promises the caller of send, drain and flush: the    *)
(* packets come out in the order of the frames, one each; drain leaves     *)
(* fewer than depth frames inside; flush leaves none.  A call that throws  *)
(* may cost packets, which are then gone, but never their order.  This is  *)
(* the encoder VulkanPipeline assumes.                                     *)
(***************************************************************************)
EXTENDS Integers, Sequences, SequencesExt

CONSTANTS
  Depths,      \* the depths an encoder may be made with
  Frames       \* the numbers of the frames, in the order they are sent

VARIABLES
  depth,       \* frames encoded at once; 0 while there is no encoder
  inside,      \* frames sent whose packets are still to be handed over
  returned,    \* frames whose packets were handed over
  ended,       \* the end of the stream has been signalled
  last         \* the call that returned or threw last

vars == <<depth, inside, returned, ended, last>>

-----------------------------------------------------------------------------

NoEncoder ==
  /\ inside = << >>
  /\ returned = << >>
  /\ ended = FALSE
  /\ last = "none"

Init == depth = 0 /\ NoEncoder

\* An encoder is made, or destroyed with all that is in it.
Open(d)  == depth = 0 /\ depth' = d /\ NoEncoder'
Close    == depth # 0 /\ depth' = 0 /\ NoEncoder'

\* A frame newer than every frame before it is put into the queue.
Newer(f, frames) ==
  /\ \A g \in ToSet(frames \o returned) : g < f
  /\ inside' = Append(frames, f)

\* The oldest n packets are handed over.
HandOver(n) ==
  /\ returned' = returned \o SubSeq(inside, 1, n)
  /\ inside' = SubSeq(inside, n + 1, Len(inside))

Send(f) ==
  /\ ~ended
  /\ Newer(f, inside)
  /\ last' = "send"
  /\ UNCHANGED <<depth, returned, ended>>

\* What the encoder keeps stays below its depth.
Drain ==
  /\ \E n \in 0..Len(inside) : Len(inside) - n < depth /\ HandOver(n)
  /\ last' = "drain"
  /\ UNCHANGED <<depth, ended>>

\* flush signals the end of the stream and goes on until all is out.
End ==
  /\ ~ended
  /\ ended' = TRUE
  /\ UNCHANGED <<depth, inside, returned, last>>

Flush ==
  /\ ended
  /\ HandOver(Len(inside))
  /\ last' = "flush"
  /\ UNCHANGED <<depth, ended>>

\* An exception: one run of frames inside may be lost, and a frame being
\* sent may have been taken all the same.
Throw ==
  /\ \E n \in 0..Len(inside) : \E m \in n..Len(inside) :
       LET kept == SubSeq(inside, 1, n) \o SubSeq(inside, m + 1, Len(inside))
       IN  inside' = kept \/ \E f \in Frames : Newer(f, kept)
  /\ last' = "thrown"
  /\ UNCHANGED <<depth, returned, ended>>

Next ==
  \/ \E d \in Depths : Open(d)
  \/ Close
  \/ \E f \in Frames : Send(f)
  \/ Drain
  \/ End
  \/ Flush
  \/ Throw

Spec == Init /\ [][Next]_vars

=============================================================================
