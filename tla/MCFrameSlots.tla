---------------------------- MODULE MCFrameSlots ----------------------------
(***************************************************************************)
(* Two slots, what create_video asks for when async_depth exceeds one, and *)
(* enough frames to go round the ring twice.                               *)
(***************************************************************************)
EXTENDS FrameSlots

=============================================================================
