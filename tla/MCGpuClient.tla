---------------------------- MODULE MCGpuClient ----------------------------
(***************************************************************************)
(* Two slots and enough operations to come round to the first one again.   *)
(***************************************************************************)
EXTENDS GpuClient

=============================================================================
