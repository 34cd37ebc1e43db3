------------------------ MODULE MCCpuEncodePipeline ------------------------
(***************************************************************************)
(* Two contexts.  max_jobs_in_flight is two more than the contexts and one *)
(* frame more than that can be submitted, so write_video has to wait.      *)
(***************************************************************************)
EXTENDS CpuEncodePipelineProps

CONSTANTS c1, c2

MCContexts == {c1, c2}
MCPts == 0..4

=============================================================================
