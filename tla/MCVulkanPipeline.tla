-------------------------- MODULE MCVulkanPipeline --------------------------
(***************************************************************************)
(* Instances of the Vulkan pipeline.  The capacities are smaller than      *)
(* those create_video computes, so that every queue fills up.              *)
(***************************************************************************)
EXTENDS VulkanPipelineProps

\* A clip in order, and two whose timestamps repeat or go back once rounded
\* to the time base of the stream.
MCClips == {<<0, 1, 2, 3, 4, 5>>, <<0, 1, 1>>, <<0, 2, 1>>}

MCShortClips == {<<0, 1, 2>>, <<0, 0>>}

=============================================================================
