----------------------------- MODULE MCStartup -----------------------------
(***************************************************************************)
(* Every backend, fallback and mode with depths at and beyond the limits,  *)
(* and machines from one core and unknown memory to more than a            *)
(* conversion can use.                                                     *)
(***************************************************************************)
EXTENDS Startup

Base == [backend |-> "auto", fallback |-> "prores_ks", demosaic |-> "rcd",
         gpu_performance_mode |-> "precise", async_depth |-> 1,
         cpu_threads |-> 0, max_parallel_frames |-> 0]

MCConfigs ==
  {[Base EXCEPT !.backend = b, !.fallback = f, !.demosaic = d] :
     b \in {"auto", "cpu", "vulkan"}, f \in {"prores_ks", "none"},
     d \in {"rcd", "other"}}
  \cup {[Base EXCEPT !.async_depth = n] : n \in {0, 2, 61, 62, 64, 65}}
  \cup {[Base EXCEPT !.backend = "cpu", !.cpu_threads = t,
                     !.max_parallel_frames = p] :
          t \in {1, 7, 256, 257}, p \in {0, 3, 64, 65}}
  \cup {[Base EXCEPT !.backend = b, !.gpu_performance_mode = "fast"] :
          b \in {"cpu", "vulkan"}}

MCMachines ==
  {[cores |-> 0, memory |-> 0, frames |-> 1],
   [cores |-> 5, memory |-> 0, frames |-> 9],
   [cores |-> 16, memory |-> 4000, frames |-> 9]}

=============================================================================
