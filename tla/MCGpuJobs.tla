------------------------------ MODULE MCGpuJobs ------------------------------
(* Instances of GpuJobs for TLC. *)
EXTENDS GpuJobs
=============================================================================
