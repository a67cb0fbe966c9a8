------------------------- MODULE MCSchedulerControl -------------------------
(* Instances of SchedulerControl for TLC. *)
EXTENDS SchedulerControl
=============================================================================
