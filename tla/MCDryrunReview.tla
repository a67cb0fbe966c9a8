--------------------------- MODULE MCDryrunReview ---------------------------
(* Instances of DryrunReview for TLC. *)
EXTENDS DryrunReview
=============================================================================
