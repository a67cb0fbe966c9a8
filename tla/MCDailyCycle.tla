---------------------------- MODULE MCDailyCycle ----------------------------
(* Instances of DailyCycle for TLC. *)
EXTENDS DailyCycle
=============================================================================
