----------------------------- MODULE MCMusicRun -----------------------------
(* Instances of MusicRun for TLC. *)
EXTENDS MusicRun
=============================================================================
