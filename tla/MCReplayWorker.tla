--------------------------- MODULE MCReplayWorker ---------------------------
(* Instances of ReplayWorker for TLC. *)
EXTENDS ReplayWorker
=============================================================================
