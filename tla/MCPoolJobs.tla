----------------------------- MODULE MCPoolJobs -----------------------------
(* Instances of PoolJobs for TLC. *)
EXTENDS PoolJobs
CONSTANTS j1, j2
=============================================================================
