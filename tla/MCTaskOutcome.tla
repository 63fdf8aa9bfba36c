--------------------------- MODULE MCTaskOutcome ---------------------------
(***************************************************************************)
(* Two tasks and room for one watcher, so that the second may be refused.  *)
(***************************************************************************)
EXTENDS TaskOutcome

CONSTANTS t1, t2
=============================================================================
