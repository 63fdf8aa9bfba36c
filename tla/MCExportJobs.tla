---------------------------- MODULE MCExportJobs ----------------------------
(* Instances of ExportJobs for TLC. *)
EXTENDS ExportJobs
CONSTANTS j1, j2, d1, d2
=============================================================================
