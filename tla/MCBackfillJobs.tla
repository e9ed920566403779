--------------------------- MODULE MCBackfillJobs ---------------------------
(* Instances of BackfillJobs for TLC.                                      *)
EXTENDS BackfillJobs

CONSTANTS r1, r2
=============================================================================
