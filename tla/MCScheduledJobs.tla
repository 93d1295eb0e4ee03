--------------------------- MODULE MCScheduledJobs ---------------------------
(*************************************************************************)
(* ScheduledJobs on small instances.                                     *)
(*************************************************************************)
EXTENDS ScheduledJobs, TLC

WorkerSymmetry == Permutations(Workers)
=============================================================================
