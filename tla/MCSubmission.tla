---------------------------- MODULE MCSubmission -----------------------------
(*************************************************************************)
(* Submission on small instances.                                        *)
(*************************************************************************)
EXTENDS Submission, TLC

\* One plan of all orders.
OnePlan == {Orders}

CallerSymmetry == Permutations(Callers)
=============================================================================
