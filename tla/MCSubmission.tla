----------------------------- MODULE MCSubmission -----------------------------
(***************************************************************************)
(* An instance of SubmissionQueue: a high and a normal record, a queue of  *)
(* depth one, and two flush() calls that may overlap.                      *)
(***************************************************************************)
EXTENDS SubmissionQueue

CONSTANTS r1, r2, f1, f2
=============================================================================
