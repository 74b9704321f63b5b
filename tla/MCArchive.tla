------------------------------- MODULE MCArchive -------------------------------
(***************************************************************************)
(* An instance of ArchiveNode: two submissions of one record with          *)
(* different evidence, one of each of two other records, and an invalid    *)
(* one.  With three valid records a torn append leaves two that did not    *)
(* fail themselves.                                                        *)
(***************************************************************************)
EXTENDS ArchiveNode, TLC

CONSTANTS r1, r2, r3, bad, p1, p2, q1, q2, q3, q4, q5

MCRecOf == q1 :> r1 @@ q2 :> r1 @@ q3 :> r2 @@ q4 :> r3 @@ q5 :> bad
MCEvidenceOf == q1 :> {p1} @@ q2 :> {p2} @@ q3 :> {p1} @@ q4 :> {} @@ q5 :> {}
=============================================================================
