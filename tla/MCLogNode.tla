------------------------------ MODULE MCLogNode ------------------------------
(***************************************************************************)
(* Instances of LogNode: s1 and s2 submit one record, s3 another, s4 an    *)
(* invalid one; l1 looks the first record up; c1 asks for a checkpoint.    *)
(***************************************************************************)
EXTENDS LogNode

CONSTANTS r1, r2, s1, s2, s3, s4, l1, c1, e1

MCRecordOf == [q \in Submits \cup Lookups |->
                 CASE q = s3 -> r2 [] q = s4 -> Nil [] OTHER -> r1]
=============================================================================
