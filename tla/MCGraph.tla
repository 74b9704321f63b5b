------------------------------- MODULE MCGraph -------------------------------
(***************************************************************************)
(* An instance of GraphNode: a record that arrives without and with two    *)
(* different log indexes, two other records and an invalid one.            *)
(***************************************************************************)
EXTENDS GraphNode, TLC

CONSTANTS r1, r2, r3, bad, q1, q2, q3, q4, q5, q6

MCRecOf == q1 :> r1 @@ q2 :> r1 @@ q3 :> r1 @@ q4 :> r2 @@ q5 :> r3 @@ q6 :> bad
MCIndexOf == q1 :> NoIndex @@ q2 :> 0 @@ q3 :> 1 @@ q4 :> 2 @@ q5 :> 3 @@ q6 :> NoIndex
=============================================================================
