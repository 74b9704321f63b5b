------------------------------ MODULE MCWitness ------------------------------
(***************************************************************************)
(* An instance of WitnessedLog: logs of up to two entries, and an operator *)
(* that may fork at the first and at the second of them.                   *)
(***************************************************************************)
EXTENDS WitnessedLog

CONSTANTS a, b, p1

MCViews == {<<a>>, <<b>>, <<a, a>>, <<a, b>>}
=============================================================================
