------------------------------- MODULE MCJournal -------------------------------
(***************************************************************************)
(* An instance of ObservationJournal: a commit and its retry, the commit   *)
(* of the next batch, and one that uses the first operation for another    *)
(* batch.                                                                  *)
(***************************************************************************)
EXTENDS ObservationJournal, TLC

CONSTANTS a, retry, b, c, opA, opB, e1, e2

MCOpOf == a :> opA @@ retry :> opA @@ b :> opB @@ c :> opA
MCFromOf == a :> 0 @@ retry :> 0 @@ b :> 1 @@ c :> 0
MCToOf == a :> 1 @@ retry :> 1 @@ b :> 2 @@ c :> 2
MCEnvOf == a :> e1 @@ retry :> e1 @@ b :> e2 @@ c :> e2
=============================================================================
