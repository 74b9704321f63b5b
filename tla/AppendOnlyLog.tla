---------------------------- MODULE AppendOnlyLog ----------------------------
(***************************************************************************)
(* What the transparency log promises: one sequence of records that only   *)
(* grows at its end, and signed tree heads that each commit to a prefix of *)
(* it.  LogNode implements this with a memory tree, an entries file, an    *)
(* asynchronous signer and restarts.                                       *)
(***************************************************************************)
EXTENDS Naturals, Sequences

CONSTANT Records

VARIABLES
  log,   \* every record the log has accepted, in log order
  heads  \* the tree heads it has signed, each named by the sequence it commits to

logVars == <<log, heads>>

Init == log = <<>> /\ heads = {}

\* The log accepts one more record.
Accept == \E r \in Records : log' = Append(log, r) /\ UNCHANGED heads

\* The log signs a head over a prefix it has accepted, now or earlier.
Publish ==
  /\ \E n \in 1..Len(log) : heads' = heads \cup {SubSeq(log, 1, n)}
  /\ UNCHANGED log

Next == Accept \/ Publish

Spec == Init /\ [][Next]_logVars
=============================================================================
