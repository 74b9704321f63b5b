----------------------------- MODULE WitnessedLog -----------------------------
(***************************************************************************)
(* A witness together with the log it watches: witness-node and log-node   *)
(* as they run side by side.  The log is that of AppendOnlyLog, which      *)
(* LogNode implements when its appends do not fail: it only grows, and a   *)
(* restart of log-node, in memory or on disk, changes nothing of it.       *)
(* Records arrive between any two steps of an update, and a checkpoint is  *)
(* over the log as it was when the request for it was handled.             *)
(*                                                                         *)
(* At some moment the operator may cease to be honest.  From then on it     *)
(* signs any view for anyone, and what happens is what Witness allows.     *)
(***************************************************************************)
EXTENDS Witness

VARIABLES
  log,    \* the entries file of log-node
  asked,  \* what log-node is signing for the witness's request, or Nil
  honest  \* the operator signs nothing but heads of its log

witnessedVars == <<vars, log, asked, honest>>

WitnessedInit == Init /\ log = <<>> /\ asked = Nil /\ honest = TRUE

\* Checkpoints the log has signed or may have signed: those of its earlier sizes.
Heads == {SubSeq(log, 1, n) : n \in 1..Len(log)}

\* What a peer may be shown.
Shown == IF honest THEN Heads ELSE Views

-----------------------------------------------------------------------------
\* Mutant of AppendEntry: log-node came back without its last entry.
AppendEntryAfterLoss(leaf) ==
  /\ honest
  /\ \E kept \in {log} \cup {SubSeq(log, 1, Len(log) - 1)} :
       log' = Append(kept, leaf) /\ log' \in Views
  /\ UNCHANGED <<vars, asked, honest>>

\* log-node accepts a record.  Views bounds the log.
AppendEntry(leaf) ==
  /\ honest
  /\ Append(log, leaf) \in Views
  /\ log' = Append(log, leaf)
  /\ UNCHANGED <<vars, asked, honest>>

\* The operator leaves its log for whatever it likes to sign.
OperatorForks ==
  /\ honest
  /\ honest' = FALSE
  /\ UNCHANGED <<vars, log, asked>>

\* Mutant of RequestCheckpoint: log-node answers with a checkpoint it signed before.
RequestCheckpointCached ==
  /\ job = Idle /\ asked = Nil
  /\ asked' \in Shown
  /\ UNCHANGED <<vars, log, honest>>

\* The request of an update reaches handleCheckpoint, which takes size and root of
\* the tree and awaits the signer.  An empty log answers 404: the fetch fails.
RequestCheckpoint ==
  /\ job = Idle /\ asked = Nil
  /\ asked' \in IF honest THEN {log} \ {<<>>} ELSE Views
  /\ UNCHANGED <<vars, log, honest>>

\* The signed checkpoint arrives at the witness.
CheckpointArrives(now) ==
  /\ asked # Nil
  /\ FetchCheckpoint(asked, now)
  /\ asked' = Nil
  /\ UNCHANGED <<log, honest>>

\* The request is given up, or the witness dies: a late answer is not looked at.
UpdateEnds ==
  /\ FetchFails \/ Crash
  /\ asked' = Nil
  /\ UNCHANGED <<log, honest>>

\* The other steps of an update; the peers watch the same log.
UpdateGoesOn ==
  /\ \/ CheckConsistency \/ Cosign \/ CommitLeaves \/ CommitCosig \/ CommitState \/ CommitFails
     \/ \E obs \in [Peers -> Shown \cup {Nil}] : Gossip(obs)
  /\ UNCHANGED <<log, asked, honest>>

WitnessedNext ==
  \/ \E leaf \in Leaves : AppendEntry(leaf)
  \/ OperatorForks
  \/ RequestCheckpoint
  \/ \E now \in Seconds : CheckpointArrives(now)
  \/ UpdateEnds
  \/ UpdateGoesOn

WitnessedSpec == WitnessedInit /\ [][WitnessedNext]_witnessedVars

-----------------------------------------------------------------------------
(* Properties. *)

\* A log that only appends is never taken for one that rolled back or forked: the
\* checkpoint on its way extends what is committed, and after it was fetched the stored
\* leaves verify against it, whatever the crashes of earlier updates left in the files.
HonestLogAccepted ==
  honest => /\ asked # Nil => IsPrefix(state.view, asked)
            /\ job.stage = "fetched" => VerifiesFromPrior

\* Gossip about an honest log ends in no incident, however far apart the moments are at
\* which the witness and its peers looked at it: every incident shows a fork.
NoFalseIncident == honest => incidents = {}

\* All published cosignatures are over one growing log, also those that an interrupted
\* commit left behind: a witness equivocates only when the operator does.
CosignaturesAgree == honest => \A c, d \in cosigs : Consistent(c.view, d.view)

-----------------------------------------------------------------------------
(* The inductive invariant: as long as the operator is honest, whatever the      *)
(* witness holds is a part of the log, and the committed view is a part of what  *)
(* it is about to look at.                                                       *)

Watches ==
  /\ log \in Seq(Leaves) /\ Heads \subseteq Views
  /\ asked # Nil => job = Idle /\ asked \in Views

Follows ==
  /\ IsPrefix(state.view, log)
  /\ job.stage # "idle" => IsPrefix(job.view, log) /\ IsPrefix(state.view, job.view)
  /\ asked # Nil => asked \in Heads /\ IsPrefix(state.view, asked)
  /\ \A c \in cosigs : IsPrefix(c.view, log)
  /\ incidents = {}

WitnessedInv == Inv /\ Watches /\ (honest => Follows)
=============================================================================
