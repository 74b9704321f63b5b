------------------------------- MODULE Witness -------------------------------
(***************************************************************************)
(* A checkpoint witness: services/witness-node/src/witness.ts, store.ts    *)
(* and server.ts, with the gossip analysis of packages/verify.  One update *)
(* runs at a time.  It fetches a checkpoint the log operator signed, checks *)
(* that the leaves it stored are a prefix of it, compares it with what the *)
(* gossip peers see, cosigns it and commits leaves, cosignature and state  *)
(* to three files, one after the other.                                    *)
(*                                                                         *)
(* The operator is not trusted: any view may be offered at any time.  A    *)
(* view is the sequence of leaf hashes a root commits to; tile bytes pass  *)
(* the root check only when they are that sequence, so a fetch of tiles    *)
(* either yields the view's leaves or ends the update with an error.       *)
(***************************************************************************)
EXTENDS Integers, Sequences, FiniteSets, SequencesExt

CONSTANTS
  Leaves,
  Views,      \* checkpoints the operator may sign
  Peers,      \* gossipSources
  Seconds,    \* nowSeconds readings
  Nil,        \* no peer checkpoint that verifies
  MaxInterrupts  \* bound: crashes and failing writes

ASSUME WitnessAssumption ==
  /\ Views \subseteq Seq(Leaves)
  /\ <<>> \notin Views
  /\ Nil \notin Views
  /\ MaxInterrupts \in Nat

VARIABLES
  state,      \* state file: the committed view and cosignature, or NoState
  leaves,     \* the append-only leaf history file
  cosigs,     \* cosignature files, served at /v1/cosig as soon as they exist
  incidents,  \* incident files, each a pair of conflicting views
  health,     \* health file: outcome of the last check
  job,        \* the update under way: stage, view, reading and cosignature
  interrupts,
  refused,    \* history: commit refused to replace a cosignature
  orphans     \* history: views whose cosignature was left without a state

vars == <<state, leaves, cosigs, incidents, health, job, interrupts, refused, orphans>>

Cosig == [view : Views, at : Seconds]

\* The empty view stands for "nothing witnessed yet": no operator signs it.
NoState == [view |-> <<>>, cosig |-> Nil]
Idle == [stage |-> "idle", view |-> <<>>, at |-> Nil, cosig |-> Nil]

Stages == {"idle", "fetched", "consistent", "cleared", "signed", "leaves", "cosig"}

TypeOK ==
  /\ state = NoState \/ state \in [view : Views, cosig : Cosig]
  /\ leaves \in Seq(Leaves)
  /\ cosigs \subseteq Cosig
  /\ incidents \subseteq SUBSET Views
  /\ health \in {"none", "ok", "error"}
  /\ \/ job = Idle
     \/ /\ job.stage \in Stages \ {"idle"}
        /\ job \in [stage : Stages, view : Views, at : Seconds, cosig : Cosig \cup {Nil}]
        /\ job.stage \in {"signed", "leaves", "cosig"} =>
             job.cosig \in Cosig /\ job.cosig.view = job.view
  /\ interrupts \in Nat
  /\ refused \in BOOLEAN
  /\ orphans \subseteq Views

Init ==
  /\ state = NoState /\ leaves = <<>> /\ cosigs = {} /\ incidents = {}
  /\ health = "none" /\ job = Idle /\ interrupts = 0
  /\ refused = FALSE /\ orphans = {}

-----------------------------------------------------------------------------
\* Mutant of Consistent: the shared prefix is taken at the size of the first view.
ConsistentAtFirst(u, v) == IsPrefix(u, v)

\* Two observations agree on the leaves up to the smaller size.
Consistent(u, v) == IsPrefix(u, v) \/ IsPrefix(v, u)

\* The update ends; recordCheck writes the outcome.
Finish(outcome) == job' = Idle /\ health' = outcome

Stage(s) == job' = [job EXCEPT !.stage = s] /\ UNCHANGED health

Unchanged == job.view = state.view

CosigsOf(v) == {c \in cosigs : c.view = v}

\* loadLeafHashes: the committed part of the leaf history.
PriorHashes == SubSeq(leaves, 1, Len(state.view))

\* Mutant of VerifiesFromPrior: only the new root is recomputed, from new tiles.
VerifiesFromPriorRootOnly == Len(PriorHashes) <= Len(job.view)

\* The stored leaves followed by the fetched ones hash to the new root, and
\* their first part to the old one.
VerifiesFromPrior == IsPrefix(PriorHashes, job.view) /\ IsPrefix(state.view, job.view)

-----------------------------------------------------------------------------
(* witnessOnce. *)

\* The checkpoint is fetched, its operator signature verified and the prior
\* state loaded: rollback and same-size split views end the update, a checkpoint
\* already witnessed ends it successfully when there are no gossip sources.
FetchCheckpoint(v, now) ==
  /\ job = Idle
  /\ IF \/ Len(v) < Len(state.view)
        \/ Len(v) = Len(state.view) /\ v # state.view
       THEN Finish("error")
       ELSE IF v = state.view /\ Peers = {}
              THEN Finish("ok")
              ELSE /\ job' = [stage |-> "fetched", view |-> v, at |-> now, cosig |-> Nil]
                   /\ UNCHANGED health
  /\ UNCHANGED <<state, leaves, cosigs, incidents, interrupts, refused, orphans>>

\* Any await of an update may reject: the log or a peer is unreachable, times
\* out, or serves tiles that do not hash to the checkpoint.
FetchFails ==
  /\ job.stage \in {"idle", "fetched", "consistent"}
  /\ Finish("error")
  /\ UNCHANGED <<state, leaves, cosigs, incidents, interrupts, refused, orphans>>

\* fetchLeafHashRange, the overlap check, verifyCheckpointConsistencyFromLeafHashes.
CheckConsistency ==
  /\ job.stage = "fetched"
  /\ IF VerifiesFromPrior THEN Stage("consistent") ELSE Finish("error")
  /\ UNCHANGED <<state, leaves, cosigs, incidents, interrupts, refused, orphans>>

\* The observations that verify: the witness's own and those of the peers.
Verified(obs) == {job.view} \cup ({obs[p] : p \in Peers} \ {Nil})

\* Split views: pairs with different roots at one size or a different shared prefix.
SplitViews(seen) ==
  {pair \in SUBSET seen : \E u, v \in seen : pair = {u, v} /\ ~Consistent(u, v)}

\* analyzeCheckpointGossip over the primary and the peers' observations: every
\* conflicting pair becomes an incident; a peer whose checkpoint or leaves do
\* not verify makes the result invalid.  Both end the update.
Gossip(obs) ==
  LET conflicts == SplitViews(Verified(obs)) IN
  /\ job.stage = "consistent"
  /\ incidents' = incidents \cup conflicts
  /\ IF conflicts # {} \/ \E p \in Peers : obs[p] = Nil
       THEN Finish("error")
       ELSE IF Unchanged THEN Finish("ok") ELSE Stage("cleared")
  /\ UNCHANGED <<state, leaves, cosigs, interrupts, refused, orphans>>

\* Mutant of Cosign: a cosignature left by an interrupted commit is not reused.
CosignAnew ==
  /\ job.stage = "cleared"
  /\ job' = [job EXCEPT !.stage = "signed",
                        !.cosig = [view |-> job.view, at |-> job.at]]
  /\ UNCHANGED <<state, leaves, cosigs, incidents, health, interrupts, refused, orphans>>

\* An existing cosignature for the root is reused, else one is made now.
Cosign ==
  /\ job.stage = "cleared"
  /\ \E c \in IF CosigsOf(job.view) # {} THEN CosigsOf(job.view)
              ELSE {[view |-> job.view, at |-> job.at]} :
       job' = [job EXCEPT !.stage = "signed", !.cosig = c]
  /\ UNCHANGED <<state, leaves, cosigs, incidents, health, interrupts, refused, orphans>>

-----------------------------------------------------------------------------
(* WitnessStore.commit: three durable writes; a crash may fall between them. *)

\* writeLeafHashesDurably: truncate to the committed count, write the rest.
CommitLeaves ==
  /\ job.stage = "signed"
  /\ leaves' = PriorHashes \o SubSeq(job.view, Len(state.view) + 1, Len(job.view))
  /\ Stage("leaves")
  /\ UNCHANGED <<state, cosigs, incidents, interrupts, refused, orphans>>

\* Mutant of CommitCosig: a failed write of the cosignature goes unnoticed.
CommitCosigUnwritten ==
  /\ job.stage = "leaves"
  /\ Stage("cosig")
  /\ UNCHANGED <<state, leaves, cosigs, incidents, interrupts, refused, orphans>>

\* The cosignature file is immutable: an equal one is kept, another is refused.
CommitCosig ==
  /\ job.stage = "leaves"
  /\ IF CosigsOf(job.view) \subseteq {job.cosig}
       THEN /\ cosigs' = cosigs \cup {job.cosig}
            /\ Stage("cosig")
            /\ UNCHANGED refused
       ELSE /\ refused' = TRUE
            /\ Finish("error")
            /\ UNCHANGED cosigs
  /\ UNCHANGED <<state, leaves, incidents, interrupts, orphans>>

CommitState ==
  /\ job.stage = "cosig"
  /\ state' = [view |-> job.view, cosig |-> job.cosig]
  /\ Finish("ok")
  /\ UNCHANGED <<leaves, cosigs, incidents, interrupts, refused, orphans>>

\* Mutant of TornLeaves: the history is rewritten from its start.
TornLeavesRewritten ==
  {SubSeq(job.view, 1, n) : n \in 0..Len(job.view)}

\* What a crash inside writeLeafHashesDurably leaves: the committed part and any
\* number of the new leaves.
TornLeaves ==
  {PriorHashes \o SubSeq(job.view, Len(state.view) + 1, n) :
     n \in Len(state.view)..Len(job.view)}

\* An update is cut off: of a commit, the writes already made stay.
CutOff ==
  /\ interrupts < MaxInterrupts
  /\ interrupts' = interrupts + 1
  /\ leaves' \in {leaves} \cup (IF job.stage = "signed" THEN TornLeaves ELSE {})
  /\ orphans' = IF job.stage = "cosig" THEN orphans \cup {job.view} ELSE orphans
  /\ job' = Idle
  /\ UNCHANGED <<state, cosigs, incidents, refused>>

\* The process dies and restarts.
Crash == CutOff /\ UNCHANGED health

\* A write of the commit throws; the check is recorded as failed.
CommitFails ==
  /\ job.stage \in {"signed", "leaves", "cosig"}
  /\ CutOff
  /\ health' = "error"

Next ==
  \/ \E v \in Views, now \in Seconds : FetchCheckpoint(v, now)
  \/ \E obs \in [Peers -> Views \cup {Nil}] : Gossip(obs)
  \/ FetchFails \/ CheckConsistency \/ Cosign
  \/ CommitLeaves \/ CommitCosig \/ CommitState
  \/ Crash \/ CommitFails

Spec == Init /\ [][Next]_vars

-----------------------------------------------------------------------------
(* Properties. *)

\* services/witness-node README: "If a crash leaves an uncommitted binary tail, the
\* next update truncates back to the last committed tree size".  At every moment
\* the leaf history starts with the leaves of the committed state, so a restart
\* never loses the view it has to check the next checkpoint against.
LeavesCoverState == IsPrefix(state.view, leaves)

\* The committed view only grows: rollback and split-view checks hold across any
\* sequence of updates, failures and crashes, whatever the operator signs.
CommittedViewGrows == [][IsPrefix(state.view, state'.view)]_state

\* store.ts "refusing to replace an immutable witness cosignature" never happens:
\* an update repeated after a crash reuses the cosignature the crash left.
CommitNeverRefused == ~refused

\* The committed state's cosignature is published, and every published one is over
\* a prefix of the committed view, or of the view being committed, or was left
\* behind by a crash or a failed write between the cosignature and the state file.
CosignedUnderState ==
  /\ state # NoState => state.cosig \in cosigs
  /\ \A c \in cosigs :
       \/ IsPrefix(c.view, state.view)
       \/ job.stage = "cosig" /\ c = job.cosig
       \/ c.view \in orphans

-----------------------------------------------------------------------------
(* The inductive invariant behind the properties. *)

\* Past the consistency check, the view extends the committed one.
CheckedExtends ==
  job.stage \in {"consistent", "cleared", "signed", "leaves", "cosig"}
    => IsPrefix(state.view, job.view)

LeavesWritten == job.stage \in {"leaves", "cosig"} => leaves = job.view

OneCosigPerView == \A c, d \in cosigs : c.view = d.view => c = d

\* The cosignature being committed is the only one for its view.
CosigFits ==
  /\ job.stage \in {"signed", "leaves", "cosig"} => CosigsOf(job.view) \subseteq {job.cosig}
  /\ job.stage = "cosig" => job.cosig \in cosigs

Inv ==
  /\ TypeOK
  /\ LeavesCoverState /\ CheckedExtends /\ LeavesWritten
  /\ OneCosigPerView /\ CosigFits /\ CommitNeverRefused
  /\ CosignedUnderState
=============================================================================
