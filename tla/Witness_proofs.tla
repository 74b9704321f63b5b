--------------------------- MODULE Witness_proofs ---------------------------
(***************************************************************************)
(* Proofs about Witness for every set of views an operator may sign, every *)
(* set of gossip peers and any number of crashes and failing writes.       *)
(***************************************************************************)
EXTENDS WitnessedLog, TLAPS

USE WitnessAssumption

-----------------------------------------------------------------------------
(* Prefixes: what a longer view keeps of a shorter one. *)

\* IsPrefix, index by index.
LEMMA PrefixByIndex ==
  ASSUME NEW S, NEW s \in Seq(S), NEW t \in Seq(S)
  PROVE  IsPrefix(s, t) <=> /\ Len(s) <= Len(t)
                            /\ \A i \in 1..Len(s) : s[i] = t[i]
<1>1. /\ SubSeq(s, 1, Len(s)) = [i \in 1..Len(s) |-> s[i]]
      /\ Len(s) <= Len(t) => SubSeq(t, 1, Len(s)) = [i \in 1..Len(s) |-> t[i]]
  OBVIOUS
<1> QED BY <1>1 DEF IsPrefix

\* Extension is reflexive and transitive, and every view extends the empty one.
LEMMA PrefixOrder ==
  ASSUME NEW S, NEW s \in Seq(S), NEW t \in Seq(S), NEW u \in Seq(S)
  PROVE  /\ IsPrefix(s, s)
         /\ IsPrefix(<<>>, s)
         /\ IsPrefix(s, t) /\ IsPrefix(t, u) => IsPrefix(s, u)
<1>1. IsPrefix(s, s)
  BY PrefixByIndex
<1>2. IsPrefix(<<>>, s)
  <2>1. <<>> \in Seq(S) /\ Len(<<>>) = 0
    OBVIOUS
  <2>2. Len(<<>>) <= Len(s) /\ \A i \in 1..Len(<<>>) : <<>>[i] = s[i]
    BY <2>1
  <2> QED BY <2>1, <2>2, PrefixByIndex
<1>3. ASSUME IsPrefix(s, t), IsPrefix(t, u) PROVE IsPrefix(s, u)
  <2>1. Len(s) <= Len(t) /\ \A i \in 1..Len(s) : s[i] = t[i]
    BY <1>3, PrefixByIndex
  <2>2. Len(t) <= Len(u) /\ \A i \in 1..Len(t) : t[i] = u[i]
    BY <1>3, PrefixByIndex
  <2>3. Len(s) <= Len(u) /\ \A i \in 1..Len(s) : s[i] = u[i]
    BY <2>1, <2>2
  <2> QED BY <2>3, PrefixByIndex
<1> QED BY <1>1, <1>2, <1>3

\* A prefix is read back from the longer view, and the rest of that view put after
\* it gives the view.
LEMMA PrefixRest ==
  ASSUME NEW S, NEW s \in Seq(S), NEW t \in Seq(S), IsPrefix(s, t)
  PROVE  /\ SubSeq(t, 1, Len(s)) = s
         /\ s \o SubSeq(t, Len(s) + 1, Len(t)) = t
<1>1. Len(s) <= Len(t) /\ \A i \in 1..Len(s) : s[i] = t[i]
  BY PrefixByIndex
<1> QED BY <1>1

\* Whatever part of a longer view is put after a prefix of it, the prefix stays one.
LEMMA PrefixSplit ==
  ASSUME NEW S, NEW s \in Seq(S), NEW t \in Seq(S), NEW n \in Nat,
         IsPrefix(s, t), n <= Len(t), Len(s) <= n
  PROVE  /\ s \o SubSeq(t, Len(s) + 1, n) \in Seq(S)
         /\ IsPrefix(s, s \o SubSeq(t, Len(s) + 1, n))
<1>1. /\ SubSeq(t, Len(s) + 1, n) \in Seq(S)
      /\ s \o SubSeq(t, Len(s) + 1, n) \in Seq(S)
  OBVIOUS
<1> DEFINE u == SubSeq(t, Len(s) + 1, n)
<1>2. IsPrefix(s, s \o u)
  <2>1. u \in Seq(S)
    BY <1>1
  <2> HIDE DEF u
  <2>2. Len(s) <= Len(s \o u) /\ \A i \in 1..Len(s) : s[i] = (s \o u)[i]
    BY <2>1
  <2>3. s \o u \in Seq(S)
    BY <2>1
  <2> QED BY <2>2, <2>3, PrefixByIndex
<1> QED BY <1>1, <1>2

-----------------------------------------------------------------------------
(* One lemma per step of an update. *)

\* The views the state and the update hold are sequences of leaves.
LEMMA ViewTypes ==
  ASSUME TypeOK
  PROVE  /\ state.view \in Seq(Leaves)
         /\ job.stage # "idle" => /\ job.view \in Views /\ job.view \in Seq(Leaves)
                                  /\ job.at \in Seconds
         /\ job.stage \in {"signed", "leaves", "cosig"} =>
              job.cosig \in Cosig /\ job.cosig.view = job.view
         /\ \A c \in cosigs : c.view \in Views /\ c.view \in Seq(Leaves)
         /\ job.stage \in Stages
<1>1. state.view \in Seq(Leaves)
  <2>1. NoState.view = <<>> /\ <<>> \in Seq(Leaves)
    BY DEF NoState
  <2>2. state \in [view : Views, cosig : Cosig] => state.view \in Seq(Leaves)
    OBVIOUS
  <2> QED BY <2>1, <2>2 DEF TypeOK
<1>2. job = Idle => job.stage = "idle"
  BY DEF Idle
<1>3. job.stage # "idle" => /\ job.view \in Views /\ job.view \in Seq(Leaves)
                            /\ job.at \in Seconds
  BY <1>2 DEF TypeOK
<1>4. job.stage \in {"signed", "leaves", "cosig"} =>
        job.cosig \in Cosig /\ job.cosig.view = job.view
  BY <1>2 DEF TypeOK
<1>5. \A c \in cosigs : c.view \in Views /\ c.view \in Seq(Leaves)
  BY DEF TypeOK, Cosig
<1>6. job.stage \in Stages
  BY <1>2 DEF TypeOK, Stages
<1> QED BY <1>1, <1>3, <1>4, <1>5, <1>6

\* A step that ends an update, or leaves one out, and touches no file keeps Inv,
\* provided it was not between the cosignature and the state file.
LEMMA EndKeeps ==
  ASSUME Inv, job' = Idle, job.stage # "cosig",
         UNCHANGED <<state, leaves, cosigs, refused, orphans>>,
         health' \in {"none", "ok", "error"}, interrupts' \in Nat,
         incidents' \subseteq SUBSET Views
  PROVE  Inv'
<1> USE DEF Inv
<1>1. job'.stage = "idle"
  BY DEF Idle
<1>2. refused' \in BOOLEAN
  BY DEF TypeOK
<1>3. TypeOK'
  BY <1>2 DEF TypeOK
<1>4. LeavesCoverState' /\ CheckedExtends' /\ LeavesWritten'
  BY <1>1 DEF LeavesCoverState, CheckedExtends, LeavesWritten
<1>5. OneCosigPerView' /\ CosigFits' /\ CommitNeverRefused'
  BY <1>1 DEF OneCosigPerView, CosigFits, CommitNeverRefused
<1>6. CosignedUnderState'
  BY <1>1 DEF CosignedUnderState
<1> QED BY <1>3, <1>4, <1>5, <1>6

\* A step inside an update, up to and including the signature, that touches no file.
LEMMA AdvanceKeeps ==
  ASSUME Inv, UNCHANGED <<state, leaves, cosigs, refused, orphans, interrupts>>,
         health' \in {"none", "ok", "error"}, incidents' \subseteq SUBSET Views,
         job' \in [stage : Stages, view : Views, at : Seconds, cosig : Cosig \cup {Nil}],
         job'.stage \in {"fetched", "consistent", "cleared", "signed"},
         job.stage \notin {"leaves", "cosig"},
         job'.stage # "fetched" => IsPrefix(state.view, job'.view),
         job'.stage = "signed" => /\ job'.cosig \in Cosig /\ job'.cosig.view = job'.view
                                  /\ CosigsOf(job'.view) \subseteq {job'.cosig}
  PROVE  Inv'
<1> USE DEF Inv
<1>1. refused' \in BOOLEAN
  BY DEF TypeOK
<1>2. TypeOK'
  BY <1>1 DEF TypeOK, Stages
<1>3. LeavesCoverState' /\ CheckedExtends' /\ LeavesWritten'
  BY DEF LeavesCoverState, CheckedExtends, LeavesWritten
<1>4. OneCosigPerView' /\ CosigFits' /\ CommitNeverRefused'
  BY DEF OneCosigPerView, CosigFits, CommitNeverRefused, CosigsOf
<1>5. CosignedUnderState'
  BY DEF CosignedUnderState
<1> QED BY <1>2, <1>3, <1>4, <1>5

\* Moving an update to a later stage changes nothing else of it.
LEMMA StageKeepsJob ==
  ASSUME TypeOK, job.stage # "idle", NEW st \in Stages, Stage(st)
  PROVE  /\ job'.stage = st /\ job'.view = job.view /\ job'.cosig = job.cosig
         /\ job' \in [stage : Stages, view : Views, at : Seconds, cosig : Cosig \cup {Nil}]
         /\ health' = health
<1>1. job = Idle => job.stage = "idle"
  BY DEF Idle
<1>2. job \in [stage : Stages, view : Views, at : Seconds, cosig : Cosig \cup {Nil}]
  BY <1>1 DEF TypeOK
<1> QED BY <1>2 DEF Stage

\* The committed leaves are read back, and TornLeaves and CommitLeaves only put
\* leaves after them.
LEMMA LeafWrites ==
  ASSUME Inv, job.stage = "signed"
  PROVE  /\ PriorHashes = state.view
         /\ \A n \in Len(state.view)..Len(job.view) :
              /\ PriorHashes \o SubSeq(job.view, Len(state.view) + 1, n) \in Seq(Leaves)
              /\ IsPrefix(state.view,
                          PriorHashes \o SubSeq(job.view, Len(state.view) + 1, n))
         /\ PriorHashes \o SubSeq(job.view, Len(state.view) + 1, Len(job.view)) = job.view
<1> USE DEF Inv
<1>1. /\ state.view \in Seq(Leaves) /\ job.view \in Seq(Leaves) /\ leaves \in Seq(Leaves)
      /\ IsPrefix(state.view, leaves) /\ IsPrefix(state.view, job.view)
  BY ViewTypes DEF TypeOK, LeavesCoverState, CheckedExtends
<1>2. Len(state.view) <= Len(job.view) /\ Len(state.view) <= Len(leaves)
  BY <1>1, PrefixByIndex
<1>3. SubSeq(leaves, 1, Len(state.view)) = state.view
  BY <1>1, PrefixRest
<1>4. PriorHashes = state.view
  BY <1>3 DEF PriorHashes
<1>5. state.view \o SubSeq(job.view, Len(state.view) + 1, Len(job.view)) = job.view
  BY <1>1, PrefixRest
<1>6. ASSUME NEW n \in Len(state.view)..Len(job.view)
      PROVE  /\ state.view \o SubSeq(job.view, Len(state.view) + 1, n) \in Seq(Leaves)
             /\ IsPrefix(state.view, state.view \o SubSeq(job.view, Len(state.view) + 1, n))
  <2>1. n \in Nat /\ n <= Len(job.view) /\ Len(state.view) <= n
    BY <1>1
  <2> QED BY <1>1, <2>1, PrefixSplit
<1> QED BY <1>4, <1>5, <1>6

\* writeLeafHashesDurably ends with the whole view in the leaf history.
LEMMA CommitLeavesKeeps ==
  ASSUME Inv, CommitLeaves
  PROVE  Inv'
<1> USE DEF Inv
<1>1. /\ job.stage = "signed" /\ job.stage # "idle" /\ Stage("leaves")
      /\ UNCHANGED <<state, cosigs, incidents, interrupts, refused, orphans>>
  BY DEF CommitLeaves
<1>2. leaves' = job.view
  BY <1>1, LeafWrites DEF CommitLeaves
<1>3. /\ job'.stage = "leaves" /\ job'.view = job.view /\ job'.cosig = job.cosig
      /\ job' \in [stage : Stages, view : Views, at : Seconds, cosig : Cosig \cup {Nil}]
      /\ health' = health
  BY <1>1, StageKeepsJob DEF Stages
<1>4. /\ job.view \in Seq(Leaves) /\ job.cosig \in Cosig /\ job.cosig.view = job.view
      /\ IsPrefix(state.view, job.view)
  BY <1>1, ViewTypes DEF CheckedExtends
<1>5. refused' \in BOOLEAN
  BY <1>1 DEF TypeOK
<1>6. TypeOK'
  BY <1>1, <1>2, <1>3, <1>4, <1>5 DEF TypeOK
<1>7. LeavesCoverState' /\ CheckedExtends' /\ LeavesWritten'
  BY <1>1, <1>2, <1>3, <1>4 DEF LeavesCoverState, CheckedExtends, LeavesWritten
<1>8. OneCosigPerView' /\ CosigFits' /\ CommitNeverRefused'
  BY <1>1, <1>3 DEF OneCosigPerView, CosigFits, CommitNeverRefused, CosigsOf
<1>9. CosignedUnderState'
  BY <1>1, <1>3 DEF CosignedUnderState
<1> QED BY <1>6, <1>7, <1>8, <1>9

\* The cosignature file is written; the refusal cannot happen.
LEMMA CommitCosigKeeps ==
  ASSUME Inv, CommitCosig
  PROVE  Inv'
<1> USE DEF Inv
<1>1. job.stage = "leaves" /\ job.stage # "idle" /\ CosigsOf(job.view) \subseteq {job.cosig}
  BY DEF CommitCosig, CosigFits
<1>2. /\ cosigs' = cosigs \cup {job.cosig} /\ Stage("cosig")
      /\ UNCHANGED <<state, leaves, incidents, interrupts, refused, orphans>>
  BY <1>1 DEF CommitCosig
<1>3. /\ job'.stage = "cosig" /\ job'.view = job.view /\ job'.cosig = job.cosig
      /\ job' \in [stage : Stages, view : Views, at : Seconds, cosig : Cosig \cup {Nil}]
      /\ health' = health
  BY <1>1, <1>2, StageKeepsJob DEF Stages
<1>4. job.cosig \in Cosig /\ job.cosig.view = job.view
  BY <1>1, ViewTypes
<1>5. refused' \in BOOLEAN
  BY <1>2 DEF TypeOK
<1>6. TypeOK'
  BY <1>2, <1>3, <1>4, <1>5 DEF TypeOK
<1>7. LeavesCoverState' /\ CheckedExtends' /\ LeavesWritten'
  BY <1>1, <1>2, <1>3 DEF LeavesCoverState, CheckedExtends, LeavesWritten
<1>8. \A c \in cosigs : c.view = job.view => c = job.cosig
  BY <1>1 DEF CosigsOf
<1>9. OneCosigPerView' /\ CosigFits' /\ CommitNeverRefused'
  BY <1>2, <1>3, <1>4, <1>8 DEF OneCosigPerView, CosigFits, CommitNeverRefused, CosigsOf
<1>10. CosignedUnderState'
  BY <1>1, <1>2, <1>3 DEF CosignedUnderState
<1> QED BY <1>6, <1>7, <1>9, <1>10

\* The state file advances to the view whose leaves and cosignature are written.
LEMMA CommitStateKeeps ==
  ASSUME Inv, CommitState
  PROVE  Inv' /\ IsPrefix(state.view, state'.view)
<1> USE DEF Inv
<1>1. /\ job.stage = "cosig" /\ job' = Idle /\ health' = "ok"
      /\ state' = [view |-> job.view, cosig |-> job.cosig]
      /\ UNCHANGED <<leaves, cosigs, incidents, interrupts, refused, orphans>>
  BY DEF CommitState, Finish
<1>2. /\ state.view \in Seq(Leaves) /\ job.view \in Seq(Leaves) /\ job.view \in Views
      /\ job.cosig \in Cosig /\ job.cosig.view = job.view
      /\ \A c \in cosigs : c.view \in Seq(Leaves)
  BY <1>1, ViewTypes
<1>3. /\ IsPrefix(state.view, job.view) /\ leaves = job.view /\ job.cosig \in cosigs
  BY <1>1 DEF CheckedExtends, LeavesWritten, CosigFits
<1>4. state'.view = job.view /\ state'.cosig = job.cosig /\ job'.stage = "idle"
  BY <1>1 DEF Idle
<1>5. refused' \in BOOLEAN
  BY <1>1 DEF TypeOK
<1>6. state' \in [view : Views, cosig : Cosig]
  BY <1>1, <1>2
<1>7. TypeOK'
  BY <1>1, <1>5, <1>6 DEF TypeOK
<1>8. LeavesCoverState' /\ CheckedExtends' /\ LeavesWritten'
  BY <1>1, <1>2, <1>3, <1>4, PrefixOrder DEF LeavesCoverState, CheckedExtends, LeavesWritten
<1>9. OneCosigPerView' /\ CosigFits' /\ CommitNeverRefused'
  BY <1>1, <1>4 DEF OneCosigPerView, CosigFits, CommitNeverRefused
<1>10. CosignedUnderState'
  <2>1. ASSUME NEW c \in cosigs
        PROVE  IsPrefix(c.view, job.view) \/ c.view \in orphans
    <3>1. CASE IsPrefix(c.view, state.view)
      BY <1>2, <1>3, <3>1, PrefixOrder
    <3>2. CASE c = job.cosig
      BY <1>2, <3>2, PrefixOrder
    <3> QED BY <3>1, <3>2 DEF CosignedUnderState
  <2> QED BY <1>1, <1>3, <1>4, <2>1 DEF CosignedUnderState
<1> QED BY <1>3, <1>4, <1>7, <1>8, <1>9, <1>10

\* A crash or a failing write: the leaf history keeps its committed part, and a
\* cosignature without its state is remembered as an orphan.
LEMMA CutOffKeeps ==
  ASSUME Inv, CutOff, health' \in {"none", "ok", "error"}
  PROVE  Inv'
<1> USE DEF Inv
<1>1. /\ job' = Idle /\ interrupts' = interrupts + 1
      /\ UNCHANGED <<state, cosigs, incidents, refused>>
      /\ orphans' = IF job.stage = "cosig" THEN orphans \cup {job.view} ELSE orphans
  BY DEF CutOff
<1>2. job'.stage = "idle"
  BY <1>1 DEF Idle
<1>3. leaves' \in Seq(Leaves) /\ IsPrefix(state.view, leaves')
  <2>1. CASE leaves' = leaves
    BY <2>1 DEF TypeOK, LeavesCoverState
  <2>2. CASE job.stage = "signed" /\ leaves' \in TornLeaves
    BY <2>2, LeafWrites DEF TornLeaves
  <2> QED BY <2>1, <2>2 DEF CutOff
<1>4. orphans' \subseteq Views
  BY <1>1, ViewTypes DEF TypeOK
<1>5. refused' \in BOOLEAN
  BY <1>1 DEF TypeOK
<1>6. interrupts' \in Nat
  BY <1>1 DEF TypeOK
<1>7. TypeOK'
  BY <1>1, <1>3, <1>4, <1>5, <1>6 DEF TypeOK
<1>8. LeavesCoverState' /\ CheckedExtends' /\ LeavesWritten'
  BY <1>1, <1>2, <1>3 DEF LeavesCoverState, CheckedExtends, LeavesWritten
<1>9. OneCosigPerView' /\ CosigFits' /\ CommitNeverRefused'
  BY <1>1, <1>2 DEF OneCosigPerView, CosigFits, CommitNeverRefused
<1>10. CosignedUnderState'
  <2>1. ASSUME NEW c \in cosigs
        PROVE  IsPrefix(c.view, state.view) \/ c.view \in orphans'
    <3>1. CASE job.stage = "cosig" /\ c = job.cosig
      BY <1>1, <3>1, ViewTypes
    <3> QED BY <1>1, <3>1 DEF CosignedUnderState
  <2> QED BY <1>1, <2>1 DEF CosignedUnderState
<1> QED BY <1>7, <1>8, <1>9, <1>10

-----------------------------------------------------------------------------
(* The theorems. *)

\* Every step keeps Inv, and only a commit moves the state file: forward.
LEMMA StepKeeps ==
  ASSUME Inv, [Next]_vars
  PROVE  Inv' /\ (state' = state \/ IsPrefix(state.view, state'.view))
<1> USE DEF Inv
<1>0. /\ health \in {"none", "ok", "error"} /\ interrupts \in Nat
      /\ incidents \subseteq SUBSET Views
  BY DEF TypeOK
<1>1. ASSUME NEW v \in Views, NEW now \in Seconds, FetchCheckpoint(v, now)
      PROVE  Inv' /\ state' = state
  <2>1. /\ job = Idle /\ job.stage = "idle"
        /\ UNCHANGED <<state, leaves, cosigs, incidents, interrupts, refused, orphans>>
    BY <1>1 DEF FetchCheckpoint, Idle
  <2>2. CASE job' = Idle
    BY <1>0, <1>1, <2>1, <2>2, EndKeeps DEF FetchCheckpoint, Finish
  <2>3. CASE job' # Idle
    <3>1. /\ job' = [stage |-> "fetched", view |-> v, at |-> now, cosig |-> Nil]
          /\ health' = health
      BY <1>1, <2>3 DEF FetchCheckpoint, Finish
    <3>2. /\ job' \in [stage : Stages, view : Views, at : Seconds, cosig : Cosig \cup {Nil}]
          /\ job'.stage = "fetched"
      BY <3>1 DEF Stages
    <3> QED BY <1>0, <2>1, <3>1, <3>2, AdvanceKeeps
  <2> QED BY <2>2, <2>3
<1>2. ASSUME FetchFails PROVE Inv' /\ state' = state
  BY <1>0, <1>2, EndKeeps DEF FetchFails, Finish
<1>3. ASSUME CheckConsistency PROVE Inv' /\ state' = state
  <2>1. /\ job.stage = "fetched" /\ job.stage # "idle"
        /\ UNCHANGED <<state, leaves, cosigs, incidents, interrupts, refused, orphans>>
    BY <1>3 DEF CheckConsistency
  <2>2. CASE VerifiesFromPrior
    <3>1. Stage("consistent") /\ IsPrefix(state.view, job.view)
      BY <1>3, <2>2 DEF CheckConsistency, VerifiesFromPrior
    <3>2. /\ job'.stage = "consistent" /\ job'.view = job.view
          /\ job' \in [stage : Stages, view : Views, at : Seconds, cosig : Cosig \cup {Nil}]
          /\ health' = health
      BY <2>1, <3>1, StageKeepsJob DEF Stages
    <3> QED BY <1>0, <2>1, <3>1, <3>2, AdvanceKeeps
  <2>3. CASE ~VerifiesFromPrior
    BY <1>0, <1>3, <2>1, <2>3, EndKeeps DEF CheckConsistency, Finish
  <2> QED BY <2>2, <2>3
<1>4. ASSUME NEW obs \in [Peers -> Views \cup {Nil}], Gossip(obs)
      PROVE  Inv' /\ state' = state
  <2>1. /\ job.stage = "consistent" /\ job.stage # "idle"
        /\ UNCHANGED <<state, leaves, cosigs, interrupts, refused, orphans>>
        /\ Finish("error") \/ Finish("ok") \/ Stage("cleared")
    BY <1>4 DEF Gossip
  <2>2. incidents' \subseteq SUBSET Views
    <3>1. \A p \in Peers : obs[p] = Nil \/ obs[p] \in Views
      BY <1>4
    <3>2. Verified(obs) \subseteq Views
      BY <2>1, <3>1, ViewTypes DEF Verified
    <3> QED BY <1>0, <1>4, <3>2 DEF Gossip, SplitViews
  <2>3. CASE Stage("cleared")
    <3>1. /\ job'.stage = "cleared" /\ job'.view = job.view
          /\ job' \in [stage : Stages, view : Views, at : Seconds, cosig : Cosig \cup {Nil}]
          /\ health' = health
      BY <2>1, <2>3, StageKeepsJob DEF Stages
    <3>2. IsPrefix(state.view, job.view)
      BY <2>1 DEF CheckedExtends
    <3> QED BY <1>0, <2>1, <2>2, <3>1, <3>2, AdvanceKeeps
  <2>4. CASE Finish("error") \/ Finish("ok")
    BY <1>0, <2>1, <2>2, <2>4, EndKeeps DEF Finish
  <2> QED BY <2>1, <2>3, <2>4
<1>5. ASSUME Cosign PROVE Inv' /\ state' = state
  <2>1. /\ job.stage = "cleared" /\ job.stage # "idle"
        /\ UNCHANGED <<state, leaves, cosigs, incidents, health, interrupts, refused, orphans>>
    BY <1>5 DEF Cosign
  <2>2. PICK c \in (IF CosigsOf(job.view) # {} THEN CosigsOf(job.view)
                    ELSE {[view |-> job.view, at |-> job.at]}) :
          job' = [job EXCEPT !.stage = "signed", !.cosig = c]
    BY <1>5 DEF Cosign
  <2>3. job.view \in Views /\ job.at \in Seconds
    BY <2>1, ViewTypes
  <2>4. c \in Cosig /\ c.view = job.view
    BY <2>2, <2>3 DEF CosigsOf, Cosig, TypeOK
  <2>5. CosigsOf(job.view) \subseteq {c}
    BY <2>2 DEF CosigsOf, OneCosigPerView
  <2>6. job = Idle => job.stage = "idle"
    BY DEF Idle
  <2>7. job \in [stage : Stages, view : Views, at : Seconds, cosig : Cosig \cup {Nil}]
    BY <2>1, <2>6 DEF TypeOK
  <2>8. /\ job'.stage = "signed" /\ job'.view = job.view /\ job'.cosig = c
        /\ job' \in [stage : Stages, view : Views, at : Seconds, cosig : Cosig \cup {Nil}]
    BY <2>2, <2>4, <2>7 DEF Stages
  <2>9. IsPrefix(state.view, job.view)
    BY <2>1 DEF CheckedExtends
  <2> QED BY <1>0, <2>1, <2>4, <2>5, <2>8, <2>9, AdvanceKeeps
<1>6. ASSUME CommitLeaves PROVE Inv' /\ state' = state
  BY <1>6, CommitLeavesKeeps DEF CommitLeaves
<1>7. ASSUME CommitCosig PROVE Inv' /\ state' = state
  BY <1>7, CommitCosigKeeps DEF CommitCosig
<1>8. ASSUME CommitState PROVE Inv' /\ IsPrefix(state.view, state'.view)
  BY <1>8, CommitStateKeeps
<1>9. ASSUME Crash \/ CommitFails PROVE Inv' /\ state' = state
  BY <1>0, <1>9, CutOffKeeps DEF Crash, CommitFails, CutOff
<1>10. ASSUME UNCHANGED vars PROVE Inv' /\ state' = state
  <2>1. TypeOK'
    BY <1>10 DEF vars, TypeOK
  <2>2. LeavesCoverState' /\ CheckedExtends' /\ LeavesWritten'
    BY <1>10 DEF vars, LeavesCoverState, CheckedExtends, LeavesWritten
  <2>3. OneCosigPerView' /\ CosigFits' /\ CommitNeverRefused' /\ CosignedUnderState'
    BY <1>10 DEF vars, OneCosigPerView, CosigFits, CosigsOf, CommitNeverRefused,
                 CosignedUnderState
  <2> QED BY <1>10, <2>1, <2>2, <2>3 DEF vars
<1> QED
  BY <1>1, <1>2, <1>3, <1>4, <1>5, <1>6, <1>7, <1>8, <1>9, <1>10 DEF Next

\* A witness that has seen nothing satisfies the invariant.
LEMMA InitInv == Init => Inv
<1> SUFFICES ASSUME Init PROVE Inv
  OBVIOUS
<1>1. job.stage = "idle" /\ state.view = <<>> /\ <<>> \in Seq(Leaves) /\ leaves = <<>>
  BY DEF Init, Idle, NoState
<1>2. refused \in BOOLEAN
  BY DEF Init
<1>3. TypeOK
  BY <1>1, <1>2 DEF Init, TypeOK
<1>4. LeavesCoverState /\ CheckedExtends /\ LeavesWritten
  BY <1>1, PrefixOrder DEF LeavesCoverState, CheckedExtends, LeavesWritten
<1>5. OneCosigPerView /\ CosigFits /\ CommitNeverRefused /\ CosignedUnderState
  BY <1>1 DEF Init, OneCosigPerView, CosigFits, CommitNeverRefused, CosignedUnderState
<1> QED BY <1>3, <1>4, <1>5 DEF Inv

\* Inv is inductive, whatever the operator signs and wherever an update is cut off.
THEOREM Invariance == Spec => []Inv
<1>1. Inv /\ [Next]_vars => Inv'
  BY StepKeeps
<1> QED BY <1>1, InitInv, PTL DEF Spec

\* Type correctness of the witness's files and of the update under way.
THEOREM TypeCorrect == Spec => []TypeOK
<1>1. Inv => TypeOK
  BY DEF Inv
<1> QED BY <1>1, Invariance, PTL

\* A restart always finds the leaves of the committed view.
THEOREM HistoryCovers == Spec => []LeavesCoverState
<1>1. Inv => LeavesCoverState
  BY DEF Inv
<1> QED BY <1>1, Invariance, PTL

\* commit never refuses a cosignature: the one a crash left behind is reused.
THEOREM NeverRefused == Spec => []CommitNeverRefused
<1>1. Inv => CommitNeverRefused
  BY DEF Inv
<1> QED BY <1>1, Invariance, PTL

\* Every published cosignature is over a prefix of the committed view, except one
\* that was left between the cosignature and the state file.
THEOREM PublishedUnderState == Spec => []CosignedUnderState
<1>1. Inv => CosignedUnderState
  BY DEF Inv
<1> QED BY <1>1, Invariance, PTL

\* The witness never moves its committed view back or sideways.
THEOREM ViewGrows == Spec => CommittedViewGrows
<1>1. Inv /\ [Next]_vars => [IsPrefix(state.view, state'.view)]_state
  BY StepKeeps
<1> QED BY <1>1, Invariance, PTL DEF Spec, CommittedViewGrows

-----------------------------------------------------------------------------
(* The witness and the log it watches. *)

\* Two parts of one log agree.
LEMMA PartsAgree ==
  ASSUME NEW S, NEW s \in Seq(S), NEW t \in Seq(S), NEW u \in Seq(S),
         IsPrefix(s, u), IsPrefix(t, u)
  PROVE  /\ Consistent(s, t)
         /\ Len(s) <= Len(t) => IsPrefix(s, t)
<1>1. Len(s) <= Len(u) /\ \A i \in 1..Len(s) : s[i] = u[i]
  BY PrefixByIndex
<1>2. Len(t) <= Len(u) /\ \A i \in 1..Len(t) : t[i] = u[i]
  BY PrefixByIndex
<1>3. ASSUME Len(s) <= Len(t) PROVE IsPrefix(s, t)
  <2>1. \A i \in 1..Len(s) : s[i] = t[i]
    BY <1>1, <1>2, <1>3
  <2> QED BY <1>3, <2>1, PrefixByIndex
<1>4. ASSUME Len(t) <= Len(s) PROVE IsPrefix(t, s)
  <2>1. \A i \in 1..Len(t) : s[i] = t[i]
    BY <1>1, <1>2, <1>4
  <2> QED BY <1>4, <2>1, PrefixByIndex
<1>5. Len(s) <= Len(t) \/ Len(t) <= Len(s)
  OBVIOUS
<1> QED BY <1>3, <1>4, <1>5 DEF Consistent

LEMMA HeadFacts ==
  ASSUME log \in Seq(Leaves)
  PROVE  /\ \A v \in Heads : v \in Seq(Leaves) /\ IsPrefix(v, log)
         /\ log # <<>> => log \in Heads
<1>1. ASSUME NEW n \in 1..Len(log)
      PROVE  SubSeq(log, 1, n) \in Seq(Leaves) /\ IsPrefix(SubSeq(log, 1, n), log)
  <2>1. PICK h \in Seq(Leaves) : h = SubSeq(log, 1, n)
    <3>1. n \in Nat /\ n <= Len(log) /\ \A i \in 1..n : log[i] \in Leaves
      OBVIOUS
    <3>2. SubSeq(log, 1, n) \in Seq(Leaves)
      BY <3>1
    <3> QED BY <3>2, Zenon
  <2>2. Len(h) = n /\ n <= Len(log) /\ \A i \in 1..n : h[i] = log[i]
    BY <2>1
  <2>3. IsPrefix(h, log)
    BY <2>2, PrefixByIndex
  <2> QED BY <2>1, <2>3
<1>2. ASSUME log # <<>> PROVE Len(log) \in 1..Len(log) /\ SubSeq(log, 1, Len(log)) = log
  BY <1>2
<1> QED BY <1>1, <1>2 DEF Heads

\* The log grows by one entry: one more head, and no part of it is lost.
LEMMA LogGrows ==
  ASSUME log \in Seq(Leaves), NEW leaf \in Leaves, log' = Append(log, leaf)
  PROVE  /\ log' \in Seq(Leaves) /\ IsPrefix(log, log')
         /\ Heads' = Heads \cup {log'}
<1>1. /\ log' \in Seq(Leaves) /\ Len(log') = Len(log) + 1 /\ Len(log) \in Nat
      /\ \A i \in 1..Len(log) : log'[i] = log[i]
  OBVIOUS
<1>2. IsPrefix(log, log')
  <2>1. PICK l \in Seq(Leaves) : l = log'
    BY <1>1
  <2>2. Len(log) <= Len(l) /\ \A i \in 1..Len(log) : log[i] = l[i]
    BY <1>1, <2>1
  <2>3. IsPrefix(log, l)
    BY <2>2, PrefixByIndex
  <2> QED BY <2>1, <2>3
<1>3. \A n \in 1..Len(log) : SubSeq(log', 1, n) = SubSeq(log, 1, n)
  OBVIOUS
<1>4. SubSeq(log', 1, Len(log) + 1) = log'
  BY <1>1
<1>5. 1..Len(log') = 1..Len(log) \cup {Len(log) + 1}
  BY <1>1
<1>6. Heads' = {SubSeq(log', 1, n) : n \in 1..Len(log')}
  BY DEF Heads
<1> QED BY <1>1, <1>2, <1>3, <1>4, <1>5, <1>6 DEF Heads

\* Every step of the composition is a step of the witness or none: what was proved of
\* any operator holds of this one.
LEMMA WitnessStep ==
  ASSUME Watches, [WitnessedNext]_witnessedVars
  PROVE  [Next]_vars
<1>1. ASSUME NEW now \in Seconds, CheckpointArrives(now) PROVE Next
  <2>1. asked \in Views
    BY <1>1 DEF CheckpointArrives, Watches
  <2> QED BY <1>1, <2>1 DEF CheckpointArrives, Next
<1>2. ASSUME NEW obs \in [Peers -> Shown \cup {Nil}], Gossip(obs) PROVE Next
  <2>1. obs \in [Peers -> Views \cup {Nil}]
    <3>1. Shown \cup {Nil} \subseteq Views \cup {Nil}
      BY DEF Watches, Shown
    <3> QED BY <1>2, <3>1
  <2> QED BY <1>2, <2>1 DEF Next
<1>3. UpdateEnds => Next
  BY DEF UpdateEnds, Next
<1>4. UpdateGoesOn => Next
  BY <1>2 DEF UpdateGoesOn, Next
<1>5. (\E leaf \in Leaves : AppendEntry(leaf)) \/ OperatorForks \/ RequestCheckpoint
        => UNCHANGED vars
  BY DEF AppendEntry, OperatorForks, RequestCheckpoint
<1> QED BY <1>1, <1>3, <1>4, <1>5 DEF WitnessedNext, witnessedVars

\* Observations of an honest log give no pair in conflict.
LEMMA NoConflicts ==
  ASSUME WitnessedInv, honest, job.stage = "consistent",
         NEW obs \in [Peers -> Shown \cup {Nil}]
  PROVE  SplitViews(Verified(obs)) = {}
<1>1. log \in Seq(Leaves) /\ job.view \in Seq(Leaves) /\ IsPrefix(job.view, log)
  BY ViewTypes DEF WitnessedInv, Inv, Watches, Follows
<1>2. \A v \in Verified(obs) : v \in Seq(Leaves) /\ IsPrefix(v, log)
  BY <1>1, HeadFacts DEF Verified, Shown
<1>3. \A u, v \in Verified(obs) : Consistent(u, v)
  BY <1>1, <1>2, PartsAgree
<1> QED BY <1>3 DEF SplitViews

\* A step of the witness while the log stays keeps to the log, when it takes up nothing
\* but what it had, and a checkpoint that was asked for.
LEMMA StepFollows ==
  ASSUME WitnessedInv, Follows, UNCHANGED log, asked' = Nil, incidents' = {},
         state'.view = state.view \/ (state'.view = job.view /\ job.stage # "idle" /\ job' = Idle),
         \/ job' = Idle
         \/ job.stage # "idle" /\ job'.view = job.view /\ state'.view = state.view
         \/ asked # Nil /\ job'.view = asked /\ state'.view = state.view,
         cosigs' \subseteq cosigs \cup {c \in Cosig : c.view = job.view /\ job.stage # "idle"}
  PROVE  Follows'
<1>1. log' = log /\ log \in Seq(Leaves) /\ Idle.stage = "idle"
  BY DEF WitnessedInv, Watches, Idle
<1>2. \A v \in Heads : IsPrefix(v, log)
  BY <1>1, HeadFacts
<1>3. IsPrefix(state'.view, log)
  BY DEF Follows
<1>4. job'.stage # "idle" => IsPrefix(job'.view, log) /\ IsPrefix(state'.view, job'.view)
  BY <1>1, <1>2 DEF Follows
<1>5. \A c \in cosigs' : IsPrefix(c.view, log)
  BY DEF Follows
<1> QED BY <1>1, <1>3, <1>4, <1>5 DEF Follows

\* What is asked for is something the operator may sign, and one request is open at a time.
LEMMA WatchesStep ==
  ASSUME Watches, [WitnessedNext]_witnessedVars
  PROVE  Watches'
<1>1. log \in Seq(Leaves) /\ Idle.stage = "idle"
  BY DEF Watches, Idle
<1>2. ASSUME NEW leaf \in Leaves, AppendEntry(leaf) PROVE Watches'
  <2>1. log' = Append(log, leaf) /\ log' \in Views /\ UNCHANGED <<vars, asked>>
    BY <1>2 DEF AppendEntry
  <2>2. log' \in Seq(Leaves) /\ Heads' = Heads \cup {log'}
    BY <1>1, <2>1, LogGrows
  <2> QED BY <2>1, <2>2 DEF Watches, vars
<1>3. ASSUME UNCHANGED log PROVE Heads' = Heads
  BY <1>3 DEF Heads
<1>4. ASSUME RequestCheckpoint PROVE Watches'
  <2>1. job' = Idle /\ UNCHANGED log /\ asked' \in IF honest THEN {log} \ {<<>>} ELSE Views
    BY <1>4 DEF RequestCheckpoint, vars
  <2>2. log # <<>> => log \in Views
    BY <1>1, HeadFacts DEF Watches
  <2> QED BY <1>3, <2>1, <2>2 DEF Watches
<1>5. ASSUME \/ \E now \in Seconds : CheckpointArrives(now)
             \/ UpdateEnds
      PROVE  Watches'
  <2>1. asked' = Nil /\ UNCHANGED log
    BY <1>5 DEF CheckpointArrives, UpdateEnds
  <2> QED BY <1>3, <2>1 DEF Watches
<1>6. ASSUME UpdateGoesOn PROVE Watches'
  <2>1. job.stage # "idle"
    BY <1>6 DEF UpdateGoesOn, CheckConsistency, Cosign, CommitLeaves, CommitCosig, CommitState,
                CommitFails, Gossip
  <2>2. asked' = Nil /\ UNCHANGED log
    BY <1>1, <1>6, <2>1 DEF UpdateGoesOn, Watches
  <2> QED BY <1>3, <2>2 DEF Watches
<1>7. ASSUME OperatorForks \/ UNCHANGED witnessedVars PROVE Watches'
  <2>1. UNCHANGED <<vars, log, asked>>
    BY <1>7 DEF OperatorForks, witnessedVars
  <2> QED BY <1>3, <2>1 DEF Watches, vars
<1> QED BY <1>2, <1>4, <1>5, <1>6, <1>7 DEF WitnessedNext

\* With an operator that is honest still, the witness keeps to its log, whatever is
\* appended during an update.
LEMMA FollowsStep ==
  ASSUME WitnessedInv, honest, honest', [WitnessedNext]_witnessedVars
  PROVE  Follows'
<1>1. /\ Inv /\ Watches /\ Follows /\ incidents = {} /\ log \in Seq(Leaves)
      /\ Idle.stage = "idle"
  BY DEF WitnessedInv, Watches, Follows, Idle
<1>2. ASSUME UNCHANGED log PROVE Heads' = Heads
  BY <1>2 DEF Heads
<1>3. ASSUME NEW leaf \in Leaves, AppendEntry(leaf) PROVE Follows'
  <2>1. log' = Append(log, leaf) /\ log' \in Views /\ UNCHANGED <<vars, asked>>
    BY <1>3 DEF AppendEntry
  <2>2. PICK l \in Seq(Leaves) : l = log' /\ IsPrefix(log, l) /\ Heads' = Heads \cup {l}
    BY <1>1, <2>1, LogGrows
  <2>3. \A v \in Seq(Leaves) : IsPrefix(v, log) => IsPrefix(v, l)
    BY <1>1, <2>2, PrefixOrder
  <2>4. /\ state.view \in Seq(Leaves) /\ (job.stage # "idle" => job.view \in Seq(Leaves))
        /\ \A c \in cosigs : c.view \in Seq(Leaves)
    BY <1>1, ViewTypes DEF Inv
  <2> QED BY <1>1, <2>1, <2>2, <2>3, <2>4 DEF Follows, vars
<1>4. ASSUME RequestCheckpoint PROVE Follows'
  <2>1. asked' = log /\ log # <<>> /\ UNCHANGED <<vars, log>>
    BY <1>4 DEF RequestCheckpoint
  <2>2. Heads' = Heads /\ log \in Heads
    BY <1>1, <1>2, <2>1, HeadFacts
  <2> QED BY <1>1, <2>1, <2>2 DEF Follows, vars
<1>5. ASSUME NEW now \in Seconds, CheckpointArrives(now) PROVE Follows'
  <2>1. /\ asked # Nil /\ FetchCheckpoint(asked, now) /\ asked' = Nil /\ UNCHANGED log
        /\ UNCHANGED <<state, cosigs, incidents>>
    BY <1>5 DEF CheckpointArrives, FetchCheckpoint
  <2>2. job' = Idle \/ job'.view = asked
    BY <2>1 DEF FetchCheckpoint, Finish
  <2> QED BY <1>1, <2>1, <2>2, StepFollows
<1>6. ASSUME UpdateEnds PROVE Follows'
  <2>1. job' = Idle /\ asked' = Nil /\ UNCHANGED log /\ UNCHANGED <<state, cosigs, incidents>>
    BY <1>6 DEF UpdateEnds, FetchFails, Finish, Crash, CutOff
  <2> QED BY <1>1, <2>1, StepFollows
<1>7. ASSUME UpdateGoesOn PROVE Follows'
  <2>1. UNCHANGED log /\ UNCHANGED asked
    BY <1>7 DEF UpdateGoesOn
  <2>2. job.stage # "idle" /\ asked' = Nil
    <3>1. job.stage # "idle"
      BY <1>7 DEF UpdateGoesOn, CheckConsistency, Cosign, CommitLeaves, CommitCosig, CommitState,
                  CommitFails, Gossip
    <3> QED BY <1>1, <2>1, <3>1 DEF Watches
  <2>3. job \in [stage : Stages, view : Views, at : Seconds, cosig : Cosig \cup {Nil}]
    BY <1>1, <2>2 DEF Inv, TypeOK
  <2>4. \A s : Stage(s) => job'.view = job.view
    BY <2>3 DEF Stage
  <2>5. CASE CheckConsistency \/ CommitLeaves \/ CommitFails
    <3>1. UNCHANGED <<state, cosigs, incidents>> /\ (job' = Idle \/ job'.view = job.view)
      BY <2>4, <2>5 DEF CheckConsistency, CommitLeaves, CommitFails, CutOff, Finish
    <3> QED BY <1>1, <2>1, <2>2, <3>1, StepFollows
  <2>6. CASE Cosign
    <3>1. UNCHANGED <<state, cosigs, incidents>> /\ job'.view = job.view
      BY <2>3, <2>6 DEF Cosign
    <3> QED BY <1>1, <2>1, <2>2, <3>1, StepFollows
  <2>7. CASE CommitCosig
    <3>1. job.cosig \in Cosig /\ job.cosig.view = job.view
      BY <1>1, <2>7, ViewTypes DEF CommitCosig, Inv
    <3>2. /\ UNCHANGED <<state, incidents>> /\ (job' = Idle \/ job'.view = job.view)
          /\ cosigs' \subseteq cosigs \cup {job.cosig}
      BY <2>4, <2>7 DEF CommitCosig, Finish
    <3> QED BY <1>1, <2>1, <2>2, <3>1, <3>2, StepFollows
  <2>8. CASE CommitState
    <3>1. state'.view = job.view /\ job' = Idle /\ UNCHANGED <<cosigs, incidents>>
      BY <2>8 DEF CommitState, Finish
    <3> QED BY <1>1, <2>1, <2>2, <3>1, StepFollows
  <2>9. ASSUME NEW obs \in [Peers -> Shown \cup {Nil}], Gossip(obs) PROVE Follows'
    <3>1. UNCHANGED <<state, cosigs>> /\ (job' = Idle \/ job'.view = job.view)
      BY <2>4, <2>9 DEF Gossip, Finish
    <3>2. SplitViews(Verified(obs)) = {}
      BY <2>9, NoConflicts DEF Gossip
    <3>3. incidents' = {}
      BY <1>1, <2>9, <3>2 DEF Gossip
    <3> QED BY <1>1, <2>1, <2>2, <3>1, <3>3, StepFollows
  <2> QED BY <1>7, <2>5, <2>6, <2>7, <2>8, <2>9 DEF UpdateGoesOn
<1>8. ASSUME UNCHANGED witnessedVars PROVE Follows'
  <2>1. UNCHANGED <<vars, log, asked>> /\ Heads' = Heads
    BY <1>2, <1>8 DEF witnessedVars
  <2> QED BY <1>1, <2>1 DEF Follows, vars
<1>9. ~OperatorForks
  BY DEF OperatorForks
<1> QED BY <1>3, <1>4, <1>5, <1>6, <1>7, <1>8, <1>9 DEF WitnessedNext

\* As long as the operator is honest, whatever the witness holds is a part of the log
\* and the committed view a part of the checkpoint under way.
THEOREM WitnessedInvariance == WitnessedSpec => []WitnessedInv
<1>1. WitnessedInit => WitnessedInv
  <2> SUFFICES ASSUME WitnessedInit PROVE WitnessedInv
    OBVIOUS
  <2>1. Inv /\ incidents = {} /\ cosigs = {} /\ log = <<>> /\ asked = Nil
        /\ job.stage = "idle" /\ state.view = <<>>
    BY InitInv DEF WitnessedInit, Init, Idle, NoState
  <2>2. log \in Seq(Leaves) /\ Heads = {}
    BY <2>1 DEF Heads
  <2>3. IsPrefix(state.view, log)
    BY <2>1, <2>2, PrefixOrder
  <2> QED BY <2>1, <2>2, <2>3 DEF WitnessedInv, Watches, Follows
<1>2. WitnessedInv /\ [WitnessedNext]_witnessedVars => WitnessedInv'
  <2> SUFFICES ASSUME WitnessedInv, [WitnessedNext]_witnessedVars PROVE WitnessedInv'
    OBVIOUS
  <2>1. Inv' /\ Watches'
    BY WitnessStep, StepKeeps, WatchesStep DEF WitnessedInv
  <2>2. ASSUME honest' PROVE honest
    BY <2>2 DEF WitnessedNext, witnessedVars, AppendEntry, OperatorForks, RequestCheckpoint,
                CheckpointArrives, UpdateEnds, UpdateGoesOn
  <2>3. honest' => Follows'
    BY <2>2, FollowsStep
  <2> QED BY <2>1, <2>3 DEF WitnessedInv
<1> QED BY <1>1, <1>2, PTL DEF WitnessedSpec

\* A witness of such a log is a witness: what holds against any operator holds here.
THEOREM WitnessedImplementsWitness == WitnessedSpec => Spec
<1>1. WitnessedInv /\ [WitnessedNext]_witnessedVars => [Next]_vars
  BY WitnessStep DEF WitnessedInv
<1>2. WitnessedInit => Init
  BY DEF WitnessedInit
<1> QED BY <1>1, <1>2, WitnessedInvariance, PTL DEF WitnessedSpec, Spec

\* witnessOnce never takes a log that only appends for one that rolled back or forked.
THEOREM HonestAccepted == WitnessedSpec => []HonestLogAccepted
<1>1. WitnessedInv => HonestLogAccepted
  <2> SUFFICES ASSUME WitnessedInv, honest
               PROVE  /\ asked # Nil => IsPrefix(state.view, asked)
                      /\ job.stage = "fetched" => VerifiesFromPrior
    BY DEF HonestLogAccepted
  <2>1. Inv /\ Follows
    BY DEF WitnessedInv
  <2>2. ASSUME job.stage = "fetched" PROVE VerifiesFromPrior
    <3>1. state.view \in Seq(Leaves) /\ leaves \in Seq(Leaves) /\ IsPrefix(state.view, leaves)
      BY <2>1, ViewTypes DEF Inv, TypeOK, LeavesCoverState
    <3>2. PriorHashes = state.view
      BY <3>1, PrefixRest DEF PriorHashes
    <3> QED BY <2>1, <2>2, <3>2 DEF Follows, VerifiesFromPrior
  <2> QED BY <2>1, <2>2 DEF Follows
<1> QED BY <1>1, WitnessedInvariance, PTL

\* analyzeCheckpointGossip reports an incident only about an operator that forked.
THEOREM NoFalseIncidents == WitnessedSpec => []NoFalseIncident
<1>1. WitnessedInv => NoFalseIncident
  BY DEF WitnessedInv, Follows, NoFalseIncident
<1> QED BY <1>1, WitnessedInvariance, PTL

\* All published cosignatures over an honest log agree, leftovers of interrupted
\* commits included.
THEOREM CosignedOneLog == WitnessedSpec => []CosignaturesAgree
<1>1. WitnessedInv => CosignaturesAgree
  <2> SUFFICES ASSUME WitnessedInv, honest
               PROVE  \A c, d \in cosigs : Consistent(c.view, d.view)
    BY DEF CosignaturesAgree
  <2>1. /\ log \in Seq(Leaves)
        /\ \A c \in cosigs : c.view \in Seq(Leaves) /\ IsPrefix(c.view, log)
    BY ViewTypes DEF WitnessedInv, Inv, Watches, Follows
  <2> QED BY <2>1, PartsAgree
<1> QED BY <1>1, WitnessedInvariance, PTL
=============================================================================
