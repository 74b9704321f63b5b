---------------------- MODULE ObservationJournal_proofs ----------------------
(***************************************************************************)
(* Proofs about ObservationJournal for any number of writers, operations,  *)
(* cursors and envelopes, and for crashes and takeovers at every step.     *)
(***************************************************************************)
EXTENDS ObservationJournal, TLAPS

USE JournalAssumption

WriterState ==
  [step : Steps, attempt : 0..1, current : Seq(Commit), result : Results]

-----------------------------------------------------------------------------
(* The journal as a sequence of commits. *)

\* The cursor before a commit is the one the commit before it proposed.
LEMMA CursorBefore ==
  ASSUME NEW j \in Seq(Commit), NEW i \in 1..(Len(j) + 1)
  PROVE  Cursor(SubSeq(j, 1, i - 1)) = IF i = 1 THEN 0 ELSE j[i - 1].to
<1>1. CASE i = 1
  <2>1. SubSeq(j, 1, i - 1) = <<>>
    BY <1>1
  <2> QED BY <1>1, <2>1 DEF Cursor
<1>2. CASE i # 1
  <2>1. /\ SubSeq(j, 1, i - 1) \in Seq(Commit)
        /\ Len(SubSeq(j, 1, i - 1)) = i - 1
        /\ SubSeq(j, 1, i - 1)[i - 1] = j[i - 1]
    BY <1>2
  <2>2. SubSeq(j, 1, i - 1) # <<>>
    <3>1. Len(<<>>) = 0 /\ i - 1 # 0
      BY <1>2
    <3> QED BY <2>1, <3>1
  <2> QED BY <1>2, <2>1, <2>2 DEF Cursor
<1> QED BY <1>1, <1>2

\* What commitObservationBatch checks is what every later reader checks.
LEMMA AppendWellformed ==
  ASSUME NEW j \in Seq(Commit), NEW p \in Writers, Wellformed(j), Follows(j, p)
  PROVE  /\ Append(j, CommitOf(p)) \in Seq(Commit)
         /\ Wellformed(Append(j, CommitOf(p)))
<1> DEFINE c == CommitOf(p)
           k == Append(j, c)
<1>1. c \in Commit
  BY DEF CommitOf, Commit
<1>2. /\ k \in Seq(Commit) /\ Len(k) = Len(j) + 1 /\ k[Len(j) + 1] = c
      /\ \A i \in 1..Len(j) : k[i] = j[i]
      /\ DOMAIN k = 1..(Len(j) + 1) /\ DOMAIN j = 1..Len(j)
  BY <1>1
<1>3. c.from = Cursor(j) /\ c.env \in ValidEnv /\ \A i \in 1..Len(j) : j[i].op # c.op
  BY <1>2 DEF Follows, CommitOf
<1> HIDE DEF c, k
<1>4. Cursor(j) = IF Len(j) = 0 THEN 0 ELSE j[Len(j)].to
  BY DEF Cursor
<1>5. ASSUME NEW i \in DOMAIN k
      PROVE  k[i].from = Cursor(SubSeq(k, 1, i - 1))
  <2>1. Cursor(SubSeq(k, 1, i - 1)) = IF i = 1 THEN 0 ELSE k[i - 1].to
    BY <1>2, CursorBefore
  <2>2. CASE i = Len(j) + 1
    <3>1. k[i].from = Cursor(j)
      BY <1>2, <1>3, <2>2
    <3>2. CASE Len(j) = 0
      BY <1>4, <2>1, <2>2, <3>1, <3>2
    <3>3. CASE Len(j) # 0
      <4>1. i # 1 /\ i - 1 = Len(j) /\ Len(j) \in 1..Len(j)
        BY <2>2, <3>3
      <4>2. k[i - 1] = j[Len(j)]
        BY <1>2, <4>1
      <4> QED BY <1>4, <2>1, <3>1, <3>3, <4>1, <4>2
    <3> QED BY <3>2, <3>3
  <2>3. CASE i \in 1..Len(j)
    <3>1. j[i].from = Cursor(SubSeq(j, 1, i - 1))
      BY <1>2, <2>3 DEF Wellformed
    <3>2. Cursor(SubSeq(j, 1, i - 1)) = IF i = 1 THEN 0 ELSE j[i - 1].to
      BY <2>3, CursorBefore
    <3> QED BY <1>2, <2>1, <2>3, <3>1, <3>2
  <2> QED BY <1>2, <2>2, <2>3
<1>6. ASSUME NEW i \in DOMAIN k, NEW m \in DOMAIN k, k[i].op = k[m].op
      PROVE  i = m
  <2>1. \A a, b \in 1..Len(j) : j[a].op = j[b].op => a = b
    BY <1>2 DEF Wellformed
  <2>2. CASE i \in 1..Len(j) /\ m \in 1..Len(j)
    BY <1>2, <1>6, <2>1, <2>2
  <2>3. CASE i \in 1..Len(j) /\ m = Len(j) + 1
    BY <1>2, <1>3, <1>6, <2>3
  <2>4. CASE i = Len(j) + 1 /\ m \in 1..Len(j)
    BY <1>2, <1>3, <1>6, <2>4
  <2>5. (i \in 1..Len(j) \/ i = Len(j) + 1) /\ (m \in 1..Len(j) \/ m = Len(j) + 1)
    BY <1>2
  <2> QED BY <2>2, <2>3, <2>4, <2>5
<1>7. ASSUME NEW i \in DOMAIN k
      PROVE  k[i].env \in ValidEnv
  <2>1. CASE i \in 1..Len(j)
    <3>1. j[i].env \in ValidEnv
      BY <1>2, <2>1 DEF Wellformed
    <3> QED BY <1>2, <2>1, <3>1
  <2>2. CASE i = Len(j) + 1
    BY <1>2, <1>3, <2>2
  <2> QED BY <1>2, <2>1, <2>2
<1> QED BY <1>2, <1>5, <1>6, <1>7 DEF Wellformed, c, k

-----------------------------------------------------------------------------
(* One lemma per kind of step. *)

LEMMA WriterTypes ==
  ASSUME TypeOK
  PROVE  /\ \A p \in Writers : w[p] \in WriterState
         /\ DOMAIN w = Writers
         /\ Fresh \in WriterState /\ Fresh.step = "idle" /\ Fresh.result = "none"
BY DEF TypeOK, WriterState, Fresh, Writer, Steps, Results

\* A step of p that leaves the journal, the lock and the list of processes alone.
LEMMA OwnStepKeeps ==
  ASSUME Inv, NEW p \in alive, NEW x \in WriterState,
         w' = [w EXCEPT ![p] = x], UNCHANGED <<journal, lock, alive, stolen>>,
         x.step \in {"own", "rmdir"} /\ ~stolen => Owns(p, NoOne),
         x.step \in {"read", "replace", "unlink"} /\ ~stolen => Owns(p, p),
         x.step = "replace" => x.current = journal /\ Follows(journal, p),
         x.result = "ok" /\ ~stolen => \E i \in DOMAIN journal : journal[i] = CommitOf(p)
  PROVE  Inv'
<1> USE DEF Inv
<1>1. p \in Writers /\ w \in [Writers -> WriterState] /\ w' \in [Writers -> WriterState]
  BY DEF TypeOK, WriterState
<1>2. TypeOK'
  BY <1>1 DEF TypeOK, WriterState
<1>3. CheckedCurrent'
  BY <1>1 DEF CheckedCurrent, TypeOK
<1>4. HoldsLock'
  BY <1>1 DEF HoldsLock, Owns
<1>5. SuccessKept'
  BY <1>1 DEF SuccessKept, CommitOf
<1>6. NoLostUpdate'
  BY <1>1 DEF NoLostUpdate, At
<1> QED BY <1>2, <1>3, <1>4, <1>5, <1>6

\* A step that changes the lock directory and moves p on, when no other live writer
\* holds it or it is counted as stolen.
LEMMA LockStepKeeps ==
  ASSUME Inv, NEW p \in alive, NEW x \in WriterState,
         w' = [w EXCEPT ![p] = x], UNCHANGED <<journal, alive>>,
         lock' \in [held : BOOLEAN, maker : Writers \cup {NoOne},
                    owner : Writers \cup {NoOne}, old : BOOLEAN],
         stolen' \in BOOLEAN, stolen => stolen',
         ~stolen' => \A q \in alive \ {p} : ~(lock.held /\ lock.maker = q),
         x.step \in {"own", "rmdir"} /\ ~stolen' => Owns(p, NoOne)',
         x.step \in {"read", "unlink"} /\ ~stolen' => Owns(p, p)',
         x.step # "replace",
         x.result = "ok" => w[p].result = "ok"
  PROVE  Inv'
<1> USE DEF Inv
<1>1. p \in Writers /\ w \in [Writers -> WriterState] /\ w' \in [Writers -> WriterState]
  BY DEF TypeOK, WriterState
<1>2. TypeOK'
  BY <1>1 DEF TypeOK, WriterState
<1>3. CheckedCurrent'
  BY <1>1 DEF CheckedCurrent
<1>4. HoldsLock'
  BY <1>1 DEF HoldsLock, Owns
<1>5. SuccessKept'
  BY <1>1 DEF SuccessKept, CommitOf
<1>6. NoLostUpdate'
  BY <1>1 DEF NoLostUpdate, At
<1> QED BY <1>2, <1>3, <1>4, <1>5, <1>6

LEMMA StartKeeps ==
  ASSUME Inv, NEW p \in Writers, StartCommit(p)
  PROVE  Inv'
<1> DEFINE x == [w[p] EXCEPT !.step = "mkdir"]
<1>1. w[p] \in WriterState /\ w[p].step = "idle" /\ p \in alive
  BY WriterTypes DEF Inv, StartCommit, At
<1>3. x \in WriterState /\ x.step = "mkdir" /\ x.result = w[p].result
  BY <1>1 DEF WriterState, Steps
<1>4. w' = [w EXCEPT ![p] = x] /\ UNCHANGED <<journal, lock, alive, stolen>>
  BY DEF StartCommit, Goto
<1>5. x.result = "ok" /\ ~stolen => \E i \in DOMAIN journal : journal[i] = CommitOf(p)
  BY <1>3 DEF Inv, SuccessKept
<1> HIDE DEF x
<1> QED BY <1>1, <1>3, <1>4, <1>5, OwnStepKeeps

\* Goto and Throw as assignments of a new writer state.
LEMMA Moves ==
  ASSUME TypeOK, NEW p \in Writers, NEW s \in Steps
  PROVE  /\ [w[p] EXCEPT !.step = s] \in WriterState
         /\ [w[p] EXCEPT !.step = s].step = s
         /\ [w[p] EXCEPT !.step = s].result = w[p].result
         /\ Goto(p, s) => w' = [w EXCEPT ![p] = [w[p] EXCEPT !.step = s]]
<1>1. w[p] \in WriterState
  BY WriterTypes
<1>2. /\ [w[p] EXCEPT !.step = s] \in WriterState
      /\ [w[p] EXCEPT !.step = s].step = s
      /\ [w[p] EXCEPT !.step = s].result = w[p].result
  BY <1>1 DEF WriterState
<1> QED BY <1>2 DEF Goto

LEMMA NewWriter ==
  ASSUME NEW s \in Steps, NEW c \in Seq(Commit), NEW r \in Results
  PROVE  /\ Writer(s, c, r) \in WriterState
         /\ Writer(s, c, r).step = s
         /\ Writer(s, c, r).current = c
         /\ Writer(s, c, r).result = r
BY DEF Writer, WriterState

LEMMA NewEmptyWriter ==
  ASSUME NEW s \in Steps, NEW r \in Results
  PROVE  /\ Writer(s, <<>>, r) \in WriterState
         /\ Writer(s, <<>>, r).step = s
         /\ Writer(s, <<>>, r).result = r
<1>1. <<>> \in Seq(Commit)
  OBVIOUS
<1> QED BY <1>1 DEF Writer, WriterState

LEMMA Thrown ==
  ASSUME NEW p \in Writers, Throw(p)
  PROVE  \E x \in WriterState :
           w' = [w EXCEPT ![p] = x] /\ x.step = "done" /\ x.result = "error"
<1>1. "done" \in Steps /\ "error" \in Results
  BY DEF Steps, Results
<1> DEFINE y == Writer("done", <<>>, "error")
<1>2. y \in WriterState /\ y.step = "done" /\ y.result = "error"
  BY <1>1, NewEmptyWriter
<1>3. w' = [w EXCEPT ![p] = y]
  BY DEF Throw
<1> HIDE DEF y
<1> QED BY <1>2, <1>3

LEMMA Moved ==
  ASSUME TypeOK, NEW p \in Writers, NEW s \in Steps, Goto(p, s)
  PROVE  \E x \in WriterState :
           w' = [w EXCEPT ![p] = x] /\ x.step = s /\ x.result = w[p].result
<1> DEFINE y == [w[p] EXCEPT !.step = s]
<1>1. y \in WriterState /\ y.step = s /\ y.result = w[p].result /\ w' = [w EXCEPT ![p] = y]
  BY Moves
<1> HIDE DEF y
<1> QED BY <1>1

LEMMA LockTypes ==
  ASSUME TypeOK
  PROVE  /\ lock.held \in BOOLEAN /\ lock.maker \in Writers \cup {NoOne}
         /\ lock.owner \in Writers \cup {NoOne} /\ lock.old \in BOOLEAN
         /\ Unlocked \in [held : BOOLEAN, maker : Writers \cup {NoOne},
                          owner : Writers \cup {NoOne}, old : BOOLEAN]
         /\ ~Unlocked.held
         /\ alive \subseteq Writers /\ stolen \in BOOLEAN
BY DEF TypeOK, Unlocked

LEMMA MakeLockKeeps ==
  ASSUME Inv, NEW p \in Writers, MakeLock(p)
  PROVE  Inv'
<1>1. TypeOK /\ p \in alive /\ w[p].step = "mkdir" /\ UNCHANGED <<journal, alive, stolen>>
  BY DEF Inv, MakeLock, At
<1>2. w[p].result = "ok" /\ ~stolen => \E i \in DOMAIN journal : journal[i] = CommitOf(p)
  BY DEF Inv, SuccessKept
<1>3. CASE lock.held
  <2>1. Goto(p, "check") /\ UNCHANGED lock
    BY <1>3 DEF MakeLock
  <2>2. "check" \in Steps
    BY DEF Steps
  <2> DEFINE x == [w[p] EXCEPT !.step = "check"]
  <2>3. x \in WriterState /\ x.step = "check" /\ x.result = w[p].result
        /\ w' = [w EXCEPT ![p] = x]
    BY <1>1, <2>1, <2>2, Moves
  <2> HIDE DEF x
  <2> QED BY <1>1, <1>2, <2>1, <2>3, OwnStepKeeps
<1>4. CASE ~lock.held
  <2>1. /\ Goto(p, "own")
        /\ lock' = [held |-> TRUE, maker |-> p, owner |-> NoOne, old |-> FALSE]
    BY <1>4 DEF MakeLock
  <2>2. "own" \in Steps
    BY DEF Steps
  <2> DEFINE x == [w[p] EXCEPT !.step = "own"]
  <2>3. x \in WriterState /\ x.step = "own" /\ x.result = w[p].result
        /\ w' = [w EXCEPT ![p] = x]
    BY <1>1, <2>1, <2>2, Moves
  <2>4. Owns(p, NoOne)'
    BY <2>1 DEF Owns
  <2>5. lock' \in [held : BOOLEAN, maker : Writers \cup {NoOne},
                   owner : Writers \cup {NoOne}, old : BOOLEAN]
    BY <2>1
  <2>6. stolen' \in BOOLEAN
    BY <1>1, LockTypes
  <2> HIDE DEF x
  <2> QED BY <1>1, <1>4, <2>3, <2>4, <2>5, <2>6, LockStepKeeps
<1> QED BY <1>3, <1>4

\* A writer that is taking, using or releasing the lock is the maker of it.
LEMMA Exclusive ==
  ASSUME Inv, ~stolen, NEW p \in alive,
         w[p].step \in {"own", "read", "replace", "unlink", "rmdir"}
  PROVE  /\ lock.held /\ lock.maker = p
         /\ \A q \in alive : q # p =>
              w[q].step \notin {"own", "read", "replace", "unlink", "rmdir"}
BY DEF Inv, HoldsLock, Owns

LEMMA WriteOwnerKeeps ==
  ASSUME Inv, NEW p \in Writers, WriteOwner(p)
  PROVE  Inv'
<1>1. /\ TypeOK /\ p \in alive /\ w[p].step = "own"
      /\ lock.held /\ lock.owner = NoOne
      /\ lock' = [lock EXCEPT !.owner = p, !.old = FALSE] /\ Goto(p, "read")
      /\ UNCHANGED <<journal, alive, stolen>>
  BY DEF Inv, WriteOwner, At
<1>2. "read" \in Steps
  BY DEF Steps
<1> DEFINE x == [w[p] EXCEPT !.step = "read"]
<1>3. x \in WriterState /\ x.step = "read" /\ x.result = w[p].result
      /\ w' = [w EXCEPT ![p] = x]
  BY <1>1, <1>2, Moves
<1>4. ~stolen => lock.maker = p
  BY <1>1, Exclusive
<1>5. /\ lock' \in [held : BOOLEAN, maker : Writers \cup {NoOne},
                    owner : Writers \cup {NoOne}, old : BOOLEAN]
      /\ lock'.held /\ lock'.maker = lock.maker /\ lock'.owner = p
  BY <1>1 DEF TypeOK
<1>6. ~stolen' => Owns(p, p)'
  BY <1>1, <1>4, <1>5 DEF Owns
<1>7. stolen' \in BOOLEAN
  BY <1>1, LockTypes
<1> HIDE DEF x
<1> QED BY <1>1, <1>3, <1>4, <1>5, <1>6, <1>7, LockStepKeeps

\* Removing the lock is counted when it takes it from another live writer.
LEMMA RemoveCounts ==
  ASSUME TypeOK, NEW p \in Writers, Remove(p)
  PROVE  /\ lock' \in [held : BOOLEAN, maker : Writers \cup {NoOne},
                       owner : Writers \cup {NoOne}, old : BOOLEAN]
         /\ stolen' \in BOOLEAN /\ (stolen => stolen')
         /\ ~stolen' => \A q \in alive \ {p} : ~(lock.held /\ lock.maker = q)
BY LockTypes DEF Remove

LEMMA OwnerFailsKeeps ==
  ASSUME Inv, NEW p \in Writers, OwnerFails(p)
  PROVE  Inv'
<1>1. TypeOK /\ p \in alive /\ Remove(p) /\ UNCHANGED <<journal, alive>>
  BY DEF Inv, OwnerFails, At
<1>2. "check" \in Steps
  BY DEF Steps
<1>3. PICK x \in WriterState :
        /\ w' = [w EXCEPT ![p] = x] /\ x.step \in {"check", "done"}
        /\ x.result = "ok" => w[p].result = "ok"
  <2>1. CASE Goto(p, "check")
    BY <1>1, <1>2, <2>1, Moved
  <2>2. CASE Throw(p)
    BY <2>2, Thrown
  <2> QED BY <2>1, <2>2 DEF OwnerFails
<1> QED BY <1>1, <1>3, RemoveCounts, LockStepKeeps

LEMMA CheckLockKeeps ==
  ASSUME Inv, NEW p \in Writers, CheckLock(p)
  PROVE  Inv'
<1>1. TypeOK /\ p \in alive /\ UNCHANGED <<journal, lock, alive, stolen>>
  BY DEF Inv, CheckLock, At
<1>2. "reclaim" \in Steps
  BY DEF Steps
<1>3. PICK x \in WriterState :
        /\ w' = [w EXCEPT ![p] = x] /\ x.step \in {"reclaim", "done"}
        /\ x.result = "ok" => w[p].result = "ok"
  <2>1. CASE Goto(p, "reclaim")
    BY <1>1, <1>2, <2>1, Moved
  <2>2. CASE Throw(p)
    BY <2>2, Thrown
  <2> QED BY <2>1, <2>2 DEF CheckLock
<1>4. x.result = "ok" /\ ~stolen => \E i \in DOMAIN journal : journal[i] = CommitOf(p)
  BY <1>3 DEF Inv, SuccessKept
<1> QED BY <1>1, <1>3, <1>4, OwnStepKeeps

LEMMA ReclaimLockKeeps ==
  ASSUME Inv, NEW p \in Writers, ReclaimLock(p)
  PROVE  Inv'
<1>1. TypeOK /\ p \in alive /\ Remove(p) /\ UNCHANGED <<journal, alive>>
  BY DEF Inv, ReclaimLock, At
<1> DEFINE again == [w[p] EXCEPT !.step = "mkdir", !.attempt = 1]
<1>2. again \in WriterState /\ again.step = "mkdir" /\ again.result = w[p].result
  <2>1. w[p] \in WriterState
    BY <1>1, WriterTypes
  <2>2. "mkdir" \in Steps /\ 1 \in 0..1
    BY DEF Steps
  <2> QED BY <2>1, <2>2 DEF WriterState
<1>3. w[p].attempt = 0 => w' = [w EXCEPT ![p] = again]
  BY DEF ReclaimLock
<1>4. w[p].attempt # 0 => Throw(p)
  BY DEF ReclaimLock
<1> HIDE DEF again
<1>5. PICK x \in WriterState :
        /\ w' = [w EXCEPT ![p] = x] /\ x.step \in {"mkdir", "done"}
        /\ x.result = "ok" => w[p].result = "ok"
  BY <1>1, <1>2, <1>3, <1>4, Thrown
<1> QED BY <1>1, <1>5, RemoveCounts, LockStepKeeps

\* The checks of commitObservationBatch let through what may follow the journal.
LEMMA DecisionFollows ==
  ASSUME NEW p \in Writers
  PROVE  /\ Decision(p) = "commit" => Follows(journal, p)
         /\ Decision(p) = "ok" => \E i \in DOMAIN journal : journal[i] = CommitOf(p)
         /\ Decision(p) \in {"commit", "ok", "error"}
BY DEF Decision, Follows

LEMMA Finished ==
  ASSUME NEW p \in Writers, NEW r \in Results, Finish(p, r)
  PROVE  \E x \in WriterState :
           w' = [w EXCEPT ![p] = x] /\ x.step = "unlink" /\ x.result = r
<1>1. "unlink" \in Steps
  BY DEF Steps
<1> DEFINE y == Writer("unlink", <<>>, r)
<1>2. y \in WriterState /\ y.step = "unlink" /\ y.result = r
  BY <1>1, NewEmptyWriter
<1>3. w' = [w EXCEPT ![p] = y]
  BY DEF Finish
<1> HIDE DEF y
<1> QED BY <1>2, <1>3

LEMMA ReadJournalKeeps ==
  ASSUME Inv, NEW p \in Writers, ReadJournal(p)
  PROVE  Inv'
<1>1. /\ TypeOK /\ p \in alive /\ w[p].step = "read"
      /\ UNCHANGED <<journal, lock, alive, stolen>> /\ journal \in Seq(Commit)
  BY DEF Inv, TypeOK, ReadJournal, At
<1>2. ~stolen => Owns(p, p)
  BY <1>1 DEF Inv, HoldsLock
<1>3. CASE /\ Decision(p) = "commit"
           /\ w' = [w EXCEPT ![p] = Writer("replace", journal, "none")]
  <2> DEFINE x == Writer("replace", journal, "none")
  <2>1. "replace" \in Steps /\ "none" \in Results
    BY DEF Steps, Results
  <2>2. x \in WriterState /\ x.step = "replace" /\ x.current = journal /\ x.result = "none"
    BY <1>1, <2>1, NewWriter
  <2>3. Follows(journal, p)
    BY <1>3, DecisionFollows
  <2>4. w' = [w EXCEPT ![p] = x]
    BY <1>3
  <2> HIDE DEF x
  <2> QED BY <1>1, <1>2, <2>2, <2>3, <2>4, OwnStepKeeps
<1>4. ASSUME NEW r \in {"ok", "error"}, Finish(p, r),
             r = "ok" => \E i \in DOMAIN journal : journal[i] = CommitOf(p)
      PROVE  Inv'
  <2>1. PICK x \in WriterState :
          w' = [w EXCEPT ![p] = x] /\ x.step = "unlink" /\ x.result = r
    BY <1>4, Finished DEF Results
  <2> QED BY <1>1, <1>2, <1>4, <2>1, OwnStepKeeps
<1>5. CASE Decision(p) # "commit" /\ Finish(p, Decision(p))
  BY <1>4, <1>5, DecisionFollows
<1>6. CASE Finish(p, "error")
  BY <1>4, <1>6
<1> QED BY <1>3, <1>5, <1>6 DEF ReadJournal

\* A replacement of the journal by p, which is the only writer that has read it.
LEMMA ReplaceKeeps ==
  ASSUME Inv, NEW p \in alive, w[p].step = "replace",
         journal' = Append(w[p].current, CommitOf(p)),
         NEW r \in Results, Finish(p, r), UNCHANGED <<lock, alive, stolen>>
  PROVE  Inv'
<1>1. PICK x \in WriterState :
        w' = [w EXCEPT ![p] = x] /\ x.step = "unlink" /\ x.result = r
  BY Finished DEF Inv, TypeOK
<1>2. /\ p \in Writers /\ w \in [Writers -> WriterState] /\ w' \in [Writers -> WriterState]
      /\ w'[p] = x /\ \A q \in Writers : q # p => w'[q] = w[q]
      /\ w[p].current \in Seq(Commit) /\ journal \in Seq(Commit) /\ alive \subseteq Writers
  BY <1>1 DEF Inv, TypeOK, WriterState
<1>3. journal' \in Seq(Commit) /\ Wellformed(journal')
  BY <1>2, AppendWellformed DEF Inv, CheckedCurrent
<1>4. TypeOK'
  <2>1. Wellformed(journal)'
    BY <1>3 DEF Wellformed, Cursor
  <2> QED BY <1>2, <1>3, <2>1 DEF Inv, TypeOK, WriterState
<1>5. CheckedCurrent'
  BY <1>1, <1>2 DEF Inv, CheckedCurrent
<1>6. HoldsLock'
  BY <1>1, <1>2 DEF Inv, HoldsLock, Owns
<1>7. ASSUME ~stolen
      PROVE  /\ w[p].current = journal
             /\ \A q \in alive : q # p => w[q].step # "replace"
  BY <1>2, <1>7, Exclusive DEF Inv, NoLostUpdate, At
<1>8. CommitOf(p) \in Commit
  BY <1>2 DEF CommitOf, Commit
<1>9. ASSUME ~stolen, NEW c, \E i \in DOMAIN journal : journal[i] = c
      PROVE  \E i \in DOMAIN journal' : journal'[i] = c
  BY <1>2, <1>7, <1>8, <1>9
<1>10. \E i \in DOMAIN journal' : journal'[i] = CommitOf(p)
  <2>1. /\ journal'[Len(w[p].current) + 1] = CommitOf(p)
        /\ Len(w[p].current) + 1 \in DOMAIN journal'
    BY <1>2, <1>8
  <2> QED BY <2>1
<1>11. SuccessKept'
  <2>1. SUFFICES ASSUME ~stolen, NEW q \in Writers, w'[q].result = "ok"
                 PROVE  \E i \in DOMAIN journal' : journal'[i] = CommitOf(q)
    BY DEF SuccessKept, CommitOf
  <2>2. CASE q = p
    BY <1>10, <2>2
  <2>3. CASE q # p
    <3>1. \E i \in DOMAIN journal : journal[i] = CommitOf(q)
      BY <1>2, <2>1, <2>3 DEF Inv, SuccessKept
    <3> QED BY <1>9, <2>1, <3>1
  <2> QED BY <2>2, <2>3
<1>12. NoLostUpdate'
  BY <1>1, <1>2, <1>7 DEF NoLostUpdate, At
<1> QED BY <1>4, <1>5, <1>6, <1>11, <1>12 DEF Inv

LEMMA ReplaceStateKeeps ==
  ASSUME Inv, NEW p \in Writers, ReplaceState(p)
  PROVE  Inv'
<1>1. "ok" \in Results
  BY DEF Results
<1> QED BY <1>1, ReplaceKeeps DEF ReplaceState, At

LEMMA ReplaceFailsKeeps ==
  ASSUME Inv, NEW p \in Writers, ReplaceFails(p)
  PROVE  Inv'
<1>1. "error" \in Results /\ p \in alive /\ w[p].step = "replace" /\ Finish(p, "error")
      /\ UNCHANGED <<lock, alive, stolen>>
  BY DEF Results, ReplaceFails, At
<1>2. CASE journal' = Append(w[p].current, CommitOf(p))
  BY <1>1, <1>2, ReplaceKeeps
<1>3. CASE journal' = journal
  <2>1. PICK x \in WriterState :
          w' = [w EXCEPT ![p] = x] /\ x.step = "unlink" /\ x.result = "error"
    BY <1>1, Finished
  <2>2. ~stolen => Owns(p, p)
    BY <1>1 DEF Inv, HoldsLock
  <2> QED BY <1>1, <1>3, <2>1, <2>2, OwnStepKeeps
<1> QED BY <1>2, <1>3 DEF ReplaceFails

LEMMA ReleaseUnlinkKeeps ==
  ASSUME Inv, NEW p \in Writers, ReleaseUnlink(p)
  PROVE  Inv'
<1>1. /\ TypeOK /\ p \in alive /\ w[p].step = "unlink"
      /\ UNCHANGED <<journal, alive, stolen>>
  BY DEF Inv, ReleaseUnlink, At
<1>2. "rmdir" \in Steps /\ "done" \in Steps
  BY DEF Steps
<1>3. w[p].result = "ok" /\ ~stolen => \E i \in DOMAIN journal : journal[i] = CommitOf(p)
  BY DEF Inv, SuccessKept
<1>4. CASE lock.held /\ lock.owner = p
  <2>1. lock' = [lock EXCEPT !.owner = NoOne, !.old = FALSE] /\ Goto(p, "rmdir")
    BY <1>4 DEF ReleaseUnlink
  <2>2. PICK x \in WriterState :
          w' = [w EXCEPT ![p] = x] /\ x.step = "rmdir" /\ x.result = w[p].result
    BY <1>1, <1>2, <2>1, Moved
  <2>3. /\ lock' \in [held : BOOLEAN, maker : Writers \cup {NoOne},
                      owner : Writers \cup {NoOne}, old : BOOLEAN]
        /\ lock'.held /\ lock'.maker = lock.maker /\ lock'.owner = NoOne
    BY <1>1, <1>4, <2>1 DEF TypeOK
  <2>4. ~stolen => lock.maker = p
    BY <1>1, Exclusive
  <2>5. ~stolen' => Owns(p, NoOne)'
    BY <1>1, <2>3, <2>4 DEF Owns
  <2>6. stolen' \in BOOLEAN
    BY <1>1, LockTypes
  <2> QED BY <1>1, <2>2, <2>3, <2>4, <2>5, <2>6, LockStepKeeps
<1>5. CASE ~(lock.held /\ lock.owner = p)
  <2>1. Goto(p, "done") /\ UNCHANGED lock
    BY <1>5 DEF ReleaseUnlink
  <2>2. PICK x \in WriterState :
          w' = [w EXCEPT ![p] = x] /\ x.step = "done" /\ x.result = w[p].result
    BY <1>1, <1>2, <2>1, Moved
  <2> QED BY <1>1, <1>3, <2>1, <2>2, OwnStepKeeps
<1> QED BY <1>4, <1>5

LEMMA ReleaseRmdirKeeps ==
  ASSUME Inv, NEW p \in Writers, ReleaseRmdir(p)
  PROVE  Inv'
<1>1. /\ TypeOK /\ p \in alive /\ Goto(p, "done") /\ "done" \in Steps
      /\ UNCHANGED <<journal, alive>>
  BY DEF Inv, ReleaseRmdir, At, Steps
<1>2. w[p].result = "ok" /\ ~stolen => \E i \in DOMAIN journal : journal[i] = CommitOf(p)
  BY DEF Inv, SuccessKept
<1>3. PICK x \in WriterState :
        w' = [w EXCEPT ![p] = x] /\ x.step = "done" /\ x.result = w[p].result
  BY <1>1, Moved
<1>4. CASE Remove(p)
  BY <1>1, <1>3, <1>4, RemoveCounts, LockStepKeeps
<1>5. CASE UNCHANGED <<lock, stolen>>
  BY <1>1, <1>2, <1>3, <1>5, OwnStepKeeps
<1> QED BY <1>4, <1>5 DEF ReleaseRmdir

LEMMA CrashKeeps ==
  ASSUME Inv, NEW p \in Writers, Crash(p)
  PROVE  Inv'
<1>1. /\ w \in [Writers -> WriterState] /\ w' \in [Writers -> WriterState]
      /\ w'[p] = Fresh /\ Fresh.step = "idle" /\ Fresh.result = "none"
      /\ \A q \in Writers : q # p => w'[q] = w[q]
      /\ alive' = alive \ {p} /\ alive \subseteq Writers
      /\ UNCHANGED <<journal, lock, stolen>>
  BY WriterTypes DEF Inv, TypeOK, Crash, WriterState
<1>2. TypeOK'
  BY <1>1 DEF Inv, TypeOK, WriterState
<1>3. CheckedCurrent'
  BY <1>1 DEF Inv, CheckedCurrent
<1>4. HoldsLock'
  BY <1>1 DEF Inv, HoldsLock, Owns
<1>5. SuccessKept'
  BY <1>1 DEF Inv, SuccessKept, CommitOf
<1>6. NoLostUpdate'
  BY <1>1 DEF Inv, NoLostUpdate, At
<1> QED BY <1>2, <1>3, <1>4, <1>5, <1>6 DEF Inv

LEMMA LockAgesKeeps ==
  ASSUME Inv, LockAges
  PROVE  Inv'
<1>1. /\ lock' \in [held : BOOLEAN, maker : Writers \cup {NoOne},
                    owner : Writers \cup {NoOne}, old : BOOLEAN]
      /\ lock'.held = lock.held /\ lock'.maker = lock.maker /\ lock'.owner = lock.owner
      /\ UNCHANGED <<journal, w, alive, stolen>>
  BY DEF Inv, TypeOK, LockAges
<1>2. TypeOK'
  BY <1>1 DEF Inv, TypeOK
<1>3. HoldsLock'
  BY <1>1 DEF Inv, HoldsLock, Owns
<1> QED BY <1>1, <1>2, <1>3
        DEF Inv, CheckedCurrent, SuccessKept, NoLostUpdate, At, CommitOf

LEMMA StutterKeeps ==
  ASSUME Inv, UNCHANGED vars
  PROVE  Inv'
BY DEF vars, Inv, TypeOK, CheckedCurrent, HoldsLock, Owns, SuccessKept, NoLostUpdate, At

-----------------------------------------------------------------------------
(* The theorems. *)

LEMMA InitInv == Init => Inv
<1> SUFFICES ASSUME Init PROVE Inv
  OBVIOUS
<1>1. \A p \in Writers : w[p].step = "idle" /\ w[p].result = "none"
  BY DEF Init, Fresh, Writer
<1>2. TypeOK
  <2>1. w \in [Writers -> [step : Steps, attempt : 0..1, current : Seq(Commit),
                           result : Results]]
    BY DEF Init, Fresh, Writer, Steps, Results
  <2>2. Wellformed(journal) /\ journal \in Seq(Commit)
    BY DEF Init, Wellformed
  <2> QED BY <2>1, <2>2 DEF Init, TypeOK, Unlocked
<1> QED BY <1>1, <1>2
        DEF Init, Inv, CheckedCurrent, HoldsLock, SuccessKept, NoLostUpdate, At

LEMMA NextInv == Inv /\ [Next]_vars => Inv'
<1> SUFFICES ASSUME Inv, [Next]_vars PROVE Inv'
  OBVIOUS
<1>1. ASSUME NEW p \in Writers,
             \/ StartCommit(p) \/ MakeLock(p) \/ WriteOwner(p) \/ OwnerFails(p)
             \/ CheckLock(p) \/ ReclaimLock(p)
             \/ ReadJournal(p) \/ ReplaceState(p) \/ ReplaceFails(p)
             \/ ReleaseUnlink(p) \/ ReleaseRmdir(p) \/ Crash(p)
      PROVE  Inv'
  BY <1>1, StartKeeps, MakeLockKeeps, WriteOwnerKeeps, OwnerFailsKeeps,
     CheckLockKeeps, ReclaimLockKeeps, ReadJournalKeeps, ReplaceStateKeeps,
     ReplaceFailsKeeps, ReleaseUnlinkKeeps, ReleaseRmdirKeeps, CrashKeeps
<1> QED BY <1>1, LockAgesKeeps, StutterKeeps DEF Next

\* The lock protocol keeps the inductive invariant: what a writer has read and
\* checked, and whose the lock directory is while acquireLock, commitObservationBatch
\* and releaseLock are between their steps.
THEOREM Invariance == Spec => []Inv
BY InitInv, NextInv, PTL DEF Spec

\* The journal file is one verifyObservationJournalState accepts, whatever the
\* interleaving, the crashes and the takeovers, stolen locks included.
THEOREM TypeCorrect == Spec => []TypeOK
<1>1. Inv => TypeOK
  BY DEF Inv
<1> QED BY <1>1, Invariance, PTL

\* A commit that commitObservationBatch acknowledged is never lost from the journal,
\* unless a live writer's lock was removed.
THEOREM CommitsKept == Spec => []AcknowledgedKept
<1>1. Inv => AcknowledgedKept
  BY DEF Inv, SuccessKept, AcknowledgedKept, Kept, At
<1> QED BY <1>1, Invariance, PTL

\* acquireLock excludes: the journal that is replaced is the one that was read,
\* unless a live writer's lock was removed.
THEOREM Exclusion == Spec => []NoLostUpdate
<1>1. Inv => NoLostUpdate
  BY DEF Inv
<1> QED BY <1>1, Invariance, PTL
=============================================================================
