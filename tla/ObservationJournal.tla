-------------------------- MODULE ObservationJournal --------------------------
(***************************************************************************)
(* The observation journal of apps/operating-graph: commitObservationBatch *)
(* of observation-journal.ts, called by several processes on one path.  A  *)
(* lock directory beside the file excludes other writers; one whose owner  *)
(* has exited is removed and taken over.  The journal is one file that is  *)
(* replaced as a whole.                                                    *)
(*                                                                         *)
(* A writer is one call.  Cursors are numbers, the initial one 0; a batch  *)
(* is the pair of its expected and its proposed cursor, and an envelope is *)
(* a value that is valid for its batch or not.  A call and the process     *)
(* that makes it are one: a retry after a crash is another writer.         *)
(***************************************************************************)
EXTENDS Naturals, Sequences

CONSTANTS
  Writers,
  Operations, Envelopes,
  OpOf, FromOf, ToOf, EnvOf,  \* what each writer commits
  ValidEnv,                   \* envelopes that verify
  MaxCursor,                  \* bound: cursors of the source
  NoOne                       \* no process

ASSUME JournalAssumption ==
  /\ MaxCursor \in Nat
  /\ OpOf \in [Writers -> Operations] /\ EnvOf \in [Writers -> Envelopes]
  /\ FromOf \in [Writers -> 0..MaxCursor] /\ ToOf \in [Writers -> 0..MaxCursor]
  /\ ValidEnv \subseteq Envelopes
  /\ NoOne \notin Writers

VARIABLES
  journal,  \* the commits in the journal file
  lock,     \* the lock directory: whether it exists, who made it, the owner
            \* file in it (or NoOne), and whether it is older than 30 seconds
  w,        \* the writers
  alive,    \* writers whose process exists
  stolen    \* history: a lock of a live writer was removed by another one

vars == <<journal, lock, w, alive, stolen>>

Commit == [op : Operations, from : 0..MaxCursor, to : 0..MaxCursor, env : Envelopes]
Unlocked == [held |-> FALSE, maker |-> NoOne, owner |-> NoOne, old |-> FALSE]

\* mkdir, own: the two steps of taking the lock; check, reclaim: the lock exists;
\* read, replace: inside the lock; unlink, rmdir: the two steps of releasing it.
Steps == {"idle", "mkdir", "own", "check", "reclaim", "read", "replace",
          "unlink", "rmdir", "done"}
Results == {"none", "ok", "error"}

CommitOf(p) == [op |-> OpOf[p], from |-> FromOf[p], to |-> ToOf[p], env |-> EnvOf[p]]

Cursor(j) == IF j = <<>> THEN 0 ELSE j[Len(j)].to

\* verifyObservationJournalState: every reader accepts the file only when batches
\* follow one another, no operation is repeated and envelopes verify.
Wellformed(j) ==
  /\ \A i \in DOMAIN j : j[i].from = Cursor(SubSeq(j, 1, i - 1))
  /\ \A i, k \in DOMAIN j : j[i].op = j[k].op => i = k
  /\ \A i \in DOMAIN j : j[i].env \in ValidEnv

TypeOK ==
  /\ journal \in Seq(Commit) /\ Wellformed(journal)
  /\ lock \in [held : BOOLEAN, maker : Writers \cup {NoOne},
               owner : Writers \cup {NoOne}, old : BOOLEAN]
  /\ w \in [Writers -> [step : Steps, attempt : 0..1, current : Seq(Commit),
                        result : Results]]
  /\ alive \subseteq Writers
  /\ stolen \in BOOLEAN

Writer(step, current, result) ==
  [step |-> step, attempt |-> 0, current |-> current, result |-> result]
Fresh == Writer("idle", <<>>, "none")

Init ==
  /\ journal = <<>> /\ lock = Unlocked
  /\ w = [p \in Writers |-> Fresh]
  /\ alive = Writers
  /\ stolen = FALSE

-----------------------------------------------------------------------------
At(p, step) == p \in alive /\ w[p].step = step

Goto(p, step) == w' = [w EXCEPT ![p].step = step]
Throw(p) == w' = [w EXCEPT ![p] = Writer("done", <<>>, "error")]

\* A lock directory is removed by p, whoever made it.
Remove(p) ==
  /\ lock' = Unlocked
  /\ stolen' = (stolen \/ (lock.held /\ lock.maker \in alive \ {p}))

StartCommit(p) ==
  /\ At(p, "idle") /\ Goto(p, "mkdir")
  /\ UNCHANGED <<journal, lock, alive, stolen>>

-----------------------------------------------------------------------------
(* acquireLock *)

MakeLock(p) ==
  /\ At(p, "mkdir")
  /\ IF lock.held
       THEN Goto(p, "check") /\ UNCHANGED lock
       ELSE /\ Goto(p, "own")
            /\ lock' = [held |-> TRUE, maker |-> p, owner |-> NoOne, old |-> FALSE]
  /\ UNCHANGED <<journal, alive, stolen>>

\* owner.json is written exclusively into whatever directory is there now.
WriteOwner(p) ==
  /\ At(p, "own") /\ lock.held /\ lock.owner = NoOne
  /\ lock' = [lock EXCEPT !.owner = p, !.old = FALSE]
  /\ Goto(p, "read")
  /\ UNCHANGED <<journal, alive, stolen>>

\* The write fails: the directory is removed, and the call goes on only when another
\* owner.json was in the way.
OwnerFails(p) ==
  /\ At(p, "own")
  /\ Remove(p)
  /\ IF lock.held /\ lock.owner # NoOne THEN Goto(p, "check") ELSE Throw(p)
  /\ UNCHANGED <<journal, alive>>

\* reclaimableLock
Reclaimable ==
  /\ lock.held
  /\ IF lock.owner = NoOne THEN lock.old ELSE lock.owner \notin alive

\* Mutant of CheckLock: a call goes on although another one holds the lock.
CheckLockFailsOpen(p) ==
  /\ At(p, "check")
  /\ IF Reclaimable THEN Goto(p, "reclaim") ELSE Goto(p, "read")
  /\ UNCHANGED <<journal, lock, alive, stolen>>

CheckLock(p) ==
  /\ At(p, "check")
  /\ IF Reclaimable THEN Goto(p, "reclaim") ELSE Throw(p)
  /\ UNCHANGED <<journal, lock, alive, stolen>>

\* rm of the lock path, then the second and last attempt.
ReclaimLock(p) ==
  /\ At(p, "reclaim")
  /\ Remove(p)
  /\ IF w[p].attempt = 0
       THEN w' = [w EXCEPT ![p].step = "mkdir", ![p].attempt = 1]
       ELSE Throw(p)
  /\ UNCHANGED <<journal, alive>>

-----------------------------------------------------------------------------
(* The commit, and the release of the lock in its finally block. *)

Finish(p, result) ==
  w' = [w EXCEPT ![p] = Writer("unlink", <<>>, result)]

\* Mutant of Decision: the expected cursor is not compared.
DecisionAnyCursor(p) ==
  IF EnvOf[p] \notin ValidEnv THEN "error"
  ELSE IF \E i \in DOMAIN journal : journal[i].op = OpOf[p]
    THEN IF \E i \in DOMAIN journal : journal[i] = CommitOf(p) THEN "ok" ELSE "error"
  ELSE "commit"

\* Mutant of Decision: a committed operation is not compared with the batch.
DecisionAnyBatch(p) ==
  IF EnvOf[p] \notin ValidEnv THEN "error"
  ELSE IF \E i \in DOMAIN journal : journal[i].op = OpOf[p] THEN "ok"
  ELSE IF FromOf[p] = Cursor(journal) THEN "commit" ELSE "error"

\* What becomes of the call, given the journal it read.
Decision(p) ==
  IF EnvOf[p] \notin ValidEnv THEN "error"
  ELSE IF \E i \in DOMAIN journal : journal[i].op = OpOf[p]
    THEN IF \E i \in DOMAIN journal : journal[i] = CommitOf(p) THEN "ok" ELSE "error"
  ELSE IF FromOf[p] = Cursor(journal) THEN "commit" ELSE "error"

\* readObservationJournal and the checks; the file may be unreadable.
ReadJournal(p) ==
  /\ At(p, "read")
  /\ \/ /\ Decision(p) = "commit"
        /\ w' = [w EXCEPT ![p] = Writer("replace", journal, "none")]
     \/ Decision(p) # "commit" /\ Finish(p, Decision(p))
     \/ Finish(p, "error")
  /\ UNCHANGED <<journal, lock, alive, stolen>>

\* replaceState: a temporary file is written, synced and renamed over the journal.
ReplaceState(p) ==
  /\ At(p, "replace")
  /\ journal' = Append(w[p].current, CommitOf(p))
  /\ Finish(p, "ok")
  /\ UNCHANGED <<lock, alive, stolen>>

\* It throws before the rename, or after it when the directory cannot be synced.
ReplaceFails(p) ==
  /\ At(p, "replace")
  /\ journal' \in {journal, Append(w[p].current, CommitOf(p))}
  /\ Finish(p, "error")
  /\ UNCHANGED <<lock, alive, stolen>>

\* releaseLock: only an owner.json with this call's token is removed ...
ReleaseUnlink(p) ==
  /\ At(p, "unlink")
  /\ IF lock.held /\ lock.owner = p
       THEN lock' = [lock EXCEPT !.owner = NoOne, !.old = FALSE] /\ Goto(p, "rmdir")
       ELSE Goto(p, "done") /\ UNCHANGED lock
  /\ UNCHANGED <<journal, alive, stolen>>

\* ... and then the directory that is there, if it is empty.
ReleaseRmdir(p) ==
  /\ At(p, "rmdir") /\ Goto(p, "done")
  /\ IF lock.held /\ lock.owner = NoOne
       THEN Remove(p) ELSE UNCHANGED <<lock, stolen>>
  /\ UNCHANGED <<journal, alive>>

-----------------------------------------------------------------------------
(* Processes die at any moment, and time passes. *)

Crash(p) ==
  /\ p \in alive /\ w[p].step # "done"
  /\ alive' = alive \ {p} /\ w' = [w EXCEPT ![p] = Fresh]
  /\ UNCHANGED <<journal, lock, stolen>>

LockAges ==
  /\ lock.held /\ ~lock.old
  /\ lock' = [lock EXCEPT !.old = TRUE]
  /\ UNCHANGED <<journal, w, alive, stolen>>

Next ==
  \/ \E p \in Writers :
       \/ StartCommit(p) \/ MakeLock(p) \/ WriteOwner(p) \/ OwnerFails(p)
       \/ CheckLock(p) \/ ReclaimLock(p)
       \/ ReadJournal(p) \/ ReplaceState(p) \/ ReplaceFails(p)
       \/ ReleaseUnlink(p) \/ ReleaseRmdir(p) \/ Crash(p)
  \/ LockAges

Spec == Init /\ [][Next]_vars

-----------------------------------------------------------------------------
(* Properties. *)

\* A call that was answered without an error has its commit in the journal file.
Kept(p) ==
  At(p, "done") /\ w[p].result = "ok" => \E i \in DOMAIN journal : journal[i] = CommitOf(p)

\* "The journal state ... is the authoritative acknowledgment of source bytes": an
\* acknowledged commit stays in the journal through retries, crashes of writers,
\* takeovers of their locks and failing replacements.  The one exception: a lock
\* that a live writer had taken was removed by another one, whose look at the lock
\* was out of date when it removed it.
AcknowledgedKept == ~stolen => \A p \in Writers : Kept(p)

\* acquireLock excludes writers, with the same exception: the journal read by one
\* is still the journal when it replaces it.
NoLostUpdate ==
  ~stolen => \A p \in Writers : At(p, "replace") => w[p].current = journal

-----------------------------------------------------------------------------
(* The inductive invariant. *)

\* The commit of p may follow the commits of j.
Follows(j, p) ==
  /\ FromOf[p] = Cursor(j) /\ EnvOf[p] \in ValidEnv
  /\ \A i \in DOMAIN j : j[i].op # OpOf[p]

\* A writer about to replace the journal has checked the one it read.
CheckedCurrent ==
  \A p \in Writers : w[p].step = "replace" =>
    Wellformed(w[p].current) /\ Follows(w[p].current, p)

\* Between taking and releasing the lock, the directory is the writer's own.
Owns(p, owner) == lock.held /\ lock.maker = p /\ lock.owner = owner

HoldsLock ==
  ~stolen => \A p \in alive :
    /\ w[p].step \in {"own", "rmdir"} => Owns(p, NoOne)
    /\ w[p].step \in {"read", "replace", "unlink"} => Owns(p, p)

\* A call whose answer will be a success has its commit in the journal.
SuccessKept ==
  ~stolen => \A p \in Writers : w[p].result = "ok" =>
    \E i \in DOMAIN journal : journal[i] = CommitOf(p)

Inv ==
  /\ TypeOK
  /\ CheckedCurrent /\ HoldsLock /\ SuccessKept /\ NoLostUpdate
=============================================================================
