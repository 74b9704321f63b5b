--------------------------- MODULE SubmissionQueue ---------------------------
(***************************************************************************)
(* Delivery of signed records from a producer process to the log:          *)
(* createSubmissionQueue of packages/mcp/src/submission.ts, with the       *)
(* hand-off to a local coordinator in front of it and the flush() of the   *)
(* server wrapper (packages/mcp/src/middleware.ts).                        *)
(*                                                                         *)
(* A record is dispatched to the coordinator when one is configured, and   *)
(* submitted to the queue when there is none or it does not commit.  Each  *)
(* submission is a task of its own (submitWithRetry); a flush() takes the  *)
(* running tasks out of a shared list to wait for them, then retries what  *)
(* is pending in tasks of its own.  Several flush() calls may overlap.     *)
(***************************************************************************)
EXTENDS Integers, Sequences, FiniteSets, SequencesExt

CONSTANTS
  Records,
  High,           \* the records submitted with priority "high"
  Flushes,        \* calls of flush()
  Submit,         \* names the task started by submit(); a retry task is
                  \* named by the flush that started it
  MaxRetries,     \* MAX_RETRIES
  MaxQueueDepth

ASSUME QueueAssumption ==
  /\ High \subseteq Records
  /\ Submit \notin Flushes
  /\ MaxRetries \in Nat \ {0}
  /\ MaxQueueDepth \in Nat \ {0}

VARIABLES
  coordinator,  \* options.localSubstrateCommit is set
  commits,      \* running coordinator attempts
  commitsListed,\* pendingLocalSubstrateCommits
  task,         \* submitWithRetry activations, by starter and record
  listed,       \* pendingPromises
  pending,      \* keys of pendingRecords, in insertion order
  proofs,       \* proofCache
  flush,        \* the flush() calls
  covers,       \* history: records dispatched before a flush() was called
  dispatched,   \* history: records the producer dispatched
  settled,      \* history: committed by the coordinator, accepted or rejected
  evicted       \* history: records lost to eviction

handoffVars == <<coordinator, commits, commitsListed>>
queueVars == <<task, listed, pending, proofs>>
historyVars == <<dispatched, settled, evicted>>
vars == <<handoffVars, queueVars, flush, covers, historyVars>>

Starters == {Submit} \cup Flushes
Tasks == Starters \X Records

TaskStages == {"none", "sending", "backoff", "archiving", "done"}
NoTask == [stage |-> "none", attempt |-> 0]
FlushStages == {"none", "commits", "drain", "retry", "done"}

TypeOK ==
  /\ coordinator \in BOOLEAN
  /\ commitsListed \subseteq commits /\ commits \subseteq Records
  /\ task \in [Tasks -> [stage : TaskStages, attempt : 0..(MaxRetries - 1)]]
  /\ listed \subseteq Records
  /\ pending \in Seq(Records) /\ IsInjective(pending) /\ Len(pending) <= MaxQueueDepth
  /\ proofs \subseteq Records
  /\ flush \in [Flushes -> [stage : FlushStages, awaiting : SUBSET Records]]
  /\ covers \in [Flushes -> SUBSET Records]
  /\ dispatched \subseteq Records /\ settled \subseteq Records
  /\ evicted \subseteq Records

Init ==
  /\ coordinator \in BOOLEAN
  /\ commits = {} /\ commitsListed = {}
  /\ task = [t \in Tasks |-> NoTask]
  /\ listed = {} /\ pending = <<>> /\ proofs = {}
  /\ flush = [f \in Flushes |-> [stage |-> "none", awaiting |-> {}]]
  /\ covers = [f \in Flushes |-> {}]
  /\ dispatched = {} /\ settled = {} /\ evicted = {}

-----------------------------------------------------------------------------
Running(t) == task[t].stage \in {"sending", "backoff", "archiving"}

Pending == Range(pending)

\* pendingRecords.delete: a key is there at most once.
Delete(q, r) == RemoveFirst(q, r)

\* evictOneOldest: the oldest normal entry, or the oldest when all are high.
Victim(q) ==
  LET normal == {i \in DOMAIN q : q[i] \notin High}
  IN  IF normal # {} THEN q[Min(normal)] ELSE q[1]

\* Mutant of Room: the cap is off by one.
RoomOffByOne(q) == IF Len(q) > MaxQueueDepth THEN Delete(q, Victim(q)) ELSE q

\* The eviction loop before the insert: pendingRecords never exceeds the cap, so
\* at most one entry leaves.
Room(q) == IF Len(q) >= MaxQueueDepth THEN Delete(q, Victim(q)) ELSE q

\* pendingRecords.set: a key that is present keeps its place.
Insert(q, r) == IF r \in Range(q) THEN q ELSE Append(q, r)

-----------------------------------------------------------------------------
(* dispatchLocalSubstrateCommit and submit. *)

\* submit: the task sends its first request before submit returns.
StartSubmit(r) ==
  /\ task' = [task EXCEPT ![<<Submit, r>>] = [stage |-> "sending", attempt |-> 0]]
  /\ listed' = listed \cup {r}

Dispatch(r) ==
  /\ r \notin dispatched
  /\ dispatched' = dispatched \cup {r}
  /\ IF coordinator
       THEN /\ commits' = commits \cup {r}
            /\ commitsListed' = commitsListed \cup {r}
            /\ UNCHANGED <<task, listed>>
       ELSE StartSubmit(r) /\ UNCHANGED <<commits, commitsListed>>
  /\ UNCHANGED <<coordinator, pending, proofs, flush, covers, settled, evicted>>

\* The coordinator's answer is accepted only with the expected record hash.
CommitAccepted(r) ==
  /\ r \in commits
  /\ commits' = commits \ {r}
  /\ commitsListed' = commitsListed \ {r}
  /\ settled' = settled \cup {r}
  /\ UNCHANGED <<coordinator, queueVars, flush, covers, dispatched, evicted>>

\* Mutant of CommitFallsBack: a mismatched answer counts as a commit.
CommitFallsBackDropped(r) ==
  /\ r \in commits
  /\ commits' = commits \ {r}
  /\ commitsListed' = commitsListed \ {r}
  /\ UNCHANGED <<coordinator, queueVars, flush, covers, historyVars>>

\* Rejection, timeout, another hash or an unexpected error: the local queue.
CommitFallsBack(r) ==
  /\ r \in commits
  /\ commits' = commits \ {r}
  /\ commitsListed' = commitsListed \ {r}
  /\ StartSubmit(r)
  /\ UNCHANGED <<coordinator, pending, proofs, flush, covers, historyVars>>

-----------------------------------------------------------------------------
(* submitWithRetry. *)

\* The promise of a submit() leaves the list by itself when it settles; a retry's
\* promise was never listed.
Settle(t) ==
  /\ task' = [task EXCEPT ![t].stage = "done"]
  /\ listed' = IF t[1] = Submit THEN listed \ {t[2]} ELSE listed

\* 2xx with a proof bundle of the right shape: cached, then the archive is tried.
Accepted(t) ==
  /\ task[t].stage = "sending"
  /\ settled' = settled \cup {t[2]}
  /\ proofs' = proofs \cup {t[2]}
  /\ task' = [task EXCEPT ![t].stage = "archiving"]
  /\ UNCHANGED <<handoffVars, listed, pending, flush, covers, dispatched, evicted>>

\* The archive answers, fails or is aborted by its timer: none of it matters.
Archived(t) ==
  /\ task[t].stage = "archiving"
  /\ pending' = Delete(pending, t[2])
  /\ Settle(t)
  /\ UNCHANGED <<handoffVars, proofs, flush, covers, historyVars>>

\* 2xx with something else, or 4xx: the task ends without a proof.
Refused(t) ==
  /\ task[t].stage = "sending"
  /\ settled' = settled \cup {t[2]}
  /\ pending' = Delete(pending, t[2])
  /\ Settle(t)
  /\ UNCHANGED <<handoffVars, proofs, flush, covers, dispatched, evicted>>

\* All retries failed: room is made, even when the record is pending already, and
\* the record is put in pendingRecords.
GiveUp(t) ==
  LET q == Insert(Room(pending), t[2]) IN
  /\ pending' = q
  /\ evicted' = (evicted \ {t[2]}) \cup (Pending \ Range(q))
  /\ Settle(t)

\* A network error, a 5xx or a body that is not JSON, whether or not the log took
\* the record.  The last attempt gives up in the same turn.
AttemptFails(t) ==
  /\ task[t].stage = "sending"
  /\ IF task[t].attempt = MaxRetries - 1
       THEN GiveUp(t)
       ELSE /\ task' = [task EXCEPT ![t].stage = "backoff"]
            /\ UNCHANGED <<listed, pending, evicted>>
  /\ UNCHANGED <<handoffVars, proofs, flush, covers, dispatched, settled>>

\* Mutant of BackoffOver: the attempts are not counted.
BackoffOverUncounted(t) ==
  /\ task[t].stage = "backoff"
  /\ task' = [task EXCEPT ![t].stage = "sending"]
  /\ UNCHANGED <<handoffVars, listed, pending, proofs, flush, covers, historyVars>>

\* The backoff timer fires: next attempt, or MAX_WINDOW_MS is over.
BackoffOver(t) ==
  /\ task[t].stage = "backoff"
  /\ \/ /\ task' = [task EXCEPT ![t] = [stage |-> "sending", attempt |-> @.attempt + 1]]
        /\ UNCHANGED <<listed, pending, evicted>>
     \/ GiveUp(t)
  /\ UNCHANGED <<handoffVars, proofs, flush, covers, dispatched, settled>>

-----------------------------------------------------------------------------
(* flush. *)

FlushTo(f, stage, awaiting) ==
  flush' = [flush EXCEPT ![f] = [stage |-> stage, awaiting |-> awaiting]]

\* The pending records are retried, high before normal: all requests start in this
\* turn, so the order is the order of the sends and not of the answers.
StartRetries(f) ==
  /\ task' = [t \in Tasks |-> IF t[1] = f /\ t[2] \in Pending
                                THEN [stage |-> "sending", attempt |-> 0] ELSE task[t]]
  /\ FlushTo(f, IF pending = <<>> THEN "done" ELSE "retry", Pending)

\* queue.flush: take every listed promise and wait for all; with none left, retry.
DrainQueue(f) ==
  /\ IF listed # {}
       THEN FlushTo(f, "drain", listed) /\ listed' = {} /\ UNCHANGED task
       ELSE StartRetries(f) /\ UNCHANGED listed
  /\ UNCHANGED commitsListed

\* The wrapper's flush: first the coordinator attempts, in the same manner.
DrainCommits(f) ==
  IF commitsListed # {}
    THEN /\ FlushTo(f, "commits", commitsListed)
         /\ commitsListed' = {}
         /\ UNCHANGED <<task, listed>>
    ELSE DrainQueue(f)

FlushStart(f) ==
  /\ flush[f].stage = "none"
  /\ covers' = [covers EXCEPT ![f] = dispatched]
  /\ DrainCommits(f)
  /\ UNCHANGED <<coordinator, commits, pending, proofs, historyVars>>

\* Mutant of Awaited: one settled promise is enough (Promise.race).
AwaitedAny(f) ==
  CASE flush[f].stage = "commits" -> ~(flush[f].awaiting \subseteq commits)
    [] flush[f].stage = "drain" -> \E r \in flush[f].awaiting : ~Running(<<Submit, r>>)
    [] flush[f].stage = "retry" -> \E r \in flush[f].awaiting : ~Running(<<f, r>>)
    [] OTHER -> FALSE

\* Promise.allSettled over what the flush took.
Awaited(f) ==
  CASE flush[f].stage = "commits" -> flush[f].awaiting \cap commits = {}
    [] flush[f].stage = "drain" -> \A r \in flush[f].awaiting : ~Running(<<Submit, r>>)
    [] flush[f].stage = "retry" -> \A r \in flush[f].awaiting : ~Running(<<f, r>>)
    [] OTHER -> FALSE

FlushResumes(f) ==
  /\ Awaited(f)
  /\ \/ flush[f].stage = "commits" /\ DrainCommits(f)
     \/ flush[f].stage = "drain" /\ DrainQueue(f)
     \/ /\ flush[f].stage = "retry"
        /\ FlushTo(f, "done", {})
        /\ UNCHANGED <<task, listed, commitsListed>>
  /\ UNCHANGED <<coordinator, commits, pending, proofs, covers, historyVars>>

-----------------------------------------------------------------------------
TaskStep(t) ==
  Accepted(t) \/ Archived(t) \/ Refused(t) \/ AttemptFails(t) \/ BackoffOver(t)

Next ==
  \/ \E r \in Records : Dispatch(r) \/ CommitAccepted(r) \/ CommitFallsBack(r)
  \/ \E t \in Tasks : TaskStep(t)
  \/ \E f \in Flushes : FlushStart(f) \/ FlushResumes(f)

Spec == Init /\ [][Next]_vars

\* Requests and timers of the client complete: fetch settles with an answer or an
\* error, and the coordinator attempt is bounded by its own timeout.
Fairness ==
  /\ \A r \in Records : WF_vars(CommitAccepted(r) \/ CommitFallsBack(r))
  /\ \A t \in Tasks : WF_vars(TaskStep(t))
  /\ \A f \in Flushes : WF_vars(FlushResumes(f))

FairSpec == Spec /\ Fairness

-----------------------------------------------------------------------------
(* Properties. *)

\* submission.ts keeps what it could not deliver: a dispatched record is on its
\* way (to the coordinator, or in some task), settled by an answer, pending for
\* the next flush, or was evicted at the cap and not put back since.
NoSilentLoss ==
  \A r \in dispatched :
    \/ r \in commits \cup settled \cup Pending \cup evicted
    \/ \E s \in Starters : Running(<<s, r>>)

\* "Flush all pending submissions (for testing/shutdown)": when a flush() returns,
\* what was dispatched before the call is settled or evicted or has had its retry,
\* unless another flush() that took its promise is still waiting for it.
FlushLeavesNothingBehind ==
  \A f \in Flushes : flush[f].stage = "done" =>
    \A r \in covers[f] :
      \/ r \in settled \cup evicted
      \/ \E g \in Flushes : task[<<g, r>>].stage # "none"
      \/ \E g \in Flushes \ {f} : flush[g].stage \in {"commits", "drain"}

\* A flush() returns: its loops end although tasks join and leave the shared lists
\* and other flushes take promises out of them.
FlushReturns ==
  \A f \in Flushes : flush[f].stage # "none" ~> flush[f].stage = "done"

-----------------------------------------------------------------------------
(* The inductive invariant. *)

Retried(r) == \E g \in Flushes : task[<<g, r>>].stage # "none"

Draining(f) == flush[f].stage \in {"commits", "drain"}

\* A record is handed over once: to the coordinator, then to the task of submit().
HandedOnce ==
  /\ commits \subseteq dispatched
  /\ \A r \in Records : task[<<Submit, r>>].stage # "none" => r \in dispatched \ commits

\* The archive is tried only for what the log accepted.
ArchivedSettled == \A t \in Tasks : task[t].stage = "archiving" => t[2] \in settled

\* A task waits for another attempt only when it has one left.
AttemptsLeft == \A t \in Tasks : task[t].stage = "backoff" => task[t].attempt < MaxRetries - 1

\* What is or was pending came from a task that gave up.
GivenUp ==
  \A r \in Pending \cup evicted : task[<<Submit, r>>].stage = "done" \/ Retried(r)

\* A promise that is not listed any more is one that some flush() waits for.
CommitsTaken ==
  \A r \in commits \ commitsListed :
    \E g \in Flushes : flush[g].stage = "commits" /\ r \in flush[g].awaiting

PromisesTaken ==
  \A r \in Records \ listed : Running(<<Submit, r>>) =>
    \E g \in Flushes : flush[g].stage = "drain" /\ r \in flush[g].awaiting

\* A flush() begins by taking all coordinator attempts that are listed.
CoversTaken ==
  \A f \in Flushes : covers[f] \subseteq dispatched /\ covers[f] \cap commitsListed = {}

\* FlushLeavesNothingBehind holds from the moment the retries start.
RetriesCover ==
  \A f \in Flushes : flush[f].stage \in {"retry", "done"} =>
    \A r \in covers[f] :
      \/ r \in settled \cup evicted \/ Retried(r)
      \/ \E g \in Flushes \ {f} : Draining(g)

Inv ==
  /\ TypeOK /\ NoSilentLoss
  /\ HandedOnce /\ ArchivedSettled /\ AttemptsLeft /\ GivenUp
  /\ CommitsTaken /\ PromisesTaken /\ CoversTaken /\ RetriesCover
=============================================================================
