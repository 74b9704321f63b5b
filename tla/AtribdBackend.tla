---------------------------- MODULE AtribdBackend ----------------------------
(***************************************************************************)
(* The tool-call path of atribd, the local daemon that signs for one       *)
(* profile: services/atribd/src/backend.ts with the idempotency store.     *)
(*                                                                         *)
(* A call is one tools/call request.  A write call whose context resolves  *)
(* waits in that context's promise-chain lock, reserves its idempotency    *)
(* key (if it has one) in the table and in the state file, dispatches the  *)
(* primitive, stores the result and answers.  The caller may be answered   *)
(* earlier, by the tool timeout or by its own abort signal, while the      *)
(* primitive runs on.  The daemon may crash at any point and restarts from *)
(* the state file.                                                         *)
(*                                                                         *)
(* Retries are distinct calls with one key.  Reads and writes without a    *)
(* resolvable context take no lock; a read's primitive can be aborted,     *)
(* which is one of the ways a running primitive may fail here.             *)
(***************************************************************************)
EXTENDS IdempotencyStore, Sequences

CONSTANTS
  Calls,       \* tool calls the callers may issue
  NoKey,       \* KeyOf of a call that carries no idempotency key
  Contexts,    \* contexts that resolve to a serialization key
  NoContext,   \* no context argument and none from the environment
  BadContext,  \* a context argument that does not parse
  KeyOf, CtxOf, BindingOf,  \* what each call carries
  MaxCrashes,  \* bound: daemon crashes
  MaxFaults    \* bound: failing writes of the state file

ASSUME CallAssumption ==
  /\ NoKey \notin Keys
  /\ NoContext \notin Contexts /\ BadContext \notin Contexts
  /\ NoContext # BadContext
  /\ Nil \notin Calls
  /\ Results = Calls
  /\ KeyOf \in [Calls -> Keys \cup {NoKey}]
  /\ CtxOf \in [Calls -> Contexts \cup {NoContext, BadContext}]
  /\ BindingOf \in [Calls -> Bindings]
  /\ MaxCrashes \in Nat /\ MaxFaults \in Nat

VARIABLES
  entries,     \* state.entries: the table in memory
  file,        \* the table in the state file
  persistence, \* chained writes: the snapshot taken and the call that awaits it
  broken,      \* the promise chain `persistence` is rejected
  queue,       \* ContextWriteLocks: per context, the holder first, then waiters
  pc,          \* where each call is
  reply,       \* what the caller was told
  aborted,     \* calls whose abort signal fired
  clock,       \* Date.now()
  crashes, faults,
  dispatches,  \* history: calls dispatched for a key since its entry was last pruned
  doneAt       \* history: when a call's result was stored, -1 before

vars == <<entries, file, persistence, broken, queue, pc, reply, aborted, clock,
          crashes, faults, dispatches, doneAt>>

Stages == {"idle", "queued", "reserving", "running", "storing", "settled", "lost"}

Kinds == {"none", "result", "failed", "timeout", "cancelled", "binding-mismatch",
          "indeterminate", "full", "invalid"}

NoReply == [kind |-> "none", result |-> Nil]
Told(kind) == [kind |-> kind, result |-> Nil]
Gave(r) == [kind |-> "result", result |-> r]

\* A call that holds its context's lock from begin() until its primitive settles.
Holding == {"reserving", "running", "storing"}

Locked(c) == CtxOf[c] \in Contexts
Keyed(c)  == KeyOf[c] # NoKey

Reply == [kind : Kinds, result : Calls \cup {Nil}]

\* A write of the state file: the snapshot taken, and the call that awaits it.
Write == [snapshot : Table, by : Calls]

TypeOK ==
  /\ entries \in Table
  /\ file \in Table
  /\ persistence \in Seq(Write)
  /\ broken \in BOOLEAN
  /\ queue \in [Contexts -> Seq(Calls)]
  /\ pc \in [Calls -> Stages]
  /\ reply \in [Calls -> Reply]
  /\ aborted \subseteq Calls
  /\ clock \in Nat
  /\ crashes \in Nat /\ faults \in Nat
  /\ dispatches \in [Keys -> SUBSET Calls]
  /\ doneAt \in [Calls -> Int]

Init ==
  /\ entries = freshState
  /\ file = freshState
  /\ persistence = <<>>
  /\ broken = FALSE
  /\ queue = [x \in Contexts |-> <<>>]
  /\ pc = [c \in Calls |-> "idle"]
  /\ reply = [c \in Calls |-> NoReply]
  /\ aborted = {}
  /\ clock = 0
  /\ crashes = 0 /\ faults = 0
  /\ dispatches = [k \in Keys |-> {}]
  /\ doneAt = [c \in Calls |-> -1]

-----------------------------------------------------------------------------
(* Fragments shared by the actions. *)

\* Answer the caller unless it has been answered: Promise.race in routeToolCall.
Answer(c, r) ==
  reply' = IF reply[c].kind = "none" THEN [reply EXCEPT ![c] = r] ELSE reply

\* Mutant of HasLock: `await prior` is left out.
HasLockUnawaited(c) == queue[CtxOf[c]] # <<>>

\* `await prior` has resolved: the call is the head of its context's chain.
HasLock(c) == queue[CtxOf[c]] # <<>> /\ Head(queue[CtxOf[c]]) = c

\* release(): the next waiter becomes the head of the context's chain.
Release(c) ==
  queue' = IF Locked(c) THEN [queue EXCEPT ![CtxOf[c]] = Tail(@)] ELSE queue

\* The call is over: it answers, settles and gives its lock back.
Settle(c, r) ==
  /\ pc' = [pc EXCEPT ![c] = "settled"]
  /\ Answer(c, r)
  /\ Release(c)

\* routeToolCall: the primitive is called first, the abort signal is looked at
\* after it, so an aborted call is dispatched and then answered as cancelled.
Dispatch(c) ==
  /\ pc' = [pc EXCEPT ![c] = "running"]
  /\ reply' = IF c \in aborted
                THEN [reply EXCEPT ![c] = Told("cancelled")] ELSE reply
  /\ dispatches' = IF Keyed(c) /\ Locked(c)
                     THEN [dispatches EXCEPT ![KeyOf[c]] = @ \cup {c}]
                     ELSE dispatches

\* persist(): the snapshot is taken now, the write waits for the earlier ones.
Persist(c, tab) ==
  persistence' = Append(persistence, [snapshot |-> tab, by |-> c])

-----------------------------------------------------------------------------
(* Actions. *)

\* callTool up to the lock: refuse, dispatch without a lock, or queue.
CallTool(c) ==
  /\ pc[c] = "idle"
  /\ \/ /\ CtxOf[c] = NoContext /\ Keyed(c)
        /\ pc' = [pc EXCEPT ![c] = "settled"]
        /\ reply' = [reply EXCEPT ![c] = Told("invalid")]
        /\ UNCHANGED <<queue, dispatches>>
     \/ /\ ~Locked(c)
        /\ CtxOf[c] = NoContext => ~Keyed(c)
        /\ Dispatch(c)
        /\ UNCHANGED queue
     \/ /\ Locked(c)
        /\ pc' = [pc EXCEPT ![c] = "queued"]
        /\ queue' = [queue EXCEPT ![CtxOf[c]] = Append(@, c)]
        /\ UNCHANGED <<reply, dispatches>>
  /\ UNCHANGED <<entries, file, persistence, broken, aborted, clock, crashes,
                 faults, doneAt>>

\* The caller's signal fires.  Only a dispatched call listens to it.
Abort(c) ==
  /\ pc[c] \in {"queued"} \cup Holding
  /\ c \notin aborted
  /\ aborted' = aborted \cup {c}
  /\ IF pc[c] \in {"running", "storing"}
       THEN Answer(c, Told("cancelled")) ELSE UNCHANGED reply
  /\ UNCHANGED <<entries, file, persistence, broken, queue, pc, clock, crashes,
                 faults, dispatches, doneAt>>

\* The lock is ours.  A call without a key is dispatched at once.
StartUnkeyed(c) ==
  /\ pc[c] = "queued"
  /\ HasLock(c)
  /\ ~Keyed(c)
  /\ Dispatch(c)
  /\ UNCHANGED <<entries, file, persistence, broken, queue, aborted, clock,
                 crashes, faults, doneAt>>

\* The lock is ours: begin() prunes, decides and either answers from the table
\* or reserves the key and waits for the table to be written.
Begin(c) ==
  /\ pc[c] = "queued"
  /\ HasLock(c)
  /\ Keyed(c)
  /\ \E R \in PruneSets(entries, clock) :
       LET tab == Without(entries, R)
           k == KeyOf[c]
           b == BindingOf[c]
           decision == Decision(tab, k, b)
       IN /\ dispatches' = [j \in Keys |-> IF j \in R /\ entries[j].status = "completed"
                                            THEN {} ELSE dispatches[j]]
          /\ \/ /\ decision = "owner"
                /\ entries' = Reserve(tab, k, b, clock)
                /\ Persist(c, entries')
                /\ pc' = [pc EXCEPT ![c] = "reserving"]
                /\ UNCHANGED <<reply, queue>>
             \/ /\ decision # "owner"
                /\ entries' = tab
                /\ Settle(c, IF decision = "replay" THEN Gave(tab[k].result)
                             ELSE Told(decision))
                /\ UNCHANGED persistence
  /\ UNCHANGED <<file, broken, aborted, clock, crashes, faults, doneAt>>

\* The oldest chained write replaces the state file; the call that awaits it
\* goes on: a reservation dispatches, a stored result is acknowledged.
PersistWrite ==
  /\ persistence # <<>>
  /\ ~broken
  /\ LET w == Head(persistence) IN
       /\ file' = w.snapshot
       /\ persistence' = Tail(persistence)
       /\ IF pc[w.by] = "reserving"
            THEN Dispatch(w.by) /\ UNCHANGED queue
            ELSE Settle(w.by, Gave(w.by)) /\ UNCHANGED dispatches
  /\ UNCHANGED <<entries, broken, aborted, clock, crashes, faults, doneAt>>

\* Mutant of PersistFail: the failure is swallowed and a reservation dispatches.
PersistFailSwallowed ==
  /\ persistence # <<>>
  /\ faults < MaxFaults
  /\ faults' = faults + 1
  /\ persistence' = Tail(persistence)
  /\ IF pc[Head(persistence).by] = "reserving"
       THEN Dispatch(Head(persistence).by) /\ UNCHANGED queue
       ELSE Settle(Head(persistence).by, Gave(Head(persistence).by))
            /\ UNCHANGED dispatches
  /\ UNCHANGED <<entries, file, broken, aborted, clock, crashes, doneAt>>

\* The oldest chained write fails, or follows one that did: the promise chain
\* stays rejected, the file is untouched, the awaiting call fails.
PersistFail ==
  /\ persistence # <<>>
  /\ broken \/ faults < MaxFaults
  /\ broken' = TRUE
  /\ faults' = IF broken THEN faults ELSE faults + 1
  /\ persistence' = Tail(persistence)
  /\ Settle(Head(persistence).by, Told("failed"))
  /\ UNCHANGED <<entries, file, aborted, clock, crashes, dispatches, doneAt>>

\* The primitive resolves.  A keyed write stores the result and persists it
\* before it answers, whether or not the caller is still there.
PrimitiveOk(c) ==
  /\ pc[c] = "running"
  /\ \/ /\ ~(Keyed(c) /\ Locked(c))
        /\ Settle(c, Gave(c))
        /\ UNCHANGED <<entries, persistence, doneAt>>
     \/ /\ Keyed(c) /\ Locked(c)
        /\ IF CanComplete(entries, KeyOf[c], BindingOf[c])
             THEN /\ entries' = Store(entries, KeyOf[c], BindingOf[c], c, clock)
                  /\ Persist(c, entries')
                  /\ pc' = [pc EXCEPT ![c] = "storing"]
                  /\ doneAt' = [doneAt EXCEPT ![c] = clock]
                  /\ UNCHANGED <<reply, queue>>
             ELSE /\ Settle(c, Told("failed"))
                  /\ UNCHANGED <<entries, persistence, doneAt>>
  /\ UNCHANGED <<file, broken, aborted, clock, crashes, faults, dispatches>>

\* Mutant of PrimitiveFail: the lock is released on success only.
PrimitiveFailKeepsLock(c) ==
  /\ pc[c] = "running"
  /\ pc' = [pc EXCEPT ![c] = "settled"]
  /\ Answer(c, Told("failed"))
  /\ UNCHANGED <<entries, file, persistence, broken, queue, aborted, clock,
                 crashes, faults, dispatches, doneAt>>

\* The primitive rejects: the entry stays pending, its outcome is not known.
PrimitiveFail(c) ==
  /\ pc[c] = "running"
  /\ Settle(c, Told("failed"))
  /\ UNCHANGED <<entries, file, persistence, broken, aborted, clock, crashes,
                 faults, dispatches, doneAt>>

\* The tool timer, armed at dispatch, answers the caller.  Nothing is released.
Timeout(c) ==
  /\ pc[c] \in {"running", "storing"}
  /\ reply[c].kind = "none"
  /\ Answer(c, Told("timeout"))
  /\ UNCHANGED <<entries, file, persistence, broken, queue, pc, aborted, clock,
                 crashes, faults, dispatches, doneAt>>

\* The daemon dies and restarts from its state file; calls in it are lost.
Crash ==
  /\ crashes < MaxCrashes
  /\ crashes' = crashes + 1
  /\ entries' = file
  /\ persistence' = <<>>
  /\ broken' = FALSE
  /\ queue' = [x \in Contexts |-> <<>>]
  /\ pc' = [c \in Calls |-> IF pc[c] \in {"idle", "settled"} THEN pc[c] ELSE "lost"]
  /\ UNCHANGED <<file, reply, aborted, clock, faults, dispatches, doneAt>>

Tick ==
  /\ clock < MaxClock
  /\ clock' = clock + 1
  /\ UNCHANGED <<entries, file, persistence, broken, queue, pc, reply, aborted,
                 crashes, faults, dispatches, doneAt>>

Next ==
  \/ \E c \in Calls :
       \/ CallTool(c) \/ Abort(c) \/ StartUnkeyed(c) \/ Begin(c)
       \/ PrimitiveOk(c) \/ PrimitiveFail(c) \/ Timeout(c)
  \/ PersistWrite \/ PersistFail \/ Crash \/ Tick

Spec == Init /\ [][Next]_vars

\* The event loop runs every resolved promise, file writes end one way or the
\* other, and primitives settle.  Callers, timers, crashes and time are free.
Fairness ==
  /\ WF_vars(PersistWrite \/ PersistFail)
  /\ \A c \in Calls : /\ WF_vars(StartUnkeyed(c) \/ Begin(c))
                      /\ WF_vars(PrimitiveOk(c) \/ PrimitiveFail(c))

FairSpec == Spec /\ Fairness

-----------------------------------------------------------------------------
(* Properties. *)

\* Duplicate-safe writes (services/atribd/README.md, "Duplicate-safe writes"):
\* while the store remembers a key, the primitive ran for at most one of the
\* calls that carry it, whatever retries, timeouts, cancellations, failing
\* state-file writes and crashes happened in between.
AtMostOneDispatch ==
  \A k \in Keys : \A c, d \in dispatches[k] : c = d

\* backend.ts calls the primitive of a keyed write only after the reservation
\* reached the state file, and until the call settles the file keeps an entry
\* with its binding: a crash at any moment of the call is visible to a retry.
ReservationOnDisk ==
  \A c \in Calls :
    (Keyed(c) /\ Locked(c) /\ pc[c] \in {"running", "storing"})
      => CanComplete(file, KeyOf[c], BindingOf[c])

\* ContextWriteLocks.runUntilSettled: in one context a second write neither
\* reserves nor runs before the first one's primitive settled, even when the
\* first caller has been answered with a timeout or a cancellation.
OneWriterPerContext ==
  \A c, d \in Calls :
    (/\ Locked(c) /\ CtxOf[c] = CtxOf[d]
     /\ pc[c] \in Holding /\ pc[d] \in Holding) => c = d

\* A replayed result is the stored result of a call with the same key and the
\* same binding whose primitive succeeded.
ReplayFaithful ==
  \A c \in Calls :
    (Keyed(c) /\ Locked(c) /\ reply[c].kind = "result")
      => LET r == reply[c].result IN
           /\ KeyOf[r] = KeyOf[c]
           /\ BindingOf[r] = BindingOf[c]
           /\ doneAt[r] >= 0

\* DECISIONS.md D184: "Completed entries remain replayable for seven days."  An
\* acknowledged result stays in the table and in the state file for WindowMs
\* after it was stored, across crashes.
ReplayableForWindow ==
  \A c \in Calls :
    (/\ Keyed(c) /\ Locked(c)
     /\ reply[c] = Gave(c)
     /\ clock - doneAt[c] <= WindowMs)
      => /\ entries[KeyOf[c]].status = "completed" /\ entries[KeyOf[c]].result = c
         /\ file[KeyOf[c]].status = "completed" /\ file[KeyOf[c]].result = c

\* pruneCompleted removes completed entries only, and snapshots reach the file
\* in the order they were taken: an outcome the state file calls pending is
\* never forgotten by a later write, a prune or a restart, it only completes.
PendingNeverForgotten ==
  [][\A k \in Keys : file[k].status = "pending"
        => /\ file'[k].status # "absent"
           /\ file'[k].binding = file[k].binding]_vars

\* Every call that entered a context's chain is answered or lost in a crash: no
\* path out of begin(), the primitive or persist() keeps the lock for ever.
EveryCallAnswered ==
  \A c \in Calls :
    pc[c] = "queued" ~> (reply[c].kind # "none" \/ pc[c] = "lost")

-----------------------------------------------------------------------------
(* The inductive invariant behind AtMostOneDispatch, ReservationOnDisk and *)
(* OneWriterPerContext.                                                    *)

\* A call past begin() is at the head of its context's chain.
HoldersHaveLock ==
  \A c \in Calls : (Locked(c) /\ pc[c] \in Holding) => HasLock(c)

StagesFit ==
  \A c \in Calls : /\ pc[c] = "queued" => Locked(c)
                   /\ pc[c] \in {"reserving", "storing"} => Keyed(c) /\ Locked(c)

\* Each chained write is awaited by one call, which awaits no other.
OneWriteEach ==
  /\ \A i \in DOMAIN persistence : pc[persistence[i].by] \in {"reserving", "storing"}
  /\ \A i, j \in DOMAIN persistence : persistence[i].by = persistence[j].by => i = j

\* A key that was dispatched is in the table, in the file and in every snapshot
\* still to be written.
DispatchedKnown ==
  \A k \in Keys : dispatches[k] # {} =>
    /\ entries[k].status # "absent"
    /\ file[k].status # "absent"
    /\ \A i \in DOMAIN persistence : persistence[i].snapshot[k].status # "absent"

\* A call that reserves or runs has its pending entry; no dispatch happened for
\* its key before it, and its entry is in every snapshot from its own on.
OwnerPending ==
  \A c \in Calls : (Keyed(c) /\ Locked(c) /\ pc[c] \in {"reserving", "running"}) =>
    /\ entries[KeyOf[c]].status = "pending"
    /\ entries[KeyOf[c]].binding = BindingOf[c]
    /\ pc[c] = "running" => c \in dispatches[KeyOf[c]]
    /\ pc[c] = "reserving" =>
         /\ dispatches[KeyOf[c]] = {}
         /\ \E i \in DOMAIN persistence : persistence[i].by = c
         /\ \A i \in DOMAIN persistence : persistence[i].by = c =>
              \A j \in DOMAIN persistence : j >= i =>
                CanComplete(persistence[j].snapshot, KeyOf[c], BindingOf[c])

OneReserver ==
  \A c, d \in Calls :
    (pc[c] = "reserving" /\ pc[d] = "reserving" /\ KeyOf[c] = KeyOf[d]) => c = d

StoringWaits ==
  \A c \in Calls : pc[c] = "storing" => \E i \in DOMAIN persistence : persistence[i].by = c

\* What the file will hold while a call runs, and until its result is written.
SnapshotsKeepEntry ==
  \A c \in Calls : (Keyed(c) /\ Locked(c)) =>
    /\ pc[c] = "running" =>
         \A i \in DOMAIN persistence :
           CanComplete(persistence[i].snapshot, KeyOf[c], BindingOf[c])
    /\ pc[c] = "storing" =>
         \A i \in DOMAIN persistence : persistence[i].by = c =>
           \A j \in DOMAIN persistence : j <= i =>
             CanComplete(persistence[j].snapshot, KeyOf[c], BindingOf[c])

Inv ==
  /\ TypeOK
  /\ HoldersHaveLock /\ StagesFit /\ OneWriteEach
  /\ AtMostOneDispatch /\ DispatchedKnown
  /\ OwnerPending /\ OneReserver /\ StoringWaits
  /\ ReservationOnDisk /\ SnapshotsKeepEntry
-----------------------------------------------------------------------------
(* What ReplayFaithful, PendingNeverForgotten and ReplayableForWindow add. *)

\* Every completed entry of a table is the stored result of a call of its key.
ResultsOfCalls(tab) ==
  \A k \in Keys : tab[k].status = "completed" =>
    /\ tab[k].result \in Calls
    /\ KeyOf[tab[k].result] = k
    /\ BindingOf[tab[k].result] = tab[k].binding
    /\ doneAt[tab[k].result] >= 0

ResultsKnown ==
  /\ ResultsOfCalls(entries)
  /\ ResultsOfCalls(file)
  /\ \A i \in DOMAIN persistence : ResultsOfCalls(persistence[i].snapshot)

\* A call has stored its result when it waits for the write that holds it, and
\* never stores another one.
DoneFits ==
  \A c \in Calls : /\ pc[c] = "storing" => doneAt[c] >= 0
                   /\ doneAt[c] >= 0 => pc[c] \in {"storing", "settled", "lost"}

ReplayInv == ReplayFaithful /\ ResultsKnown /\ DoneFits

\* The table in the file after the next i chained writes.
TableAt(i) == IF i = 0 THEN file ELSE persistence[i].snapshot

\* Unless the promise chain is rejected, no write forgets what the file will call
\* pending before it, and the table in memory still has it.
WritesInOrder ==
  ~broken =>
    /\ \A i \in DOMAIN persistence : \A k \in Keys :
         TableAt(i - 1)[k].status = "pending"
           => CanComplete(persistence[i].snapshot, k, TableAt(i - 1)[k].binding)
    /\ \A k \in Keys :
         TableAt(Len(persistence))[k].status = "pending"
           => entries[k] = TableAt(Len(persistence))[k]

\* A table holds a call's result with the time it was stored.
Remembers(tab, c) ==
  tab[KeyOf[c]] = [status |-> "completed", binding |-> BindingOf[c], result |-> c,
                   updated_at |-> doneAt[c]]

\* Within the window a stored result is in memory and in every write from its own
\* on; once it is acknowledged, also in the file and in all writes.
WindowKept ==
  \A c \in Calls :
    (Keyed(c) /\ Locked(c) /\ clock - doneAt[c] <= WindowMs) =>
      /\ pc[c] = "storing" =>
           /\ Remembers(entries, c)
           /\ \A i, j \in DOMAIN persistence :
                (persistence[i].by = c /\ i <= j) => Remembers(persistence[j].snapshot, c)
      /\ reply[c] = Gave(c) =>
           /\ Remembers(entries, c)
           /\ Remembers(file, c)
           /\ \A i \in DOMAIN persistence : Remembers(persistence[i].snapshot, c)
=============================================================================
