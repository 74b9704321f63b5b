# TLA+ models of atrib

atrib signs what agents do, commits the records to a transparency log and lets
others verify them. This directory models the parts of it that keep state
across concurrent requests, failures and restarts, checks them with TLC on
small instances, and proves the main safety properties with TLAPS for all
instances. Paths below are relative to the repository, which is `src/` in
`PROJECT.json`.

## Inventory

| component | state | operations | who it talks to | what is hard | what makes it correct |
|---|---|---|---|---|---|
| `services/atribd` idempotency store (`idempotency.ts`) | table of pending and completed entries, state file | `begin`, `complete`, prune, load | the tool-call path | chained asynchronous writes, crash between two of them, the table at its limit | a key's primitive runs once; unresolved entries are never forgotten |
| `services/atribd` tool-call path (`backend.ts`) | per-context lock chain, active calls | `callTool` for reads and writes, timeout, abort | the primitives, the store | timeouts and aborts that answer before the primitive settles; retries | writes of a context do not overlap; replays are right; no lock is kept for ever |
| `services/atribd` hosts | sessions, request policy | HTTP and stdio transports | the tool-call path | session lifetime | not modelled |
| `services/log-node` tree (`tree.ts`) | entries in memory, entries file | durable append, reload, proofs, tiles | the server | partial writes, fsync failures, crash in the append | memory and file hold the same entries |
| `services/log-node` server (`server.ts`) | submit lock, proof cache, stream clients, fan-out posts | submit, proof lookup, checkpoint, stream, feed | the tree, the signer, graph-node | signer awaited while others append; streams fed after the await | one entry per submission; proofs fit their checkpoint; streams miss nothing |
| `services/witness-node` | state, leaf history, cosignature, incident and health files | one update at a time | the log, gossip peers | crash between three writes; an operator that forks | the witnessed view only grows; no conflicting cosignatures |
| `packages/verify` checkpoint gossip | none | pairwise comparison of observations | witness-node | | every split view becomes an incident |
| `packages/mcp` submission queue | pending records, in-flight promises, proof cache | `submit`, retry, `flush`, eviction | log-node, archive-node, the local coordinator | overlapping flushes; the queue at its cap; a coordinator that does not commit | no record vanishes without an answer or an eviction; a flush waits for what it covers |
| `packages/mcp` middleware, chain root | last record per context, parent seed, the key | wrapped `tools/call`, commit, `destroy` | tools, the submission queue | concurrent calls of a context; a tool that fails after its request was signed; a key zeroed under a waiting call | records are chained to committed records; requests have outcomes |
| `packages/mcp` mirror | JSONL files of several producers, one index file | read the latest record of a context | producers | files that grow or are replaced between two system calls of a read | a read returns a tail the files had; the index is right for what it names |
| `packages/action-gate` | permits, consumed tokens | issue, consume, dispatch | protected tools | | a permit is used once; the store that decides it is synchronous |
| `services/graph-node` | record maps and indexes, JSONL file | ingest, query, replay | log-node | log index that arrives late; torn last line | a restart loses little and replaces no log index |
| `services/archive-node` | body map, JSONL file | put, get | submission queue | append that fails after memory changed; overlapping puts; torn last line | what is acknowledged survives a restart, up to one record for each torn line |
| `services/directory-node`, `packages/directory*` | anchor history, key directory (Rust library) | anchor, lookup | log-node | | not modelled |
| `services/atrib-attest`, `-recall`, `-summarize`, `-primitives` and aliases | mirror file, through `packages/mcp` | the tools atribd routes to | atribd | | not modelled; a primitive succeeds or fails |
| `apps/operating-graph` | journal with a lock directory, read model | append, reclaim, query | graph-node, log-node | two processes reclaiming one stale lock | one writer at a time; acknowledged commits stay |
| `packages/verify` record, policy and evidence checks | none | pure functions | everyone | data formats | not modelled |
| `packages/agent`, `sdk`, `mcp-wrap`, `openinference`, `runtime-log`, `log-dev`, `cli`, `memory-tool`, `integration`, `apps/dashboard`, `python`, `scripts` | | integrations, tools, examples | | | not modelled |

The pieces interact along one line: a host calls a tool through atribd or through
a server wrapped by the mcp middleware; the call is signed into a record that is
chained to the context's last one (from memory or from the mirror files); the
submission queue posts it to log-node and then to archive-node; log-node appends, signs a checkpoint, answers with a proof, announces the entry
on its streams and fans the record out to graph-node; witnesses poll
log-node's checkpoint, compare it with peers and publish cosignatures.

`PROJECT.json` lists the hazards of this code, each at its line with the
properties aimed at it.

Of the repository's 165,000 implementation lines most are integrations and their
examples, user interfaces, scripts that check the repository itself, pure
verification of records and evidence formats, and recall and query code over
files. They keep no state across concurrent steps. The modules here cover the
services and the client paths that do.

## Modules

| module | models |
|---|---|
| `IdempotencyStore` | `idempotency.ts` as operators on a table: `PruneSets` (pruneCompleted), `Decision` and `Reserve` (begin), `CanComplete` and `Store` (complete) |
| `AtribdBackend` | the tool-call path over that table, with the state file, the promise chains, timeouts, aborts, failing writes and crashes |
| `LogNode` | `server.ts` and `tree.ts` of log-node |
| `AppendOnlyLog` | what the log promises; `LogNode` implements it |
| `Witness` | an update of witness-node, with the gossip analysis of `packages/verify` |
| `WitnessedLog` | witness-node together with the log it watches, the log of `AppendOnlyLog` as long as the operator is honest |
| `SubmissionQueue` | `submission.ts` of `packages/mcp`, with the coordinator hand-off and the `flush` of `middleware.ts` |
| `Middleware` | the wrapped `tools/call` handler of `middleware.ts`, and `resolveChainRoot` |
| `MirrorIndex` | `readMirrorCorpusTail` of `mirror.ts` and its index file |
| `ObservationJournal` | `commitObservationBatch` of `apps/operating-graph` and its lock directory |
| `JsonlFile` | a JSONL file with appends that are cut short, for the next two |
| `GraphNode` | ingest, archive file and replay of graph-node |
| `ArchiveNode` | submission, merge, file and reload of archive-node |
| `AtribdBackend_proofs`, `LogNode_proofs`, `Witness_proofs`, `SubmissionQueue_proofs`, `ObservationJournal_proofs`, `GraphNode_proofs`, `ArchiveNode_proofs` | the theorems about these modules and the lemmas they rest on |
| `Mcp_proofs` | the same for `Middleware` and `MirrorIndex`, the two of `packages/mcp` that read and extend the chain |
| `MC*` | instances for TLC |

`Witness_proofs` also holds the theorems about `WitnessedLog`.

Definitions named `X…` that a comment introduces as a mutant of `X` are variants
of `X` with a plausible defect. `PROJECT.json` pairs each checked property with
one of them that breaks it; nothing else uses them.

### AtribdBackend

Each call has a stage. `CallTool` refuses, dispatches without a lock or joins
the chain of its context (`queue`, the promise chain in `ContextWriteLocks`).
The head of the chain runs `Begin`: it prunes, decides and, as owner, reserves
the key in `entries` and appends a snapshot to `persistence`. `PersistWrite`
and `PersistFail` settle the oldest snapshot; the promise chain stays rejected
after one failure (`broken`), as in the code, until a restart. A written
reservation dispatches the primitive; `PrimitiveOk` stores the result and
chains a second write, which answers. `Timeout` and `Abort` only answer the
caller. `Crash` reloads `entries` from `file`.

What is abstracted: a key is its hash, a binding the commitment to context, tool
and arguments, and a result is named by the call that produced it. A retry is
another call with the same key. Reads and writes without a context take no lock.
`dispatches` and `doneAt` are history variables; `dispatches` restarts for a key
when its completed entry is pruned, since that is when the code is free to run
the key again.

### LogNode

A request is `queued` for the submit lock, then `signing`. `SubmitAppend` is
the synchronous part inside the lock: the write to the file, the memory tree and
the snapshot `makeProofBundle` takes before it awaits the signer. `SubmitSigned`
is everything after the await. Lookups and checkpoints await the signer without
the lock. `SubmitIoFault` is a failing append with its three outcomes: no byte,
a partial entry, or all bytes and a failing fsync. `Crash` may also fall inside
an append. A root stands for the sequence of records it commits to.
`AppendOnlyLog` is the abstract log: `disk` is the log, `issued` are its heads.

### Witness

One job goes through fetch, consistency, gossip, cosign and three writes, each a
step of its own. The operator may sign any view at any time. A crash or a
failing write may end the job at any stage; inside the write of the leaf history
it leaves any part of the new leaves.

### WitnessedLog

`Witness` lets the operator sign anything; here the checkpoints come from log-node until
the operator forks (`honest` becomes FALSE), and only then are any.
`log` is the entries file, which agrees with the memory tree while no append fails
(`Synced` of `LogNode`) and which a restart leaves as it is; it grows between any two
steps of an update. `asked` is the head `handleCheckpoint` took from the tree before it
awaits the signer, so the log may have grown when the checkpoint arrives. A peer may
show the witness any head that was ever signed. `Views` bounds the log. A log-node whose
append failed (`lognode_iofault`) is outside this composition: it may sign heads that
a restart takes back.

### SubmissionQueue

A record is dispatched to the coordinator when one is configured, and submitted
when there is none or it does not commit. A submission, and each retry a
`flush` starts, is a task with an attempt counter: `sending`, `backoff`,
`archiving`. `AttemptFails` on the last attempt and a window that ran out during a
backoff are `GiveUp`, which evicts and inserts. `listed` and `commitsListed` are
the two arrays a flush empties with `splice(0)`; a flush moves between `commits`,
`drain` and `retry` exactly when everything it took has settled, and takes
another round when the arrays filled up again. The anchors' fan-out
(`anchors.ts`) and the agent's flush (`packages/agent/src/middleware.ts`) drain
their promises in the same way.

### Middleware

Each call goes through build (tail and seed are read), the wait for the reference
resolver, the signature (the key is read), and commit (tail and seed are set).
`mode` is how the wrapper is configured: one record after the call, one signed
before and committed after it, or a committed request and an outcome. Tools
throw, return errors or return; building and signing may throw at any await.
`destroy` may come at any moment. A context without an own tail chains to
genesis; the tails of the environment and the mirror take the same place in
`resolveChainRoot` and the properties do not tell them apart.

### MirrorIndex

One context is followed; a line is the rank of its record. Each `stat`, each scan
of a file and each write of the index is a step, so writers append (a line first
without, then with its newline) and files are replaced between any two. `FileTails`
lets an unfinished line parse or not. `seen` collects the tails each file had
during the read.

### ObservationJournal

A writer is one call in a process of its own. Taking the lock is two steps (the
directory, then `owner.json`), releasing it is two (unlink, rmdir), and so is
taking it over (the look, then the removal). A process may die at every step, and
a directory without an owner file gets older than the 30 seconds of
`reclaimableLock` at any time. `stolen` records that a directory made by a live
writer was removed by another one.

### GraphNode and ArchiveNode

Memory changes first, the append is awaited after it, and appends overlap. An
append succeeds, fails, or is cut short: graph-node does not look at the count
`write` returns, archive-node's `appendFile` reports the error. Both restart from
what the file says; a line written after a torn one is joined to it. History variables
tell the losses apart: `tears` counts appends that were cut short, `joined` names the
records whose whole line met a torn end, `disturbed` those with an append of their own
that failed, was interrupted or overlapped, and `late` (graph-node) those whose log
index came after them.

## Runs

| run | expected | what it shows |
|---|---|---|
| `atribd_writes` | pass | a write, its retry, a reuse of its key in another context, a write without a key and one without a context, with one crash and one failing write: `AtMostOneDispatch`, `ReservationOnDisk`, `OneWriterPerContext`, `ReplayFaithful`, `ReplayableForWindow` |
| `atribd_progress` | pass | the table at a limit of one entry, two keys: making room never forgets an unresolved entry (`PendingNeverForgotten`); every queued call is answered or lost in a crash |
| `lognode_core` | pass | published heads, indexes and fan-out agree with the file; proofs fit; no double entries; refinement of `AppendOnlyLog` |
| `lognode_feeds` | pass | streams miss nothing (`StreamNoGap`) and are sent nothing that a restart takes back (`StreamsOnDisk`); every queued submission settles |
| `lognode_iofault` | violation | a failing fsync makes file and memory disagree |
| `witness_updates` | pass | `WitnessedLog`, with two interrupted updates. Whatever the operator signs, the committed view grows, the leaf history covers it, a repeated update is not refused and published cosignatures are accounted for; until it forks, its log is never refused (`HonestLogAccepted`) or reported (`NoFalseIncident`), and all cosignatures agree (`CosignaturesAgree`) |
| `submission` | pass | no record vanishes (`NoSilentLoss`); a flush leaves behind only what another flush still waits for (`FlushLeavesNothingBehind`); it returns (`FlushReturns`) |
| `middleware` | pass | parents are committed before their children (`ParentsCommitted`), chains fork only between overlapping calls (`ForksOnlyOverlapping`), a public request gets its outcome (`RequestAnswered`), the zeroed key signs only for a call caught between its check and its signature (`ZeroKeyOnlyAcrossDestroy`) |
| `mirror` | pass | a read returns the latest of tails the files had while it ran (`ReadFresh`); the index agrees with a full scan of the sizes it names (`IndexSound`); rounds are bounded (in `MirrorTypeOK`) |
| `journal` | pass | the file always verifies (part of `TypeOK`); acknowledged commits stay and no update is lost, unless a live writer's lock was removed |
| `graph` | pass | each torn append costs at most one acknowledged record (`LossBounded`); a restart never replaces a log index by another and forgets one only if it came after its record (`RestartKeepsIndexes`) |
| `archive` | pass | an acknowledged body and its evidence survive a restart, except for records with a failed, interrupted or overlapping append of their own, and for at most one other record for each append that was cut short, whose line was joined to the torn one (`AcknowledgedKept`) |

### Where code and text disagree

`lognode_iofault` is kept as a run; `findings` in `PROJECT.json` quotes both sides.
The models show these too. Each is reached by dropping the exception the property
names, or by the change given here:

- *atribd replay window.* With `MaxEntries = 1` in `atribd_writes.cfg`,
  `ReplayableForWindow` fails: `pruneCompleted` deletes completed entries inside the
  window when the table is full (`idempotency.ts:189`), while `DECISIONS.md:9544` says
  "Completed entries remain replayable for seven days."
- *log-node streams.* A client that resumes with a cursor between the append and
  `notifySubscribers` (`server.ts:1461`) is sent the entry twice;
  `services/log-node/README.md:128` offers the cursor "For exact reconnect".
- *witness crash.* After a crash between the cosignature and the state file
  (`store.ts:166-168`) a later update may cosign a view that conflicts with the
  published one; `atrib-spec.md:2081` demands consistency with what was cosigned.
  `CosignedUnderState` allows exactly the leftovers of interrupted commits.
  The conflict takes an operator that forks: with an honest log, `CosignaturesAgree`
  holds for the leftovers too.
- *journal takeover.* `apps/operating-graph/README.md` says the journal "rejects
  stale or concurrent writers". Two writers that look at one stale lock may both
  remove it (`observation-journal.ts:315`): without `~stolen`, `NoLostUpdate` and
  `AcknowledgedKept` fail. The file itself stays valid.
- *graph-node torn line.* `persistence.ts:18-21` says a crash "leaves at most a torn
  final line" that replay skips. The next append is joined to that line, so the
  record after it is lost as well: `LossBounded` with `promised \ InArchive = {}`
  fails.
- *graph-node late index.* `persistence.ts:13-16` says "The log_index is preserved
  alongside the record so revocation logic per §1.9.3 still applies after replay". An
  index that comes in a later request than its record is set in memory only
  (`store.ts:103`), and `handleIngest` appends nothing for a known record: a restart
  forgets it, and revocation has nothing to compare with its cutoff.
  `RestartKeepsIndexes` without the `late` alternative fails.
- *archive-node.* After a failing append the retry finds memory unchanged and is
  acknowledged without a write (`store.ts:171-174`), and two overlapping puts may
  append in the order that loses the larger entry at a restart: without
  `disturbed`, `AcknowledgedKept` fails.
- *archive-node torn line.* A record appended whole, and acknowledged, behind the torn
  line of another one becomes part of that line (`store.ts:178-180`), which `init`
  skips (`store.ts:126-137`): it is lost although none of its own appends failed.
  `atrib-spec.md:2387` calls the archive a "durability layer", and the test "replays
  persisted records after restart" (`services/archive-node/test/server.test.ts:302`)
  covers a whole file only. `AcknowledgedKept` counts these records against `tears`;
  `Lost \subseteq disturbed` fails.
- *destroy.* `middleware.ts:1492` says that after `destroy` the handler "skips
  attribution". A call that waits for the resolver at that moment signs with the
  zeroed key and commits the record; `ZeroKeyOnlyAcrossDestroy` names that case.
- *flush.* While one flush waits for the promises it took, another returns at once;
  `FlushLeavesNothingBehind` fails without its last alternative.

**Bounds.** `MaxClock`, `MaxCrashes`, `MaxFaults`, `MaxIoFaults`,
`MaxSignFaults`, `MaxInterrupts`, `MaxWrites` and `MaxReads` bound the environment,
not the program. One crash and one fault suffice for atribd and log-node because
each property relates one interrupted operation to one later one; the witness,
graph-node and archive-node get two or three so that a recovery can itself be
interrupted. Their three valid records leave two besides the one whose append was cut
short, so that the bound of one more loss for each tear can be exceeded. Two calls with a key, one with another binding, one without a key
and one without a context cover every pair the lock and the table tell
apart. Three submissions of two records give a duplicate on either side of the
lock, `MaxProofCache = 1` an eviction. The witness's views fork at the first and
at the second leaf, which gives rollbacks, equal-size forks, extensions and
forked extensions; the honest log grows along the same views, so that an update of it
can be interrupted and followed by one of a longer log. A queue of depth one with a high and a normal record reaches every
eviction; `MaxRetries` is two instead of three, since a middle attempt differs
from the first only in its number. `MaxRounds` is two instead of four: a first
round that repeats and a last one that does not. Two calls in one context and one in
another with an inbound hash give every fork and every parent. The four journal writers are
a commit, its retry, the next batch and a clash over the operation; three of them are needed to
steal a lock (a dead owner and two that take over). No symmetry is used: the calls
and requests differ in what they carry.

**Deadlock** is not checked where a finite set of calls or requests runs out;
`witness_updates` checks it.

**Fairness.** `AtribdBackend!Fairness` says that a resolved promise's
continuation runs, that a file write ends one way or the other, and that a
primitive settles. The first two are the event loop and the file system; the
third is an assumption about primitives, and the README of atribd says that the
lock is held until it is met. `LogNode!Fairness` says the same of the submit
lock and of the signer, which is local. `SubmissionQueue!Fairness` says that a
request, a timer and a coordinator attempt end and that a flush whose promises
settled goes on. The fetch to the log has no timeout of its own (`submission.ts:324`),
so `FlushReturns` rests on the runtime ending a dead connection; the archive post
and the coordinator attempt have timers. Callers, timers, crashes, the clock and
deliveries to graph-node get no fairness.

## Proofs

The theorems hold for every set of calls, keys, contexts, views and peers, and
for every bound on crashes and faults, from the `ASSUME`s in the modules, which
state the types of the constants and that the special values are not members of
the sets they extend: a record of the middleware, a pair of a call and its side, is
neither an inbound token nor a special parent (`MiddlewareAssumption`), and a line
that does not parse is none of the lines that do (`GarbageAssumption`).

Each proof has the same layout: facts about the operators, one lemma per action that
it keeps the invariant, a lemma that collects them for `Next`, `Init`, and the
theorems. Records, lines and stages that a step does not touch are dealt with once,
in lemmas about what a step leaves alone.

`AtribdBackend_proofs` shows `Spec => []Inv` and from it `TypeOK`,
`AtMostOneDispatch`, `ReservationOnDisk` and `OneWriterPerContext`. None of them
is inductive alone. The argument needs that a call past `begin` is the head of
its chain (`HoldersHaveLock`), that each chained write is awaited by exactly one
call (`OneWriteEach`), that a dispatched key is in memory, in the file and in
every snapshot that may still replace the file (`DispatchedKnown`), that a
reserving call's entry is pending and in every snapshot from its own on
(`OwnerPending`), and that snapshots keep the entry of a running call
(`SnapshotsKeepEntry`). The last three are what a crash relies on: whatever
prefix of the chain reached the file, a dispatched key is in it.

Three more results rest on a second layer. There a lemma (`StepKinds`) sorts the
steps by what they do to the tables: nothing, a reservation, a result, a write that
reaches the file, a write that fails, a crash; the arguments go through these six.
`ReplayFaithful` needs that every completed entry of the table, of the file and of
every snapshot is the stored result of a call of its key (`ReplayInv`).
The action property `PendingNeverForgotten` needs that, unless the promise chain is
rejected, adjacent tables among file, snapshots and memory keep what the earlier one
calls pending (`WritesInOrder`); once it is rejected nothing is written.
`ReplayableForWindow` is proved under the assumption that there are fewer keys than
`MaxEntries`, that is, that the table never reaches its limit: then `pruneCompleted`
takes only entries past the window, and a stored result stays in memory and in
every write from its own on (`WindowKept`). `MaxEntries = 1` (above) shows
that the property fails at the limit.

`LogNode_proofs` has two layers. The first shows `Spec => []Inv`, whatever
appends, signers and crashes do, and from it `TypeOK`, `ProofVerifies` and
`OneEntryPerRecord`. Its strengthening says that a submission being signed is the
holder of the submit lock (`SignersLocked`), so that no other submission is between
its append and its cache entry; that every bundle cached or being signed fits its
record (`ProofsFit`); and that every record of the tree is cached, being signed or
was lost from the cache (`EntriesKnown`). The second layer assumes
`MaxIoFaults = 0`, which `lognode_iofault` shows to be necessary, and adds
`DiskInv`: memory and file are equal and a torn file has no running process
(`Synced`), and every head, cached bundle and post that may still leave the process
is a prefix or an index of the file (`PendingOnDisk`). It gives `PublishedOnDisk`
and the refinement: `Carries` states once what a step may publish, each handler is
shown to satisfy it, and one lemma derives both the invariant and the step of
`AppendOnlyLog` from it. Any number of crashes, also inside an append, and of signer
faults is allowed.

`StreamNoGap` has a layer of its own, `FeedInv`, which does not assume that appends
succeed: every index that was answered, is cached or is being signed names an entry of
the memory tree (`IndexesInTree`); a whole file is no shorter than the tree, so that a
restart that comes up loses no index (`FileCovers`); and every entry beyond the cursor
of an open stream was sent, is being signed or belongs to a failed submission
(`StreamsCovered`). `StreamsOnDisk` follows from it and from `SentInv`: what a stream
was sent is in the tree, because a replay ends at the tail and a notification names
the index that was signed, and tree and file are equal as long as no append failed.

`Witness_proofs` shows `Spec => []Inv` and from it `TypeOK`, `LeavesCoverState`,
`CommitNeverRefused`, `CosignedUnderState` and the action property
`CommittedViewGrows`. The strengthening says that past the consistency check the
job's view extends the committed one (`CheckedExtends`), that after the first
write the history is the job's view (`LeavesWritten`), and that there is at most
one cosignature for a view, the job's if it has one (`OneCosigPerView`,
`CosigFits`).

For `WitnessedLog` it shows `WitnessedSpec => []WitnessedInv` and from it
`HonestLogAccepted`, `NoFalseIncident` and `CosignaturesAgree`, for any set of leaves and
views, any peers and any number of interrupted updates. `Follows` is the strengthening: as
long as the operator is honest, all that the witness holds (the committed view, the job's view, every cosignature) is a
part of the log, and the committed view is a part of the checkpoint under way. Parts of one log
agree, and `LeavesCoverState` of `Witness` gives that what an interrupted write left in
the leaf history does not matter. `WitnessedImplementsWitness` shows
`WitnessedSpec => Spec`, so that every property of `Witness` holds of the composition.

`ObservationJournal_proofs` shows `Spec => []Inv` and from it `TypeOK` (which holds
the file's well-formedness), `AcknowledgedKept` and `NoLostUpdate`, for any writers,
batches and cursors, with crashes and takeovers at every step. The strengthening
says whose the lock directory is at each step between taking and releasing it
(`HoldsLock`), that a writer about to replace the file has checked what it read
(`CheckedCurrent`), and that a success which is not yet answered is already in the
file (`SuccessKept`). `CheckedCurrent` does not depend on the lock: the file still
verifies after a live writer's lock was removed, although a commit may be lost.

`SubmissionQueue_proofs` shows `Spec => []Inv` and from it `TypeOK`, `NoSilentLoss`
and `FlushLeavesNothingBehind`, for any records, flushes, depth and number of retries,
with and without a coordinator. The strengthening follows the promises: one that is
in neither array is awaited by some flush in the stage that took it (`CommitsTaken`,
`PromisesTaken`), a flush has taken every coordinator attempt it covers
(`CoversTaken`), and what is or was pending had a task that gave up (`GivenUp`).
Then a flush that goes from draining to its retries has nothing left that it covers
and that no other flush waits for (`RetriesCover`, the property from the stage
`retry` on).

For `Middleware`, `Mcp_proofs` shows `Spec => []Inv` and from it `TypeOK`, `ParentsCommitted`,
`ForksOnlyOverlapping`, `RequestAnswered` and `ZeroKeyOnlyAcrossDestroy`, for any
calls, contexts and inbound hashes, in every mode. `StagesFit` says what the stage of a
call tells of its two records, `TailLatest` that the tail of a context is its last
committed record, and `Sequential` that of two calls that never overlapped one had ended
before the other built its first record (`After`), so that the later one is chained to
something no earlier than the record of the first. Forks follow from the order
of commits alone.

For `MirrorIndex`, `Mcp_proofs` shows `MirrorSpec => []MirrorInv` and from it
`MirrorTypeOK`, `ReadFresh` and `IndexSound`, for any number of files, records,
readers, rounds, appends and replacements. The difficulty is that everything a read
knows of a file may be out of date: it was stat'ed at one moment, scanned at another,
and written to or replaced between the two. The invariant puts what is known in terms
of the file *as it is now*, for as long as it was not replaced: the tail fits the
sizes read so far (`TailFits`, in `ScanningNew` and `Rechecking`), sizes that were recorded are
of an earlier moment (`RecordsFit`), and the tails up to them were seen
(`TailsSeen`). All of that survives an append, because a file that grows keeps its
recorded part (`RecordKept`). A replacement takes it away, so the invariant
keeps a way to find out: `Replaced` says that the snapshot which follows the scan
shows another inode, or is still going to; a read that gets past that snapshot had
none, and its tail is fresh. `Unmoved` is the same after a full scan, where equal
fingerprints before and after mean that the file did not change between them. That the
last record of a longer part is the last one added, or else that of the shorter part
(`TailAdded`), is what makes continuing from the index equal to a scan. Greatest and
least elements come from the library's least-number principle.

`GraphNode_proofs` shows `Spec => []Inv` and from it `TypeOK`, `LossBounded` and
`RestartKeepsIndexes`. A record has at most one line in the file (`FileFits`) and
at most one append under way (`Appending`), so the index replay finds is the one the
record came with, which memory keeps, or none although memory has one, and then that
one came late (`SameOrLate`). `LossFits` counts a torn end as one loss still to come. That a replay
lists every record of the file once is proved from the rank of a line among the first
lines, with the library's theorems on finite sets, without induction over the file.

`ArchiveNode_proofs` shows `Spec => []Inv` and from it `TypeOK` and `AcknowledgedKept`.
For a record none of whose lines was spoiled, memory is what a restart would read, or
its only append under way brings the file up to it (`InStep`). A record is spoiled by an
append of its own (`disturbed`) or because a whole line of it was joined to a torn end
(`joined`). The torn end itself belongs to a disturbed record (`FileFits`), so a join
costs the record that is appended and no other, and every tear is joined to at most
once (`JoinsFit`); the bound of `AcknowledgedKept` is the cardinality of `joined`.

TLC checked these inductive invariants on the instances above before they were
proved.

The type invariants of `AtribdBackend`, `LogNode`, `Witness` and `Middleware` are parts of those
invariants and are proved only; the runs spend their properties on other questions.

Only model-checked: the liveness properties (`EveryCallAnswered`,
`EverySubmitSettles`, `FlushReturns`), which need fairness and are outside what the
prover does.

## Plan

Done: all modules above, checked, and the proofs listed above. What is left, in
this order:

1. `MerkleTree` against a reference definition of RFC 6962 roots and proofs,
   bounded inputs, TLC only (recursive).
2. Anchors and the agent's flush, if they come to differ from `SubmissionQueue`.

## Not modelled

Cryptography and byte formats (hashes and signatures are perfect, encodings are
covered by the repository's conformance vectors), action-gate (policy and token
checks are pure, and single use is decided by a synchronous set), HTTP parsing and routing,
read-only endpoints and dashboards, logging and counters, third-party libraries
(the key directory, MCP transports), an idempotency store configured without a
state file (`stateFile: false`, which gives up durability), and a power loss that undoes a rename
without fsync (atribd's state file). `PROJECT.json` lists every component left
out with its reason.
