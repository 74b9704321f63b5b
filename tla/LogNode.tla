------------------------------- MODULE LogNode -------------------------------
(***************************************************************************)
(* The transparency log service: services/log-node/src/server.ts and       *)
(* tree.ts.  Submissions are serialized by the submit lock; inside it the  *)
(* entry is appended to the file and to the memory tree, then the signer   *)
(* is awaited.  Proof lookups and checkpoint requests await the signer     *)
(* outside the lock.  Streams are fed after the lock is released.  The     *)
(* process may crash and restarts from the entries file.                   *)
(*                                                                         *)
(* A Merkle root is collision free, so a root and its tree size are named  *)
(* by the sequence of records they commit to; Merkle arithmetic is not     *)
(* modelled here.  A record stands for its hash and its 90-byte entry.     *)
(***************************************************************************)
EXTENDS Integers, Sequences, SequencesExt

CONSTANTS
  Records,
  Nil,            \* no record: an invalid submission, or no proof
  Submits, Lookups, Checkpoints,  \* requests, by route
  RecordOf,       \* record submitted or looked up; Nil fails validation
  Streams,        \* SSE clients
  MaxProofCache,  \* MAX_PROOF_CACHE
  FanoutOn,       \* graphFanoutEndpoint is configured
  MaxAttempts,    \* graphFanoutOptions.maxAttempts
  MaxCrashes, MaxIoFaults, MaxSignFaults  \* bounds on the environment

Requests == Submits \cup Lookups \cup Checkpoints

ASSUME LogNodeAssumption ==
  /\ Nil \notin Records
  /\ Submits \cap Lookups = {} /\ Submits \cap Checkpoints = {}
  /\ Lookups \cap Checkpoints = {}
  /\ RecordOf \in [Submits \cup Lookups -> Records \cup {Nil}]
  /\ \A q \in Lookups : RecordOf[q] # Nil
  /\ MaxProofCache \in Nat \ {0} /\ MaxAttempts \in Nat \ {0}
  /\ FanoutOn \in BOOLEAN
  /\ MaxCrashes \in Nat /\ MaxIoFaults \in Nat /\ MaxSignFaults \in Nat

VARIABLES
  tree,         \* rawEntries: the tree in memory
  disk,         \* the whole entries of the persistence file
  torn,         \* the file ends in a partial entry
  up,           \* FALSE: the process refused to start
  proofCache,   \* the Map, oldest insertion first: [hash, proof]
  submitQueue,  \* the submit lock: its holder, then the waiters
  pc,           \* stage of each request
  proof,        \* what a request in stage "signing" is having signed
  reply,        \* answer to each request
  streams,      \* SSE clients and what each was sent
  fanout,       \* posts to graph-node under way
  graph,        \* what graph-node received
  crashes, ioFaults, signFaults,
  issued,       \* history: tree heads that were signed
  dropped,      \* history: log indexes whose submission failed after the append
  forgotten     \* history: records the proof cache had or should have had and lost

serverVars == <<tree, disk, torn, up, proofCache, submitQueue, pc, proof, reply>>
feedVars   == <<streams, fanout, graph>>
countVars  == <<crashes, ioFaults, signFaults>>
ghostVars  == <<issued, dropped, forgotten>>
vars == <<serverVars, feedVars, countVars, ghostVars>>

Stages == {"idle", "queued", "signing", "settled", "lost"}
Kinds  == {"none", "ok", "rejected", "notfound", "error"}

\* path: the tree the inclusion proof was computed in; head: what was signed.
Proof == [log_index : Int, leaf : Records \cup {Nil},
          path : Seq(Records), head : Seq(Records)]
NoProof == [log_index |-> -1, leaf |-> Nil, path |-> <<>>, head |-> <<>>]

Fact == [record : Records, log_index : Nat]

Off == [on |-> FALSE, resumed |-> FALSE, after |-> -1, sent |-> <<>>]

TypeOK ==
  /\ tree \in Seq(Records) /\ disk \in Seq(Records)
  /\ torn \in BOOLEAN /\ up \in BOOLEAN
  /\ proofCache \in Seq([hash : Records, proof : Proof])
  /\ submitQueue \in Seq(Submits)
  /\ pc \in [Requests -> Stages]
  /\ proof \in [Requests -> Proof]
  /\ reply \in [Requests -> [kind : Kinds, proof : Proof]]
  /\ streams \in [Streams -> [on : BOOLEAN, resumed : BOOLEAN, after : Int,
                              sent : Seq(Nat)]]
  /\ fanout \subseteq [fact : Fact, attempt : 1..MaxAttempts]
  /\ graph \subseteq Fact
  /\ crashes \in Nat /\ ioFaults \in Nat /\ signFaults \in Nat
  /\ issued \subseteq Seq(Records)
  /\ dropped \subseteq Nat
  /\ forgotten \subseteq Records

Init ==
  /\ tree = <<>> /\ disk = <<>> /\ torn = FALSE /\ up = TRUE
  /\ proofCache = <<>> /\ submitQueue = <<>>
  /\ pc = [q \in Requests |-> "idle"]
  /\ proof = [q \in Requests |-> NoProof]
  /\ reply = [q \in Requests |-> [kind |-> "none", proof |-> NoProof]]
  /\ streams = [s \in Streams |-> Off]
  /\ fanout = {} /\ graph = {}
  /\ crashes = 0 /\ ioFaults = 0 /\ signFaults = 0
  /\ issued = {} /\ dropped = {} /\ forgotten = {}

-----------------------------------------------------------------------------
(* The proof cache. *)

CachedAt(r) == {i \in DOMAIN proofCache : proofCache[i].hash = r}

\* Map.set: a key already present keeps its place, a new one goes last.
MapSet(cache, r, p) ==
  IF \E i \in DOMAIN cache : cache[i].hash = r
    THEN [i \in DOMAIN cache |-> IF cache[i].hash = r
                                   THEN [hash |-> r, proof |-> p] ELSE cache[i]]
    ELSE Append(cache, [hash |-> r, proof |-> p])

\* At the limit the oldest entry goes first, even when r is already a key.
AtLimit == Len(proofCache) >= MaxProofCache

CacheProof(r, p) ==
  /\ proofCache' = MapSet(IF AtLimit THEN Tail(proofCache) ELSE proofCache, r, p)
  /\ forgotten' = IF AtLimit THEN forgotten \cup {Head(proofCache).hash} ELSE forgotten

-----------------------------------------------------------------------------
(* Fragments shared by the handlers. *)

\* makeProofBundle before its await, for log index i of tree t.
ProofBundle(t, i) ==
  [log_index |-> i, leaf |-> t[i + 1], path |-> t, head |-> t]

Settle(q, kind, p) ==
  /\ pc' = [pc EXCEPT ![q] = "settled"]
  /\ reply' = [reply EXCEPT ![q] = [kind |-> kind, proof |-> p]]

\* fanoutToGraph: fire and forget.
FanoutToGraph(r, i) ==
  fanout' = IF FanoutOn
              THEN fanout \cup {[fact |-> [record |-> r, log_index |-> i], attempt |-> 1]}
              ELSE fanout

AnswerFromCache(q) ==
  \E i \in CachedAt(RecordOf[q]) :
    /\ Settle(q, "ok", proofCache[i].proof)
    /\ IF q \in Submits THEN FanoutToGraph(RecordOf[q], proofCache[i].proof.log_index)
                        ELSE UNCHANGED fanout

\* Mutant of SignedHead: the tree is read after the await.
SignedHeadLate(q) == tree

\* await signer.sign(treeSize, rootHash): both values were taken before it.
SignedHead(q) == proof[q].head

HoldsLock(q) == pc[q] = "queued" /\ submitQueue # <<>> /\ Head(submitQueue) = q

-----------------------------------------------------------------------------
(* POST /v1/entries, handleSubmit. *)

\* From the verified body to the lock: reject, answer from the cache, or queue.
Submit(q) ==
  /\ up /\ pc[q] = "idle"
  /\ \/ /\ RecordOf[q] = Nil
        /\ Settle(q, "rejected", NoProof)
        /\ UNCHANGED <<submitQueue, fanout>>
     \/ /\ AnswerFromCache(q)
        /\ UNCHANGED submitQueue
     \/ /\ RecordOf[q] # Nil /\ CachedAt(RecordOf[q]) = {}
        /\ submitQueue' = Append(submitQueue, q)
        /\ pc' = [pc EXCEPT ![q] = "queued"]
        /\ UNCHANGED <<reply, fanout>>
  /\ UNCHANGED <<tree, disk, torn, up, proofCache, proof, streams, graph,
                 countVars, ghostVars>>

\* The lock is ours and the same record was cached while we waited.
SubmitCached(q) ==
  /\ up /\ HoldsLock(q)
  /\ AnswerFromCache(q)
  /\ submitQueue' = Tail(submitQueue)
  /\ UNCHANGED <<tree, disk, torn, up, proofCache, proof, streams, graph,
                 countVars, ghostVars>>

\* Mutants of SubmitAppend: the entry stays in the page cache and is lost; the
\* cache is not looked at again inside the lock.
SubmitAppendUnsynced(q) ==
  /\ up /\ HoldsLock(q)
  /\ CachedAt(RecordOf[q]) = {}
  /\ tree' = Append(tree, RecordOf[q])
  /\ proof' = [proof EXCEPT ![q] = ProofBundle(tree', Len(tree))]
  /\ pc' = [pc EXCEPT ![q] = "signing"]
  /\ UNCHANGED <<disk, torn, up, proofCache, submitQueue, reply, feedVars, countVars,
                 ghostVars>>

SubmitAppendUnchecked(q) ==
  /\ up /\ HoldsLock(q)
  /\ disk' = IF torn THEN disk ELSE Append(disk, RecordOf[q])
  /\ tree' = Append(tree, RecordOf[q])
  /\ proof' = [proof EXCEPT ![q] = ProofBundle(tree', Len(tree))]
  /\ pc' = [pc EXCEPT ![q] = "signing"]
  /\ UNCHANGED <<torn, up, proofCache, submitQueue, reply, feedVars, countVars,
                 ghostVars>>

\* The lock is ours: tree.append writes the file, then the memory tree; then
\* makeProofBundle takes its snapshot and awaits the signer.  After a torn write
\* the file's tail is not a readable entry, so nothing more counts as written.
SubmitAppend(q) ==
  /\ up /\ HoldsLock(q)
  /\ CachedAt(RecordOf[q]) = {}
  /\ disk' = IF torn THEN disk ELSE Append(disk, RecordOf[q])
  /\ tree' = Append(tree, RecordOf[q])
  /\ proof' = [proof EXCEPT ![q] = ProofBundle(tree', Len(tree))]
  /\ pc' = [pc EXCEPT ![q] = "signing"]
  /\ UNCHANGED <<torn, up, proofCache, submitQueue, reply, feedVars, countVars,
                 ghostVars>>

\* appendDurably throws: after a short write, or after all bytes when fsync
\* fails.  The memory tree does not advance, the handler answers 500.
SubmitIoFault(q) ==
  /\ up /\ HoldsLock(q)
  /\ CachedAt(RecordOf[q]) = {}
  /\ ioFaults < MaxIoFaults
  /\ ioFaults' = ioFaults + 1
  /\ \/ disk' = (IF torn THEN disk ELSE Append(disk, RecordOf[q])) /\ UNCHANGED torn
     \/ torn' = TRUE /\ UNCHANGED disk
     \/ UNCHANGED <<disk, torn>>
  /\ Settle(q, "error", NoProof)
  /\ submitQueue' = Tail(submitQueue)
  /\ UNCHANGED <<tree, up, proofCache, proof, feedVars, crashes, signFaults, ghostVars>>

\* Mutant of Notify: the cursor names the first entry the client still wants.
NotifyPastNext(s, i) ==
  IF streams[s].on /\ (streams[s].resumed => i > streams[s].after + 1)
    THEN [streams[s] EXCEPT !.sent = Append(@, i)] ELSE streams[s]

\* matchesEntryFilters with a cursor, and the write to one SSE client.
Notify(s, i) ==
  IF streams[s].on /\ (streams[s].resumed => i > streams[s].after)
    THEN [streams[s] EXCEPT !.sent = Append(@, i)] ELSE streams[s]

\* The signer resolves: cache, release, answer, notify the streams, fan out.
SubmitSigned(q) ==
  LET p == [proof[q] EXCEPT !.head = SignedHead(q)] IN
  /\ q \in Submits /\ pc[q] = "signing"
  /\ CacheProof(RecordOf[q], p)
  /\ submitQueue' = Tail(submitQueue)
  /\ Settle(q, "ok", p)
  /\ streams' = [s \in Streams |-> Notify(s, p.log_index)]
  /\ FanoutToGraph(RecordOf[q], p.log_index)
  /\ issued' = issued \cup {p.head}
  /\ UNCHANGED <<tree, disk, torn, up, proof, graph, countVars, dropped>>

\* Mutant of SubmitSignFault: the lock is released on the success path only.
SubmitSignFaultKeepsLock(q) ==
  /\ q \in Submits /\ pc[q] = "signing"
  /\ signFaults < MaxSignFaults
  /\ signFaults' = signFaults + 1
  /\ Settle(q, "error", NoProof)
  /\ UNCHANGED <<tree, disk, torn, up, proofCache, submitQueue, proof, feedVars,
                 crashes, ioFaults, ghostVars>>

\* The signer rejects: the entry stays in the log, uncached and unannounced.
SubmitSignFault(q) ==
  /\ q \in Submits /\ pc[q] = "signing"
  /\ signFaults < MaxSignFaults
  /\ signFaults' = signFaults + 1
  /\ submitQueue' = Tail(submitQueue)
  /\ Settle(q, "error", NoProof)
  /\ dropped' = dropped \cup {proof[q].log_index}
  /\ forgotten' = forgotten \cup {RecordOf[q]}
  /\ UNCHANGED <<tree, disk, torn, up, proofCache, proof, feedVars, crashes,
                 ioFaults, issued>>

-----------------------------------------------------------------------------
(* GET proof by record hash, handleProofLookup; GET /v1/checkpoint. *)

IndexesOf(r) == {i \in DOMAIN tree : tree[i] = r}

Lookup(q) ==
  /\ up /\ pc[q] = "idle"
  /\ \/ /\ AnswerFromCache(q)
        /\ UNCHANGED proof
     \/ /\ CachedAt(RecordOf[q]) = {} /\ IndexesOf(RecordOf[q]) = {}
        /\ Settle(q, "notfound", NoProof)
        /\ UNCHANGED <<proof, fanout>>
     \/ /\ CachedAt(RecordOf[q]) = {}
        /\ \E i \in IndexesOf(RecordOf[q]) :
             /\ \A j \in IndexesOf(RecordOf[q]) : i <= j
             /\ proof' = [proof EXCEPT ![q] = ProofBundle(tree, i - 1)]
        /\ pc' = [pc EXCEPT ![q] = "signing"]
        /\ UNCHANGED <<reply, fanout>>
  /\ UNCHANGED <<tree, disk, torn, up, proofCache, submitQueue, streams, graph,
                 countVars, ghostVars>>

LookupSigned(q) ==
  LET p == [proof[q] EXCEPT !.head = SignedHead(q)] IN
  /\ q \in Lookups /\ pc[q] = "signing"
  /\ CacheProof(RecordOf[q], p)
  /\ Settle(q, "ok", p)
  /\ issued' = issued \cup {p.head}
  /\ UNCHANGED <<tree, disk, torn, up, submitQueue, proof, feedVars, countVars, dropped>>

Checkpoint(q) ==
  /\ up /\ pc[q] = "idle"
  /\ IF tree = <<>>
       THEN Settle(q, "notfound", NoProof) /\ UNCHANGED proof
       ELSE /\ proof' = [proof EXCEPT ![q] = [NoProof EXCEPT !.path = tree, !.head = tree]]
            /\ pc' = [pc EXCEPT ![q] = "signing"]
            /\ UNCHANGED reply
  /\ UNCHANGED <<tree, disk, torn, up, proofCache, submitQueue, feedVars,
                 countVars, ghostVars>>

CheckpointSigned(q) ==
  LET p == [proof[q] EXCEPT !.head = SignedHead(q)] IN
  /\ q \in Checkpoints /\ pc[q] = "signing"
  /\ Settle(q, "ok", p)
  /\ issued' = issued \cup {p.head}
  /\ UNCHANGED <<tree, disk, torn, up, proofCache, submitQueue, proof, feedVars,
                 countVars, dropped, forgotten>>

\* The signer rejects for a lookup or a checkpoint: 500, nothing is cached.
ReadSignFault(q) ==
  /\ pc[q] = "signing"
  /\ signFaults < MaxSignFaults
  /\ signFaults' = signFaults + 1
  /\ Settle(q, "error", NoProof)
  /\ UNCHANGED <<tree, disk, torn, up, proofCache, submitQueue, proof, feedVars,
                 crashes, ioFaults, ghostVars>>

-----------------------------------------------------------------------------
(* GET /v1/stream, the graph fan-out, and the process. *)

\* handleStream registers the client and replays (after, tail] in one turn.  A
\* cursor beyond the tail is answered 409: no stream.
Subscribe(s) ==
  /\ up /\ ~streams[s].on
  /\ \/ \E a \in -1..(Len(tree) - 1) :
          streams' = [streams EXCEPT ![s] =
            [on |-> TRUE, resumed |-> TRUE, after |-> a,
             sent |-> [n \in 1..(Len(tree) - 1 - a) |-> a + n]]]
     \/ streams' = [streams EXCEPT ![s] =
          [on |-> TRUE, resumed |-> FALSE, after |-> Len(tree) - 1, sent |-> <<>>]]
  /\ UNCHANGED <<serverVars, fanout, graph, countVars, ghostVars>>

Unsubscribe(s) ==
  /\ streams[s].on
  /\ streams' = [streams EXCEPT ![s] = Off]
  /\ UNCHANGED <<serverVars, fanout, graph, countVars, ghostVars>>

\* fanoutToGraphAttempt: the post may arrive and its answer still be lost; a post
\* without a 2xx answer is tried again up to MaxAttempts times.
Fanout(m) ==
  \E arrived, acked \in BOOLEAN :
    /\ acked => arrived
    /\ graph' = IF arrived THEN graph \cup {m.fact} ELSE graph
    /\ fanout' = (fanout \ {m}) \cup
         (IF ~acked /\ m.attempt < MaxAttempts
            THEN {[m EXCEPT !.attempt = @ + 1]} ELSE {})
    /\ UNCHANGED <<serverVars, streams, countVars, ghostVars>>

\* The process dies between two turns of its event loop, or inside appendDurably
\* with the holder's entry written or torn.  It restarts from the file and
\* refuses to start when the file's length is not a whole number of entries.
Crash ==
  /\ up /\ crashes < MaxCrashes
  /\ crashes' = crashes + 1
  /\ \/ UNCHANGED <<disk, torn>>
     \/ \E q \in Submits :
          /\ HoldsLock(q) /\ CachedAt(RecordOf[q]) = {} /\ ~torn
          /\ \/ disk' = Append(disk, RecordOf[q]) /\ UNCHANGED torn
             \/ torn' = TRUE /\ UNCHANGED disk
  /\ up' = ~torn'
  /\ tree' = disk'
  /\ proofCache' = <<>> /\ submitQueue' = <<>>
  /\ pc' = [q \in Requests |-> IF pc[q] \in {"queued", "signing"} THEN "lost" ELSE pc[q]]
  /\ streams' = [s \in Streams |-> Off]
  /\ fanout' = {}
  /\ forgotten' = forgotten \cup Range(disk')
  /\ UNCHANGED <<proof, reply, graph, ioFaults, signFaults, issued, dropped>>

Next ==
  \/ \E q \in Submits :
       \/ Submit(q) \/ SubmitCached(q) \/ SubmitAppend(q) \/ SubmitIoFault(q)
       \/ SubmitSigned(q) \/ SubmitSignFault(q)
  \/ \E q \in Lookups : Lookup(q) \/ LookupSigned(q)
  \/ \E q \in Checkpoints : Checkpoint(q) \/ CheckpointSigned(q)
  \/ \E q \in Lookups \cup Checkpoints : ReadSignFault(q)
  \/ \E s \in Streams : Subscribe(s) \/ Unsubscribe(s)
  \/ \E m \in fanout : Fanout(m)
  \/ Crash

Spec == Init /\ [][Next]_vars

\* The event loop runs every turn that is ready and the signer settles.  Clients,
\* posts to graph-node and crashes are free.
Fairness ==
  \A q \in Submits : /\ WF_vars(SubmitCached(q) \/ SubmitAppend(q) \/ SubmitIoFault(q))
                     /\ WF_vars(SubmitSigned(q) \/ SubmitSignFault(q))

FairSpec == Spec /\ Fairness

-----------------------------------------------------------------------------
(* Properties. *)

\* tree.ts: "the entry bytes are written and fsynced before the in-memory tree
\* is advanced, so a successful append survives a hard kernel or host crash".
\* The signed heads, the acknowledged log indexes and the indexes graph-node recorded
\* agree with the entries file.
PublishedOnDisk ==
  /\ \A h \in issued : IsPrefix(h, disk)
  /\ \A q \in Submits : reply[q].kind = "ok"
       => LET i == reply[q].proof.log_index + 1
          IN  i \in DOMAIN disk /\ disk[i] = RecordOf[q]
  /\ \A f \in graph : f.log_index + 1 \in DOMAIN disk /\ disk[f.log_index + 1] = f.record

\* server.ts, the submit lock's comment: no proof bundle carries a checkpoint
\* whose tree is not the tree its inclusion proof was computed in, although
\* appends run while a signer is awaited; and the leaf proved is the record asked
\* for.
ProofVerifies ==
  \A q \in Requests : reply[q].kind = "ok" =>
    LET p == reply[q].proof IN
    /\ p.path = p.head
    /\ q \notin Checkpoints => p.head[p.log_index + 1] = RecordOf[q]

\* "two concurrent requests for the same record can both miss the fast-path check
\* ..., but only the first should append" (handleSubmit): a record has two entries
\* only if its proof was evicted, its signing failed, or the process restarted.
OneEntryPerRecord ==
  \A i, j \in DOMAIN tree : (i # j /\ tree[i] = tree[j]) => tree[i] \in forgotten

\* "instead of silently losing the disconnected interval" (README of log-node):
\* an open stream has been sent every acknowledged entry beyond its cursor, once
\* no submission is still signing that entry, unless that submission failed.
StreamNoGap ==
  \A s \in Streams, q \in Submits :
    LET i == reply[q].proof.log_index IN
    (/\ streams[s].on /\ reply[q].kind = "ok" /\ i > streams[s].after
     /\ i \notin dropped
     /\ \A w \in Submits : pc[w] = "signing" => proof[w].log_index # i)
      => i \in Range(streams[s].sent)

\* An open stream is sent entries as soon as they are in the tree, some while their
\* checkpoint is still being signed (handleStream's replay).  None of them can be taken
\* back: the client's cursor is not beyond the tail of the log after a restart, which
\* would answer it 409, and names the same entry there, unless an append to the file
\* failed before.
StreamsOnDisk ==
  \A s \in Streams : \A i \in Range(streams[s].sent) :
    /\ ~torn => i + 1 \in DOMAIN disk
    /\ ioFaults = 0 => disk[i + 1] = tree[i + 1]

\* acquireSubmitLock with its release in `finally`: every queued submission leaves
\* the lock, whatever the file, the cache or the signer did to the ones before it.
EverySubmitSettles ==
  \A q \in Submits : pc[q] = "queued" ~> pc[q] \in {"settled", "lost"}

\* LogNode implements the append-only log: the file is the log, the signed heads
\* are its published heads; a restart is a stuttering step, or accepts the entry
\* whose append it interrupted.
AbstractLog == INSTANCE AppendOnlyLog WITH log <- disk, heads <- issued

ImplementsAppendOnlyLog == AbstractLog!Spec

-----------------------------------------------------------------------------
(* The inductive invariants.  Inv holds whatever fails; DiskInv holds as     *)
(* long as no append to the file fails.                                      *)

\* A submission that waits or is being signed passed validation.
QueuedValid ==
  \A q \in Submits : pc[q] \in {"queued", "signing"} => RecordOf[q] \in Records

\* A submission being signed is the holder of the submit lock.
SignersLocked ==
  \A q \in Submits : pc[q] = "signing" => submitQueue # <<>> /\ Head(submitQueue) = q

\* A proof bundle proves record r in the tree its checkpoint commits to.
BundleFits(r, p) ==
  /\ p.path = p.head
  /\ p.log_index \in Nat /\ p.log_index < Len(p.head)
  /\ p.head[p.log_index + 1] = r

ProofsFit ==
  /\ \A q \in Submits \cup Lookups :
       pc[q] = "signing" => BundleFits(RecordOf[q], proof[q])
  /\ \A q \in Checkpoints : pc[q] = "signing" => proof[q].path = proof[q].head
  /\ \A i \in DOMAIN proofCache : BundleFits(proofCache[i].hash, proofCache[i].proof)

\* A record of the tree is cached, being signed, or was lost from the cache.
EntriesKnown ==
  \A i \in DOMAIN tree :
    \/ tree[i] \in forgotten
    \/ \E j \in DOMAIN proofCache : proofCache[j].hash = tree[i]
    \/ \E q \in Submits : pc[q] = "signing" /\ RecordOf[q] = tree[i]

Inv ==
  /\ TypeOK
  /\ QueuedValid /\ SignersLocked
  /\ ProofsFit /\ ProofVerifies
  /\ EntriesKnown /\ OneEntryPerRecord

\* The memory tree is the file, and the process runs on a whole file.
Synced == tree = disk /\ (torn => ~up)

\* What is about to leave the process agrees with the file.
PendingOnDisk ==
  /\ \A q \in Requests : pc[q] = "signing" =>
       proof[q].head # <<>> /\ IsPrefix(proof[q].head, disk)
  /\ \A i \in DOMAIN proofCache : IsPrefix(proofCache[i].proof.head, disk)
  /\ \A m \in fanout : /\ m.fact.log_index + 1 \in DOMAIN disk
                       /\ disk[m.fact.log_index + 1] = m.fact.record

DiskInv == ioFaults = 0 /\ Synced /\ PendingOnDisk /\ PublishedOnDisk

\* A bundle's log index names an entry of the tree in memory.
InTree(p) == p.log_index \in 0..(Len(tree) - 1)

IndexesInTree ==
  up => /\ \A q \in Submits : reply[q].kind = "ok" => InTree(reply[q].proof)
        /\ \A q \in Submits \cup Lookups : pc[q] = "signing" => InTree(proof[q])
        /\ \A i \in DOMAIN proofCache : InTree(proofCache[i].proof)

\* A whole file is no shorter than the tree, so a restart loses no index.
FileCovers == ~torn => Len(tree) <= Len(disk)

\* Every entry beyond the cursor of an open stream was sent, is being signed, or its
\* submission failed.
StreamsCovered ==
  \A s \in Streams : streams[s].on =>
    /\ up
    /\ \A i \in 0..(Len(tree) - 1) : i > streams[s].after =>
         \/ i \in Range(streams[s].sent)
         \/ i \in dropped
         \/ \E w \in Submits : pc[w] = "signing" /\ proof[w].log_index = i

FeedInv == IndexesInTree /\ FileCovers /\ StreamsCovered

\* Only open streams were sent something, and all of it is in the tree.
SentInTree ==
  \A s \in Streams : \A i \in Range(streams[s].sent) :
    streams[s].on /\ i \in 0..(Len(tree) - 1)

SentInv == SentInTree /\ (ioFaults = 0 => Synced)
=============================================================================
