--------------------------- MODULE LogNode_proofs ---------------------------
(***************************************************************************)
(* Proofs about LogNode for any records, requests and streams and any      *)
(* number of crashes and signer faults.  What is said of the entries file  *)
(* assumes that no append to it fails, MaxIoFaults = 0: lognode_iofault    *)
(* shows that it is needed.                                                *)
(***************************************************************************)
EXTENDS LogNode, TLAPS

Cached == [hash : Records, proof : Proof]

-----------------------------------------------------------------------------
(* Prefixes: what a longer tree head keeps of a shorter one. *)

\* IsPrefix, index by index.
LEMMA PrefixByIndex ==
  ASSUME NEW S, NEW s \in Seq(S), NEW t \in Seq(S)
  PROVE  IsPrefix(s, t) <=> /\ Len(s) <= Len(t)
                            /\ \A i \in 1..Len(s) : s[i] = t[i]
<1>1. /\ SubSeq(s, 1, Len(s)) = [i \in 1..Len(s) |-> s[i]]
      /\ Len(s) <= Len(t) => SubSeq(t, 1, Len(s)) = [i \in 1..Len(s) |-> t[i]]
  OBVIOUS
<1> QED BY <1>1 DEF IsPrefix

\* Extension is reflexive and transitive, and every view extends the empty one.
LEMMA PrefixOrder ==
  ASSUME NEW S, NEW s \in Seq(S), NEW t \in Seq(S), NEW u \in Seq(S)
  PROVE  /\ IsPrefix(s, s)
         /\ IsPrefix(<<>>, s)
         /\ IsPrefix(s, t) /\ IsPrefix(t, u) => IsPrefix(s, u)
<1>1. IsPrefix(s, s)
  BY PrefixByIndex
<1>2. IsPrefix(<<>>, s)
  <2>1. <<>> \in Seq(S) /\ Len(<<>>) = 0
    OBVIOUS
  <2>2. Len(<<>>) <= Len(s) /\ \A i \in 1..Len(<<>>) : <<>>[i] = s[i]
    BY <2>1
  <2> QED BY <2>1, <2>2, PrefixByIndex
<1>3. ASSUME IsPrefix(s, t), IsPrefix(t, u) PROVE IsPrefix(s, u)
  <2>1. Len(s) <= Len(t) /\ \A i \in 1..Len(s) : s[i] = t[i]
    BY <1>3, PrefixByIndex
  <2>2. Len(t) <= Len(u) /\ \A i \in 1..Len(t) : t[i] = u[i]
    BY <1>3, PrefixByIndex
  <2>3. Len(s) <= Len(u) /\ \A i \in 1..Len(s) : s[i] = u[i]
    BY <2>1, <2>2
  <2> QED BY <2>3, PrefixByIndex
<1> QED BY <1>1, <1>2, <1>3

\* A prefix is read back from the longer view, and the rest of that view put after
\* it gives the view.
LEMMA PrefixRest ==
  ASSUME NEW S, NEW s \in Seq(S), NEW t \in Seq(S), IsPrefix(s, t)
  PROVE  /\ SubSeq(t, 1, Len(s)) = s
         /\ s \o SubSeq(t, Len(s) + 1, Len(t)) = t
<1>1. Len(s) <= Len(t) /\ \A i \in 1..Len(s) : s[i] = t[i]
  BY PrefixByIndex
<1> QED BY <1>1

\* An appended entry keeps every earlier one at its place.
LEMMA PrefixAppend ==
  ASSUME NEW S, NEW s \in Seq(S), NEW t \in Seq(S), NEW x \in S
  PROVE  /\ Append(t, x) \in Seq(S)
         /\ Len(Append(t, x)) = Len(t) + 1
         /\ Append(t, x)[Len(t) + 1] = x
         /\ \A i \in DOMAIN t : i \in DOMAIN Append(t, x) /\ Append(t, x)[i] = t[i]
         /\ IsPrefix(s, t) => IsPrefix(s, Append(t, x))
<1>1. /\ Append(t, x) \in Seq(S)
      /\ Len(Append(t, x)) = Len(t) + 1
      /\ Append(t, x)[Len(t) + 1] = x
      /\ \A i \in DOMAIN t : i \in DOMAIN Append(t, x) /\ Append(t, x)[i] = t[i]
  OBVIOUS
<1>2. ASSUME IsPrefix(s, t) PROVE IsPrefix(s, Append(t, x))
  <2>1. Len(s) <= Len(t) /\ \A i \in 1..Len(s) : s[i] = t[i]
    BY <1>2, PrefixByIndex
  <2>2. /\ Len(s) <= Len(Append(t, x))
        /\ \A i \in 1..Len(s) : s[i] = Append(t, x)[i]
    BY <1>1, <2>1
  <2> QED BY <1>1, <2>2, PrefixByIndex
<1> QED BY <1>1, <1>2

\* A record at a place of a prefix is at that place of the longer view.
LEMMA PrefixAt ==
  ASSUME NEW S, NEW s \in Seq(S), NEW t \in Seq(S), IsPrefix(s, t),
         NEW i \in Nat, i < Len(s)
  PROVE  i + 1 \in DOMAIN t /\ t[i + 1] = s[i + 1]
<1>1. Len(s) <= Len(t) /\ \A j \in 1..Len(s) : s[j] = t[j]
  BY PrefixByIndex
<1> QED BY <1>1

-----------------------------------------------------------------------------
(* The fragments the handlers are made of. *)

\* Every key is kept, r is set and nothing else is added.
IsSet(c, r, p, new) ==
  /\ new \in Seq(Cached)
  /\ \E i \in DOMAIN new : new[i].hash = r
  /\ \A i \in DOMAIN new :
       \/ new[i] = [hash |-> r, proof |-> p]
       \/ i \in DOMAIN c /\ new[i] = c[i]
  /\ \A j \in DOMAIN c : \E i \in DOMAIN new : new[i].hash = c[j].hash

\* Map.set.
LEMMA MapSetFacts ==
  ASSUME NEW c \in Seq(Cached), NEW r \in Records, NEW p \in Proof,
         NEW new, new = MapSet(c, r, p)
  PROVE  IsSet(c, r, p, new)
<1> DEFINE e == [hash |-> r, proof |-> p]
<1>0. e \in Cached /\ e.hash = r
  BY DEF Cached
<1>1. CASE \E i \in DOMAIN c : c[i].hash = r
  <2> DEFINE m == [i \in DOMAIN c |-> IF c[i].hash = r THEN e ELSE c[i]]
  <2>1. new = m
    BY <1>1 DEF MapSet
  <2>2. m \in Seq(Cached) /\ DOMAIN m = DOMAIN c
    <3>1. DOMAIN c = 1..Len(c) /\ Len(c) \in Nat /\ \A i \in 1..Len(c) : c[i] \in Cached
      OBVIOUS
    <3>2. m \in [1..Len(c) -> Cached]
      BY <1>0, <3>1
    <3> QED BY <3>1, <3>2
  <2>3. \A i \in DOMAIN c : m[i].hash = c[i].hash
    BY <1>0
  <2>4. \A i \in DOMAIN c : m[i] = e \/ m[i] = c[i]
    OBVIOUS
  <2> HIDE DEF m
  <2> QED BY <1>1, <2>1, <2>2, <2>3, <2>4 DEF IsSet
<1>2. CASE ~ \E i \in DOMAIN c : c[i].hash = r
  <2>1. new = Append(c, e)
    BY <1>2 DEF MapSet
  <2> HIDE DEF e
  <2>2. /\ Append(c, e) \in Seq(Cached)
        /\ Len(c) + 1 \in DOMAIN Append(c, e) /\ Append(c, e)[Len(c) + 1] = e
        /\ \A i \in DOMAIN c : i \in DOMAIN Append(c, e) /\ Append(c, e)[i] = c[i]
        /\ \A i \in DOMAIN Append(c, e) : i \in DOMAIN c \/ i = Len(c) + 1
    BY <1>0
  <2> QED BY <1>0, <2>1, <2>2 DEF e, IsSet
<1> QED BY <1>1, <1>2

\* Caching a proof at the limit evicts one key, which is then remembered as
\* forgotten; every other key stays and only r is added.
LEMMA CacheFacts ==
  ASSUME TypeOK, NEW r \in Records, NEW p \in Proof, CacheProof(r, p)
  PROVE  /\ proofCache' \in Seq(Cached)
         /\ forgotten' \subseteq Records /\ forgotten \subseteq forgotten'
         /\ \E i \in DOMAIN proofCache' : proofCache'[i].hash = r
         /\ \A i \in DOMAIN proofCache' :
              \/ proofCache'[i] = [hash |-> r, proof |-> p]
              \/ \E j \in DOMAIN proofCache : proofCache'[i] = proofCache[j]
         /\ \A j \in DOMAIN proofCache :
              \/ proofCache[j].hash \in forgotten'
              \/ \E i \in DOMAIN proofCache' : proofCache'[i].hash = proofCache[j].hash
<1> DEFINE c == IF AtLimit THEN Tail(proofCache) ELSE proofCache
<1>1. proofCache \in Seq(Cached) /\ forgotten \subseteq Records
  BY DEF TypeOK, Cached
<1>2. /\ c \in Seq(Cached) /\ proofCache' = MapSet(c, r, p)
      /\ forgotten' \subseteq Records /\ forgotten \subseteq forgotten'
      /\ \A i \in DOMAIN c : \E j \in DOMAIN proofCache : c[i] = proofCache[j]
      /\ \A j \in DOMAIN proofCache :
           \/ proofCache[j].hash \in forgotten'
           \/ \E i \in DOMAIN c : c[i] = proofCache[j]
  <2>1. CASE AtLimit
    <3>1. /\ Len(proofCache) > 0 /\ proofCache # <<>>
          /\ c = Tail(proofCache) /\ proofCache' = MapSet(c, r, p)
          /\ forgotten' = forgotten \cup {Head(proofCache).hash}
      BY <1>1, <2>1, LogNodeAssumption DEF AtLimit, CacheProof
    <3>2. /\ Tail(proofCache) \in Seq(Cached)
          /\ Head(proofCache) = proofCache[1] /\ Head(proofCache) \in Cached
          /\ \A i \in DOMAIN Tail(proofCache) :
               i + 1 \in DOMAIN proofCache /\ Tail(proofCache)[i] = proofCache[i + 1]
          /\ \A j \in DOMAIN proofCache :
               j = 1 \/ (j - 1 \in DOMAIN Tail(proofCache)
                         /\ Tail(proofCache)[j - 1] = proofCache[j])
      BY <1>1, <3>1
    <3>3. Head(proofCache).hash \in Records
      BY <3>2 DEF Cached
    <3> HIDE DEF c
    <3> QED BY <1>1, <3>1, <3>2, <3>3
  <2>2. CASE ~AtLimit
    BY <1>1, <2>2 DEF CacheProof
  <2> QED BY <2>1, <2>2
<1> HIDE DEF c
<1>3. IsSet(c, r, p, proofCache')
  BY <1>2, MapSetFacts
<1>4. /\ proofCache' \in Seq(Cached)
      /\ \E i \in DOMAIN proofCache' : proofCache'[i].hash = r
      /\ \A i \in DOMAIN proofCache' :
           \/ proofCache'[i] = [hash |-> r, proof |-> p]
           \/ i \in DOMAIN c /\ proofCache'[i] = c[i]
      /\ \A j \in DOMAIN c :
           \E i \in DOMAIN proofCache' : proofCache'[i].hash = c[j].hash
  BY <1>3 DEF IsSet
<1>5. \A j \in DOMAIN proofCache :
        \/ proofCache[j].hash \in forgotten'
        \/ \E i \in DOMAIN proofCache' : proofCache'[i].hash = proofCache[j].hash
  BY <1>2, <1>4
<1> QED BY <1>2, <1>4, <1>5

\* makeProofBundle builds a bundle that fits the record at its index.
LEMMA BundleFacts ==
  ASSUME NEW t \in Seq(Records), NEW i \in Nat, i < Len(t)
  PROVE  /\ ProofBundle(t, i) \in Proof
         /\ BundleFits(t[i + 1], ProofBundle(t, i))
         /\ ProofBundle(t, i).head = t
<1>1. t[i + 1] \in Records
  OBVIOUS
<1> QED BY <1>1 DEF ProofBundle, Proof, BundleFits

\* SignedHead is the head taken before the await.
LEMMA SignedFacts ==
  ASSUME TypeOK, NEW q \in Requests
  PROVE  [proof[q] EXCEPT !.head = SignedHead(q)] = proof[q] /\ proof[q] \in Proof
<1>1. proof[q] \in Proof
  BY DEF TypeOK
<1> QED BY <1>1 DEF SignedHead, Proof

LEMMA NoProofType == NoProof \in Proof
<1>1. <<>> \in Seq(Records)
  OBVIOUS
<1> QED BY <1>1 DEF NoProof, Proof

\* Posts under way after fanoutToGraph: the earlier ones and perhaps one more.
LEMMA FanoutFacts ==
  ASSUME TypeOK, NEW r \in Records, NEW i \in Nat, FanoutToGraph(r, i)
  PROVE  /\ fanout' \subseteq [fact : Fact, attempt : 1..MaxAttempts]
         /\ \A m \in fanout' : m \in fanout \/ m.fact = [record |-> r, log_index |-> i]
<1>1. [fact |-> [record |-> r, log_index |-> i], attempt |-> 1]
         \in [fact : Fact, attempt : 1..MaxAttempts]
  BY LogNodeAssumption DEF Fact
<1> QED BY <1>1 DEF FanoutToGraph, TypeOK

\* The answer kind promises a proof that fits the request.
Fits(q, p) ==
  /\ p.path = p.head
  /\ q \notin Checkpoints => p.head[p.log_index + 1] = RecordOf[q]

\* A request that settles leaves the others where they are.
LEMMA SettleFacts ==
  ASSUME Inv, NEW q \in Requests, NEW kind \in Kinds, NEW p \in Proof,
         Settle(q, kind, p), kind = "ok" => Fits(q, p)
  PROVE  /\ pc' \in [Requests -> Stages]
         /\ reply' \in [Requests -> [kind : Kinds, proof : Proof]]
         /\ QueuedValid' /\ ProofVerifies'
         /\ \A w \in Requests : pc'[w] = "signing" => w # q /\ pc[w] = "signing"
         /\ \A w \in Requests : w # q => pc'[w] = pc[w]
<1> USE DEF Inv
<1>1. /\ pc \in [Requests -> Stages]
      /\ reply \in [Requests -> [kind : Kinds, proof : Proof]]
  BY DEF TypeOK
<1>2. /\ pc' \in [Requests -> Stages]
      /\ \A w \in Requests : w # q => pc'[w] = pc[w]
      /\ pc'[q] = "settled"
  BY <1>1 DEF Settle, Stages
<1>3. /\ reply' \in [Requests -> [kind : Kinds, proof : Proof]]
      /\ \A w \in Requests : w # q => reply'[w] = reply[w]
      /\ reply'[q].kind = kind /\ reply'[q].proof = p
  BY <1>1 DEF Settle
<1>4. QueuedValid'
  BY <1>2 DEF QueuedValid, Requests
<1>5. ProofVerifies'
  BY <1>3 DEF ProofVerifies, Fits
<1> QED BY <1>2, <1>3, <1>4, <1>5

-----------------------------------------------------------------------------
(* Frames: what each group of steps keeps. *)

\* A step that settles one request and changes neither tree, cache nor proofs, and
\* that hands the lock on only if no other submission is being signed.
LEMMA SettleKeeps ==
  ASSUME Inv, NEW q \in Requests, NEW kind \in Kinds, NEW p \in Proof,
         Settle(q, kind, p), kind = "ok" => Fits(q, p),
         UNCHANGED <<tree, proofCache, proof>>,
         forgotten' = forgotten \/ (q \in Submits /\ forgotten' = forgotten \cup {RecordOf[q]}),
         pc[q] = "signing" /\ q \in Submits => RecordOf[q] \in forgotten',
         \/ submitQueue' = submitQueue
         \/ q \in Submits /\ submitQueue # <<>> /\ Head(submitQueue) = q
  PROVE  /\ QueuedValid' /\ SignersLocked' /\ ProofsFit' /\ ProofVerifies'
         /\ EntriesKnown' /\ OneEntryPerRecord'
<1> USE DEF Inv
<1>1. /\ QueuedValid' /\ ProofVerifies'
      /\ \A w \in Requests : pc'[w] = "signing" => w # q /\ pc[w] = "signing"
      /\ \A w \in Requests : w # q => pc'[w] = pc[w]
  BY SettleFacts
<1>2. forgotten \subseteq forgotten'
  OBVIOUS
<1>3. SignersLocked'
  <2>1. \A w \in Submits : pc'[w] = "signing" =>
          w # q /\ submitQueue # <<>> /\ Head(submitQueue) = w
    BY <1>1 DEF SignersLocked, Requests
  <2> QED BY <2>1 DEF SignersLocked
<1>4. ProofsFit'
  BY <1>1 DEF ProofsFit, Requests
<1>5. EntriesKnown'
  BY <1>1, <1>2 DEF EntriesKnown, Requests
<1>6. OneEntryPerRecord'
  BY <1>2 DEF OneEntryPerRecord
<1> QED BY <1>1, <1>3, <1>4, <1>5, <1>6

\* A step that caches the proof request q was waiting for and settles q.
LEMMA SignedKeeps ==
  ASSUME Inv, NEW q \in Submits \cup Lookups, pc[q] = "signing",
         CacheProof(RecordOf[q], proof[q]), Settle(q, "ok", proof[q]),
         UNCHANGED <<tree, proof>>,
         submitQueue' = submitQueue \/ q \in Submits,
         q \in Lookups => submitQueue' = submitQueue
  PROVE  /\ pc' \in [Requests -> Stages]
         /\ reply' \in [Requests -> [kind : Kinds, proof : Proof]]
         /\ proofCache' \in Seq(Cached) /\ forgotten' \subseteq Records
         /\ QueuedValid' /\ SignersLocked' /\ ProofsFit' /\ ProofVerifies'
         /\ EntriesKnown' /\ OneEntryPerRecord'
<1> USE DEF Inv
<1>0. q \in Requests /\ proof[q] \in Proof /\ RecordOf[q] \in Records
      /\ BundleFits(RecordOf[q], proof[q]) /\ "ok" \in Kinds
  BY SignedFacts, LogNodeAssumption DEF Requests, ProofsFit, QueuedValid, Kinds
<1>1. Fits(q, proof[q])
  BY <1>0 DEF Fits, BundleFits
<1>2. /\ pc' \in [Requests -> Stages]
      /\ reply' \in [Requests -> [kind : Kinds, proof : Proof]]
      /\ QueuedValid' /\ ProofVerifies'
      /\ \A w \in Requests : pc'[w] = "signing" => w # q /\ pc[w] = "signing"
      /\ \A w \in Requests : w # q => pc'[w] = pc[w]
  BY <1>0, <1>1, SettleFacts
<1>3. /\ proofCache' \in Seq(Cached)
      /\ forgotten' \subseteq Records /\ forgotten \subseteq forgotten'
      /\ \E i \in DOMAIN proofCache' : proofCache'[i].hash = RecordOf[q]
      /\ \A i \in DOMAIN proofCache' :
           \/ proofCache'[i] = [hash |-> RecordOf[q], proof |-> proof[q]]
           \/ \E j \in DOMAIN proofCache : proofCache'[i] = proofCache[j]
      /\ \A j \in DOMAIN proofCache :
           \/ proofCache[j].hash \in forgotten'
           \/ \E i \in DOMAIN proofCache' : proofCache'[i].hash = proofCache[j].hash
  BY <1>0, CacheFacts
<1>4. SignersLocked'
  BY <1>2 DEF SignersLocked, Requests
<1>5. ProofsFit'
  <2>1. \A i \in DOMAIN proofCache' : BundleFits(proofCache'[i].hash, proofCache'[i].proof)
    BY <1>0, <1>3 DEF ProofsFit
  <2>2. /\ \A w \in Submits \cup Lookups :
             pc'[w] = "signing" => BundleFits(RecordOf[w], proof[w])
        /\ \A w \in Checkpoints : pc'[w] = "signing" => proof[w].path = proof[w].head
    BY <1>2 DEF ProofsFit, Requests
  <2> QED BY <2>1, <2>2 DEF ProofsFit, BundleFits
<1>6. EntriesKnown'
  <2> SUFFICES ASSUME NEW i \in DOMAIN tree
               PROVE  \/ tree[i] \in forgotten'
                      \/ \E j \in DOMAIN proofCache' : proofCache'[j].hash = tree[i]
                      \/ \E w \in Submits : pc'[w] = "signing" /\ RecordOf[w] = tree[i]
    BY DEF EntriesKnown
  <2>1. CASE tree[i] \in forgotten
    BY <1>3, <2>1
  <2>2. CASE \E j \in DOMAIN proofCache : proofCache[j].hash = tree[i]
    BY <1>3, <2>2
  <2>3. CASE \E w \in Submits : pc[w] = "signing" /\ RecordOf[w] = tree[i]
    BY <1>2, <1>3, <2>3 DEF Requests
  <2> QED BY <2>1, <2>2, <2>3 DEF EntriesKnown
<1>7. OneEntryPerRecord'
  BY <1>3 DEF OneEntryPerRecord
<1> QED BY <1>2, <1>3, <1>4, <1>5, <1>6, <1>7

\* A step that touches no request, tree or cache.
LEMMA IdleKeeps ==
  ASSUME Inv, UNCHANGED <<tree, proofCache, submitQueue, pc, proof, reply, forgotten>>
  PROVE  /\ QueuedValid' /\ SignersLocked' /\ ProofsFit' /\ ProofVerifies'
         /\ EntriesKnown' /\ OneEntryPerRecord'
<1> USE DEF Inv
<1>1. QueuedValid' /\ SignersLocked' /\ ProofsFit' /\ ProofVerifies'
  BY DEF QueuedValid, SignersLocked, ProofsFit, ProofVerifies
<1>2. EntriesKnown' /\ OneEntryPerRecord'
  BY DEF EntriesKnown, OneEntryPerRecord
<1> QED BY <1>1, <1>2

-----------------------------------------------------------------------------
(* Inv, one lemma per handler. *)

\* Every request named by a route is a request, and lookups name a record.
LEMMA RequestFacts ==
  /\ Submits \subseteq Requests /\ Lookups \subseteq Requests
  /\ Checkpoints \subseteq Requests
  /\ \A q \in Submits : q \notin Checkpoints /\ q \notin Lookups
  /\ \A q \in Lookups : q \notin Checkpoints /\ RecordOf[q] \in Records
  /\ \A q \in Submits : RecordOf[q] = Nil \/ RecordOf[q] \in Records
BY LogNodeAssumption DEF Requests

\* A cached answer fits and its fan-out post is well formed.
LEMMA CachedAnswer ==
  ASSUME Inv, NEW q \in Submits \cup Lookups, AnswerFromCache(q)
  PROVE  /\ RecordOf[q] \in Records
         /\ \E p \in Proof : Settle(q, "ok", p) /\ Fits(q, p)
         /\ fanout' \subseteq [fact : Fact, attempt : 1..MaxAttempts]
<1> USE DEF Inv
<1>1. PICK i \in CachedAt(RecordOf[q]) :
        /\ Settle(q, "ok", proofCache[i].proof)
        /\ IF q \in Submits
             THEN FanoutToGraph(RecordOf[q], proofCache[i].proof.log_index)
             ELSE UNCHANGED fanout
  BY DEF AnswerFromCache
<1>2. /\ i \in DOMAIN proofCache /\ proofCache[i] \in Cached
      /\ proofCache[i].hash = RecordOf[q]
  <2>1. i \in DOMAIN proofCache /\ proofCache[i].hash = RecordOf[q]
    BY <1>1 DEF CachedAt
  <2>2. proofCache \in Seq(Cached)
    BY DEF TypeOK, Cached
  <2>3. proofCache[i] \in Cached
    BY <2>1, <2>2
  <2> QED BY <2>1, <2>3
<1>3. RecordOf[q] \in Records /\ proofCache[i].proof \in Proof
  BY <1>2 DEF Cached
<1>4. BundleFits(RecordOf[q], proofCache[i].proof)
  BY <1>2 DEF ProofsFit
<1>5. Fits(q, proofCache[i].proof) /\ proofCache[i].proof.log_index \in Nat
  BY <1>4 DEF Fits, BundleFits
<1>6. fanout' \subseteq [fact : Fact, attempt : 1..MaxAttempts]
  <2>1. CASE q \in Submits
    BY <1>1, <1>3, <1>5, <2>1, FanoutFacts
  <2>2. CASE q \notin Submits
    BY <1>1, <2>2 DEF TypeOK
  <2> QED BY <2>1, <2>2
<1> QED BY <1>1, <1>3, <1>5, <1>6

LEMMA SubmitKeeps ==
  ASSUME Inv, NEW q \in Submits, Submit(q)
  PROVE  Inv'
<1> USE DEF Inv
<1>0. q \in Requests /\ {"ok", "rejected"} \subseteq Kinds /\ NoProof \in Proof
      /\ pc[q] = "idle"
  BY RequestFacts, NoProofType DEF Kinds, Submit
<1>1. UNCHANGED <<tree, disk, torn, up, proofCache, proof, streams, graph,
                  countVars, ghostVars>>
  BY DEF Submit
<1>2. CASE Settle(q, "rejected", NoProof) /\ UNCHANGED <<submitQueue, fanout>>
  <2>1. /\ QueuedValid' /\ SignersLocked' /\ ProofsFit' /\ ProofVerifies'
        /\ EntriesKnown' /\ OneEntryPerRecord'
    BY <1>0, <1>1, <1>2, SettleKeeps DEF ghostVars
  <2>2. /\ pc' \in [Requests -> Stages]
        /\ reply' \in [Requests -> [kind : Kinds, proof : Proof]]
    BY <1>0, <1>2, SettleFacts
  <2>3. TypeOK'
    BY <1>1, <1>2, <2>2 DEF TypeOK, countVars, ghostVars
  <2> QED BY <2>1, <2>3
<1>3. CASE AnswerFromCache(q) /\ UNCHANGED submitQueue
  <2>1. PICK p \in Proof : Settle(q, "ok", p) /\ Fits(q, p)
    BY <1>3, CachedAnswer
  <2>2. fanout' \subseteq [fact : Fact, attempt : 1..MaxAttempts]
    BY <1>3, CachedAnswer
  <2>3. /\ QueuedValid' /\ SignersLocked' /\ ProofsFit' /\ ProofVerifies'
        /\ EntriesKnown' /\ OneEntryPerRecord'
    BY <1>0, <1>1, <1>3, <2>1, SettleKeeps DEF ghostVars
  <2>4. /\ pc' \in [Requests -> Stages]
        /\ reply' \in [Requests -> [kind : Kinds, proof : Proof]]
    BY <1>0, <2>1, SettleFacts
  <2>5. TypeOK'
    BY <1>1, <1>3, <2>2, <2>4 DEF TypeOK, countVars, ghostVars
  <2> QED BY <2>3, <2>5
<1>4. CASE /\ RecordOf[q] # Nil /\ CachedAt(RecordOf[q]) = {}
           /\ submitQueue' = Append(submitQueue, q)
           /\ pc' = [pc EXCEPT ![q] = "queued"]
           /\ UNCHANGED <<reply, fanout>>
  <2>1. /\ pc' \in [Requests -> Stages] /\ pc'[q] = "queued"
        /\ \A w \in Requests : w # q => pc'[w] = pc[w]
    BY <1>0, <1>4 DEF TypeOK, Stages
  <2>2. /\ submitQueue' \in Seq(Submits)
        /\ submitQueue # <<>> => submitQueue' # <<>> /\ Head(submitQueue') = Head(submitQueue)
    BY <1>4 DEF TypeOK
  <2>3. TypeOK'
    BY <1>1, <1>4, <2>1, <2>2 DEF TypeOK, countVars, ghostVars
  <2>4. QueuedValid'
    BY <1>4, <2>1, RequestFacts DEF QueuedValid
  <2>5. SignersLocked'
    BY <2>1, <2>2, RequestFacts DEF SignersLocked
  <2>6. ProofsFit'
    BY <1>1, <2>1, RequestFacts DEF ProofsFit
  <2>7. ProofVerifies' /\ OneEntryPerRecord'
    BY <1>1, <1>4 DEF ProofVerifies, OneEntryPerRecord, ghostVars
  <2>8. EntriesKnown'
    BY <1>0, <1>1, <2>1, RequestFacts DEF EntriesKnown, ghostVars
  <2> QED BY <2>3, <2>4, <2>5, <2>6, <2>7, <2>8
<1> QED BY <1>2, <1>3, <1>4 DEF Submit

LEMMA SubmitCachedKeeps ==
  ASSUME Inv, NEW q \in Submits, SubmitCached(q)
  PROVE  Inv'
<1> USE DEF Inv
<1>0. /\ q \in Requests /\ "ok" \in Kinds /\ pc[q] = "queued"
      /\ submitQueue # <<>> /\ Head(submitQueue) = q
      /\ AnswerFromCache(q) /\ submitQueue' = Tail(submitQueue)
      /\ UNCHANGED <<tree, disk, torn, up, proofCache, proof, streams, graph,
                     countVars, ghostVars>>
  BY RequestFacts DEF Kinds, SubmitCached, HoldsLock
<1>1. PICK p \in Proof : Settle(q, "ok", p) /\ Fits(q, p)
  BY <1>0, CachedAnswer
<1>2. fanout' \subseteq [fact : Fact, attempt : 1..MaxAttempts]
  BY <1>0, CachedAnswer
<1>3. /\ QueuedValid' /\ SignersLocked' /\ ProofsFit' /\ ProofVerifies'
      /\ EntriesKnown' /\ OneEntryPerRecord'
  BY <1>0, <1>1, SettleKeeps DEF ghostVars
<1>4. /\ pc' \in [Requests -> Stages]
      /\ reply' \in [Requests -> [kind : Kinds, proof : Proof]]
  BY <1>0, <1>1, SettleFacts
<1>5. submitQueue' \in Seq(Submits)
  BY <1>0 DEF TypeOK
<1>6. TypeOK'
  BY <1>0, <1>2, <1>4, <1>5 DEF TypeOK, countVars, ghostVars
<1> QED BY <1>3, <1>6

\* While a submission holds the lock and waits, none is being signed.
LEMMA NoneSigning ==
  ASSUME Inv, NEW q \in Submits, HoldsLock(q)
  PROVE  \A w \in Submits : pc[w] # "signing"
BY DEF Inv, SignersLocked, HoldsLock

LEMMA SubmitAppendKeeps ==
  ASSUME Inv, NEW q \in Submits, SubmitAppend(q)
  PROVE  Inv'
<1> USE DEF Inv
<1> DEFINE r == RecordOf[q]
<1>0. /\ q \in Requests /\ pc[q] = "queued" /\ CachedAt(r) = {}
      /\ tree \in Seq(Records) /\ disk \in Seq(Records)
      /\ r \in Records /\ tree' = Append(tree, r)
      /\ disk' = (IF torn THEN disk ELSE Append(disk, r))
      /\ \A w \in Submits : pc[w] # "signing"
      /\ UNCHANGED <<torn, up, proofCache, submitQueue, reply, feedVars, countVars,
                     ghostVars>>
  BY RequestFacts, NoneSigning DEF SubmitAppend, HoldsLock, QueuedValid, TypeOK
<1>1. /\ tree' \in Seq(Records) /\ Len(tree') = Len(tree) + 1
      /\ tree'[Len(tree) + 1] = r
      /\ \A i \in DOMAIN tree : i \in DOMAIN tree' /\ tree'[i] = tree[i]
      /\ \A i \in DOMAIN tree' : i \in DOMAIN tree \/ i = Len(tree) + 1
      /\ Len(tree) \in Nat
  BY <1>0
<1>2. disk' \in Seq(Records)
  BY <1>0
<1>3. /\ ProofBundle(tree', Len(tree)) \in Proof
      /\ BundleFits(r, ProofBundle(tree', Len(tree)))
  <2>1. Len(tree) < Len(tree')
    BY <1>1
  <2> QED BY <1>1, <2>1, BundleFacts
<1>4. /\ proof' \in [Requests -> Proof] /\ BundleFits(r, proof'[q])
      /\ \A w \in Requests : w # q => proof'[w] = proof[w]
  BY <1>0, <1>3 DEF SubmitAppend, TypeOK
<1>5. /\ pc' \in [Requests -> Stages] /\ pc'[q] = "signing"
      /\ \A w \in Requests : w # q => pc'[w] = pc[w]
  BY <1>0 DEF SubmitAppend, TypeOK, Stages
<1> HIDE DEF r
<1>6. TypeOK'
  BY <1>0, <1>1, <1>2, <1>4, <1>5 DEF TypeOK, feedVars, countVars, ghostVars
<1>7. QueuedValid'
  BY <1>0, <1>5, RequestFacts DEF QueuedValid, r
<1>8. SignersLocked'
  <2>1. submitQueue # <<>> /\ Head(submitQueue) = q
    BY DEF SubmitAppend, HoldsLock
  <2>2. \A w \in Submits : pc'[w] = "signing" => w = q
    BY <1>0, <1>5, RequestFacts
  <2> QED BY <1>0, <2>1, <2>2 DEF SignersLocked
<1>9. ProofsFit'
  <2>1. /\ \A w \in Submits \cup Lookups : pc'[w] = "signing" =>
             BundleFits(RecordOf[w], proof'[w])
    BY <1>4, <1>5, RequestFacts DEF ProofsFit, r
  <2>2. \A w \in Checkpoints : pc'[w] = "signing" => proof'[w].path = proof'[w].head
    BY <1>4, <1>5, RequestFacts DEF ProofsFit
  <2> QED BY <1>0, <2>1, <2>2 DEF ProofsFit, BundleFits
<1>10. ProofVerifies'
  BY <1>0 DEF ProofVerifies
<1>11. \A i \in DOMAIN tree : tree[i] = r => r \in forgotten
  BY <1>0 DEF EntriesKnown, CachedAt
<1>12. EntriesKnown'
  BY <1>0, <1>1, <1>5, RequestFacts DEF EntriesKnown, ghostVars, r
<1>13. OneEntryPerRecord'
  BY <1>0, <1>1, <1>11 DEF OneEntryPerRecord, ghostVars
<1> QED BY <1>6, <1>7, <1>8, <1>9, <1>10, <1>12, <1>13

LEMMA SubmitIoFaultKeeps ==
  ASSUME Inv, NEW q \in Submits, SubmitIoFault(q)
  PROVE  Inv'
<1> USE DEF Inv
<1>0. /\ q \in Requests /\ "error" \in Kinds /\ NoProof \in Proof
      /\ pc[q] = "queued" /\ submitQueue # <<>> /\ Head(submitQueue) = q
      /\ Settle(q, "error", NoProof) /\ submitQueue' = Tail(submitQueue)
      /\ ioFaults' = ioFaults + 1 /\ RecordOf[q] \in Records
      /\ UNCHANGED <<tree, up, proofCache, proof, feedVars, crashes, signFaults,
                     ghostVars>>
  BY RequestFacts, NoProofType DEF Kinds, SubmitIoFault, HoldsLock, QueuedValid
<1>1. disk' \in Seq(Records) /\ torn' \in BOOLEAN
  <2>1. disk \in Seq(Records) /\ Append(disk, RecordOf[q]) \in Seq(Records)
    BY <1>0 DEF TypeOK
  <2>2. torn \in BOOLEAN
    BY DEF TypeOK
  <2>3. disk' \in {disk, Append(disk, RecordOf[q])}
    BY DEF SubmitIoFault
  <2>4. torn' = torn \/ torn' = TRUE
    BY DEF SubmitIoFault
  <2>5. torn' \in BOOLEAN
    BY <2>2, <2>4
  <2> QED BY <2>1, <2>3, <2>5
<1>2. /\ QueuedValid' /\ SignersLocked' /\ ProofsFit' /\ ProofVerifies'
      /\ EntriesKnown' /\ OneEntryPerRecord'
  BY <1>0, SettleKeeps DEF ghostVars
<1>3. /\ pc' \in [Requests -> Stages]
      /\ reply' \in [Requests -> [kind : Kinds, proof : Proof]]
  BY <1>0, SettleFacts
<1>4. submitQueue' \in Seq(Submits)
  BY <1>0 DEF TypeOK
<1>5. TypeOK'
  BY <1>0, <1>1, <1>3, <1>4 DEF TypeOK, feedVars, ghostVars
<1> QED BY <1>2, <1>5

\* Streams keep their types whatever they are sent.
LEMMA NotifyType ==
  ASSUME TypeOK, NEW i \in Nat, streams' = [s \in Streams |-> Notify(s, i)]
  PROVE  streams' \in [Streams -> [on : BOOLEAN, resumed : BOOLEAN, after : Int,
                                    sent : Seq(Nat)]]
<1> DEFINE Client == [on : BOOLEAN, resumed : BOOLEAN, after : Int, sent : Seq(Nat)]
<1>1. streams \in [Streams -> Client]
  BY DEF TypeOK
<1>2. \A s \in Streams : Notify(s, i) \in Client
  <2> SUFFICES ASSUME NEW s \in Streams PROVE Notify(s, i) \in Client
    OBVIOUS
  <2>1. /\ streams[s] \in Client /\ streams[s].sent \in Seq(Nat)
        /\ Append(streams[s].sent, i) \in Seq(Nat)
    BY <1>1
  <2>2. [streams[s] EXCEPT !.sent = Append(@, i)] \in Client
    BY <2>1
  <2> QED BY <2>1, <2>2 DEF Notify
<1> QED BY <1>2

LEMMA SubmitSignedKeeps ==
  ASSUME Inv, NEW q \in Submits, SubmitSigned(q)
  PROVE  Inv'
<1> USE DEF Inv
<1>0. /\ q \in Requests /\ pc[q] = "signing"
      /\ [proof[q] EXCEPT !.head = SignedHead(q)] = proof[q] /\ proof[q] \in Proof
      /\ submitQueue # <<>> /\ BundleFits(RecordOf[q], proof[q])
      /\ RecordOf[q] \in Records
  BY RequestFacts, SignedFacts DEF SubmitSigned, SignersLocked, ProofsFit, QueuedValid
<1>1. /\ CacheProof(RecordOf[q], proof[q]) /\ Settle(q, "ok", proof[q])
      /\ submitQueue' = Tail(submitQueue)
      /\ streams' = [s \in Streams |-> Notify(s, proof[q].log_index)]
      /\ FanoutToGraph(RecordOf[q], proof[q].log_index)
      /\ issued' = issued \cup {proof[q].head}
      /\ UNCHANGED <<tree, disk, torn, up, proof, graph, countVars, dropped>>
  <2> DEFINE p == [proof[q] EXCEPT !.head = SignedHead(q)]
  <2>1. /\ CacheProof(RecordOf[q], p) /\ Settle(q, "ok", p)
        /\ submitQueue' = Tail(submitQueue)
        /\ streams' = [s \in Streams |-> Notify(s, p.log_index)]
        /\ FanoutToGraph(RecordOf[q], p.log_index)
        /\ issued' = issued \cup {p.head}
        /\ UNCHANGED <<tree, disk, torn, up, proof, graph, countVars, dropped>>
    BY DEF SubmitSigned
  <2>2. p = proof[q]
    BY <1>0
  <2> HIDE DEF p
  <2> QED BY <2>1, <2>2
<1>2. /\ pc' \in [Requests -> Stages]
      /\ reply' \in [Requests -> [kind : Kinds, proof : Proof]]
      /\ proofCache' \in Seq(Cached) /\ forgotten' \subseteq Records
      /\ QueuedValid' /\ SignersLocked' /\ ProofsFit' /\ ProofVerifies'
      /\ EntriesKnown' /\ OneEntryPerRecord'
  BY <1>0, <1>1, SignedKeeps, RequestFacts
<1>3. proof[q].log_index \in Nat /\ proof[q].head \in Seq(Records)
  BY <1>0 DEF BundleFits, Proof
<1>4. streams' \in [Streams -> [on : BOOLEAN, resumed : BOOLEAN, after : Int,
                               sent : Seq(Nat)]]
  BY <1>1, <1>3, NotifyType
<1>5. fanout' \subseteq [fact : Fact, attempt : 1..MaxAttempts]
  BY <1>0, <1>1, <1>3, FanoutFacts
<1>6. submitQueue' \in Seq(Submits) /\ issued' \subseteq Seq(Records)
  BY <1>0, <1>1, <1>3 DEF TypeOK
<1>7. TypeOK'
  BY <1>1, <1>2, <1>4, <1>5, <1>6 DEF TypeOK, countVars, Cached
<1> QED BY <1>2, <1>7

LEMMA SubmitSignFaultKeeps ==
  ASSUME Inv, NEW q \in Submits, SubmitSignFault(q)
  PROVE  Inv'
<1> USE DEF Inv
<1>0. /\ q \in Requests /\ "error" \in Kinds /\ NoProof \in Proof
      /\ pc[q] = "signing" /\ submitQueue # <<>> /\ Head(submitQueue) = q
      /\ Settle(q, "error", NoProof) /\ submitQueue' = Tail(submitQueue)
      /\ signFaults' = signFaults + 1 /\ RecordOf[q] \in Records
      /\ BundleFits(RecordOf[q], proof[q])
      /\ dropped' = dropped \cup {proof[q].log_index}
      /\ forgotten' = forgotten \cup {RecordOf[q]}
      /\ UNCHANGED <<tree, disk, torn, up, proofCache, proof, feedVars, crashes,
                     ioFaults, issued>>
  BY RequestFacts, NoProofType
     DEF Kinds, SubmitSignFault, SignersLocked, ProofsFit, QueuedValid
<1>1. /\ QueuedValid' /\ SignersLocked' /\ ProofsFit' /\ ProofVerifies'
      /\ EntriesKnown' /\ OneEntryPerRecord'
  BY <1>0, SettleKeeps
<1>2. /\ pc' \in [Requests -> Stages]
      /\ reply' \in [Requests -> [kind : Kinds, proof : Proof]]
  BY <1>0, SettleFacts
<1>3. submitQueue' \in Seq(Submits) /\ dropped' \subseteq Nat /\ forgotten' \subseteq Records
  <2>1. submitQueue' \in Seq(Submits)
    BY <1>0 DEF TypeOK
  <2>2. proof[q].log_index \in Nat
    BY <1>0 DEF BundleFits
  <2> QED BY <1>0, <2>1, <2>2 DEF TypeOK
<1>4. TypeOK'
  BY <1>0, <1>2, <1>3 DEF TypeOK, feedVars
<1> QED BY <1>1, <1>4

\* A reader starts to wait for the signer with a snapshot p.
LEMMA StartSigning ==
  ASSUME Inv, NEW q \in Lookups \cup Checkpoints, NEW p \in Proof,
         proof' = [proof EXCEPT ![q] = p], pc' = [pc EXCEPT ![q] = "signing"],
         q \in Lookups => BundleFits(RecordOf[q], p), p.path = p.head,
         pc[q] = "idle",
         UNCHANGED <<tree, proofCache, submitQueue, reply, forgotten>>
  PROVE  /\ pc' \in [Requests -> Stages] /\ proof' \in [Requests -> Proof]
         /\ QueuedValid' /\ SignersLocked' /\ ProofsFit' /\ ProofVerifies'
         /\ EntriesKnown' /\ OneEntryPerRecord'
<1> USE DEF Inv
<1>1. /\ q \in Requests /\ q \notin Submits
  BY LogNodeAssumption DEF Requests
<1>2. /\ pc' \in [Requests -> Stages] /\ proof' \in [Requests -> Proof]
      /\ pc'[q] = "signing" /\ proof'[q] = p
      /\ \A w \in Requests : w # q => pc'[w] = pc[w] /\ proof'[w] = proof[w]
  BY <1>1 DEF TypeOK, Stages
<1>3. QueuedValid' /\ SignersLocked'
  BY <1>1, <1>2, RequestFacts DEF QueuedValid, SignersLocked
<1>4. ProofsFit'
  <2>1. \A w \in Submits \cup Lookups : pc'[w] = "signing" =>
          BundleFits(RecordOf[w], proof'[w])
    BY <1>1, <1>2, RequestFacts DEF ProofsFit
  <2>2. \A w \in Checkpoints : pc'[w] = "signing" => proof'[w].path = proof'[w].head
    BY <1>2, RequestFacts DEF ProofsFit
  <2> QED BY <2>1, <2>2 DEF ProofsFit, BundleFits
<1>5. ProofVerifies' /\ OneEntryPerRecord'
  BY DEF ProofVerifies, OneEntryPerRecord
<1>6. EntriesKnown'
  BY <1>1, <1>2, RequestFacts DEF EntriesKnown
<1> QED BY <1>2, <1>3, <1>4, <1>5, <1>6

LEMMA LookupKeeps ==
  ASSUME Inv, NEW q \in Lookups, Lookup(q)
  PROVE  Inv'
<1> USE DEF Inv
<1>0. /\ q \in Requests /\ q \notin Submits /\ pc[q] = "idle"
      /\ {"ok", "notfound"} \subseteq Kinds /\ NoProof \in Proof
      /\ tree \in Seq(Records)
      /\ UNCHANGED <<tree, disk, torn, up, proofCache, submitQueue, streams, graph,
                     countVars, ghostVars>>
  BY RequestFacts, NoProofType DEF Kinds, Lookup, TypeOK
<1>1. CASE AnswerFromCache(q) /\ UNCHANGED proof
  <2>1. PICK p \in Proof : Settle(q, "ok", p) /\ Fits(q, p)
    BY <1>1, CachedAnswer
  <2>2. fanout' \subseteq [fact : Fact, attempt : 1..MaxAttempts]
    BY <1>1, CachedAnswer
  <2>3. /\ QueuedValid' /\ SignersLocked' /\ ProofsFit' /\ ProofVerifies'
        /\ EntriesKnown' /\ OneEntryPerRecord'
    BY <1>0, <1>1, <2>1, SettleKeeps DEF ghostVars
  <2>4. /\ pc' \in [Requests -> Stages]
        /\ reply' \in [Requests -> [kind : Kinds, proof : Proof]]
    BY <1>0, <2>1, SettleFacts
  <2>5. TypeOK'
    BY <1>0, <1>1, <2>2, <2>4 DEF TypeOK, countVars, ghostVars
  <2> QED BY <2>3, <2>5
<1>2. CASE Settle(q, "notfound", NoProof) /\ UNCHANGED <<proof, fanout>>
  <2>1. /\ QueuedValid' /\ SignersLocked' /\ ProofsFit' /\ ProofVerifies'
        /\ EntriesKnown' /\ OneEntryPerRecord'
    BY <1>0, <1>2, SettleKeeps DEF ghostVars
  <2>2. /\ pc' \in [Requests -> Stages]
        /\ reply' \in [Requests -> [kind : Kinds, proof : Proof]]
    BY <1>0, <1>2, SettleFacts
  <2>3. TypeOK'
    BY <1>0, <1>2, <2>2 DEF TypeOK, countVars, ghostVars
  <2> QED BY <2>1, <2>3
<1>3. ASSUME NEW i \in IndexesOf(RecordOf[q]),
             proof' = [proof EXCEPT ![q] = ProofBundle(tree, i - 1)],
             pc' = [pc EXCEPT ![q] = "signing"], UNCHANGED <<reply, fanout>>
      PROVE  Inv'
  <2>1. /\ i - 1 \in Nat /\ i - 1 < Len(tree) /\ tree[(i - 1) + 1] = RecordOf[q]
    BY <1>0 DEF IndexesOf
  <2>2. /\ ProofBundle(tree, i - 1) \in Proof
        /\ BundleFits(RecordOf[q], ProofBundle(tree, i - 1))
    BY <1>0, <2>1, BundleFacts
  <2>3. ProofBundle(tree, i - 1).path = ProofBundle(tree, i - 1).head
    BY <2>2 DEF BundleFits
  <2>4. /\ pc' \in [Requests -> Stages] /\ proof' \in [Requests -> Proof]
        /\ QueuedValid' /\ SignersLocked' /\ ProofsFit' /\ ProofVerifies'
        /\ EntriesKnown' /\ OneEntryPerRecord'
    BY <1>0, <1>3, <2>2, <2>3, StartSigning DEF ghostVars
  <2>5. TypeOK'
    BY <1>0, <1>3, <2>4 DEF TypeOK, countVars, ghostVars
  <2> QED BY <2>4, <2>5
<1> QED BY <1>1, <1>2, <1>3 DEF Lookup

LEMMA LookupSignedKeeps ==
  ASSUME Inv, NEW q \in Lookups, LookupSigned(q)
  PROVE  Inv'
<1> USE DEF Inv
<1>0. /\ q \in Requests /\ pc[q] = "signing"
      /\ [proof[q] EXCEPT !.head = SignedHead(q)] = proof[q] /\ proof[q] \in Proof
  BY RequestFacts, SignedFacts DEF LookupSigned
<1>1. /\ CacheProof(RecordOf[q], proof[q]) /\ Settle(q, "ok", proof[q])
      /\ issued' = issued \cup {proof[q].head}
      /\ UNCHANGED <<tree, disk, torn, up, submitQueue, proof, feedVars, countVars, dropped>>
  <2> DEFINE p == [proof[q] EXCEPT !.head = SignedHead(q)]
  <2>1. /\ CacheProof(RecordOf[q], p) /\ Settle(q, "ok", p)
        /\ issued' = issued \cup {p.head}
        /\ UNCHANGED <<tree, disk, torn, up, submitQueue, proof, feedVars, countVars, dropped>>
    BY DEF LookupSigned
  <2>2. p = proof[q]
    BY <1>0
  <2> HIDE DEF p
  <2> QED BY <2>1, <2>2
<1>2. /\ pc' \in [Requests -> Stages]
      /\ reply' \in [Requests -> [kind : Kinds, proof : Proof]]
      /\ proofCache' \in Seq(Cached) /\ forgotten' \subseteq Records
      /\ QueuedValid' /\ SignersLocked' /\ ProofsFit' /\ ProofVerifies'
      /\ EntriesKnown' /\ OneEntryPerRecord'
  BY <1>0, <1>1, SignedKeeps
<1>3. issued' \subseteq Seq(Records)
  BY <1>0, <1>1 DEF TypeOK, Proof
<1>4. TypeOK'
  BY <1>1, <1>2, <1>3 DEF TypeOK, feedVars, countVars, Cached
<1> QED BY <1>2, <1>4

LEMMA CheckpointKeeps ==
  ASSUME Inv, NEW q \in Checkpoints, Checkpoint(q)
  PROVE  Inv'
<1> USE DEF Inv
<1> DEFINE p == [NoProof EXCEPT !.path = tree, !.head = tree]
<1>0. /\ q \in Requests /\ q \notin Submits /\ q \notin Lookups /\ pc[q] = "idle"
      /\ "notfound" \in Kinds /\ NoProof \in Proof /\ tree \in Seq(Records)
      /\ UNCHANGED <<tree, disk, torn, up, proofCache, submitQueue, feedVars,
                     countVars, ghostVars>>
  BY RequestFacts, NoProofType DEF Kinds, Checkpoint, TypeOK
<1>1. CASE Settle(q, "notfound", NoProof) /\ UNCHANGED proof
  <2>1. /\ QueuedValid' /\ SignersLocked' /\ ProofsFit' /\ ProofVerifies'
        /\ EntriesKnown' /\ OneEntryPerRecord'
    BY <1>0, <1>1, SettleKeeps DEF ghostVars
  <2>2. /\ pc' \in [Requests -> Stages]
        /\ reply' \in [Requests -> [kind : Kinds, proof : Proof]]
    BY <1>0, <1>1, SettleFacts
  <2>3. TypeOK'
    BY <1>0, <1>1, <2>2 DEF TypeOK, feedVars, countVars, ghostVars
  <2> QED BY <2>1, <2>3
<1>2. CASE /\ proof' = [proof EXCEPT ![q] = p]
           /\ pc' = [pc EXCEPT ![q] = "signing"] /\ UNCHANGED reply
  <2>1. p \in Proof /\ p.path = p.head
    BY <1>0 DEF NoProof, Proof
  <2> HIDE DEF p
  <2>2. /\ pc' \in [Requests -> Stages] /\ proof' \in [Requests -> Proof]
        /\ QueuedValid' /\ SignersLocked' /\ ProofsFit' /\ ProofVerifies'
        /\ EntriesKnown' /\ OneEntryPerRecord'
    BY <1>0, <1>2, <2>1, StartSigning DEF ghostVars
  <2>3. TypeOK'
    BY <1>0, <1>2, <2>2 DEF TypeOK, feedVars, countVars, ghostVars
  <2> QED BY <2>2, <2>3
<1> QED BY <1>1, <1>2 DEF Checkpoint

LEMMA CheckpointSignedKeeps ==
  ASSUME Inv, NEW q \in Checkpoints, CheckpointSigned(q)
  PROVE  Inv'
<1> USE DEF Inv
<1>0. /\ q \in Requests /\ q \notin Submits /\ pc[q] = "signing" /\ "ok" \in Kinds
      /\ [proof[q] EXCEPT !.head = SignedHead(q)] = proof[q] /\ proof[q] \in Proof
      /\ Fits(q, proof[q])
  BY RequestFacts, SignedFacts DEF CheckpointSigned, Kinds, Fits, ProofsFit
<1>1. /\ Settle(q, "ok", proof[q])
      /\ issued' = issued \cup {proof[q].head}
      /\ UNCHANGED <<tree, disk, torn, up, proofCache, submitQueue, proof, feedVars,
                     countVars, dropped, forgotten>>
  <2> DEFINE p == [proof[q] EXCEPT !.head = SignedHead(q)]
  <2>1. /\ Settle(q, "ok", p)
        /\ issued' = issued \cup {p.head}
        /\ UNCHANGED <<tree, disk, torn, up, proofCache, submitQueue, proof, feedVars,
                       countVars, dropped, forgotten>>
    BY DEF CheckpointSigned
  <2>2. p = proof[q]
    BY <1>0
  <2> HIDE DEF p
  <2> QED BY <2>1, <2>2
<1>2. /\ QueuedValid' /\ SignersLocked' /\ ProofsFit' /\ ProofVerifies'
      /\ EntriesKnown' /\ OneEntryPerRecord'
  BY <1>0, <1>1, SettleKeeps
<1>3. /\ pc' \in [Requests -> Stages]
      /\ reply' \in [Requests -> [kind : Kinds, proof : Proof]]
  BY <1>0, <1>1, SettleFacts
<1>4. issued' \subseteq Seq(Records)
  BY <1>0, <1>1 DEF TypeOK, Proof
<1>5. TypeOK'
  BY <1>1, <1>3, <1>4 DEF TypeOK, feedVars, countVars
<1> QED BY <1>2, <1>5

LEMMA ReadSignFaultKeeps ==
  ASSUME Inv, NEW q \in Lookups \cup Checkpoints, ReadSignFault(q)
  PROVE  Inv'
<1> USE DEF Inv
<1>0. /\ q \in Requests /\ q \notin Submits /\ "error" \in Kinds /\ NoProof \in Proof
      /\ Settle(q, "error", NoProof) /\ signFaults' = signFaults + 1
      /\ UNCHANGED <<tree, disk, torn, up, proofCache, submitQueue, proof, feedVars,
                     crashes, ioFaults, ghostVars>>
  BY RequestFacts, NoProofType, LogNodeAssumption DEF Kinds, ReadSignFault
<1>1. /\ QueuedValid' /\ SignersLocked' /\ ProofsFit' /\ ProofVerifies'
      /\ EntriesKnown' /\ OneEntryPerRecord'
  BY <1>0, SettleKeeps DEF ghostVars
<1>2. /\ pc' \in [Requests -> Stages]
      /\ reply' \in [Requests -> [kind : Kinds, proof : Proof]]
  BY <1>0, SettleFacts
<1>3. TypeOK'
  BY <1>0, <1>2 DEF TypeOK, feedVars, ghostVars
<1> QED BY <1>1, <1>3

LEMMA StreamKeeps ==
  ASSUME Inv, NEW s \in Streams, Subscribe(s) \/ Unsubscribe(s)
  PROVE  Inv'
<1> USE DEF Inv
<1> DEFINE Client == [on : BOOLEAN, resumed : BOOLEAN, after : Int, sent : Seq(Nat)]
<1>0. UNCHANGED <<serverVars, fanout, graph, countVars, ghostVars>>
  BY DEF Subscribe, Unsubscribe
<1>1. streams \in [Streams -> Client] /\ tree \in Seq(Records)
  BY DEF TypeOK
<1>2. streams' \in [Streams -> Client]
  <2>1. \A a \in -1..(Len(tree) - 1) :
          [n \in 1..(Len(tree) - 1 - a) |-> a + n] \in Seq(Nat)
    <3> SUFFICES ASSUME NEW a \in -1..(Len(tree) - 1)
                 PROVE  [n \in 1..(Len(tree) - 1 - a) |-> a + n] \in Seq(Nat)
      OBVIOUS
    <3>1. Len(tree) - 1 - a \in Nat
      BY <1>1
    <3>2. \A n \in 1..(Len(tree) - 1 - a) : a + n \in Nat
      BY <1>1
    <3> QED BY <3>1, <3>2
  <2>2. CASE \E a \in -1..(Len(tree) - 1) :
               streams' = [streams EXCEPT ![s] =
                 [on |-> TRUE, resumed |-> TRUE, after |-> a,
                  sent |-> [n \in 1..(Len(tree) - 1 - a) |-> a + n]]]
    <3>1. PICK a \in -1..(Len(tree) - 1) :
               streams' = [streams EXCEPT ![s] =
                 [on |-> TRUE, resumed |-> TRUE, after |-> a,
                  sent |-> [n \in 1..(Len(tree) - 1 - a) |-> a + n]]]
      BY <2>2
    <3>2. a \in Int /\ [n \in 1..(Len(tree) - 1 - a) |-> a + n] \in Seq(Nat)
      BY <1>1, <2>1
    <3> DEFINE sent == [n \in 1..(Len(tree) - 1 - a) |-> a + n]
    <3>3. sent \in Seq(Nat)
      BY <3>2
    <3>4. streams' = [streams EXCEPT ![s] =
            [on |-> TRUE, resumed |-> TRUE, after |-> a, sent |-> sent]]
      BY <3>1
    <3> HIDE DEF sent
    <3> QED BY <1>1, <3>2, <3>3, <3>4
  <2>3. CASE streams' = [streams EXCEPT ![s] =
               [on |-> TRUE, resumed |-> FALSE, after |-> Len(tree) - 1, sent |-> <<>>]]
    <3>1. Len(tree) - 1 \in Int /\ <<>> \in Seq(Nat)
      BY <1>1
    <3> QED BY <1>1, <2>3, <3>1
  <2>4. CASE streams' = [streams EXCEPT ![s] = Off]
    <3>1. <<>> \in Seq(Nat)
      OBVIOUS
    <3>2. Off \in Client
      BY <3>1 DEF Off
    <3> QED BY <1>1, <2>4, <3>2
  <2> QED BY <2>2, <2>3, <2>4 DEF Subscribe, Unsubscribe
<1>3. TypeOK'
  BY <1>0, <1>2 DEF TypeOK, serverVars, countVars, ghostVars
<1> QED BY <1>0, <1>3, IdleKeeps DEF serverVars, ghostVars

\* What graph-node has been told after a post: nothing but the post's own fact is new,
\* and what is posted again is the same fact.
LEMMA FanoutStep ==
  ASSUME TypeOK, NEW m \in fanout, Fanout(m)
  PROVE  /\ graph' = graph \/ graph' = graph \cup {m.fact}
         /\ graph' \subseteq Fact
         /\ fanout' \subseteq [fact : Fact, attempt : 1..MaxAttempts]
         /\ \A n \in fanout' : n \in fanout \/ n.fact = m.fact
<1>1. m \in [fact : Fact, attempt : 1..MaxAttempts] /\ graph \subseteq Fact
  BY DEF TypeOK
<1>2. m.fact \in Fact /\ m.attempt \in 1..MaxAttempts
  BY <1>1
<1>3. graph' = graph \/ graph' = graph \cup {m.fact}
  BY DEF Fanout
<1>4. m.attempt < MaxAttempts =>
        /\ [m EXCEPT !.attempt = @ + 1] \in [fact : Fact, attempt : 1..MaxAttempts]
        /\ [m EXCEPT !.attempt = @ + 1].fact = m.fact
  BY <1>1, <1>2, LogNodeAssumption
<1>5. fanout' \subseteq fanout \cup
        (IF m.attempt < MaxAttempts THEN {[m EXCEPT !.attempt = @ + 1]} ELSE {})
  BY DEF Fanout
<1> QED BY <1>1, <1>2, <1>3, <1>4, <1>5 DEF TypeOK

LEMMA FanoutKeeps ==
  ASSUME Inv, NEW m \in fanout, Fanout(m)
  PROVE  Inv'
<1> USE DEF Inv
<1>0. UNCHANGED <<serverVars, streams, countVars, ghostVars>>
  BY DEF Fanout
<1>1. /\ graph' \subseteq Fact
      /\ fanout' \subseteq [fact : Fact, attempt : 1..MaxAttempts]
  BY FanoutStep
<1>2. TypeOK'
  BY <1>0, <1>1 DEF TypeOK, serverVars, countVars, ghostVars
<1> QED BY <1>0, <1>2, IdleKeeps DEF serverVars, ghostVars

\* A crash leaves the file as it is or one whole entry longer.
LEMMA CrashDisk ==
  ASSUME Inv, Crash
  PROVE  /\ disk' = disk \/ \E r \in Records : disk' = Append(disk, r)
         /\ disk' \in Seq(Records) /\ torn' \in BOOLEAN
         /\ tree' = disk' /\ up' = ~torn'
<1> USE DEF Inv
<1>0. disk \in Seq(Records) /\ tree' = disk' /\ up' = ~torn'
  BY DEF TypeOK, Crash
<1>1. CASE UNCHANGED <<disk, torn>>
  <2>1. torn' \in BOOLEAN
    BY <1>1 DEF TypeOK
  <2> QED BY <1>0, <1>1, <2>1
<1>2. CASE \E q \in Submits :
             /\ HoldsLock(q) /\ CachedAt(RecordOf[q]) = {} /\ ~torn
             /\ \/ disk' = Append(disk, RecordOf[q]) /\ UNCHANGED torn
                \/ torn' = TRUE /\ UNCHANGED disk
  <2>1. PICK q \in Submits :
             /\ HoldsLock(q) /\ ~torn
             /\ \/ disk' = Append(disk, RecordOf[q]) /\ UNCHANGED torn
                \/ torn' = TRUE /\ UNCHANGED disk
    BY <1>2
  <2>2. RecordOf[q] \in Records
    BY <2>1 DEF HoldsLock, QueuedValid
  <2>3. torn' \in BOOLEAN
    <3>1. torn' = torn \/ torn' = TRUE
      BY <2>1
    <3>2. torn \in BOOLEAN
      BY DEF TypeOK
    <3> QED BY ONLY <3>1, <3>2, Zenon
  <2>4. Append(disk, RecordOf[q]) \in Seq(Records)
    BY <1>0, <2>2
  <2> QED BY <1>0, <2>1, <2>2, <2>3, <2>4
<1> QED BY <1>1, <1>2 DEF Crash

LEMMA CrashKeeps ==
  ASSUME Inv, Crash
  PROVE  Inv'
<1> USE DEF Inv
<1>1. /\ disk' \in Seq(Records) /\ torn' \in BOOLEAN
      /\ tree' = disk' /\ up' = ~torn'
  BY CrashDisk
<1>2. /\ proofCache' = <<>> /\ submitQueue' = <<>>
      /\ streams' = [s \in Streams |-> Off] /\ fanout' = {}
      /\ forgotten' = forgotten \cup Range(disk')
      /\ crashes' = crashes + 1
      /\ UNCHANGED <<proof, reply, graph, ioFaults, signFaults, issued, dropped>>
  BY DEF Crash
<1>3. /\ pc' \in [Requests -> Stages]
      /\ \A q \in Requests : pc'[q] \notin {"queued", "signing"}
  BY DEF Crash, TypeOK, Stages
<1>4. Range(disk') \subseteq Records /\ \A i \in DOMAIN disk' : disk'[i] \in Range(disk')
  BY <1>1 DEF Range
<1>5. up' \in BOOLEAN
  BY <1>1
<1>6. /\ <<>> \in Seq(Nat) /\ <<>> \in Seq(Submits)
      /\ <<>> \in Seq([hash : Records, proof : Proof])
  OBVIOUS
<1>7. streams' \in [Streams -> [on : BOOLEAN, resumed : BOOLEAN, after : Int,
                               sent : Seq(Nat)]]
  BY <1>2, <1>6 DEF Off
<1>8. TypeOK'
  BY <1>1, <1>2, <1>3, <1>4, <1>5, <1>6, <1>7 DEF TypeOK
<1>9. QueuedValid' /\ SignersLocked'
  BY <1>3, RequestFacts DEF QueuedValid, SignersLocked
<1>10. ProofsFit'
  BY <1>2, <1>3, RequestFacts DEF ProofsFit
<1>11. ProofVerifies'
  BY <1>2 DEF ProofVerifies
<1>12. EntriesKnown' /\ OneEntryPerRecord'
  BY <1>1, <1>2, <1>4 DEF EntriesKnown, OneEntryPerRecord
<1> QED BY <1>8, <1>9, <1>10, <1>11, <1>12

-----------------------------------------------------------------------------
(* Theorems that hold whatever fails. *)

LEMMA StepKeeps == Inv /\ [Next]_vars => Inv'
<1> SUFFICES ASSUME Inv, [Next]_vars PROVE Inv'
  OBVIOUS
<1>1. ASSUME NEW q \in Submits,
             \/ Submit(q) \/ SubmitCached(q) \/ SubmitAppend(q) \/ SubmitIoFault(q)
             \/ SubmitSigned(q) \/ SubmitSignFault(q)
      PROVE  Inv'
  BY <1>1, SubmitKeeps, SubmitCachedKeeps, SubmitAppendKeeps, SubmitIoFaultKeeps,
     SubmitSignedKeeps, SubmitSignFaultKeeps
<1>2. ASSUME NEW q \in Lookups, Lookup(q) \/ LookupSigned(q) PROVE Inv'
  BY <1>2, LookupKeeps, LookupSignedKeeps
<1>3. ASSUME NEW q \in Checkpoints, Checkpoint(q) \/ CheckpointSigned(q) PROVE Inv'
  BY <1>3, CheckpointKeeps, CheckpointSignedKeeps
<1>4. ASSUME NEW q \in Lookups \cup Checkpoints, ReadSignFault(q) PROVE Inv'
  BY <1>4, ReadSignFaultKeeps
<1>5. ASSUME NEW s \in Streams, Subscribe(s) \/ Unsubscribe(s) PROVE Inv'
  BY <1>5, StreamKeeps
<1>6. ASSUME NEW m \in fanout, Fanout(m) PROVE Inv'
  BY <1>6, FanoutKeeps
<1>7. CASE Crash
  BY <1>7, CrashKeeps
<1>8. CASE UNCHANGED vars
  <2>1. UNCHANGED <<serverVars, feedVars, countVars, ghostVars>>
    BY <1>8 DEF vars
  <2>2. TypeOK'
    BY <2>1 DEF Inv, TypeOK, serverVars, feedVars, countVars, ghostVars
  <2> QED BY <2>1, <2>2, IdleKeeps DEF Inv, serverVars, ghostVars
<1> QED BY <1>1, <1>2, <1>3, <1>4, <1>5, <1>6, <1>7, <1>8 DEF Next

LEMMA InitInv == Init => Inv
<1> SUFFICES ASSUME Init PROVE Inv
  OBVIOUS
<1>1. /\ <<>> \in Seq(Records) /\ <<>> \in Seq(Submits) /\ <<>> \in Seq(Nat)
      /\ <<>> \in Seq([hash : Records, proof : Proof])
  OBVIOUS
<1>2. torn \in BOOLEAN /\ up \in BOOLEAN
  BY DEF Init
<1>3. /\ pc \in [Requests -> Stages] /\ proof \in [Requests -> Proof]
      /\ reply \in [Requests -> [kind : Kinds, proof : Proof]]
      /\ \A q \in Requests : pc[q] = "idle" /\ reply[q].kind = "none"
  BY NoProofType DEF Init, Stages, Kinds
<1>4. streams \in [Streams -> [on : BOOLEAN, resumed : BOOLEAN, after : Int, sent : Seq(Nat)]]
  BY <1>1 DEF Init, Off
<1>5. TypeOK
  BY <1>1, <1>2, <1>3, <1>4 DEF Init, TypeOK
<1>6. QueuedValid /\ SignersLocked
  BY <1>3, RequestFacts DEF QueuedValid, SignersLocked
<1>7. ProofsFit /\ ProofVerifies
  BY <1>3, RequestFacts DEF Init, ProofsFit, ProofVerifies
<1>8. EntriesKnown /\ OneEntryPerRecord
  BY DEF Init, EntriesKnown, OneEntryPerRecord
<1> QED BY <1>5, <1>6, <1>7, <1>8 DEF Inv

\* Inv is inductive, whatever the file, the signer and crashes do.
THEOREM Invariance == Spec => []Inv
<1> QED BY InitInv, StepKeeps, PTL DEF Spec

\* Type correctness of the log service.
THEOREM TypeCorrect == Spec => []TypeOK
<1>1. Inv => TypeOK
  BY DEF Inv
<1> QED BY <1>1, Invariance, PTL

\* Every proof bundle the service answers with fits its checkpoint and its record,
\* although other requests append while the signer is awaited.
THEOREM ProofsVerify == Spec => []ProofVerifies
<1>1. Inv => ProofVerifies
  BY DEF Inv
<1> QED BY <1>1, Invariance, PTL

\* handleSubmit appends a record twice only after the cache lost its proof.
THEOREM NoDoubleEntry == Spec => []OneEntryPerRecord
<1>1. Inv => OneEntryPerRecord
  BY DEF Inv
<1> QED BY <1>1, Invariance, PTL

-----------------------------------------------------------------------------
(* What the entries file holds, as long as no append to it fails. *)

\* Log index i of the file is record r.
OnDisk(r, i) == i + 1 \in DOMAIN disk /\ disk[i + 1] = r

\* What a step may do to the file, to what is about to be published and to what is
\* published: nothing leaves the process that was not on disk when the step began.
FileGrows == disk' = disk \/ \E r \in Records : disk' = Append(disk, r)

SigningCarried ==
  \A q \in Requests : pc'[q] = "signing" =>
    \/ pc[q] = "signing" /\ proof'[q] = proof[q]
    \/ proof'[q].head = disk' /\ disk' # <<>>

CacheCarried ==
  \A i \in DOMAIN proofCache' :
    \/ \E j \in DOMAIN proofCache : proofCache'[i].proof = proofCache[j].proof
    \/ \E q \in Requests : pc[q] = "signing" /\ proofCache'[i].proof = proof[q]

FanoutCarried ==
  \A m \in fanout' : \/ \E n \in fanout : m.fact = n.fact
                     \/ OnDisk(m.fact.record, m.fact.log_index)

ReplyCarried ==
  \A q \in Submits : reply'[q].kind = "ok" =>
    \/ reply'[q] = reply[q]
    \/ OnDisk(RecordOf[q], reply'[q].proof.log_index)

GraphCarried == \A f \in graph' : f \in graph \/ \E n \in fanout : f = n.fact

Signs ==
  \/ issued' = issued
  \/ /\ disk' = disk
     /\ \E q \in Requests : pc[q] = "signing" /\ issued' = issued \cup {proof[q].head}

Carries ==
  /\ FileGrows /\ SigningCarried /\ CacheCarried /\ FanoutCarried /\ ReplyCarried
  /\ GraphCarried /\ Signs

\* What is on disk stays there, at its index.
LEMMA DiskKept ==
  ASSUME disk \in Seq(Records), FileGrows
  PROVE  /\ disk' \in Seq(Records)
         /\ \A h \in Seq(Records) : IsPrefix(h, disk) => IsPrefix(h, disk')
         /\ \A i \in DOMAIN disk : i \in DOMAIN disk' /\ disk'[i] = disk[i]
<1>1. CASE disk' = disk
  BY <1>1
<1>2. CASE \E r \in Records : disk' = Append(disk, r)
  <2>1. PICK r \in Records : disk' = Append(disk, r)
    BY <1>2
  <2>2. \A h \in Seq(Records) : IsPrefix(h, disk) => IsPrefix(h, Append(disk, r))
    BY PrefixAppend
  <2>3. /\ Append(disk, r) \in Seq(Records)
        /\ \A i \in DOMAIN disk : i \in DOMAIN Append(disk, r) /\ Append(disk, r)[i] = disk[i]
    OBVIOUS
  <2> QED BY <2>1, <2>2, <2>3
<1> QED BY <1>1, <1>2 DEF FileGrows

\* A bundle that fits its record, over a tree head the file extends, names an
\* index of the file.
LEMMA BundleOnDisk ==
  ASSUME disk \in Seq(Records), NEW p \in Proof, NEW r, BundleFits(r, p),
         IsPrefix(p.head, disk)
  PROVE  OnDisk(r, p.log_index)
<1>1. /\ p.head \in Seq(Records) /\ p.log_index \in Nat /\ p.log_index < Len(p.head)
      /\ p.head[p.log_index + 1] = r
  BY DEF Proof, BundleFits
<1> QED BY <1>1, PrefixAt DEF OnDisk

\* Steps that carry keep the disk invariant and are steps of the append-only log.
LEMMA CarriesKeeps ==
  ASSUME Inv, Inv', DiskInv, Carries, ioFaults' = 0, Synced'
  PROVE  DiskInv' /\ [AbstractLog!Next]_(AbstractLog!logVars)
<1> USE DEF Carries
<1>1. disk \in Seq(Records) /\ disk' \in Seq(Records) /\ PendingOnDisk /\ PublishedOnDisk
  BY DiskKept DEF Inv, TypeOK, DiskInv
<1>2. /\ \A h \in Seq(Records) : IsPrefix(h, disk) => IsPrefix(h, disk')
      /\ \A i \in DOMAIN disk : i \in DOMAIN disk' /\ disk'[i] = disk[i]
  BY <1>1, DiskKept
<1>3. /\ \A q \in Requests : proof[q].head \in Seq(Records)
      /\ \A i \in DOMAIN proofCache : proofCache[i].proof.head \in Seq(Records)
      /\ issued \subseteq Seq(Records)
  <2>1. \A q \in Requests : proof[q] \in Proof
    BY DEF Inv, TypeOK
  <2>2. \A i \in DOMAIN proofCache : proofCache[i] \in Cached
    <3>1. proofCache \in Seq(Cached)
      BY DEF Inv, TypeOK, Cached
    <3> QED BY <3>1
  <2>3. issued \subseteq Seq(Records)
    BY DEF Inv, TypeOK
  <2> QED BY <2>1, <2>2, <2>3 DEF Cached, Proof
<1>4. \A q \in Requests : pc'[q] = "signing" =>
        proof'[q].head # <<>> /\ IsPrefix(proof'[q].head, disk')
  <2> SUFFICES ASSUME NEW q \in Requests, pc'[q] = "signing"
               PROVE  proof'[q].head # <<>> /\ IsPrefix(proof'[q].head, disk')
    OBVIOUS
  <2>1. CASE pc[q] = "signing" /\ proof'[q] = proof[q]
    BY <1>1, <1>2, <1>3, <2>1 DEF PendingOnDisk
  <2>2. CASE proof'[q].head = disk' /\ disk' # <<>>
    <3>1. IsPrefix(disk', disk')
      BY <1>1, PrefixOrder
    <3> QED BY <2>2, <3>1
  <2> QED BY <2>1, <2>2 DEF SigningCarried
<1>5. \A i \in DOMAIN proofCache' : IsPrefix(proofCache'[i].proof.head, disk')
  BY <1>1, <1>2, <1>3 DEF CacheCarried, PendingOnDisk
<1>6. \A m \in fanout' : /\ m.fact.log_index + 1 \in DOMAIN disk'
                         /\ disk'[m.fact.log_index + 1] = m.fact.record
  BY <1>1, <1>2 DEF FanoutCarried, PendingOnDisk, OnDisk
<1>7. \A h \in issued' : IsPrefix(h, disk')
  <2>1. \A h \in issued' : h \in issued \/ \E q \in Requests : pc[q] = "signing" /\ h = proof[q].head
    BY DEF Signs
  <2> QED BY <1>1, <1>2, <1>3, <2>1 DEF PendingOnDisk, PublishedOnDisk
<1>8. \A q \in Submits : reply'[q].kind = "ok" =>
        /\ reply'[q].proof.log_index + 1 \in DOMAIN disk'
        /\ disk'[reply'[q].proof.log_index + 1] = RecordOf[q]
  BY <1>1, <1>2 DEF ReplyCarried, OnDisk, PublishedOnDisk
<1>9. \A f \in graph' : /\ f.log_index + 1 \in DOMAIN disk'
                        /\ disk'[f.log_index + 1] = f.record
  BY <1>1, <1>2 DEF GraphCarried, PendingOnDisk, PublishedOnDisk
<1>10. DiskInv'
  <2>1. PendingOnDisk'
    BY <1>4, <1>5, <1>6 DEF PendingOnDisk
  <2>2. PublishedOnDisk'
    BY <1>7, <1>8, <1>9 DEF PublishedOnDisk
  <2> QED BY <2>1, <2>2 DEF DiskInv
<1>11. [AbstractLog!Next]_(AbstractLog!logVars)
  <2>1. CASE issued' = issued
    BY <2>1 DEF FileGrows, AbstractLog!Next, AbstractLog!Accept, AbstractLog!logVars
  <2>2. CASE /\ disk' = disk
             /\ \E q \in Requests : pc[q] = "signing" /\ issued' = issued \cup {proof[q].head}
    <3>1. PICK q \in Requests : pc[q] = "signing" /\ issued' = issued \cup {proof[q].head}
      BY <2>2
    <3> DEFINE h == proof[q].head
    <3>2. h \in Seq(Records) /\ h # <<>> /\ IsPrefix(h, disk)
      BY <1>1, <1>3, <3>1 DEF PendingOnDisk
    <3> HIDE DEF h
    <3>3. Len(h) \in 1..Len(disk)
      <4>1. Len(h) <= Len(disk)
        BY <1>1, <3>2, PrefixByIndex
      <4> QED BY <1>1, <3>2, <4>1
    <3>4. SubSeq(disk, 1, Len(h)) = h
      BY <1>1, <3>2, PrefixRest
    <3>5. issued' = issued \cup {SubSeq(disk, 1, Len(h))}
      BY <3>1, <3>4 DEF h
    <3> QED BY <2>2, <3>3, <3>5 DEF AbstractLog!Next, AbstractLog!Publish
  <2> QED BY <2>1, <2>2 DEF Signs
<1> QED BY <1>10, <1>11

\* A step that keeps the file, the tree and what is pending.
LEMMA QuietCarries ==
  ASSUME UNCHANGED <<disk, proofCache, proof, fanout, graph, issued>>,
         \A q \in Requests : pc'[q] = "signing" => pc[q] = "signing",
         \A q \in Submits : reply'[q].kind = "ok" => reply'[q] = reply[q]
  PROVE  Carries
BY DEF Carries, FileGrows, SigningCarried, CacheCarried, FanoutCarried, ReplyCarried,
       GraphCarried, Signs

\* A request that is answered without a proof leaves the answers with one alone.
LEMMA RefusedFacts ==
  ASSUME TypeOK, NEW q \in Requests, NEW kind \in Kinds \ {"ok"},
         Settle(q, kind, NoProof)
  PROVE  /\ \A w \in Requests : pc'[w] = "signing" => pc[w] = "signing"
         /\ \A w \in Submits : reply'[w].kind = "ok" => reply'[w] = reply[w]
<1>1. pc \in [Requests -> Stages] /\ reply \in [Requests -> [kind : Kinds, proof : Proof]]
  BY DEF TypeOK
<1> QED BY <1>1, RequestFacts DEF Settle

\* A request that is answered with a bundle over the file.
LEMMA AnsweredFacts ==
  ASSUME TypeOK, NEW q \in Requests, NEW p, Settle(q, "ok", p),
         q \in Submits => OnDisk(RecordOf[q], p.log_index)
  PROVE  /\ \A w \in Requests : pc'[w] = "signing" => pc[w] = "signing"
         /\ ReplyCarried
<1>1. pc \in [Requests -> Stages] /\ reply \in [Requests -> [kind : Kinds, proof : Proof]]
  BY DEF TypeOK
<1>2. /\ \A w \in Requests : w # q => reply'[w] = reply[w]
      /\ reply'[q].proof = p
  BY <1>1 DEF Settle
<1>3. \A w \in Requests : pc'[w] = "signing" => pc[w] = "signing"
  BY <1>1 DEF Settle
<1> QED BY <1>2, <1>3, RequestFacts DEF ReplyCarried

\* Posts are made for indexes of the file.
LEMMA PostsCarried ==
  ASSUME NEW r, NEW i, FanoutToGraph(r, i), OnDisk(r, i)
  PROVE  FanoutCarried
<1>1. \A m \in fanout' : m \in fanout \/ m.fact = [record |-> r, log_index |-> i]
  BY DEF FanoutToGraph
<1> QED BY <1>1 DEF FanoutCarried

\* Answers from the cache, for a submission or a lookup.
LEMMA CachedCarries ==
  ASSUME Inv, DiskInv, NEW q \in Submits \cup Lookups, AnswerFromCache(q),
         UNCHANGED <<disk, proofCache, proof, graph, issued>>
  PROVE  Carries
<1>1. PICK i \in CachedAt(RecordOf[q]) :
        /\ Settle(q, "ok", proofCache[i].proof)
        /\ IF q \in Submits
             THEN FanoutToGraph(RecordOf[q], proofCache[i].proof.log_index)
             ELSE UNCHANGED fanout
  BY DEF AnswerFromCache
<1>2. i \in DOMAIN proofCache /\ proofCache[i].hash = RecordOf[q]
  BY <1>1 DEF CachedAt
<1>3. proofCache[i].proof \in Proof
  <2>1. proofCache \in Seq(Cached)
    BY DEF Inv, TypeOK, Cached
  <2>2. proofCache[i] \in Cached
    BY <1>2, <2>1
  <2> QED BY <2>2 DEF Cached
<1>4. OnDisk(RecordOf[q], proofCache[i].proof.log_index)
  <2>1. BundleFits(RecordOf[q], proofCache[i].proof)
    BY <1>2 DEF Inv, ProofsFit
  <2>2. IsPrefix(proofCache[i].proof.head, disk) /\ disk \in Seq(Records)
    BY <1>2 DEF Inv, TypeOK, DiskInv, PendingOnDisk
  <2> QED BY <1>3, <2>1, <2>2, BundleOnDisk
<1>5. /\ \A w \in Requests : pc'[w] = "signing" => pc[w] = "signing"
      /\ ReplyCarried
  BY <1>1, <1>4, AnsweredFacts, RequestFacts DEF Inv
<1>6. FanoutCarried
  <2>1. CASE q \in Submits
    BY <1>1, <1>4, <2>1, PostsCarried
  <2>2. CASE q \notin Submits
    BY <1>1, <2>2 DEF FanoutCarried
  <2> QED BY <2>1, <2>2
<1> QED BY <1>5, <1>6 DEF Carries, FileGrows, SigningCarried, CacheCarried, GraphCarried, Signs

\* The signer resolved for a request: what it signed was on disk when it was asked.
LEMMA SignedCarries ==
  ASSUME Inv, DiskInv, NEW q \in Requests, pc[q] = "signing",
         Settle(q, "ok", proof[q]), issued' = issued \cup {proof[q].head},
         UNCHANGED <<disk, proof, graph>>,
         \/ UNCHANGED proofCache
         \/ RecordOf[q] \in Records /\ CacheProof(RecordOf[q], proof[q]),
         \/ UNCHANGED fanout
         \/ q \in Submits /\ FanoutToGraph(RecordOf[q], proof[q].log_index)
  PROVE  Carries
<1>1. proof[q] \in Proof /\ TypeOK /\ disk \in Seq(Records)
  BY DEF Inv, TypeOK
<1>2. q \in Submits => OnDisk(RecordOf[q], proof[q].log_index)
  <2>1. q \in Submits => BundleFits(RecordOf[q], proof[q])
    BY DEF Inv, ProofsFit
  <2>2. IsPrefix(proof[q].head, disk)
    BY DEF DiskInv, PendingOnDisk
  <2> QED BY <1>1, <2>1, <2>2, BundleOnDisk
<1>3. /\ \A w \in Requests : pc'[w] = "signing" => pc[w] = "signing"
      /\ ReplyCarried
  BY <1>1, <1>2, AnsweredFacts
<1>4. FanoutCarried
  <2>1. CASE UNCHANGED fanout
    BY <2>1 DEF FanoutCarried
  <2>2. CASE q \in Submits /\ FanoutToGraph(RecordOf[q], proof[q].log_index)
    BY <1>2, <2>2, PostsCarried
  <2> QED BY <2>1, <2>2
<1>5. CacheCarried
  <2>1. CASE UNCHANGED proofCache
    BY <2>1 DEF CacheCarried
  <2>2. CASE RecordOf[q] \in Records /\ CacheProof(RecordOf[q], proof[q])
    <3>1. \A i \in DOMAIN proofCache' :
            \/ proofCache'[i] = [hash |-> RecordOf[q], proof |-> proof[q]]
            \/ \E j \in DOMAIN proofCache : proofCache'[i] = proofCache[j]
      BY <1>1, <2>2, CacheFacts
    <3> QED BY <3>1 DEF CacheCarried
  <2> QED BY <2>1, <2>2
<1> QED BY <1>3, <1>4, <1>5 DEF Carries, FileGrows, SigningCarried, GraphCarried, Signs

\* A request starts to wait for the signer with the whole file as its tree.
LEMMA SnapshotCarries ==
  ASSUME Inv, NEW q \in Requests, NEW p, FileGrows,
         proof' = [proof EXCEPT ![q] = p], pc' = [pc EXCEPT ![q] = "signing"],
         p.head = disk', disk' # <<>>,
         UNCHANGED <<proofCache, reply, fanout, graph, issued>>
  PROVE  Carries
<1>1. proof'[q] = p /\ \A w \in Requests : w # q => proof'[w] = proof[w] /\ pc'[w] = pc[w]
  BY DEF Inv, TypeOK
<1>2. SigningCarried
  BY <1>1 DEF SigningCarried
<1> QED BY <1>2 DEF Carries, CacheCarried, FanoutCarried, ReplyCarried, GraphCarried, Signs

-----------------------------------------------------------------------------
(* DiskInv and the refinement, one step per handler. *)

\* Each step carries, keeps memory and file equal and counts no failed append.
DiskStep == Carries /\ ioFaults' = 0 /\ Synced'

LEMMA SubmitDisk ==
  ASSUME Inv, DiskInv, NEW q \in Submits, Submit(q) \/ SubmitCached(q)
  PROVE  DiskStep
<1>1. /\ UNCHANGED <<tree, disk, torn, up, proofCache, proof, graph, countVars, ghostVars>>
      /\ q \in Requests /\ TypeOK
  BY RequestFacts DEF Submit, SubmitCached, Inv
<1>2. ioFaults' = 0 /\ Synced'
  BY <1>1 DEF DiskInv, Synced, countVars
<1>3. CASE AnswerFromCache(q)
  BY <1>1, <1>2, <1>3, CachedCarries DEF ghostVars, DiskStep
<1>4. CASE Settle(q, "rejected", NoProof) /\ UNCHANGED fanout
  <2>1. "rejected" \in Kinds \ {"ok"}
    BY DEF Kinds
  <2>2. /\ \A w \in Requests : pc'[w] = "signing" => pc[w] = "signing"
        /\ \A w \in Submits : reply'[w].kind = "ok" => reply'[w] = reply[w]
    BY <1>1, <1>4, <2>1, RefusedFacts
  <2> QED BY <1>1, <1>2, <1>4, <2>2, QuietCarries DEF ghostVars, DiskStep
<1>5. CASE pc' = [pc EXCEPT ![q] = "queued"] /\ UNCHANGED <<reply, fanout>>
  <2>1. \A w \in Requests : pc'[w] = "signing" => pc[w] = "signing"
    BY <1>1, <1>5 DEF TypeOK
  <2> QED BY <1>1, <1>2, <1>5, <2>1, QuietCarries DEF ghostVars, DiskStep
<1> QED BY <1>3, <1>4, <1>5 DEF Submit, SubmitCached

LEMMA SubmitAppendDisk ==
  ASSUME Inv, DiskInv, NEW q \in Submits, SubmitAppend(q)
  PROVE  DiskStep
<1>1. /\ up /\ tree = disk /\ disk \in Seq(Records) /\ RecordOf[q] \in Records
      /\ q \in Requests
      /\ UNCHANGED <<torn, up, proofCache, reply, feedVars, countVars, ghostVars>>
  BY RequestFacts DEF SubmitAppend, HoldsLock, Inv, TypeOK, QueuedValid, DiskInv, Synced
<1>2. ~torn
  BY <1>1 DEF DiskInv, Synced
<1>3. tree' = Append(disk, RecordOf[q]) /\ disk' = Append(disk, RecordOf[q])
  BY <1>1, <1>2 DEF SubmitAppend
<1>4. ioFaults' = 0 /\ Synced'
  <2>1. ~torn'
    BY <1>1, <1>2
  <2> QED BY <1>1, <1>3, <2>1 DEF DiskInv, Synced, countVars
<1>5. disk' # <<>>
  BY <1>1, <1>3
<1>6. ProofBundle(tree', Len(tree)).head = disk'
  BY <1>3 DEF ProofBundle
<1>7. FileGrows
  BY <1>1, <1>3 DEF FileGrows
<1>8. /\ proof' = [proof EXCEPT ![q] = ProofBundle(tree', Len(tree))]
      /\ pc' = [pc EXCEPT ![q] = "signing"]
  BY DEF SubmitAppend
<1>9. Carries
  BY <1>1, <1>5, <1>6, <1>7, <1>8, SnapshotCarries DEF feedVars, ghostVars
<1> QED BY <1>4, <1>9 DEF DiskStep

\* The signer resolves, for any route.
LEMMA SignedDisk ==
  ASSUME Inv, DiskInv, NEW q \in Requests,
         \/ q \in Submits /\ SubmitSigned(q)
         \/ q \in Lookups /\ LookupSigned(q)
         \/ q \in Checkpoints /\ CheckpointSigned(q)
  PROVE  DiskStep
<1> DEFINE p == [proof[q] EXCEPT !.head = SignedHead(q)]
<1>1. p = proof[q]
  BY SignedFacts DEF Inv
<1>2. /\ pc[q] = "signing" /\ Settle(q, "ok", p) /\ issued' = issued \cup {p.head}
      /\ UNCHANGED <<tree, disk, torn, up, proof, graph, countVars>>
      /\ \/ UNCHANGED proofCache
         \/ q \in Submits \cup Lookups /\ CacheProof(RecordOf[q], p)
      /\ \/ UNCHANGED fanout
         \/ q \in Submits /\ FanoutToGraph(RecordOf[q], p.log_index)
  BY DEF SubmitSigned, LookupSigned, CheckpointSigned, feedVars
<1>3. q \in Submits \cup Lookups => RecordOf[q] \in Records
  BY <1>2, RequestFacts DEF Inv, QueuedValid
<1> HIDE DEF p
<1>4. Carries
  BY <1>1, <1>2, <1>3, SignedCarries
<1>5. ioFaults' = 0 /\ Synced'
  BY <1>2 DEF DiskInv, Synced, countVars
<1> QED BY <1>4, <1>5 DEF DiskStep

\* The signer rejects, for any route.
LEMMA SignFaultDisk ==
  ASSUME Inv, DiskInv, NEW q \in Requests, SubmitSignFault(q) \/ ReadSignFault(q)
  PROVE  DiskStep
<1>1. /\ Settle(q, "error", NoProof) /\ TypeOK /\ "error" \in Kinds \ {"ok"}
      /\ UNCHANGED <<tree, disk, torn, up, proofCache, proof, feedVars, ioFaults, issued>>
  BY DEF SubmitSignFault, ReadSignFault, Inv, Kinds, ghostVars
<1>2. /\ \A w \in Requests : pc'[w] = "signing" => pc[w] = "signing"
      /\ \A w \in Submits : reply'[w].kind = "ok" => reply'[w] = reply[w]
  BY <1>1, RefusedFacts
<1>3. Carries
  BY <1>1, <1>2, QuietCarries DEF feedVars
<1>4. ioFaults' = 0 /\ Synced'
  BY <1>1 DEF DiskInv, Synced
<1> QED BY <1>3, <1>4 DEF DiskStep

LEMMA LookupDisk ==
  ASSUME Inv, DiskInv, NEW q \in Lookups, Lookup(q)
  PROVE  DiskStep
<1>1. /\ UNCHANGED <<tree, disk, torn, up, proofCache, graph, countVars, ghostVars>>
      /\ q \in Requests /\ TypeOK /\ tree = disk /\ disk \in Seq(Records)
  BY RequestFacts DEF Lookup, Inv, TypeOK, DiskInv, Synced
<1>2. ioFaults' = 0 /\ Synced'
  BY <1>1 DEF DiskInv, Synced, countVars
<1>3. CASE AnswerFromCache(q) /\ UNCHANGED proof
  BY <1>1, <1>2, <1>3, CachedCarries DEF ghostVars, DiskStep
<1>4. CASE Settle(q, "notfound", NoProof) /\ UNCHANGED <<proof, fanout>>
  <2>1. "notfound" \in Kinds \ {"ok"}
    BY DEF Kinds
  <2>2. /\ \A w \in Requests : pc'[w] = "signing" => pc[w] = "signing"
        /\ \A w \in Submits : reply'[w].kind = "ok" => reply'[w] = reply[w]
    BY <1>1, <1>4, <2>1, RefusedFacts
  <2> QED BY <1>1, <1>2, <1>4, <2>2, QuietCarries DEF ghostVars, DiskStep
<1>5. ASSUME NEW i \in IndexesOf(RecordOf[q]),
             proof' = [proof EXCEPT ![q] = ProofBundle(tree, i - 1)],
             pc' = [pc EXCEPT ![q] = "signing"], UNCHANGED <<reply, fanout>>
      PROVE  DiskStep
  <2>1. disk' # <<>> /\ FileGrows
    BY <1>1 DEF IndexesOf, FileGrows
  <2>2. ProofBundle(tree, i - 1).head = disk'
    BY <1>1 DEF ProofBundle
  <2>3. Carries
    BY <1>1, <1>5, <2>1, <2>2, SnapshotCarries DEF ghostVars
  <2> QED BY <1>2, <2>3 DEF DiskStep
<1> QED BY <1>3, <1>4, <1>5 DEF Lookup

LEMMA CheckpointDisk ==
  ASSUME Inv, DiskInv, NEW q \in Checkpoints, Checkpoint(q)
  PROVE  DiskStep
<1> DEFINE p == [NoProof EXCEPT !.path = tree, !.head = tree]
<1>1. /\ UNCHANGED <<tree, disk, torn, up, proofCache, feedVars, countVars, ghostVars>>
      /\ q \in Requests /\ TypeOK /\ tree = disk
  BY RequestFacts DEF Checkpoint, Inv, DiskInv, Synced
<1>2. ioFaults' = 0 /\ Synced'
  BY <1>1 DEF DiskInv, Synced, countVars
<1>3. CASE Settle(q, "notfound", NoProof) /\ UNCHANGED proof
  <2>1. "notfound" \in Kinds \ {"ok"}
    BY DEF Kinds
  <2>2. /\ \A w \in Requests : pc'[w] = "signing" => pc[w] = "signing"
        /\ \A w \in Submits : reply'[w].kind = "ok" => reply'[w] = reply[w]
    BY <1>1, <1>3, <2>1, RefusedFacts
  <2> QED BY <1>1, <1>2, <1>3, <2>2, QuietCarries DEF feedVars, ghostVars, DiskStep
<1>4. CASE /\ tree # <<>> /\ proof' = [proof EXCEPT ![q] = p]
           /\ pc' = [pc EXCEPT ![q] = "signing"] /\ UNCHANGED reply
  <2>1. p.head = disk' /\ disk' # <<>> /\ FileGrows
    BY <1>1, <1>4 DEF NoProof, FileGrows
  <2> HIDE DEF p
  <2>2. Carries
    BY <1>1, <1>4, <2>1, SnapshotCarries DEF feedVars, ghostVars
  <2> QED BY <1>2, <2>2 DEF DiskStep
<1> QED BY <1>3, <1>4 DEF Checkpoint

\* Streams, and posts to graph-node.
LEMMA FeedDisk ==
  ASSUME Inv, DiskInv,
         \/ \E s \in Streams : Subscribe(s) \/ Unsubscribe(s)
         \/ \E m \in fanout : Fanout(m)
  PROVE  DiskStep
<1>1. UNCHANGED <<serverVars, countVars, ghostVars>>
  BY DEF Subscribe, Unsubscribe, Fanout
<1>2. ioFaults' = 0 /\ Synced'
  BY <1>1 DEF DiskInv, Synced, serverVars, countVars
<1>3. FanoutCarried /\ GraphCarried
  <2>1. CASE \E s \in Streams : Subscribe(s) \/ Unsubscribe(s)
    BY <2>1 DEF Subscribe, Unsubscribe, FanoutCarried, GraphCarried
  <2>2. ASSUME NEW m \in fanout, Fanout(m) PROVE FanoutCarried /\ GraphCarried
    <3>1. /\ graph' = graph \/ graph' = graph \cup {m.fact}
          /\ \A n \in fanout' : n \in fanout \/ n.fact = m.fact
      BY <2>2, FanoutStep DEF Inv
    <3> QED BY <3>1 DEF FanoutCarried, GraphCarried
  <2> QED BY <2>1, <2>2
<1>4. Carries
  BY <1>1, <1>3 DEF Carries, FileGrows, SigningCarried, CacheCarried, ReplyCarried, Signs,
                    serverVars, ghostVars
<1> QED BY <1>2, <1>4 DEF DiskStep

\* After a crash the process runs on the file as it is, or does not start.
LEMMA CrashDiskStep ==
  ASSUME Inv, DiskInv, Crash
  PROVE  DiskStep
<1>1. /\ FileGrows /\ tree' = disk' /\ up' = ~torn'
  BY CrashDisk DEF FileGrows
<1>2. /\ proofCache' = <<>> /\ fanout' = {}
      /\ UNCHANGED <<proof, reply, graph, ioFaults, issued>>
      /\ \A q \in Requests : pc'[q] # "signing"
  BY DEF Crash
<1>3. ioFaults' = 0 /\ Synced'
  BY <1>1, <1>2 DEF DiskInv, Synced
<1>4. Carries
  BY <1>1, <1>2 DEF Carries, SigningCarried, CacheCarried, FanoutCarried, ReplyCarried,
                    GraphCarried, Signs
<1> QED BY <1>3, <1>4 DEF DiskStep

LEMMA NextDisk ==
  ASSUME MaxIoFaults = 0, Inv, DiskInv, [Next]_vars
  PROVE  DiskInv' /\ [AbstractLog!Next]_(AbstractLog!logVars)
<1>1. ASSUME NEW q \in Submits,
             \/ Submit(q) \/ SubmitCached(q) \/ SubmitAppend(q) \/ SubmitIoFault(q)
             \/ SubmitSigned(q) \/ SubmitSignFault(q)
      PROVE  DiskStep
  <2>1. ~ SubmitIoFault(q)
    BY DEF SubmitIoFault, DiskInv
  <2> QED BY <1>1, <2>1, RequestFacts, SubmitDisk, SubmitAppendDisk, SignedDisk, SignFaultDisk
<1>2. ASSUME NEW q \in Lookups, Lookup(q) \/ LookupSigned(q) PROVE DiskStep
  BY <1>2, RequestFacts, LookupDisk, SignedDisk
<1>3. ASSUME NEW q \in Checkpoints, Checkpoint(q) \/ CheckpointSigned(q) PROVE DiskStep
  BY <1>3, RequestFacts, CheckpointDisk, SignedDisk
<1>4. ASSUME NEW q \in Lookups \cup Checkpoints, ReadSignFault(q) PROVE DiskStep
  BY <1>4, RequestFacts, SignFaultDisk
<1>5. ASSUME UNCHANGED vars PROVE DiskStep
  <2>1. UNCHANGED <<serverVars, feedVars, countVars, ghostVars>>
    BY <1>5 DEF vars
  <2>2. Carries
    BY <2>1, QuietCarries DEF serverVars, feedVars, ghostVars
  <2>3. ioFaults' = 0 /\ Synced'
    BY <2>1 DEF DiskInv, Synced, serverVars, countVars
  <2> QED BY <2>2, <2>3 DEF DiskStep
<1>6. DiskStep
  BY <1>1, <1>2, <1>3, <1>4, <1>5, FeedDisk, CrashDiskStep DEF Next
<1>7. Inv'
  BY StepKeeps
<1> QED BY <1>6, <1>7, CarriesKeeps DEF DiskStep

LEMMA InitDisk == Init => DiskInv /\ AbstractLog!Init
<1> SUFFICES ASSUME Init PROVE DiskInv /\ AbstractLog!Init
  OBVIOUS
<1>1. \A q \in Requests : pc[q] = "idle" /\ reply[q].kind = "none"
  BY DEF Init
<1>2. ioFaults = 0 /\ Synced
  BY DEF Init, Synced
<1>3. PendingOnDisk
  BY <1>1 DEF Init, PendingOnDisk
<1>4. PublishedOnDisk
  BY <1>1, RequestFacts DEF Init, PublishedOnDisk
<1> QED BY <1>2, <1>3, <1>4 DEF DiskInv, Init, AbstractLog!Init

\* tree.ts writes and syncs the entry before the memory tree advances: as long as
\* no append fails, every signed head, acknowledged index and fanned-out entry is in
\* the file, across any number of crashes and signer faults.
THEOREM Durable ==
  ASSUME MaxIoFaults = 0
  PROVE  Spec => []PublishedOnDisk
<1>1. DiskInv => PublishedOnDisk
  BY DEF DiskInv
<1>2. Inv /\ DiskInv /\ [Next]_vars => DiskInv'
  BY NextDisk
<1> QED BY <1>1, <1>2, Invariance, InitDisk, PTL DEF Spec

\* The service implements the append-only log: under the same assumption no entry is
\* removed or replaced and every signed head commits to a prefix of the log.
THEOREM Refinement ==
  ASSUME MaxIoFaults = 0
  PROVE  Spec => ImplementsAppendOnlyLog
<1>1. Inv /\ DiskInv /\ [Next]_vars => DiskInv' /\ [AbstractLog!Next]_(AbstractLog!logVars)
  BY NextDisk
<1> QED BY <1>1, Invariance, InitDisk, PTL
        DEF Spec, ImplementsAppendOnlyLog, AbstractLog!Spec
-----------------------------------------------------------------------------
(* Streams, whatever fails. *)

\* Where the log indexes come from that a step answers with, caches or hands to the
\* signer: the tree, or what was cached or being signed before.
IndexStep ==
  /\ up' = up
  /\ tree' = tree \/ \E r \in Records : tree' = Append(tree, r)
  /\ \A q \in Submits \cup Lookups : pc'[q] = "signing" =>
       \/ pc[q] = "signing" /\ proof'[q] = proof[q]
       \/ proof'[q].log_index \in 0..(Len(tree') - 1)
  /\ \A q \in Submits : reply'[q].kind = "ok" =>
       \/ reply'[q] = reply[q]
       \/ pc[q] = "signing" /\ reply'[q].proof = proof[q]
       \/ \E j \in DOMAIN proofCache : reply'[q].proof = proofCache[j].proof
  /\ \A i \in DOMAIN proofCache' :
       \/ \E j \in DOMAIN proofCache : proofCache'[i].proof = proofCache[j].proof
       \/ \E q \in Submits \cup Lookups : pc[q] = "signing" /\ proofCache'[i].proof = proof[q]

LEMMA IndexesKept ==
  ASSUME TypeOK, IndexesInTree, IndexStep
  PROVE  IndexesInTree'
<1> SUFFICES ASSUME up
             PROVE  /\ \A q \in Submits : reply'[q].kind = "ok" => InTree(reply[q].proof)'
                    /\ \A q \in Submits \cup Lookups : pc'[q] = "signing" => InTree(proof[q])'
                    /\ \A i \in DOMAIN proofCache' : InTree(proofCache[i].proof)'
  BY DEF IndexStep, IndexesInTree
<1>1. 0..(Len(tree) - 1) \subseteq 0..(Len(tree') - 1)
  <2>1. tree \in Seq(Records)
    BY DEF TypeOK
  <2>2. \A r \in Records : Len(Append(tree, r)) = Len(tree) + 1 /\ Len(tree) \in Nat
    BY <2>1
  <2>3. Len(tree') = Len(tree) \/ (Len(tree') = Len(tree) + 1 /\ Len(tree) \in Nat)
    BY <2>2 DEF IndexStep
  <2> QED BY <2>3
<1>2. /\ \A q \in Submits : reply[q].kind = "ok" =>
           reply[q].proof.log_index \in 0..(Len(tree') - 1)
      /\ \A q \in Submits \cup Lookups : pc[q] = "signing" =>
           proof[q].log_index \in 0..(Len(tree') - 1)
      /\ \A j \in DOMAIN proofCache : proofCache[j].proof.log_index \in 0..(Len(tree') - 1)
  BY <1>1 DEF IndexesInTree, InTree
<1>3. \A q \in Submits : reply'[q].kind = "ok" => InTree(reply[q].proof)'
  BY <1>2 DEF IndexStep, InTree
<1>4. \A q \in Submits \cup Lookups : pc'[q] = "signing" => InTree(proof[q])'
  BY <1>2 DEF IndexStep, InTree
<1>5. \A i \in DOMAIN proofCache' : InTree(proofCache[i].proof)'
  BY <1>2 DEF IndexStep, InTree
<1> QED BY <1>3, <1>4, <1>5

\* A step that moves neither tree nor streams and ends no signature.
LEMMA CoverKept ==
  ASSUME StreamsCovered, UNCHANGED <<tree, up, streams, dropped>>,
         \A w \in Submits : pc[w] = "signing" => pc'[w] = "signing" /\ proof'[w] = proof[w]
  PROVE  StreamsCovered'
BY DEF StreamsCovered

\* What a settling request does to the others.
LEMMA SettleOthers ==
  ASSUME TypeOK, NEW q \in Requests, NEW kind, NEW p, Settle(q, kind, p)
  PROVE  /\ \A w \in Requests : w # q => pc'[w] = pc[w] /\ reply'[w] = reply[w]
         /\ pc'[q] = "settled" /\ reply'[q].kind = kind /\ reply'[q].proof = p
BY DEF Settle, TypeOK

\* A request that was not being signed as a submission is refused.
LEMMA RefusedFeed ==
  ASSUME Inv, StreamsCovered, NEW q \in Requests, NEW kind \in Kinds \ {"ok"},
         Settle(q, kind, NoProof), q \in Submits => pc[q] # "signing",
         UNCHANGED <<tree, up, proofCache, proof, streams, dropped>>
  PROVE  IndexStep /\ StreamsCovered'
<1>1. /\ \A w \in Requests : w # q => pc'[w] = pc[w] /\ reply'[w] = reply[w]
      /\ pc'[q] = "settled" /\ reply'[q].kind # "ok"
  BY SettleOthers DEF Inv
<1>2. StreamsCovered'
  BY <1>1, CoverKept, RequestFacts
<1> QED BY <1>1, <1>2, RequestFacts DEF IndexStep

\* An answer from the cache.
LEMMA CachedFeed ==
  ASSUME Inv, StreamsCovered, NEW q \in Submits \cup Lookups, AnswerFromCache(q),
         pc[q] # "signing", UNCHANGED <<tree, up, proofCache, proof, streams, dropped>>
  PROVE  IndexStep /\ StreamsCovered'
<1>1. PICK j \in DOMAIN proofCache : Settle(q, "ok", proofCache[j].proof)
  BY DEF AnswerFromCache, CachedAt
<1>2. /\ \A w \in Requests : w # q => pc'[w] = pc[w] /\ reply'[w] = reply[w]
      /\ pc'[q] = "settled" /\ reply'[q].proof = proofCache[j].proof
  BY <1>1, SettleOthers, RequestFacts DEF Inv
<1>3. StreamsCovered'
  BY <1>2, CoverKept, RequestFacts
<1> QED BY <1>2, <1>3, RequestFacts DEF IndexStep

LEMMA SubmitFeed ==
  ASSUME Inv, FeedInv, NEW q \in Submits, Submit(q) \/ SubmitCached(q)
  PROVE  IndexStep /\ FileCovers' /\ StreamsCovered'
<1>1. /\ UNCHANGED <<tree, disk, torn, up, proofCache, proof, streams, dropped>>
      /\ pc[q] \in {"idle", "queued"} /\ q \in Requests
      /\ StreamsCovered
  BY RequestFacts DEF Submit, SubmitCached, HoldsLock, ghostVars, FeedInv
<1>2. FileCovers'
  BY <1>1 DEF FeedInv, FileCovers
<1>3. CASE AnswerFromCache(q)
  BY <1>1, <1>2, <1>3, CachedFeed
<1>4. CASE Settle(q, "rejected", NoProof)
  BY <1>1, <1>2, <1>4, RefusedFeed DEF Kinds
<1>5. CASE pc' = [pc EXCEPT ![q] = "queued"] /\ UNCHANGED reply
  <2>1. \A w \in Requests : w # q => pc'[w] = pc[w]
    BY <1>5 DEF Inv, TypeOK
  <2>2. pc'[q] = "queued"
    BY <1>1, <1>5 DEF Inv, TypeOK
  <2>3. StreamsCovered'
    BY <1>1, <2>1, CoverKept, RequestFacts
  <2> QED BY <1>1, <1>2, <1>5, <2>1, <2>2, <2>3, RequestFacts DEF IndexStep
<1> QED BY <1>3, <1>4, <1>5 DEF Submit, SubmitCached

LEMMA SubmitAppendFeed ==
  ASSUME Inv, FeedInv, NEW q \in Submits, SubmitAppend(q)
  PROVE  IndexStep /\ FileCovers' /\ StreamsCovered'
<1> DEFINE r == RecordOf[q]
<1>1. /\ q \in Requests /\ pc[q] = "queued" /\ r \in Records
      /\ tree \in Seq(Records) /\ disk \in Seq(Records) /\ tree' = Append(tree, r)
      /\ disk' = (IF torn THEN disk ELSE Append(disk, r))
      /\ UNCHANGED <<torn, up, proofCache, reply, streams, dropped>>
      /\ proof' = [proof EXCEPT ![q] = ProofBundle(tree', Len(tree))]
      /\ pc' = [pc EXCEPT ![q] = "signing"]
  BY RequestFacts
     DEF SubmitAppend, HoldsLock, Inv, QueuedValid, TypeOK, feedVars, ghostVars
<1>2. Len(tree') = Len(tree) + 1 /\ Len(tree) \in Nat /\ Len(disk) \in Nat
  BY <1>1
<1>3. /\ pc'[q] = "signing" /\ proof'[q].log_index = Len(tree)
      /\ \A w \in Requests : w # q => pc'[w] = pc[w] /\ proof'[w] = proof[w]
  <2>1. pc \in [Requests -> Stages] /\ proof \in [Requests -> Proof]
    BY DEF Inv, TypeOK
  <2>2. ProofBundle(tree', Len(tree)).log_index = Len(tree)
    BY DEF ProofBundle
  <2> QED BY <1>1, <2>1, <2>2
<1>4. FileCovers'
  <2>1. ~torn => Len(disk') = Len(disk) + 1
    BY <1>1
  <2> QED BY <1>1, <1>2, <2>1 DEF FeedInv, FileCovers
<1>5. IndexStep
  <2>1. Len(tree) \in 0..(Len(tree') - 1)
    BY <1>2
  <2>2. tree' = tree \/ \E x \in Records : tree' = Append(tree, x)
    BY <1>1
  <2>3. \A w \in Submits \cup Lookups : pc'[w] = "signing" =>
          \/ pc[w] = "signing" /\ proof'[w] = proof[w]
          \/ proof'[w].log_index \in 0..(Len(tree') - 1)
    BY <1>3, <2>1, RequestFacts
  <2> QED BY <1>1, <2>2, <2>3 DEF IndexStep
<1>6. StreamsCovered'
  <2> SUFFICES ASSUME NEW s \in Streams, streams[s].on
               PROVE  /\ up'
                      /\ \A i \in 0..(Len(tree') - 1) : i > streams[s].after =>
                           \/ i \in Range(streams[s].sent)
                           \/ i \in dropped
                           \/ \E w \in Submits : pc'[w] = "signing" /\ proof'[w].log_index = i
    BY <1>1 DEF StreamsCovered
  <2>1. /\ up
        /\ \A i \in 0..(Len(tree) - 1) : i > streams[s].after =>
             \/ i \in Range(streams[s].sent)
             \/ i \in dropped
             \/ \E w \in Submits : pc[w] = "signing" /\ proof[w].log_index = i
    BY DEF FeedInv, StreamsCovered
  <2>2. \A w \in Submits : pc[w] = "signing" => pc'[w] = "signing" /\ proof'[w] = proof[w]
    BY <1>1, <1>3, RequestFacts
  <2>3. \A i \in 0..(Len(tree') - 1) : i \in 0..(Len(tree) - 1) \/ i = Len(tree)
    BY <1>2
  <2> QED BY <1>1, <1>3, <2>1, <2>2, <2>3
<1> QED BY <1>4, <1>5, <1>6

LEMMA SubmitIoFaultFeed ==
  ASSUME Inv, FeedInv, NEW q \in Submits, SubmitIoFault(q)
  PROVE  IndexStep /\ FileCovers' /\ StreamsCovered'
<1>1. /\ q \in Requests /\ pc[q] = "queued" /\ RecordOf[q] \in Records
      /\ tree \in Seq(Records) /\ disk \in Seq(Records)
      /\ Settle(q, "error", NoProof) /\ StreamsCovered
      /\ UNCHANGED <<tree, up, proofCache, proof, streams, dropped>>
  BY RequestFacts
     DEF SubmitIoFault, HoldsLock, Inv, QueuedValid, TypeOK, feedVars, ghostVars, FeedInv
<1>2. IndexStep /\ StreamsCovered'
  BY <1>1, RefusedFeed DEF Kinds
<1>3. Len(Append(disk, RecordOf[q])) = Len(disk) + 1 /\ Len(disk) \in Nat /\ Len(tree) \in Nat
  BY <1>1
<1>4. disk' \in {disk, Append(disk, RecordOf[q])} /\ (~torn' => ~torn)
  BY DEF SubmitIoFault
<1>5. FileCovers'
  BY <1>1, <1>3, <1>4 DEF FeedInv, FileCovers
<1> QED BY <1>2, <1>5

\* The signer resolved for a submission or a lookup: what it caches and answers with
\* is what it was given.
LEMMA SignedIndexes ==
  ASSUME Inv, NEW q \in Submits \cup Lookups, pc[q] = "signing",
         CacheProof(RecordOf[q], proof[q]), Settle(q, "ok", proof[q]),
         UNCHANGED <<tree, up, proof>>
  PROVE  IndexStep
<1>1. q \in Requests /\ proof[q] \in Proof /\ RecordOf[q] \in Records /\ TypeOK
  BY RequestFacts, SignedFacts DEF Inv, QueuedValid
<1>2. /\ \A w \in Requests : w # q => pc'[w] = pc[w] /\ reply'[w] = reply[w]
      /\ pc'[q] = "settled" /\ reply'[q].proof = proof[q]
  BY <1>1, SettleOthers
<1>3. \A i \in DOMAIN proofCache' :
        \/ proofCache'[i] = [hash |-> RecordOf[q], proof |-> proof[q]]
        \/ \E j \in DOMAIN proofCache : proofCache'[i] = proofCache[j]
  BY <1>1, CacheFacts
<1>4. \A i \in DOMAIN proofCache' :
        \/ \E j \in DOMAIN proofCache : proofCache'[i].proof = proofCache[j].proof
        \/ \E w \in Submits \cup Lookups : pc[w] = "signing" /\ proofCache'[i].proof = proof[w]
  BY <1>3
<1> QED BY <1>2, <1>4, RequestFacts DEF IndexStep

\* What one more element adds to a sequence.
LEMMA AppendRange ==
  ASSUME NEW S, NEW t \in Seq(S), NEW e \in S
  PROVE  Range(t) \subseteq Range(Append(t, e)) /\ e \in Range(Append(t, e))
<1>1. Len(t) \in Nat /\ DOMAIN t = 1..Len(t)
  OBVIOUS
<1>2. DOMAIN Append(t, e) = 1..(Len(t) + 1)
  OBVIOUS
<1>3. \A n \in 1..Len(t) : Append(t, e)[n] = t[n]
  OBVIOUS
<1>4. Append(t, e)[Len(t) + 1] = e
  OBVIOUS
<1>5. 1..Len(t) \subseteq 1..(Len(t) + 1) /\ Len(t) + 1 \in 1..(Len(t) + 1)
  BY <1>1
<1> QED BY <1>1, <1>2, <1>3, <1>4, <1>5 DEF Range

\* notifySubscribers: an open stream that wants log index i is sent it.
LEMMA NotifyFacts ==
  ASSUME TypeOK, NEW i \in Nat, NEW s \in Streams,
         streams' = [x \in Streams |-> Notify(x, i)]
  PROVE  /\ streams'[s].on = streams[s].on /\ streams'[s].after = streams[s].after
         /\ Range(streams[s].sent) \subseteq Range(streams'[s].sent)
         /\ streams[s].on /\ i > streams[s].after => i \in Range(streams'[s].sent)
<1> DEFINE c == streams[s]
           more == Append(c.sent, i)
<1>1. c \in [on : BOOLEAN, resumed : BOOLEAN, after : Int, sent : Seq(Nat)]
  BY DEF TypeOK
<1>2. c.sent \in Seq(Nat)
  BY <1>1
<1>4. Range(c.sent) \subseteq Range(more) /\ i \in Range(more)
  BY <1>2, AppendRange
<1>5. streams'[s] = Notify(s, i)
  OBVIOUS
<1>6. CASE streams'[s] = c /\ ~(c.on /\ (c.resumed => i > c.after))
  BY <1>6
<1>7. CASE streams'[s] = [c EXCEPT !.sent = more]
  <2>1. /\ streams'[s].on = c.on /\ streams'[s].after = c.after
        /\ streams'[s].sent = more
    BY <1>1, <1>7
  <2> HIDE DEF c, more
  <2> QED BY <1>4, <2>1 DEF c
<1> QED BY <1>5, <1>6, <1>7 DEF Notify

LEMMA SubmitSignedFeed ==
  ASSUME Inv, FeedInv, NEW q \in Submits, SubmitSigned(q)
  PROVE  IndexStep /\ FileCovers' /\ StreamsCovered'
<1> DEFINE p == [proof[q] EXCEPT !.head = SignedHead(q)]
<1>1. p = proof[q] /\ q \in Requests /\ proof[q] \in Proof /\ TypeOK
  BY RequestFacts, SignedFacts DEF Inv
<1>2. /\ pc[q] = "signing" /\ CacheProof(RecordOf[q], p) /\ Settle(q, "ok", p)
      /\ streams' = [s \in Streams |-> Notify(s, p.log_index)]
      /\ UNCHANGED <<tree, disk, torn, up, proof, dropped>>
  BY DEF SubmitSigned
<1> DEFINE n == proof[q].log_index
<1>3. n \in Nat
  BY <1>2 DEF Inv, ProofsFit, BundleFits
<1> HIDE DEF p
<1>4. IndexStep
  BY <1>1, <1>2, SignedIndexes
<1>5. FileCovers'
  BY <1>2 DEF FeedInv, FileCovers
<1>6. \A w \in Requests : w # q => pc'[w] = pc[w]
  BY <1>1, <1>2, SettleOthers
<1>7. StreamsCovered'
  <2> SUFFICES ASSUME NEW s \in Streams, streams'[s].on
               PROVE  /\ up'
                      /\ \A i \in 0..(Len(tree') - 1) : i > streams'[s].after =>
                           \/ i \in Range(streams'[s].sent)
                           \/ i \in dropped'
                           \/ \E w \in Submits : pc'[w] = "signing" /\ proof'[w].log_index = i
    BY DEF StreamsCovered
  <2>1. /\ streams'[s].on = streams[s].on /\ streams'[s].after = streams[s].after
        /\ Range(streams[s].sent) \subseteq Range(streams'[s].sent)
        /\ streams[s].on /\ n > streams[s].after => n \in Range(streams'[s].sent)
    BY <1>1, <1>2, <1>3, NotifyFacts
  <2>2. /\ up
        /\ \A i \in 0..(Len(tree) - 1) : i > streams[s].after =>
             \/ i \in Range(streams[s].sent)
             \/ i \in dropped
             \/ \E w \in Submits : pc[w] = "signing" /\ proof[w].log_index = i
    BY <2>1 DEF FeedInv, StreamsCovered
  <2>3. \A w \in Submits : w # q => pc'[w] = pc[w]
    BY <1>6, RequestFacts
  <2> QED BY <1>2, <2>1, <2>2, <2>3
<1> QED BY <1>4, <1>5, <1>7

LEMMA SubmitSignFaultFeed ==
  ASSUME Inv, FeedInv, NEW q \in Submits, SubmitSignFault(q)
  PROVE  IndexStep /\ FileCovers' /\ StreamsCovered'
<1>1. /\ pc[q] = "signing" /\ Settle(q, "error", NoProof) /\ q \in Requests
      /\ dropped' = dropped \cup {proof[q].log_index}
      /\ UNCHANGED <<tree, disk, torn, up, proofCache, proof, streams>>
  BY RequestFacts DEF SubmitSignFault, feedVars
<1>2. /\ \A w \in Requests : w # q => pc'[w] = pc[w] /\ reply'[w] = reply[w]
      /\ pc'[q] = "settled" /\ reply'[q].kind # "ok"
  BY <1>1, SettleOthers DEF Inv
<1>3. IndexStep
  BY <1>1, <1>2, RequestFacts DEF IndexStep
<1>4. FileCovers'
  BY <1>1 DEF FeedInv, FileCovers
<1>5. StreamsCovered'
  <2>1. \A w \in Submits : w # q => pc'[w] = pc[w]
    BY <1>2, RequestFacts
  <2> QED BY <1>1, <2>1 DEF FeedInv, StreamsCovered
<1> QED BY <1>3, <1>4, <1>5

LEMMA LookupFeed ==
  ASSUME Inv, FeedInv, NEW q \in Lookups, Lookup(q) \/ LookupSigned(q)
  PROVE  IndexStep /\ FileCovers' /\ StreamsCovered'
<1>1. /\ UNCHANGED <<tree, disk, torn, up, streams, dropped>>
      /\ q \in Requests /\ q \notin Submits /\ TypeOK /\ StreamsCovered
  BY RequestFacts DEF Lookup, LookupSigned, feedVars, ghostVars, Inv, FeedInv
<1>2. FileCovers'
  BY <1>1 DEF FeedInv, FileCovers
<1>3. CASE AnswerFromCache(q) /\ UNCHANGED <<proof, proofCache>> /\ pc[q] = "idle"
  BY <1>1, <1>2, <1>3, CachedFeed
<1>4. CASE Settle(q, "notfound", NoProof) /\ UNCHANGED <<proof, proofCache>>
  BY <1>1, <1>2, <1>4, RefusedFeed DEF Kinds
<1>5. ASSUME NEW i \in IndexesOf(RecordOf[q]),
             proof' = [proof EXCEPT ![q] = ProofBundle(tree, i - 1)],
             pc' = [pc EXCEPT ![q] = "signing"], UNCHANGED <<reply, proofCache>>
      PROVE  IndexStep /\ StreamsCovered'
  <2>1. pc \in [Requests -> Stages] /\ proof \in [Requests -> Proof] /\ tree \in Seq(Records)
    BY DEF Inv, TypeOK
  <2>2. i \in 1..Len(tree) /\ Len(tree) \in Nat
    BY <2>1 DEF IndexesOf
  <2>3. ProofBundle(tree, i - 1).log_index \in 0..(Len(tree) - 1)
    BY <2>2 DEF ProofBundle
  <2>4. proof'[q].log_index \in 0..(Len(tree) - 1)
    BY <1>1, <1>5, <2>1, <2>3
  <2>5. \A w \in Requests : w # q => pc'[w] = pc[w] /\ proof'[w] = proof[w]
    BY <1>5, <2>1
  <2>6. StreamsCovered'
    BY <1>1, <2>5, CoverKept, RequestFacts
  <2> QED BY <1>1, <1>5, <2>4, <2>5, <2>6, RequestFacts DEF IndexStep
<1>6. CASE LookupSigned(q)
  <2> DEFINE p == [proof[q] EXCEPT !.head = SignedHead(q)]
  <2>1. p = proof[q]
    BY <1>1, SignedFacts
  <2>2. /\ pc[q] = "signing" /\ CacheProof(RecordOf[q], p) /\ Settle(q, "ok", p)
        /\ UNCHANGED proof
    BY <1>6 DEF LookupSigned
  <2> HIDE DEF p
  <2>3. IndexStep
    BY <1>1, <2>1, <2>2, SignedIndexes
  <2>4. \A w \in Requests : w # q => pc'[w] = pc[w]
    BY <1>1, <2>2, SettleOthers
  <2>5. StreamsCovered'
    BY <1>1, <2>2, <2>4, CoverKept, RequestFacts
  <2> QED BY <1>2, <2>3, <2>5
<1> QED BY <1>2, <1>3, <1>4, <1>5, <1>6 DEF Lookup

\* Checkpoints, and signers that reject for a reader.
LEMMA ReaderFeed ==
  ASSUME Inv, FeedInv, NEW q \in Lookups \cup Checkpoints,
         \/ q \in Checkpoints /\ (Checkpoint(q) \/ CheckpointSigned(q))
         \/ ReadSignFault(q)
  PROVE  IndexStep /\ FileCovers' /\ StreamsCovered'
<1>1. /\ UNCHANGED <<tree, disk, torn, up, proofCache, streams, dropped>>
      /\ q \in Requests /\ q \notin Submits /\ TypeOK /\ StreamsCovered
  BY RequestFacts
     DEF Checkpoint, CheckpointSigned, ReadSignFault, feedVars, ghostVars, Inv, FeedInv
<1>2. FileCovers'
  BY <1>1 DEF FeedInv, FileCovers
<1>3. ASSUME \A w \in Requests : w # q => /\ pc'[w] = pc[w] /\ reply'[w] = reply[w]
                                          /\ proof'[w] = proof[w],
             q \in Checkpoints \/ pc'[q] # "signing"
      PROVE  IndexStep /\ StreamsCovered'
  <2>1. StreamsCovered'
    BY <1>1, <1>3, CoverKept, RequestFacts
  <2> QED BY <1>1, <1>3, <2>1, RequestFacts DEF IndexStep
<1>4. ASSUME NEW kind, NEW p, Settle(q, kind, p), UNCHANGED proof
      PROVE  IndexStep /\ StreamsCovered'
  BY <1>1, <1>3, <1>4, SettleOthers
<1>5. CASE /\ q \in Checkpoints /\ pc' = [pc EXCEPT ![q] = "signing"] /\ UNCHANGED reply
           /\ \E p : proof' = [proof EXCEPT ![q] = p]
  <2>1. pc \in [Requests -> Stages] /\ proof \in [Requests -> Proof]
    BY <1>1 DEF TypeOK
  <2>2. PICK p : proof' = [proof EXCEPT ![q] = p]
    BY <1>5
  <2>3. \A w \in Requests : w # q => /\ pc'[w] = pc[w] /\ reply'[w] = reply[w]
                                     /\ proof'[w] = proof[w]
    BY <1>5, <2>1, <2>2
  <2>4. StreamsCovered'
    BY <1>1, <1>5, <2>3, CoverKept, RequestFacts
  <2>5. \A w \in Submits \cup Lookups : w # q
    BY <1>5, RequestFacts, LogNodeAssumption
  <2>6. IndexStep
    BY <1>1, <1>5, <2>3, <2>5, RequestFacts DEF IndexStep
  <2> QED BY <1>2, <2>4, <2>6
<1> QED BY <1>2, <1>4, <1>5 DEF Checkpoint, CheckpointSigned, ReadSignFault
\* What a resuming client is sent at once: every entry of the tree beyond its cursor.
LEMMA ReplaySent ==
  ASSUME NEW L \in Nat, NEW a \in -1..(L - 1), NEW i \in 0..(L - 1), i > a
  PROVE  i \in Range([n \in 1..(L - 1 - a) |-> a + n])
<1> DEFINE sent == [n \in 1..(L - 1 - a) |-> a + n]
<1>1. i - a \in DOMAIN sent /\ sent[i - a] = i
  OBVIOUS
<1> QED BY <1>1 DEF Range

LEMMA StreamFeed ==
  ASSUME Inv, FeedInv, NEW s \in Streams, Subscribe(s) \/ Unsubscribe(s)
  PROVE  IndexStep /\ FileCovers' /\ StreamsCovered'
<1>1. /\ UNCHANGED <<tree, disk, torn, up, proofCache, pc, proof, reply, dropped>>
      /\ TypeOK /\ StreamsCovered
  BY DEF Subscribe, Unsubscribe, serverVars, ghostVars, Inv, FeedInv
<1>2. IndexStep /\ FileCovers'
  BY <1>1 DEF IndexStep, FeedInv, FileCovers
<1>3. streams \in [Streams -> [on : BOOLEAN, resumed : BOOLEAN, after : Int, sent : Seq(Nat)]]
      /\ Len(tree) \in Nat
  BY <1>1 DEF TypeOK
<1>4. ASSUME NEW x, streams' = [streams EXCEPT ![s] = x], x.on => up,
             x.on => \A i \in 0..(Len(tree) - 1) : i > x.after => i \in Range(x.sent)
      PROVE  StreamsCovered'
  <2>1. streams'[s] = x /\ \A t \in Streams : t # s => streams'[t] = streams[t]
    BY <1>3, <1>4
  <2> QED BY <1>1, <1>4, <2>1 DEF StreamsCovered
<1>5. CASE Subscribe(s)
  <2>1. up
    BY <1>5 DEF Subscribe
  <2>2. ASSUME NEW a \in -1..(Len(tree) - 1),
               streams' = [streams EXCEPT ![s] =
                 [on |-> TRUE, resumed |-> TRUE, after |-> a,
                  sent |-> [n \in 1..(Len(tree) - 1 - a) |-> a + n]]]
        PROVE  StreamsCovered'
    <3> DEFINE x == [on |-> TRUE, resumed |-> TRUE, after |-> a,
                     sent |-> [n \in 1..(Len(tree) - 1 - a) |-> a + n]]
    <3>1. \A i \in 0..(Len(tree) - 1) : i > x.after => i \in Range(x.sent)
      BY <1>3, ReplaySent
    <3>2. streams' = [streams EXCEPT ![s] = x]
      BY <2>2
    <3> HIDE DEF x
    <3> QED BY <1>4, <2>1, <3>1, <3>2
  <2>3. ASSUME streams' = [streams EXCEPT ![s] =
                 [on |-> TRUE, resumed |-> FALSE, after |-> Len(tree) - 1, sent |-> <<>>]]
        PROVE  StreamsCovered'
    <3> DEFINE x == [on |-> TRUE, resumed |-> FALSE, after |-> Len(tree) - 1, sent |-> <<>>]
    <3>1. \A i \in 0..(Len(tree) - 1) : i > x.after => i \in Range(x.sent)
      BY <1>3
    <3>2. streams' = [streams EXCEPT ![s] = x]
      BY <2>3
    <3> HIDE DEF x
    <3> QED BY <1>4, <2>1, <3>1, <3>2
  <2>4. \/ \E a \in -1..(Len(tree) - 1) :
             streams' = [streams EXCEPT ![s] =
               [on |-> TRUE, resumed |-> TRUE, after |-> a,
                sent |-> [n \in 1..(Len(tree) - 1 - a) |-> a + n]]]
        \/ streams' = [streams EXCEPT ![s] =
             [on |-> TRUE, resumed |-> FALSE, after |-> Len(tree) - 1, sent |-> <<>>]]
    BY <1>5 DEF Subscribe
  <2> QED BY <1>2, <2>2, <2>3, <2>4, Zenon
<1>6. CASE Unsubscribe(s)
  <2>1. streams' = [streams EXCEPT ![s] = Off] /\ ~Off.on
    BY <1>6 DEF Unsubscribe, Off
  <2>2. streams'[s] = Off /\ \A t \in Streams : t # s => streams'[t] = streams[t]
    BY <1>3, <2>1
  <2> QED BY <1>1, <1>2, <2>1, <2>2 DEF StreamsCovered
<1> QED BY <1>2, <1>5, <1>6

\* Posts to graph-node and stuttering touch neither the tree nor the streams.
LEMMA QuietFeed ==
  ASSUME FeedInv, UNCHANGED <<serverVars, streams, ghostVars>>
  PROVE  IndexStep /\ FileCovers' /\ StreamsCovered'
<1>1. UNCHANGED <<tree, disk, torn, up, proofCache, pc, proof, reply, streams, dropped>>
  BY DEF serverVars, ghostVars
<1> QED BY <1>1 DEF IndexStep, FeedInv, FileCovers, StreamsCovered

\* A restart closes every stream; if it comes up, its tree is no shorter.
LEMMA CrashFeed ==
  ASSUME Inv, FeedInv, Crash
  PROVE  FeedInv'
<1>1. /\ up /\ up' = ~torn' /\ tree' = disk' /\ proofCache' = <<>> /\ reply' = reply
      /\ pc' = [q \in Requests |-> IF pc[q] \in {"queued", "signing"} THEN "lost" ELSE pc[q]]
      /\ streams' = [s \in Streams |-> Off]
      /\ IndexesInTree /\ FileCovers /\ TypeOK
  BY DEF Crash, Inv, FeedInv
<1>2. StreamsCovered'
  BY <1>1 DEF StreamsCovered, Off
<1>3. FileCovers'
  <2>1. disk' \in Seq(Records)
    BY <1>1, CrashDisk
  <2> QED BY <1>1, <2>1 DEF FileCovers
<1>4. ASSUME ~torn' PROVE Len(tree) <= Len(tree') /\ Len(tree) \in Nat /\ Len(tree') \in Nat
  <2>1. ~torn /\ (disk' = disk \/ \E r \in Records : disk' = Append(disk, r))
    <3>1. ASSUME NEW q \in Submits, HoldsLock(q), disk' = Append(disk, RecordOf[q])
          PROVE  \E r \in Records : disk' = Append(disk, r)
      BY <3>1 DEF Inv, QueuedValid, HoldsLock
    <3> QED BY <1>4, <3>1 DEF Crash
  <2>2. tree \in Seq(Records) /\ disk \in Seq(Records)
    BY <1>1 DEF TypeOK
  <2>3. \A r \in Records : Len(Append(disk, r)) = Len(disk) + 1
    BY <2>2
  <2>4. Len(disk) \in Nat /\ Len(tree) \in Nat /\ Len(tree) <= Len(disk)
    BY <1>1, <2>1, <2>2 DEF FileCovers
  <2>5. Len(disk') = Len(disk) \/ Len(disk') = Len(disk) + 1
    BY <2>1, <2>3
  <2> QED BY <1>1, <2>4, <2>5
<1>5. ASSUME ~torn' PROVE IndexesInTree'
  <2>1. 0..(Len(tree) - 1) \subseteq 0..(Len(tree') - 1)
    BY <1>4, <1>5
  <2>2. \A q \in Submits : reply'[q].kind = "ok" => InTree(reply[q].proof)'
    BY <1>1, <2>1 DEF IndexesInTree, InTree
  <2>3. \A q \in Submits \cup Lookups : pc'[q] # "signing"
    BY <1>1, RequestFacts
  <2>4. DOMAIN proofCache' = {}
    BY <1>1
  <2> QED BY <2>2, <2>3, <2>4 DEF IndexesInTree
<1>6. ASSUME torn' PROVE IndexesInTree'
  BY <1>1, <1>6 DEF IndexesInTree
<1> QED BY <1>2, <1>3, <1>5, <1>6 DEF FeedInv

LEMMA NextFeed == Inv /\ FeedInv /\ [Next]_vars => FeedInv'
<1> SUFFICES ASSUME Inv, FeedInv, [Next]_vars PROVE FeedInv'
  OBVIOUS
<1> DEFINE Fed == IndexStep /\ FileCovers' /\ StreamsCovered'
<1>1. ASSUME Fed PROVE FeedInv'
  BY <1>1, IndexesKept DEF FeedInv, Inv
<1>2. ASSUME NEW q \in Submits,
             \/ Submit(q) \/ SubmitCached(q) \/ SubmitAppend(q) \/ SubmitIoFault(q)
             \/ SubmitSigned(q) \/ SubmitSignFault(q)
      PROVE  Fed
  BY <1>2, SubmitFeed, SubmitAppendFeed, SubmitIoFaultFeed, SubmitSignedFeed,
     SubmitSignFaultFeed
<1>3. ASSUME NEW q \in Lookups, Lookup(q) \/ LookupSigned(q) PROVE Fed
  BY <1>3, LookupFeed
<1>4. ASSUME NEW q \in Checkpoints, Checkpoint(q) \/ CheckpointSigned(q) PROVE Fed
  BY <1>4, ReaderFeed
<1>5. ASSUME NEW q \in Lookups \cup Checkpoints, ReadSignFault(q) PROVE Fed
  BY <1>5, ReaderFeed
<1>6. ASSUME NEW s \in Streams, Subscribe(s) \/ Unsubscribe(s) PROVE Fed
  BY <1>6, StreamFeed
<1>7. ASSUME NEW m \in fanout, Fanout(m) PROVE Fed
  BY <1>7, QuietFeed DEF Fanout
<1>8. ASSUME UNCHANGED vars PROVE Fed
  BY <1>8, QuietFeed DEF vars, feedVars
<1> HIDE DEF Fed
<1> QED BY <1>1, <1>2, <1>3, <1>4, <1>5, <1>6, <1>7, <1>8, CrashFeed DEF Next

LEMMA InitFeed == Init => FeedInv
<1> SUFFICES ASSUME Init PROVE FeedInv
  OBVIOUS
<1>1. \A q \in Requests : pc[q] = "idle" /\ reply[q].kind = "none"
  BY DEF Init
<1>2. IndexesInTree
  BY <1>1, RequestFacts DEF Init, IndexesInTree
<1>3. FileCovers
  BY DEF Init, FileCovers
<1>4. StreamsCovered
  BY DEF Init, StreamsCovered, Off
<1> QED BY <1>2, <1>3, <1>4 DEF FeedInv

\* handleStream registers a client and replays to it in one turn, and the tail is
\* notified after every signature: an open stream misses no acknowledged entry beyond
\* its cursor, whatever files, signers and crashes do, except one whose submission
\* failed after its append.
THEOREM NoStreamGap == Spec => []StreamNoGap
<1>1. FeedInv => StreamNoGap
  <2> SUFFICES ASSUME FeedInv, NEW s \in Streams, NEW q \in Submits,
                      streams[s].on, reply[q].kind = "ok",
                      reply[q].proof.log_index > streams[s].after,
                      reply[q].proof.log_index \notin dropped,
                      \A w \in Submits :
                        pc[w] = "signing" => proof[w].log_index # reply[q].proof.log_index
               PROVE  reply[q].proof.log_index \in Range(streams[s].sent)
    BY DEF StreamNoGap
  <2>1. up
    BY DEF FeedInv, StreamsCovered
  <2>2. reply[q].proof.log_index \in 0..(Len(tree) - 1)
    BY <2>1 DEF FeedInv, IndexesInTree, InTree
  <2> QED BY <2>2 DEF FeedInv, StreamsCovered
<1>2. Inv /\ FeedInv /\ [Next]_vars => FeedInv'
  BY NextFeed
<1> QED BY <1>1, <1>2, Invariance, InitFeed, PTL DEF Spec

-----------------------------------------------------------------------------
(* What streams were sent, and the file. *)

\* The streams stay as they are and the tree does not shrink.
LEMMA SentKept ==
  ASSUME TypeOK, SentInTree, streams' = streams,
         tree' = tree \/ \E r \in Records : tree' = Append(tree, r)
  PROVE  SentInTree'
<1>1. tree \in Seq(Records) /\ Len(tree) \in Nat
  BY DEF TypeOK
<1>2. Len(tree') = Len(tree) \/ Len(tree') = Len(tree) + 1
  BY <1>1
<1>3. 0..(Len(tree) - 1) \subseteq 0..(Len(tree') - 1)
  BY <1>1, <1>2
<1> QED BY <1>3 DEF SentInTree

\* A notification adds the log index that was signed, and nothing else.
LEMMA SubmitSignedSent ==
  ASSUME Inv, FeedInv, SentInTree, NEW q \in Submits, SubmitSigned(q)
  PROVE  SentInTree'
<1> DEFINE n == [proof[q] EXCEPT !.head = SignedHead(q)].log_index
<1>1. /\ streams' = [s \in Streams |-> Notify(s, n)] /\ tree' = tree /\ pc[q] = "signing"
  BY DEF SubmitSigned
<1>2. n = proof[q].log_index /\ n \in Nat
  BY <1>1, RequestFacts, SignedFacts DEF Inv, ProofsFit, BundleFits
<1> HIDE DEF n
<1> SUFFICES ASSUME NEW s \in Streams, NEW i \in Range(streams'[s].sent)
             PROVE  streams'[s].on /\ i \in 0..(Len(tree) - 1)
  BY <1>1 DEF SentInTree
<1> DEFINE c == streams[s]
<1>3. /\ c \in [on : BOOLEAN, resumed : BOOLEAN, after : Int, sent : Seq(Nat)]
      /\ c.sent \in Seq(Nat) /\ \A k \in Range(c.sent) : c.on /\ k \in 0..(Len(tree) - 1)
  BY DEF Inv, TypeOK, SentInTree
<1>4. CASE streams'[s] = c
  BY <1>3, <1>4
<1>5. CASE c.on /\ streams'[s] = [c EXCEPT !.sent = Append(c.sent, n)]
  <2>1. streams'[s].on = c.on /\ streams'[s].sent = Append(c.sent, n)
    BY <1>3, <1>5
  <2>2. i \in Range(c.sent) \/ i = n
    <3>1. PICK k \in DOMAIN Append(c.sent, n) : i = Append(c.sent, n)[k]
      BY <2>1 DEF Range
    <3>2. k \in 1..(Len(c.sent) + 1) /\ Len(c.sent) \in Nat /\ DOMAIN c.sent = 1..Len(c.sent)
      BY <1>2, <1>3, <3>1
    <3>3. CASE k = Len(c.sent) + 1
      BY <1>2, <1>3, <3>1, <3>3
    <3>4. CASE k \in 1..Len(c.sent)
      BY <1>2, <1>3, <3>1, <3>2, <3>4 DEF Range
    <3> QED BY <3>2, <3>3, <3>4
  <2>3. up
    BY <1>5 DEF FeedInv, StreamsCovered
  <2>4. n \in 0..(Len(tree) - 1)
    BY <1>1, <1>2, <2>3 DEF FeedInv, IndexesInTree, InTree
  <2> QED BY <1>3, <1>5, <2>1, <2>2, <2>4
<1> QED BY <1>1, <1>4, <1>5 DEF Notify

\* The replay ends at the tail.
LEMMA StreamSent ==
  ASSUME Inv, SentInTree, NEW s \in Streams, Subscribe(s) \/ Unsubscribe(s)
  PROVE  SentInTree'
<1>1. tree' = tree /\ TypeOK
  BY DEF Subscribe, Unsubscribe, serverVars, Inv
<1>2. streams \in [Streams -> [on : BOOLEAN, resumed : BOOLEAN, after : Int, sent : Seq(Nat)]]
      /\ Len(tree) \in Nat
  BY <1>1 DEF TypeOK
<1>3. ASSUME NEW x, streams' = [streams EXCEPT ![s] = x],
             \A i \in Range(x.sent) : x.on /\ i \in 0..(Len(tree) - 1)
      PROVE  SentInTree'
  <2>1. streams'[s] = x /\ \A t \in Streams : t # s => streams'[t] = streams[t]
    BY <1>2, <1>3
  <2> QED BY <1>1, <1>3, <2>1 DEF SentInTree
<1>4. \A x : x.sent = <<>> => Range(x.sent) = {}
  BY DEF Range
<1>5. ASSUME NEW a \in -1..(Len(tree) - 1),
             streams' = [streams EXCEPT ![s] =
               [on |-> TRUE, resumed |-> TRUE, after |-> a,
                sent |-> [n \in 1..(Len(tree) - 1 - a) |-> a + n]]]
      PROVE  SentInTree'
  <2> DEFINE x == [on |-> TRUE, resumed |-> TRUE, after |-> a,
                   sent |-> [n \in 1..(Len(tree) - 1 - a) |-> a + n]]
  <2>1. \A i \in Range(x.sent) : x.on /\ i \in 0..(Len(tree) - 1)
    BY <1>2 DEF Range
  <2>2. streams' = [streams EXCEPT ![s] = x]
    BY <1>5
  <2> HIDE DEF x
  <2> QED BY <1>3, <2>1, <2>2
<1>6. ASSUME streams' = [streams EXCEPT ![s] =
               [on |-> TRUE, resumed |-> FALSE, after |-> Len(tree) - 1, sent |-> <<>>]]
      PROVE  SentInTree'
  <2> DEFINE x == [on |-> TRUE, resumed |-> FALSE, after |-> Len(tree) - 1, sent |-> <<>>]
  <2>1. x.sent = <<>> /\ streams' = [streams EXCEPT ![s] = x]
    BY <1>6
  <2> HIDE DEF x
  <2> QED BY <1>3, <1>4, <2>1
<1>7. CASE Unsubscribe(s)
  <2>1. streams' = [streams EXCEPT ![s] = Off] /\ Off.sent = <<>>
    BY <1>7 DEF Unsubscribe, Off
  <2> QED BY <1>3, <1>4, <2>1
<1> QED BY <1>5, <1>6, <1>7 DEF Subscribe

\* A restart closes every stream, and its tree is the file.
LEMMA CrashSent ==
  ASSUME Inv, Crash
  PROVE  SentInTree' /\ Synced'
<1>1. streams' = [s \in Streams |-> Off] /\ tree' = disk' /\ up' = ~torn'
  BY DEF Crash
<1>2. \A s \in Streams : Range(streams'[s].sent) = {}
  BY <1>1 DEF Off, Range
<1> QED BY <1>1, <1>2 DEF SentInTree, Synced

\* Neither the file, the tree, nor what the streams were sent is touched.
LEMMA QuietSent ==
  ASSUME Inv, SentInv, UNCHANGED <<tree, disk, torn, up, streams, ioFaults>>
  PROVE  SentInv'
BY SentKept DEF Inv, SentInv, Synced

LEMMA NextSent == Inv /\ FeedInv /\ SentInv /\ [Next]_vars => SentInv'
<1> SUFFICES ASSUME Inv, FeedInv, SentInv, [Next]_vars PROVE SentInv'
  OBVIOUS
<1>1. ASSUME NEW q \in Submits, Submit(q) \/ SubmitCached(q) \/ SubmitSignFault(q)
      PROVE  SentInv'
  BY <1>1, QuietSent DEF Submit, SubmitCached, SubmitSignFault, feedVars, countVars
<1>2. ASSUME NEW q \in Submits, SubmitAppend(q)
      PROVE  SentInv'
  <2>1. /\ tree' = Append(tree, RecordOf[q]) /\ UNCHANGED <<streams, torn, up, ioFaults>> /\ up
        /\ disk' = IF torn THEN disk ELSE Append(disk, RecordOf[q])
    BY <1>2 DEF SubmitAppend, feedVars, countVars
  <2>2. RecordOf[q] \in Records
    BY <1>2 DEF SubmitAppend, HoldsLock, Inv, QueuedValid
  <2>3. SentInTree'
    BY <2>1, <2>2, SentKept DEF Inv, SentInv
  <2> QED BY <2>1, <2>3 DEF SentInv, Synced
<1>3. ASSUME NEW q \in Submits, SubmitIoFault(q)
      PROVE  SentInv'
  <2>1. UNCHANGED <<tree, streams>> /\ ioFaults' = ioFaults + 1 /\ ioFaults \in Nat
    BY <1>3 DEF SubmitIoFault, feedVars, Inv, TypeOK
  <2>2. SentInTree'
    BY <2>1, SentKept DEF Inv, SentInv
  <2> QED BY <2>1, <2>2 DEF SentInv
<1>4. ASSUME NEW q \in Submits, SubmitSigned(q)
      PROVE  SentInv'
  <2>1. UNCHANGED <<tree, disk, torn, up, ioFaults>>
    BY <1>4 DEF SubmitSigned, countVars
  <2> QED BY <1>4, <2>1, SubmitSignedSent DEF SentInv, Synced
<1>5. ASSUME NEW q, \/ Lookup(q) \/ LookupSigned(q) \/ Checkpoint(q) \/ CheckpointSigned(q)
                    \/ ReadSignFault(q)
      PROVE  SentInv'
  BY <1>5, QuietSent DEF Lookup, LookupSigned, Checkpoint, CheckpointSigned, ReadSignFault,
     feedVars, countVars
<1>6. ASSUME NEW s \in Streams, Subscribe(s) \/ Unsubscribe(s)
      PROVE  SentInv'
  <2>1. UNCHANGED <<tree, disk, torn, up, ioFaults>>
    BY <1>6 DEF Subscribe, Unsubscribe, serverVars, countVars
  <2> QED BY <1>6, <2>1, StreamSent DEF SentInv, Synced
<1>7. ASSUME NEW m \in fanout, Fanout(m) PROVE SentInv'
  BY <1>7, QuietSent DEF Fanout, serverVars, countVars
<1>8. ASSUME UNCHANGED vars PROVE SentInv'
  BY <1>8, QuietSent DEF vars, serverVars, feedVars, countVars
<1>9. ASSUME Crash PROVE SentInv'
  BY <1>9, CrashSent DEF SentInv
<1> QED BY <1>1, <1>2, <1>3, <1>4, <1>5, <1>6, <1>7, <1>8, <1>9 DEF Next

LEMMA InitSent == Init => SentInv
<1> SUFFICES ASSUME Init PROVE SentInv
  OBVIOUS
<1>1. \A s \in Streams : Range(streams[s].sent) = {}
  BY DEF Init, Off, Range
<1> QED BY <1>1 DEF Init, SentInv, SentInTree, Synced

\* What handleStream and the notifications sent to an open stream is in the entries
\* file, also while its checkpoint is still being signed: a restart does not shorten
\* the log below a cursor and, as long as no append failed, has the same entries there.
THEOREM StreamedOnDisk == Spec => []StreamsOnDisk
<1>1. Inv /\ FeedInv /\ SentInv => StreamsOnDisk
  <2> SUFFICES ASSUME Inv, FeedInv, SentInv, NEW s \in Streams,
                      NEW i \in Range(streams[s].sent)
               PROVE  /\ ~torn => i + 1 \in DOMAIN disk
                      /\ ioFaults = 0 => disk[i + 1] = tree[i + 1]
    BY DEF StreamsOnDisk
  <2>1. /\ tree \in Seq(Records) /\ disk \in Seq(Records)
        /\ i \in 0..(Len(tree) - 1) /\ Len(tree) \in Nat /\ Len(disk) \in Nat
        /\ DOMAIN disk = 1..Len(disk)
    BY DEF Inv, TypeOK, SentInv, SentInTree
  <2>2. ~torn => i + 1 \in DOMAIN disk
    BY <2>1 DEF FeedInv, FileCovers
  <2>3. ioFaults = 0 => disk[i + 1] = tree[i + 1]
    BY DEF SentInv, Synced
  <2> QED BY <2>2, <2>3
<1>2. Inv /\ FeedInv /\ [Next]_vars => FeedInv'
  BY NextFeed
<1>3. Inv /\ FeedInv /\ SentInv /\ [Next]_vars => SentInv'
  BY NextSent
<1> QED BY <1>1, <1>2, <1>3, Invariance, InitFeed, InitSent, PTL DEF Spec
=============================================================================
