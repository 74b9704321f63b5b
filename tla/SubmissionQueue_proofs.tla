------------------------ MODULE SubmissionQueue_proofs ------------------------
(***************************************************************************)
(* Proofs about SubmissionQueue, for any records, any number of            *)
(* overlapping flush() calls, any cap and any number of retries.           *)
(***************************************************************************)
EXTENDS SubmissionQueue, WellFoundedInduction, TLAPS

USE QueueAssumption

TaskState == [stage : TaskStages, attempt : 0..(MaxRetries - 1)]
FlushState == [stage : FlushStages, awaiting : SUBSET Records]

-----------------------------------------------------------------------------
(* pendingRecords, a map in insertion order. *)

\* A set of naturals with an element has a least one, which is its Min.
LEMMA MinNat ==
  ASSUME NEW T \in SUBSET Nat, T # {}
  PROVE  Min(T) \in T /\ \A k \in T : Min(T) <= k
<1>1. PICK m \in T : \A k \in T : ~(<<k, m>> \in OpToRel(<, Nat))
  BY WFMin, NatLessThanWellFounded, Zenon
<1>2. \A k \in T : ~(k < m)
  BY <1>1 DEF OpToRel
<1>3. \E x \in T : \A y \in T : x <= y
  BY <1>2
<1> QED BY <1>3 DEF Min

\* delete takes out the one entry of a key and keeps the order of the others.
LEMMA DeleteFacts ==
  ASSUME NEW q \in Seq(Records), IsInjective(q), NEW r
  PROVE  /\ Delete(q, r) \in Seq(Records) /\ IsInjective(Delete(q, r))
         /\ Range(Delete(q, r)) = Range(q) \ {r}
         /\ Len(Delete(q, r)) <= Len(q)
         /\ r \in Range(q) => Len(Delete(q, r)) = Len(q) - 1
<1>1. Len(q) \in Nat /\ DOMAIN q = 1..Len(q)
  OBVIOUS
<1>2. CASE ~ \E i \in 1..Len(q) : q[i] = r
  <2>1. Delete(q, r) = q
    BY <1>2 DEF Delete, RemoveFirst
  <2>2. r \notin Range(q)
    BY <1>1, <1>2 DEF Range
  <2> QED BY <2>1, <2>2
<1>3. CASE \E i \in 1..Len(q) : q[i] = r
  <2> DEFINE I == {i \in 1..Len(q) : q[i] = r}
  <2>1. PICK n \in I : Delete(q, r) = RemoveAt(q, n)
    <3>1. I \in SUBSET Nat /\ I # {}
      BY <1>3
    <3>2. Delete(q, r) = RemoveAt(q, Min(I))
      BY <1>3 DEF Delete, RemoveFirst, SelectInSeq
    <3> QED BY <3>1, <3>2, MinNat
  <2>2. n \in 1..Len(q) /\ q[n] = r
    BY <2>1
  <2> DEFINE d == SubSeq(q, 1, n - 1) \o SubSeq(q, n + 1, Len(q))
  <2>3. Delete(q, r) = d
    BY <2>1 DEF RemoveAt
  <2>4. /\ d \in Seq(Records) /\ Len(d) = Len(q) - 1
        /\ \A i \in 1..(Len(q) - 1) : d[i] = IF i < n THEN q[i] ELSE q[i + 1]
    <3> DEFINE a == SubSeq(q, 1, n - 1)
               b == SubSeq(q, n + 1, Len(q))
    <3>1. a \in Seq(Records) /\ Len(a) = n - 1 /\ \A i \in 1..(n - 1) : a[i] = q[i]
      BY <2>2
    <3>2. /\ b \in Seq(Records) /\ Len(b) = Len(q) - n
          /\ \A i \in 1..(Len(q) - n) : b[i] = q[n + i]
      BY <2>2
    <3> HIDE DEF a, b
    <3>3. a \o b \in Seq(Records) /\ Len(a \o b) = Len(q) - 1
      <4>0. a \in Seq(Records) /\ b \in Seq(Records)
        BY <3>1, <3>2
      <4>1. a \o b \in Seq(Records) /\ Len(a \o b) = Len(a) + Len(b)
        BY <4>0
      <4>2. (n - 1) + (Len(q) - n) = Len(q) - 1
        BY <2>2
      <4> QED BY <3>1, <3>2, <4>1, <4>2
    <3>4. ASSUME NEW i \in 1..(Len(q) - 1)
          PROVE  (a \o b)[i] = IF i < n THEN q[i] ELSE q[i + 1]
      <4>1. CASE i < n
        BY <2>2, <3>1, <3>2, <4>1
      <4>2. CASE ~(i < n)
        <5>1. i - (n - 1) \in 1..(Len(q) - n) /\ n + (i - (n - 1)) = i + 1
          BY <2>2, <4>2
        <5>2. (a \o b)[i] = b[i - (n - 1)]
          BY <2>2, <3>1, <3>2, <4>2
        <5> QED BY <3>2, <4>2, <5>1, <5>2
      <4> QED BY <4>1, <4>2
    <3> QED BY <3>3, <3>4 DEF a, b
  <2> HIDE DEF d
  <2>5. DOMAIN d = 1..(Len(q) - 1)
    BY <2>4
  <2>6. IsInjective(d)
    <3>1. ASSUME NEW i \in DOMAIN d, NEW j \in DOMAIN d, d[i] = d[j], i < j
          PROVE  FALSE
      <4>1. \A x, y \in 1..Len(q) : q[x] = q[y] => x = y
        BY <1>1 DEF IsInjective
      <4>2. i \in 1..Len(q) /\ i + 1 \in 1..Len(q) /\ j \in 1..Len(q) /\ j + 1 \in 1..Len(q)
        BY <1>1, <2>5
      <4> QED BY <2>2, <2>4, <2>5, <3>1, <4>1, <4>2
    <3>2. DOMAIN d \subseteq Nat
      BY <2>5
    <3>3. \A i, j \in DOMAIN d : d[i] = d[j] => ~(i < j)
      BY <3>1
    <3> QED BY <3>2, <3>3 DEF IsInjective
  <2>7. Range(d) = Range(q) \ {r}
    <3>1. ASSUME NEW i \in DOMAIN d PROVE d[i] \in Range(q) \ {r}
      BY <2>2, <2>4, <2>5 DEF Range, IsInjective
    <3>2. ASSUME NEW i \in DOMAIN q, q[i] # r PROVE q[i] \in Range(d)
      <4>1. CASE i < n
        BY <2>2, <2>4, <2>5, <4>1 DEF Range
      <4>2. CASE i > n
        <5>1. i - 1 \in 1..(Len(q) - 1) /\ ~(i - 1 < n) /\ (i - 1) + 1 = i
          BY <2>2, <4>2
        <5> QED BY <2>4, <2>5, <5>1 DEF Range
      <4> QED BY <2>2, <3>2, <4>1, <4>2
    <3>3. Range(d) \subseteq Range(q) \ {r}
      BY <3>1 DEF Range
    <3>4. Range(q) \ {r} \subseteq Range(d)
      BY <3>2 DEF Range
    <3> QED BY <3>3, <3>4
  <2> QED BY <1>1, <2>3, <2>4, <2>6, <2>7
<1> QED BY <1>2, <1>3

\* The eviction finds an entry of the queue.
LEMMA VictimIn ==
  ASSUME NEW q \in Seq(Records), Len(q) > 0
  PROVE  Victim(q) \in Range(q)
<1> DEFINE normal == {i \in DOMAIN q : q[i] \notin High}
<1>1. CASE normal # {}
  <2>1. Min(normal) \in normal
    BY <1>1, MinNat
  <2> QED BY <1>1, <2>1 DEF Victim, Range
<1>2. CASE normal = {}
  BY <1>2 DEF Victim, Range
<1> QED BY <1>1, <1>2

\* Room, then the insert: the cap holds and the record is in.
LEMMA InsertFacts ==
  ASSUME NEW q \in Seq(Records), IsInjective(q), Len(q) <= MaxQueueDepth, NEW r \in Records
  PROVE  LET new == Insert(Room(q), r)
         IN  /\ new \in Seq(Records) /\ IsInjective(new) /\ Len(new) <= MaxQueueDepth
             /\ r \in Range(new) /\ Range(new) \subseteq Range(q) \cup {r}
<1> DEFINE m == Room(q)
<1>1. m \in Seq(Records) /\ IsInjective(m) /\ Len(m) < MaxQueueDepth /\ Range(m) \subseteq Range(q)
  <2>1. CASE Len(q) >= MaxQueueDepth
    <3>1. Victim(q) \in Range(q)
      BY <2>1, VictimIn
    <3> QED BY <2>1, <3>1, DeleteFacts DEF Room
  <2>2. CASE ~(Len(q) >= MaxQueueDepth)
    BY <2>2 DEF Room
  <2> QED BY <2>1, <2>2
<1> HIDE DEF m
<1>2. CASE r \in Range(m)
  BY <1>1, <1>2 DEF Insert, m
<1>3. CASE r \notin Range(m)
  <2> DEFINE a == Append(m, r)
  <2>1. /\ a \in Seq(Records) /\ Len(a) = Len(m) + 1 /\ DOMAIN a = 1..(Len(m) + 1)
        /\ a[Len(m) + 1] = r /\ \A i \in 1..Len(m) : a[i] = m[i]
        /\ Len(m) \in Nat /\ DOMAIN m = 1..Len(m)
    BY <1>1
  <2> HIDE DEF a
  <2>2. \A i \in 1..Len(m) : m[i] # r
    BY <1>3, <2>1 DEF Range
  <2>3. IsInjective(a)
    BY <1>1, <2>1, <2>2 DEF IsInjective
  <2>4. r \in Range(a)
    BY <2>1 DEF Range
  <2>5. Range(a) \subseteq Range(m) \cup {r}
    BY <2>1 DEF Range
  <2>6. Len(a) <= MaxQueueDepth
    BY <1>1, <2>1
  <2>7. Insert(Room(q), r) = a
    BY <1>3 DEF Insert, m, a
  <2> QED BY <1>1, <2>1, <2>3, <2>4, <2>5, <2>6, <2>7
<1> QED BY <1>2, <1>3

-----------------------------------------------------------------------------
(* The actions. *)

LEMMA Types ==
  ASSUME Inv
  PROVE  /\ task \in [Tasks -> TaskState] /\ flush \in [Flushes -> FlushState]
         /\ pending \in Seq(Records) /\ IsInjective(pending) /\ Len(pending) <= MaxQueueDepth
         /\ commitsListed \subseteq commits /\ commits \subseteq Records
         /\ listed \subseteq Records /\ Pending \subseteq Records
         /\ covers \in [Flushes -> SUBSET Records]
         /\ dispatched \subseteq Records /\ settled \subseteq Records /\ evicted \subseteq Records
<1>1. /\ task \in [Tasks -> TaskState] /\ flush \in [Flushes -> FlushState]
      /\ pending \in Seq(Records) /\ IsInjective(pending) /\ Len(pending) <= MaxQueueDepth
      /\ commitsListed \subseteq commits /\ commits \subseteq Records
      /\ listed \subseteq Records
      /\ covers \in [Flushes -> SUBSET Records]
      /\ dispatched \subseteq Records /\ settled \subseteq Records /\ evicted \subseteq Records
  BY DEF Inv, TypeOK, TaskState, FlushState
<1>2. Pending \subseteq Records
  BY <1>1 DEF Pending, Range
<1> QED BY <1>1, <1>2

LEMMA TaskNames ==
  /\ \A s \in Starters, r \in Records : /\ <<s, r>> \in Tasks
                                        /\ <<s, r>>[1] = s /\ <<s, r>>[2] = r
  /\ \A t \in Tasks : t[1] \in Starters /\ t[2] \in Records /\ t = <<t[1], t[2]>>
  /\ Submit \in Starters /\ \A f \in Flushes : f \in Starters /\ f # Submit
  /\ \A s \in Starters : s = Submit \/ s \in Flushes
BY DEF Tasks, Starters

LEMMA InitInv == Init => Inv
<1> SUFFICES ASSUME Init PROVE Inv
  OBVIOUS
<1>1. pending = <<>> /\ pending \in Seq(Records) /\ Len(pending) = 0 /\ DOMAIN pending = {}
  BY DEF Init
<1>2. IsInjective(pending) /\ Len(pending) <= MaxQueueDepth /\ Pending = {}
  BY <1>1 DEF IsInjective, Pending, Range
<1>3. task \in [Tasks -> TaskState]
  BY DEF Init, NoTask, TaskState, TaskStages
<1>4. flush \in [Flushes -> FlushState] /\ covers \in [Flushes -> SUBSET Records]
  BY DEF Init, FlushState, FlushStages
<1>5. TypeOK
  BY <1>1, <1>2, <1>3, <1>4 DEF Init, TypeOK, TaskState, FlushState
<1>6. \A t \in Tasks : task[t].stage = "none"
  BY DEF Init, NoTask
<1>7. \A r \in Records : <<Submit, r>> \in Tasks
  BY TaskNames
<1>8. \A r \in Records : task[<<Submit, r>>].stage = "none" /\ ~Running(<<Submit, r>>)
  BY <1>6, <1>7 DEF Running
<1>9. NoSilentLoss /\ HandedOnce /\ ArchivedSettled /\ AttemptsLeft /\ GivenUp
  BY <1>2, <1>6, <1>8 DEF Init, NoSilentLoss, HandedOnce, ArchivedSettled, AttemptsLeft, GivenUp
<1>10. CommitsTaken /\ PromisesTaken /\ CoversTaken /\ RetriesCover
  BY <1>8 DEF Init, CommitsTaken, PromisesTaken, CoversTaken, RetriesCover
<1> QED BY <1>5, <1>9, <1>10 DEF Inv

\* A task moves on or ends.  Where its record is afterwards, and which pending record
\* had to leave, is all that matters to the invariant.
LEMMA TaskMoves ==
  ASSUME Inv, NEW t \in Tasks, Running(t),
         NEW x \in TaskState, task' = [task EXCEPT ![t] = x],
         x.stage # "none",
         x.stage = "backoff" => x.attempt < MaxRetries - 1,
         x.stage = "archiving" => t[2] \in settled',
         x.stage = "done" => t[2] \in settled' \cup Pending',
         listed' = IF x.stage = "done" /\ t[1] = Submit THEN listed \ {t[2]} ELSE listed,
         pending' \in Seq(Records), IsInjective(pending'), Len(pending') <= MaxQueueDepth,
         proofs' \subseteq Records, evicted' \subseteq Records, settled' \subseteq Records,
         settled \subseteq settled',
         Pending \cup evicted \subseteq settled' \cup Pending' \cup evicted',
         evicted \ evicted' \subseteq {t[2]},
         \A r \in Pending' \cup evicted' :
           r \in Pending \cup evicted \/ (r = t[2] /\ x.stage = "done"),
         UNCHANGED <<handoffVars, flush, covers, dispatched>>
  PROVE  Inv'
<1> USE Types
<1> DEFINE r0 == t[2]
<1>1. /\ task' \in [Tasks -> TaskState] /\ task'[t] = x
      /\ \A u \in Tasks : u # t => task'[u] = task[u]
  OBVIOUS
<1>2. UNCHANGED <<coordinator, commits, commitsListed, flush, covers, dispatched>>
  BY DEF handoffVars
<1>3. /\ \A u \in Tasks : u # t => (Running(u)' <=> Running(u))
      /\ x.stage # "done" => Running(t)'
      /\ Running(t)' => x.stage # "done"
  BY <1>1 DEF Running, TaskState, TaskStages
<1>4. \A r \in Records : Retried(r) => Retried(r)'
  <2>1. \A u \in Tasks : task[u].stage # "none" => task'[u].stage # "none"
    BY <1>1
  <2> QED BY <2>1, TaskNames DEF Retried
<1>5. \A f \in Flushes : Draining(f)' <=> Draining(f)
  BY <1>2 DEF Draining
<1>6. TypeOK'
  BY <1>1, <1>2 DEF Inv, TypeOK, TaskState
<1>7. NoSilentLoss'
  <2>1. SUFFICES ASSUME NEW r \in dispatched
                 PROVE  \/ r \in commits \cup settled' \cup Pending' \cup evicted'
                        \/ \E s \in Starters : Running(<<s, r>>)'
    BY <1>2 DEF NoSilentLoss
  <2>2. CASE r \in commits \cup settled \cup Pending \cup evicted
    BY <2>2
  <2>3. CASE \E s \in Starters : Running(<<s, r>>)
    <3>1. PICK s \in Starters : Running(<<s, r>>)
      BY <2>3
    <3>2. CASE <<s, r>> = t
      <4>1. r = t[2]
        BY <3>2
      <4> QED BY <1>3, <3>1, <3>2, <4>1
    <3>3. CASE <<s, r>> # t
      <4>1. <<s, r>> \in Tasks
        BY TaskNames
      <4> QED BY <1>3, <3>1, <3>3, <4>1
    <3> QED BY <3>2, <3>3
  <2> QED BY <2>2, <2>3 DEF Inv, NoSilentLoss
<1>8. HandedOnce'
  <2>1. ASSUME NEW r \in Records, task'[<<Submit, r>>].stage # "none"
        PROVE  task[<<Submit, r>>].stage # "none"
    <3>1. <<Submit, r>> \in Tasks
      BY TaskNames
    <3>2. task[t].stage # "none"
      BY DEF Running
    <3> QED BY <1>1, <2>1, <3>1, <3>2
  <2> QED BY <1>2, <2>1 DEF Inv, HandedOnce
<1>9. ArchivedSettled' /\ AttemptsLeft'
  BY <1>1 DEF Inv, ArchivedSettled, AttemptsLeft
<1>10. GivenUp'
  <2>1. SUFFICES ASSUME NEW r \in Pending' \cup evicted'
                 PROVE  task'[<<Submit, r>>].stage = "done" \/ Retried(r)'
    BY DEF GivenUp
  <2>2. r \in Records /\ <<Submit, r>> \in Tasks
    BY TaskNames DEF Pending, Range
  <2>3. CASE r \in Pending \cup evicted
    <3>1. task[<<Submit, r>>].stage = "done" \/ Retried(r)
      BY <2>3 DEF Inv, GivenUp
    <3>2. task[<<Submit, r>>].stage = "done" => <<Submit, r>> # t
      BY DEF Running
    <3> QED BY <1>1, <1>4, <2>2, <3>1, <3>2
  <2>4. CASE r = t[2] /\ x.stage = "done"
    <3>1. CASE t[1] = Submit
      <4>1. t = <<Submit, r>>
        BY <2>4, <3>1, TaskNames
      <4> QED BY <1>1, <2>4, <4>1
    <3>2. CASE t[1] \in Flushes
      <4>1. t = <<t[1], r>>
        BY <2>4, TaskNames
      <4>2. task'[<<t[1], r>>].stage # "none"
        BY <1>1, <4>1
      <4> QED BY <3>2, <4>2 DEF Retried
    <3> QED BY <3>1, <3>2, TaskNames
  <2> QED BY <2>1, <2>3, <2>4
<1>11. CommitsTaken' /\ CoversTaken'
  BY <1>2 DEF Inv, CommitsTaken, CoversTaken
<1>12. PromisesTaken'
  <2>1. SUFFICES ASSUME NEW r \in Records \ listed', Running(<<Submit, r>>)'
                 PROVE  \E g \in Flushes : flush[g].stage = "drain" /\ r \in flush[g].awaiting
    BY <1>2 DEF PromisesTaken
  <2>2. <<Submit, r>> \in Tasks /\ <<Submit, r>>[1] = Submit /\ <<Submit, r>>[2] = r
    BY TaskNames
  <2>3. Running(<<Submit, r>>)
    BY <1>3, <2>1, <2>2
  <2>4. r \notin listed
    <3>1. CASE t = <<Submit, r>>
      <4>1. x.stage # "done"
        BY <1>3, <2>1, <3>1
      <4>2. listed' = listed
        BY <4>1
      <4> QED BY <2>1, <4>2
    <3>2. CASE t # <<Submit, r>>
      <4>1. ~(t[1] = Submit /\ t[2] = r)
        BY <3>2, TaskNames
      <4>2. r \in listed => r \in listed'
        BY <4>1
      <4> QED BY <2>1, <4>2
    <3> QED BY <3>1, <3>2
  <2> QED BY <2>3, <2>4 DEF Inv, PromisesTaken
<1>13. RetriesCover'
  <2>1. SUFFICES ASSUME NEW f \in Flushes, flush[f].stage \in {"retry", "done"},
                        NEW r \in covers[f]
                 PROVE  \/ r \in settled' \cup evicted' \/ Retried(r)'
                        \/ \E g \in Flushes \ {f} : Draining(g)
    BY <1>2, <1>5 DEF RetriesCover
  <2>2. r \in Records
    OBVIOUS
  <2>3. CASE r \in evicted \ evicted'
    <3>1. r = t[2]
      BY <2>3
    <3>2. CASE t[1] = Submit
      <4>1. t = <<Submit, r>>
        BY <3>1, <3>2, TaskNames
      <4>2. task[<<Submit, r>>].stage # "done"
        BY <4>1 DEF Running
      <4>3. Retried(r)
        BY <2>3, <4>2 DEF Inv, GivenUp
      <4> QED BY <1>4, <2>2, <4>3
    <3>3. CASE t[1] \in Flushes
      <4>1. t = <<t[1], r>>
        BY <3>1, TaskNames
      <4>2. task'[<<t[1], r>>].stage # "none"
        BY <1>1, <4>1
      <4> QED BY <3>3, <4>2 DEF Retried
    <3> QED BY <3>2, <3>3, TaskNames
  <2>4. CASE r \notin evicted \ evicted'
    <3>1. \/ r \in settled \cup evicted \/ Retried(r)
          \/ \E g \in Flushes \ {f} : Draining(g)
      BY <2>1 DEF Inv, RetriesCover
    <3> QED BY <1>4, <2>2, <2>4, <3>1
  <2> QED BY <2>3, <2>4
<1> QED BY <1>6, <1>7, <1>8, <1>9, <1>10, <1>11, <1>12, <1>13 DEF Inv

LEMMA StageMoves ==
  ASSUME Inv, NEW t \in Tasks, NEW s \in TaskStages, task' = [task EXCEPT ![t].stage = s]
  PROVE  \E x \in TaskState : /\ task' = [task EXCEPT ![t] = x]
                              /\ x.stage = s /\ x.attempt = task[t].attempt
<1>1. task[t] \in TaskState
  BY Types
<1>2. [task[t] EXCEPT !.stage = s] \in TaskState
  BY <1>1 DEF TaskState
<1>3. /\ [task[t] EXCEPT !.stage = s].stage = s
      /\ [task[t] EXCEPT !.stage = s].attempt = task[t].attempt
  BY <1>1 DEF TaskState
<1> QED BY <1>2, <1>3

LEMMA AcceptedInv ==
  ASSUME Inv, NEW t \in Tasks, Accepted(t)
  PROVE  Inv'
<1> USE Types
<1>1. Running(t) /\ t[2] \in Records
  BY TaskNames DEF Accepted, Running
<1>2. PICK x \in TaskState : task' = [task EXCEPT ![t] = x] /\ x.stage = "archiving"
  BY StageMoves DEF Accepted, TaskStages
<1>3. Pending' = Pending
  BY DEF Accepted, Pending
<1>4. /\ listed' = listed /\ pending' = pending /\ evicted' = evicted
      /\ settled' = settled \cup {t[2]} /\ proofs' \subseteq Records
      /\ UNCHANGED <<handoffVars, flush, covers, dispatched>>
  BY <1>1 DEF Accepted, Inv, TypeOK
<1> QED BY <1>1, <1>2, <1>3, <1>4, TaskMoves

\* The task ends with an answer.
LEMMA AnsweredInv ==
  ASSUME Inv, NEW t \in Tasks, Archived(t) \/ Refused(t)
  PROVE  Inv'
<1> USE Types
<1>1. Running(t) /\ t[2] \in Records
  BY TaskNames DEF Archived, Refused, Running
<1>2. PICK x \in TaskState : task' = [task EXCEPT ![t] = x] /\ x.stage = "done"
  BY StageMoves DEF Archived, Refused, Settle, TaskStages
<1>3. /\ pending' \in Seq(Records) /\ IsInjective(pending') /\ Len(pending') <= MaxQueueDepth
      /\ Pending' = Pending \ {t[2]}
  <2>1. pending' = Delete(pending, t[2])
    BY DEF Archived, Refused
  <2>2. /\ Delete(pending, t[2]) \in Seq(Records) /\ IsInjective(Delete(pending, t[2]))
        /\ Range(Delete(pending, t[2])) = Range(pending) \ {t[2]}
        /\ Len(Delete(pending, t[2])) <= Len(pending)
    BY DeleteFacts
  <2> QED BY <2>1, <2>2 DEF Pending
<1>4. /\ settled \subseteq settled' /\ settled' \subseteq Records /\ t[2] \in settled'
      /\ proofs' \subseteq Records /\ evicted' = evicted
      /\ UNCHANGED <<handoffVars, flush, covers, dispatched>>
  <2>1. Archived(t) => t[2] \in settled
    BY DEF Archived, Inv, ArchivedSettled
  <2>2. proofs \subseteq Records
    BY DEF Inv, TypeOK
  <2>3. CASE Archived(t)
    BY <2>1, <2>2, <2>3 DEF Archived, historyVars
  <2>4. CASE Refused(t)
    BY <1>1, <2>2, <2>4 DEF Refused
  <2> QED BY <2>3, <2>4
<1>5. listed' = IF t[1] = Submit THEN listed \ {t[2]} ELSE listed
  BY DEF Archived, Refused, Settle
<1> QED BY <1>1, <1>2, <1>3, <1>4, <1>5, TaskMoves

\* The task ends without one: its record is put in pendingRecords.
LEMMA GiveUpInv ==
  ASSUME Inv, NEW t \in Tasks, Running(t), GiveUp(t),
         UNCHANGED <<handoffVars, proofs, flush, covers, dispatched, settled>>
  PROVE  Inv'
<1> USE Types
<1>1. t[2] \in Records
  BY TaskNames
<1>2. PICK x \in TaskState : task' = [task EXCEPT ![t] = x] /\ x.stage = "done"
  BY StageMoves DEF GiveUp, Settle, TaskStages
<1>3. /\ pending' \in Seq(Records) /\ IsInjective(pending') /\ Len(pending') <= MaxQueueDepth
      /\ t[2] \in Pending' /\ Pending' \subseteq Pending \cup {t[2]}
  BY <1>1, InsertFacts DEF GiveUp, Pending
<1>4. evicted' = (evicted \ {t[2]}) \cup (Pending \ Pending')
  BY DEF GiveUp, Pending
<1>5. listed' = IF t[1] = Submit THEN listed \ {t[2]} ELSE listed
  BY DEF GiveUp, Settle
<1>6. proofs' \subseteq Records /\ settled' = settled
  BY DEF Inv, TypeOK
<1>7. /\ evicted' \subseteq Records
      /\ Pending \cup evicted \subseteq settled' \cup Pending' \cup evicted'
      /\ evicted \ evicted' \subseteq {t[2]}
      /\ \A r \in Pending' \cup evicted' : r \in Pending \cup evicted \/ r = t[2]
  BY <1>3, <1>4
<1> QED BY <1>2, <1>3, <1>5, <1>6, <1>7, TaskMoves

LEMMA TaskStepInv ==
  ASSUME Inv, NEW t \in Tasks, TaskStep(t)
  PROVE  Inv'
<1> USE Types
<1>1. CASE Accepted(t)
  BY <1>1, AcceptedInv
<1>2. CASE Archived(t) \/ Refused(t)
  BY <1>2, AnsweredInv
<1>3. CASE AttemptFails(t) \/ BackoffOver(t)
  <2>1. Running(t) /\ UNCHANGED <<handoffVars, proofs, flush, covers, dispatched, settled>>
    BY <1>3 DEF AttemptFails, BackoffOver, Running
  <2>2. CASE GiveUp(t)
    BY <2>1, <2>2, GiveUpInv
  <2>3. CASE ~GiveUp(t)
    <3>1. PICK x \in TaskState : /\ task' = [task EXCEPT ![t] = x]
                                 /\ x.stage \in {"sending", "backoff"}
                                 /\ x.stage = "backoff" => x.attempt < MaxRetries - 1
      <4>1. CASE AttemptFails(t)
        <5>1. /\ task' = [task EXCEPT ![t].stage = "backoff"]
              /\ task[t].attempt # MaxRetries - 1
          BY <2>3, <4>1 DEF AttemptFails
        <5>2. PICK x \in TaskState : /\ task' = [task EXCEPT ![t] = x] /\ x.stage = "backoff"
                                     /\ x.attempt = task[t].attempt
          BY <5>1, StageMoves DEF TaskStages
        <5>3. x.attempt < MaxRetries - 1
          BY <5>1, <5>2 DEF TaskState
        <5> QED BY <5>2, <5>3
      <4>2. CASE BackoffOver(t)
        <5> DEFINE x == [stage |-> "sending", attempt |-> task[t].attempt + 1]
        <5>1. task' = [task EXCEPT ![t] = x]
          BY <2>3, <4>2 DEF BackoffOver
        <5>2. task[t].attempt < MaxRetries - 1 /\ task[t].attempt \in 0..(MaxRetries - 1)
          BY <4>2 DEF BackoffOver, Inv, AttemptsLeft, TaskState
        <5>3. x \in TaskState /\ x.stage = "sending"
          BY <5>2 DEF TaskState, TaskStages
        <5> QED BY <5>1, <5>3
      <4> QED BY <1>3, <4>1, <4>2
    <3>2. UNCHANGED <<listed, pending, evicted>>
      BY <1>3, <2>3 DEF AttemptFails, BackoffOver
    <3>3. Pending' = Pending /\ proofs' \subseteq Records /\ settled' = settled
      BY <2>1, <3>2 DEF Pending, Inv, TypeOK
    <3>4. x.stage # "done" /\ x.stage # "none" /\ x.stage # "archiving"
      BY <3>1
    <3>5. listed' = listed /\ pending' = pending /\ evicted' = evicted
      BY <3>2
    <3>6. UNCHANGED <<handoffVars, flush, covers, dispatched>>
      BY <2>1
    <3> QED BY <2>1, <3>1, <3>3, <3>4, <3>5, <3>6, TaskMoves
  <2> QED BY <2>2, <2>3
<1> QED BY <1>1, <1>2, <1>3 DEF TaskStep

-----------------------------------------------------------------------------
(* The hand-off. *)

\* The task of submit() starts, for a record that had none and is not or no longer
\* with the coordinator.
LEMMA SubmitStarts ==
  ASSUME Inv, NEW r \in Records, StartSubmit(r),
         task[<<Submit, r>>].stage = "none",
         commits' = commits \ {r}, commitsListed' = commitsListed \ {r},
         dispatched' = dispatched \cup {r},
         UNCHANGED <<coordinator, pending, proofs, flush, covers, settled, evicted>>
  PROVE  Inv'
<1> USE Types
<1> DEFINE t == <<Submit, r>>
           x == [stage |-> "sending", attempt |-> 0]
<1>1. t \in Tasks /\ x \in TaskState /\ x.stage = "sending"
  BY TaskNames DEF TaskState, TaskStages
<1>2. task' = [task EXCEPT ![t] = x] /\ listed' = listed \cup {r}
  BY DEF StartSubmit
<1> HIDE DEF t, x
<1>3. /\ task' \in [Tasks -> TaskState] /\ task'[t] = x
      /\ \A u \in Tasks : u # t => task'[u] = task[u]
  BY <1>1, <1>2
<1>4. Running(t)' /\ \A u \in Tasks : u # t => (Running(u)' <=> Running(u))
  BY <1>1, <1>3 DEF Running
<1>5. Pending' = Pending
  BY DEF Pending
<1>6. \A q \in Records : Retried(q) => Retried(q)'
  <2>1. \A u \in Tasks : task[u].stage # "none" => task'[u].stage # "none"
    BY <1>1, <1>3
  <2> QED BY <2>1, TaskNames DEF Retried
<1>7. \A q \in Records : q # r => <<Submit, q>> # t /\ <<Submit, q>> \in Tasks
  BY TaskNames DEF t
<1>8. TypeOK'
  BY <1>2, <1>3 DEF Inv, TypeOK, TaskState
<1>9. NoSilentLoss'
  <2>1. SUFFICES ASSUME NEW q \in dispatched', q # r
                 PROVE  \/ q \in commits' \cup settled' \cup Pending' \cup evicted'
                        \/ \E s \in Starters : Running(<<s, q>>)'
    BY <1>4, TaskNames DEF NoSilentLoss, t
  <2>2. q \in dispatched
    BY <2>1
  <2>3. \A s \in Starters : <<s, q>> \in Tasks /\ <<s, q>> # t
    BY <2>1, <2>2, TaskNames DEF t
  <2> QED BY <1>4, <1>5, <2>1, <2>2, <2>3 DEF Inv, NoSilentLoss
<1>10. HandedOnce'
  BY <1>3, <1>7 DEF Inv, HandedOnce
<1>11. ArchivedSettled' /\ AttemptsLeft'
  BY <1>1, <1>3 DEF Inv, ArchivedSettled, AttemptsLeft
<1>12. GivenUp'
  <2>1. SUFFICES ASSUME NEW q \in Pending \cup evicted
                 PROVE  task'[<<Submit, q>>].stage = "done" \/ Retried(q)'
    BY <1>5 DEF GivenUp
  <2>2. task[<<Submit, q>>].stage = "done" \/ Retried(q)
    BY DEF Inv, GivenUp
  <2>3. q = r => Retried(q)
    BY <2>2
  <2> QED BY <1>3, <1>6, <1>7, <2>2, <2>3
<1>13. CommitsTaken' /\ CoversTaken'
  BY DEF Inv, CommitsTaken, CoversTaken
<1>14. PromisesTaken'
  <2>1. \A q \in Records \ listed' : q # r /\ (Running(<<Submit, q>>)' <=> Running(<<Submit, q>>))
    BY <1>2, <1>4, <1>7
  <2> QED BY <1>2, <2>1 DEF Inv, PromisesTaken
<1>15. RetriesCover'
  <2>1. \A f \in Flushes : Draining(f)' <=> Draining(f)
    BY DEF Draining
  <2> QED BY <1>6, <2>1 DEF Inv, RetriesCover
<1> QED BY <1>8, <1>9, <1>10, <1>11, <1>12, <1>13, <1>14, <1>15 DEF Inv

\* A record joins or leaves the coordinator; no task is touched.
LEMMA HandOffMoves ==
  ASSUME Inv, NEW r \in Records,
         \/ /\ r \notin dispatched /\ dispatched' = dispatched \cup {r}
            /\ commits' = commits \cup {r} /\ commitsListed' = commitsListed \cup {r}
            /\ settled' = settled
         \/ /\ commits' = commits \ {r} /\ commitsListed' = commitsListed \ {r}
            /\ settled' = settled \cup {r} /\ dispatched' = dispatched,
         UNCHANGED <<coordinator, queueVars, flush, covers, evicted>>
  PROVE  Inv'
<1> USE Types
<1>1. UNCHANGED <<task, listed, pending, proofs>> /\ Pending' = Pending
  BY DEF queueVars, Pending
<1>2. /\ \A t : Running(t)' <=> Running(t)
      /\ \A q : Retried(q)' <=> Retried(q)
      /\ \A f : Draining(f)' <=> Draining(f)
  BY <1>1 DEF Running, Retried, Draining
<1>3. TypeOK'
  BY <1>1 DEF Inv, TypeOK
<1>4. NoSilentLoss'
  BY <1>1, <1>2 DEF Inv, NoSilentLoss
<1>5. HandedOnce'
  BY <1>1 DEF Inv, HandedOnce
<1>6. ArchivedSettled' /\ AttemptsLeft' /\ GivenUp'
  BY <1>1, <1>2 DEF Inv, ArchivedSettled, AttemptsLeft, GivenUp
<1>7. CommitsTaken' /\ PromisesTaken'
  BY <1>1, <1>2 DEF Inv, CommitsTaken, PromisesTaken
<1>8. CoversTaken'
  BY DEF Inv, CoversTaken
<1>9. RetriesCover'
  BY <1>2 DEF Inv, RetriesCover
<1> QED BY <1>3, <1>4, <1>5, <1>6, <1>7, <1>8, <1>9 DEF Inv

LEMMA HandOffInv ==
  ASSUME Inv, NEW r \in Records, Dispatch(r) \/ CommitAccepted(r) \/ CommitFallsBack(r)
  PROVE  Inv'
<1> USE Types
<1>1. CASE Dispatch(r)
  <2>1. r \notin dispatched /\ r \notin commits /\ task[<<Submit, r>>].stage = "none"
    BY <1>1 DEF Dispatch, Inv, HandedOnce
  <2>2. CASE coordinator
    BY <1>1, <2>1, <2>2, HandOffMoves DEF Dispatch, queueVars
  <2>3. CASE ~coordinator
    <3>1. commits' = commits \ {r} /\ commitsListed' = commitsListed \ {r}
      BY <1>1, <2>1, <2>3 DEF Dispatch
    <3> QED BY <1>1, <2>1, <2>3, <3>1, SubmitStarts DEF Dispatch
  <2> QED BY <2>2, <2>3
<1>2. CASE CommitAccepted(r)
  BY <1>2, HandOffMoves DEF CommitAccepted
<1>3. CASE CommitFallsBack(r)
  <2>1. /\ task[<<Submit, r>>].stage = "none" /\ r \in dispatched
        /\ dispatched' = dispatched \cup {r}
    BY <1>3 DEF CommitFallsBack, Inv, HandedOnce, historyVars
  <2> QED BY <1>3, <2>1, SubmitStarts DEF CommitFallsBack, historyVars
<1> QED BY <1>1, <1>2, <1>3

-----------------------------------------------------------------------------
(* flush. *)

\* What a flush() waited for is over.
Free(f) ==
  /\ flush[f].stage = "commits" => flush[f].awaiting \cap commits = {}
  /\ flush[f].stage = "drain" => \A r \in flush[f].awaiting : ~Running(<<Submit, r>>)

\* A flush() remembers what was dispatched before it, on its first step only.
CoversFit(f) ==
  /\ covers' \in [Flushes -> SUBSET Records]
  /\ covers'[f] \subseteq dispatched /\ covers'[f] \cap commitsListed' = {}
  /\ \A g \in Flushes : g # f => covers'[g] = covers[g]

Steady == UNCHANGED <<coordinator, commits, pending, proofs, historyVars>>

LEMMA FlushMoves ==
  ASSUME Inv, NEW f \in Flushes, NEW s \in FlushStages, NEW a \in SUBSET Records,
         FlushTo(f, s, a)
  PROVE  /\ flush' \in [Flushes -> FlushState]
         /\ flush'[f].stage = s /\ flush'[f].awaiting = a
         /\ \A g \in Flushes : g # f => flush'[g] = flush[g]
<1>1. [stage |-> s, awaiting |-> a] \in FlushState
  BY DEF FlushState
<1> QED BY <1>1, Types DEF FlushTo

\* It takes all promises of a list.
LEMMA FlushTakes ==
  ASSUME Inv, NEW f \in Flushes, Free(f), CoversFit(f), Steady, UNCHANGED task,
         \/ /\ FlushTo(f, "commits", commitsListed)
            /\ commitsListed' = {} /\ listed' = listed
         \/ /\ FlushTo(f, "drain", listed)
            /\ listed' = {} /\ commitsListed' = commitsListed
  PROVE  Inv'
<1> USE Types
<1>1. UNCHANGED <<coordinator, commits, pending, proofs, dispatched, settled, evicted, task>>
  BY DEF Steady, historyVars
<1>2. /\ flush' \in [Flushes -> FlushState]
      /\ \A g \in Flushes : g # f => flush'[g] = flush[g]
      /\ \/ /\ flush'[f].stage = "commits" /\ flush'[f].awaiting = commitsListed
            /\ commitsListed' = {} /\ listed' = listed
         \/ /\ flush'[f].stage = "drain" /\ flush'[f].awaiting = listed
            /\ listed' = {} /\ commitsListed' = commitsListed
  <2>1. /\ commitsListed \in SUBSET Records /\ listed \in SUBSET Records
        /\ "commits" \in FlushStages /\ "drain" \in FlushStages
    BY DEF FlushStages
  <2> QED BY <2>1, FlushMoves
<1>3. /\ \A t : Running(t)' <=> Running(t)
      /\ \A q : Retried(q)' <=> Retried(q)
      /\ Pending' = Pending
  BY <1>1 DEF Running, Retried, Pending
<1>4. \A g \in Flushes : Draining(g) => Draining(g)'
  BY <1>2 DEF Draining
<1>5. TypeOK'
  BY <1>1, <1>2 DEF Inv, TypeOK, FlushState, CoversFit
<1>6. NoSilentLoss' /\ HandedOnce' /\ ArchivedSettled' /\ AttemptsLeft' /\ GivenUp'
  BY <1>1, <1>3 DEF Inv, NoSilentLoss, HandedOnce, ArchivedSettled, AttemptsLeft, GivenUp
<1>7. CommitsTaken'
  <2>1. SUFFICES ASSUME NEW r \in commits \ commitsListed'
                 PROVE  \E g \in Flushes : flush'[g].stage = "commits" /\ r \in flush'[g].awaiting
    BY <1>1 DEF CommitsTaken
  <2>2. CASE r \in commitsListed
    BY <1>2, <2>1, <2>2
  <2>3. CASE r \notin commitsListed
    <3>1. PICK g \in Flushes : flush[g].stage = "commits" /\ r \in flush[g].awaiting
      BY <2>1, <2>3 DEF Inv, CommitsTaken
    <3>2. g # f
      BY <2>1, <3>1 DEF Free
    <3> QED BY <1>2, <3>1, <3>2
  <2> QED BY <2>2, <2>3
<1>8. PromisesTaken'
  <2>1. SUFFICES ASSUME NEW r \in Records \ listed', Running(<<Submit, r>>)
                 PROVE  \E g \in Flushes : flush'[g].stage = "drain" /\ r \in flush'[g].awaiting
    BY <1>3 DEF PromisesTaken
  <2>2. CASE r \in listed
    BY <1>2, <2>1, <2>2
  <2>3. CASE r \notin listed
    <3>1. PICK g \in Flushes : flush[g].stage = "drain" /\ r \in flush[g].awaiting
      BY <2>1, <2>3 DEF Inv, PromisesTaken
    <3>2. g # f
      BY <2>1, <3>1 DEF Free
    <3> QED BY <1>2, <3>1, <3>2
  <2> QED BY <2>2, <2>3
<1>9. CoversTaken'
  BY <1>1, <1>2 DEF Inv, CoversTaken, CoversFit
<1>10. RetriesCover'
  <2>1. SUFFICES ASSUME NEW g \in Flushes, flush'[g].stage \in {"retry", "done"},
                        NEW r \in covers'[g]
                 PROVE  \/ r \in settled \cup evicted \/ Retried(r)
                        \/ \E h \in Flushes \ {g} : Draining(h)'
    BY <1>1, <1>3 DEF RetriesCover
  <2>2. g # f /\ flush[g].stage \in {"retry", "done"} /\ r \in covers[g]
    BY <1>2, <2>1 DEF CoversFit
  <2>3. \/ r \in settled \cup evicted \/ Retried(r)
        \/ \E h \in Flushes \ {g} : Draining(h)
    BY <2>2 DEF Inv, RetriesCover
  <2> QED BY <1>4, <2>3
<1> QED BY <1>5, <1>6, <1>7, <1>8, <1>9, <1>10 DEF Inv

\* With nothing left to take, it retries what is pending: each record dispatched
\* before it is pending, or out of its sight with another flush().
LEMMA FlushRetries ==
  ASSUME Inv, NEW f \in Flushes, Free(f), CoversFit(f), Steady,
         listed = {}, UNCHANGED <<listed, commitsListed>>, StartRetries(f)
  PROVE  Inv'
<1> USE Types
<1>1. /\ UNCHANGED <<coordinator, commits, pending, proofs, dispatched, settled, evicted>>
      /\ UNCHANGED <<listed, commitsListed>>
  BY DEF Steady, historyVars
<1>2. PICK s \in {"retry", "done"} :
        /\ flush' \in [Flushes -> FlushState] /\ flush'[f].stage = s
        /\ \A g \in Flushes : g # f => flush'[g] = flush[g]
  <2>1. "retry" \in FlushStages /\ "done" \in FlushStages /\ Pending \in SUBSET Records
    BY DEF FlushStages
  <2>2. PICK s \in {"retry", "done"} : FlushTo(f, s, Pending)
    BY DEF StartRetries
  <2> QED BY <2>1, <2>2, FlushMoves
<1>3. /\ task' \in [Tasks -> TaskState]
      /\ \A t \in Tasks : t[1] = f /\ t[2] \in Pending =>
           task'[t] = [stage |-> "sending", attempt |-> 0]
      /\ \A t \in Tasks : ~(t[1] = f /\ t[2] \in Pending) => task'[t] = task[t]
  <2>1. [stage |-> "sending", attempt |-> 0] \in TaskState
    BY DEF TaskState, TaskStages
  <2> QED BY <2>1 DEF StartRetries
<1>4. Pending' = Pending
  BY <1>1 DEF Pending
<1>5. \A t \in Tasks : /\ Running(t) => Running(t)'
                       /\ task[t].stage # "none" => task'[t].stage # "none"
  BY <1>3 DEF Running
<1>6. \A r \in Records : /\ <<Submit, r>> \in Tasks
                         /\ task'[<<Submit, r>>] = task[<<Submit, r>>]
                         /\ Running(<<Submit, r>>)' <=> Running(<<Submit, r>>)
  <2>1. \A r \in Records : /\ <<Submit, r>> \in Tasks
                           /\ task'[<<Submit, r>>] = task[<<Submit, r>>]
    BY <1>3, TaskNames
  <2> QED BY <2>1 DEF Running
<1>7. /\ \A r \in Records : Retried(r) => Retried(r)'
      /\ \A r \in Pending : Retried(r)'
  <2>1. \A r \in Records, g \in Flushes : /\ <<g, r>> \in Tasks
                                          /\ <<g, r>>[1] = g /\ <<g, r>>[2] = r
    BY TaskNames
  <2>2. ASSUME NEW r \in Pending PROVE Retried(r)'
    <3>1. task'[<<f, r>>] = [stage |-> "sending", attempt |-> 0]
      BY <1>3, <2>1
    <3>2. task'[<<f, r>>].stage # "none"
      BY <3>1
    <3> QED BY <3>2 DEF Retried
  <2>3. ASSUME NEW r \in Records, Retried(r) PROVE Retried(r)'
    BY <1>5, <2>1, <2>3 DEF Retried
  <2> QED BY <2>2, <2>3
<1>8. TypeOK'
  BY <1>1, <1>2, <1>3 DEF Inv, TypeOK, FlushState, TaskState, CoversFit
<1>9. NoSilentLoss'
  <2>1. \A r \in dispatched, s1 \in Starters : <<s1, r>> \in Tasks
    BY TaskNames
  <2> QED BY <1>1, <1>4, <1>5, <2>1 DEF Inv, NoSilentLoss
<1>10. HandedOnce'
  BY <1>1, <1>6 DEF Inv, HandedOnce
<1>11. ArchivedSettled' /\ AttemptsLeft'
  BY <1>1, <1>3 DEF Inv, ArchivedSettled, AttemptsLeft
<1>12. GivenUp'
  BY <1>1, <1>4, <1>6, <1>7 DEF Inv, GivenUp
<1>13. CommitsTaken'
  <2>1. SUFFICES ASSUME NEW r \in commits \ commitsListed
                 PROVE  \E g \in Flushes : flush'[g].stage = "commits" /\ r \in flush'[g].awaiting
    BY <1>1 DEF CommitsTaken
  <2>2. PICK g \in Flushes : flush[g].stage = "commits" /\ r \in flush[g].awaiting
    BY <2>1 DEF Inv, CommitsTaken
  <2>3. g # f
    BY <2>1, <2>2 DEF Free
  <2> QED BY <1>2, <2>2, <2>3
<1>14. PromisesTaken'
  <2>1. SUFFICES ASSUME NEW r \in Records \ listed, Running(<<Submit, r>>)
                 PROVE  \E g \in Flushes : flush'[g].stage = "drain" /\ r \in flush'[g].awaiting
    BY <1>1, <1>6 DEF PromisesTaken
  <2>2. PICK g \in Flushes : flush[g].stage = "drain" /\ r \in flush[g].awaiting
    BY <2>1 DEF Inv, PromisesTaken
  <2>3. g # f
    BY <2>1, <2>2 DEF Free
  <2> QED BY <1>2, <2>2, <2>3
<1>15. CoversTaken'
  BY <1>1 DEF Inv, CoversTaken, CoversFit
<1>16. RetriesCover'
  <2>1. SUFFICES ASSUME NEW g \in Flushes, flush'[g].stage \in {"retry", "done"},
                        NEW r \in covers'[g], r \notin settled \cup evicted, ~Retried(r)'
                 PROVE  \E h \in Flushes \ {g} : Draining(h)'
    BY <1>1 DEF RetriesCover
  <2>2. r \in Records /\ r \in dispatched /\ r \notin commitsListed
    BY <1>1, <1>15, <2>1 DEF CoversTaken
  <2>3. r \notin Pending /\ ~Retried(r)
    BY <1>7, <2>1, <2>2
  <2>4. CASE r \in commits
    <3>1. PICK h \in Flushes : flush'[h].stage = "commits"
      BY <1>1, <1>13, <2>2, <2>4 DEF CommitsTaken
    <3> QED BY <2>1, <3>1 DEF Draining
  <2>5. CASE \E s1 \in Starters : Running(<<s1, r>>)
    <3>1. PICK s1 \in Starters : Running(<<s1, r>>)
      BY <2>5
    <3>2. s1 \notin Flushes
      BY <2>3, <3>1 DEF Retried, Running
    <3>3. Running(<<Submit, r>>)'
      BY <1>6, <2>2, <3>1, <3>2, TaskNames
    <3>4. PICK h \in Flushes : flush'[h].stage = "drain"
      BY <1>1, <1>14, <2>2, <3>3 DEF PromisesTaken
    <3> QED BY <2>1, <3>4 DEF Draining
  <2> QED BY <2>1, <2>2, <2>3, <2>4, <2>5 DEF Inv, NoSilentLoss
<1> QED BY <1>8, <1>9, <1>10, <1>11, <1>12, <1>13, <1>14, <1>15, <1>16 DEF Inv

\* The retries are over.
LEMMA FlushEnds ==
  ASSUME Inv, NEW f \in Flushes, flush[f].stage = "retry", FlushTo(f, "done", {}), Steady,
         UNCHANGED <<task, listed, commitsListed, covers>>
  PROVE  Inv'
<1> USE Types
<1>1. UNCHANGED <<coordinator, commits, pending, proofs, dispatched, settled, evicted, task,
                  listed, commitsListed, covers>>
  BY DEF Steady, historyVars
<1>2. /\ flush' \in [Flushes -> FlushState] /\ flush'[f].stage = "done"
      /\ \A g \in Flushes : g # f => flush'[g] = flush[g]
  <2>1. "done" \in FlushStages /\ {} \in SUBSET Records
    BY DEF FlushStages
  <2> QED BY <2>1, FlushMoves
<1>3. /\ \A t : Running(t)' <=> Running(t)
      /\ \A q : Retried(q)' <=> Retried(q)
      /\ Pending' = Pending
  BY <1>1 DEF Running, Retried, Pending
<1>4. \A g \in Flushes : Draining(g)' <=> Draining(g)
  BY <1>2 DEF Draining
<1>5. TypeOK'
  BY <1>1, <1>2 DEF Inv, TypeOK, FlushState
<1>6. NoSilentLoss' /\ HandedOnce' /\ ArchivedSettled' /\ AttemptsLeft' /\ GivenUp'
  BY <1>1, <1>3 DEF Inv, NoSilentLoss, HandedOnce, ArchivedSettled, AttemptsLeft, GivenUp
<1>7. CommitsTaken'
  BY <1>1, <1>2 DEF Inv, CommitsTaken
<1>8. PromisesTaken'
  BY <1>1, <1>2, <1>3 DEF Inv, PromisesTaken
<1>9. CoversTaken'
  BY <1>1 DEF Inv, CoversTaken
<1>10. RetriesCover'
  BY <1>1, <1>2, <1>3, <1>4 DEF Inv, RetriesCover
<1> QED BY <1>5, <1>6, <1>7, <1>8, <1>9, <1>10 DEF Inv

LEMMA DrainQueueInv ==
  ASSUME Inv, NEW f \in Flushes, Free(f), DrainQueue(f), CoversFit(f), Steady
  PROVE  Inv'
BY FlushTakes, FlushRetries DEF DrainQueue

LEMMA DrainCommitsInv ==
  ASSUME Inv, NEW f \in Flushes, Free(f), DrainCommits(f), CoversFit(f), Steady
  PROVE  Inv'
BY FlushTakes, DrainQueueInv DEF DrainCommits

LEMMA FlushInv ==
  ASSUME Inv, NEW f \in Flushes, FlushStart(f) \/ FlushResumes(f)
  PROVE  Inv'
<1> USE Types
<1>1. CASE FlushStart(f)
  <2>1. Free(f)
    BY <1>1 DEF FlushStart, Free
  <2>2. DrainCommits(f) /\ Steady
    BY <1>1 DEF FlushStart, Steady
  <2>3. commitsListed' = {}
    BY <2>2 DEF DrainCommits, DrainQueue
  <2>4. covers' = [covers EXCEPT ![f] = dispatched]
    BY <1>1 DEF FlushStart
  <2>5. CoversFit(f)
    BY <2>3, <2>4 DEF CoversFit
  <2> QED BY <2>1, <2>2, <2>5, DrainCommitsInv
<1>2. CASE FlushResumes(f)
  <2>1. Awaited(f) /\ Steady /\ covers' = covers
    BY <1>2 DEF FlushResumes, Steady
  <2>2. Free(f)
    BY <2>1 DEF Awaited, Free
  <2>3. CASE flush[f].stage = "retry" /\ FlushTo(f, "done", {}) /\ UNCHANGED <<task, listed, commitsListed>>
    BY <2>1, <2>3, FlushEnds
  <2>4. CASE DrainCommits(f) \/ DrainQueue(f)
    <3>1. commitsListed' \subseteq commitsListed
      BY <2>4 DEF DrainCommits, DrainQueue
    <3>2. CoversFit(f)
      BY <2>1, <3>1 DEF CoversFit, Inv, CoversTaken
    <3> QED BY <2>1, <2>2, <2>4, <3>2, DrainCommitsInv, DrainQueueInv
  <2> QED BY <1>2, <2>3, <2>4 DEF FlushResumes
<1> QED BY <1>1, <1>2

LEMMA StutterInv ==
  ASSUME Inv, UNCHANGED vars
  PROVE  Inv'
<1>1. UNCHANGED <<coordinator, commits, commitsListed, task, listed, pending, proofs, flush,
                  covers, dispatched, settled, evicted>>
  BY DEF vars, handoffVars, queueVars, historyVars
<1>2. /\ \A t : Running(t)' <=> Running(t)
      /\ \A q : Retried(q)' <=> Retried(q)
      /\ \A g : Draining(g)' <=> Draining(g)
      /\ Pending' = Pending
  BY <1>1 DEF Running, Retried, Pending, Draining
<1>3. TypeOK' /\ HandedOnce' /\ ArchivedSettled' /\ AttemptsLeft' /\ CommitsTaken' /\ CoversTaken'
  BY <1>1 DEF Inv, TypeOK, HandedOnce, ArchivedSettled, AttemptsLeft, CommitsTaken, CoversTaken
<1>4. NoSilentLoss' /\ GivenUp' /\ PromisesTaken' /\ RetriesCover'
  BY <1>1, <1>2 DEF Inv, NoSilentLoss, GivenUp, PromisesTaken, RetriesCover
<1> QED BY <1>3, <1>4 DEF Inv

LEMMA NextInv == Inv /\ [Next]_vars => Inv'
<1> SUFFICES ASSUME Inv, [Next]_vars PROVE Inv'
  OBVIOUS
<1>1. ASSUME NEW r \in Records, Dispatch(r) \/ CommitAccepted(r) \/ CommitFallsBack(r)
      PROVE  Inv'
  BY <1>1, HandOffInv
<1>2. ASSUME NEW t \in Tasks, TaskStep(t) PROVE Inv'
  BY <1>2, TaskStepInv
<1>3. ASSUME NEW f \in Flushes, FlushStart(f) \/ FlushResumes(f) PROVE Inv'
  BY <1>3, FlushInv
<1> QED BY <1>1, <1>2, <1>3, StutterInv DEF Next

-----------------------------------------------------------------------------
(* Results. *)

\* Every reachable state of the queue, its tasks and the overlapping flush() calls
\* satisfies the inductive invariant: a promise is in its list or some flush() that
\* took it is still waiting.
THEOREM Invariance == Spec => []Inv
BY InitInv, NextInv, PTL DEF Spec

\* The state is of its type: pendingRecords holds a key once and stays within the cap,
\* and no task makes more than MAX_RETRIES attempts.
THEOREM TypeCorrect == Spec => []TypeOK
<1>1. Inv => TypeOK
  BY DEF Inv
<1> QED BY <1>1, Invariance, PTL

\* The queue never drops a record without a trace, for any number of records, tasks
\* and flush() calls.
THEOREM NothingLost == Spec => []NoSilentLoss
<1>1. Inv => NoSilentLoss
  BY DEF Inv
<1> QED BY <1>1, Invariance, PTL

\* A flush() that returned has seen to everything dispatched before it, unless another
\* flush() that took a promise from it is still draining.
THEOREM FlushComplete == Spec => []FlushLeavesNothingBehind
<1>1. Inv => FlushLeavesNothingBehind
  <2> SUFFICES ASSUME Inv, NEW f \in Flushes, flush[f].stage = "done", NEW r \in covers[f]
               PROVE  \/ r \in settled \cup evicted
                      \/ \E g \in Flushes : task[<<g, r>>].stage # "none"
                      \/ \E g \in Flushes \ {f} : flush[g].stage \in {"commits", "drain"}
    BY DEF FlushLeavesNothingBehind
  <2> QED BY DEF Inv, RetriesCover, Retried, Draining
<1> QED BY <1>1, Invariance, PTL
=============================================================================
