------------------------ MODULE AtribdBackend_proofs ------------------------
(***************************************************************************)
(* Proofs about AtribdBackend for every set of calls, keys and contexts,   *)
(* every store limit and window, and any number of crashes and failing     *)
(* writes.                                                                 *)
(***************************************************************************)
EXTENDS AtribdBackend, SequenceTheorems, FiniteSetTheorems, TLAPS

USE StoreAssumption, CallAssumption

-----------------------------------------------------------------------------
(* The store's operators. *)

\* freshState, pruneCompleted, begin and complete turn tables into tables.
LEMMA TableTypes ==
  ASSUME NEW tab \in Table, NEW R, NEW k \in Keys, NEW b \in Bindings,
         NEW now \in Nat
  PROVE  /\ freshState \in Table
         /\ Without(tab, R) \in Table
         /\ Reserve(tab, k, b, now) \in Table
         /\ \A r \in Results : Store(tab, k, b, r, now) \in Table
<1>1. Absent \in Entry
  BY DEF Absent, Entry, Status
<1>2. freshState \in Table
  BY <1>1 DEF freshState, Table
<1>3. Without(tab, R) \in Table
  BY <1>1 DEF Without, Table
<1>4. Reserve(tab, k, b, now) \in Table
  BY DEF Reserve, Table, Entry, Status
<1>5. \A r \in Results : Store(tab, k, b, r, now) \in Table
  BY DEF Store, Table, Entry, Status
<1> QED BY <1>2, <1>3, <1>4, <1>5

\* pruneCompleted deletes completed entries only.
LEMMA PruneCompletedOnly ==
  ASSUME NEW tab, NEW now, NEW R \in PruneSets(tab, now)
  PROVE  R \subseteq Completed(tab)
BY DEF PruneSets

\* begin() answers with one of five kinds, and owns a key only if it is absent.
LEMMA DecisionKinds ==
  ASSUME NEW tab \in Table, NEW k \in Keys, NEW b
  PROVE  /\ Decision(tab, k, b) \in {"binding-mismatch", "replay", "indeterminate",
                                     "full", "owner"}
         /\ Decision(tab, k, b) = "owner" => tab[k].status = "absent"
BY DEF Decision, Table, Entry, Status

-----------------------------------------------------------------------------
(* Type correctness. *)

\* Answering, settling, dispatching and releasing keep the types.
LEMMA FragmentTypes ==
  ASSUME TypeOK, NEW c \in Calls
  PROVE  /\ \A r \in Reply :
              Answer(c, r) => reply' \in [Calls -> Reply]
         /\ \A r \in Reply : Settle(c, r) =>
              /\ reply' \in [Calls -> Reply]
              /\ pc' \in [Calls -> Stages]
         /\ Dispatch(c) =>
              /\ reply' \in [Calls -> Reply]
              /\ pc' \in [Calls -> Stages]
              /\ dispatches' \in [Keys -> SUBSET Calls]
         /\ \A tab \in Table : Persist(c, tab) =>
              persistence' \in Seq(Write)
         /\ (Release(c) /\ (Locked(c) => HasLock(c))) => queue' \in [Contexts -> Seq(Calls)]
<1> USE DEF TypeOK, Stages, Kinds
<1>1. \A r \in Reply :
        Answer(c, r) => reply' \in [Calls -> Reply]
  BY DEF Answer
<1>2. \A r \in Reply : Settle(c, r) =>
              /\ reply' \in [Calls -> Reply]
              /\ pc' \in [Calls -> Stages]
  BY <1>1 DEF Settle
<1>3. Dispatch(c) =>
              /\ reply' \in [Calls -> Reply]
              /\ pc' \in [Calls -> Stages]
              /\ dispatches' \in [Keys -> SUBSET Calls]
  <2>1. Told("cancelled") \in Reply
    BY DEF Told, Reply
  <2> QED BY <2>1 DEF Dispatch, Keyed
<1>4. \A tab \in Table : Persist(c, tab) =>
        persistence' \in Seq(Write)
  <2>1. \A tab \in Table : [snapshot |-> tab, by |-> c] \in Write
    BY DEF Write
  <2> QED BY <2>1 DEF Persist
<1>5. (Release(c) /\ (Locked(c) => HasLock(c))) => queue' \in [Contexts -> Seq(Calls)]
  BY DEF Release, HasLock, Locked
<1> QED BY <1>1, <1>2, <1>3, <1>4, <1>5

\* A call whose primitive, reservation or result is being waited for may give its
\* context's lock back: it is at the head of that chain.
LEMMA MayRelease ==
  ASSUME HoldersHaveLock, NEW c \in Calls, pc[c] \in Holding
  PROVE  Locked(c) => HasLock(c)
BY DEF HoldersHaveLock

\* Settling an answered call keeps the types of what it touches.
LEMMA SettleTypes ==
  ASSUME TypeOK, NEW c \in Calls, NEW r \in Reply,
         Settle(c, r), Locked(c) => HasLock(c)
  PROVE  /\ reply' \in [Calls -> Reply]
         /\ pc' \in [Calls -> Stages]
         /\ queue' \in [Contexts -> Seq(Calls)]
<1>1. Release(c)
  BY DEF Settle
<1> QED BY <1>1, FragmentTypes

\* The call that awaits the oldest chained write is past begin().
LEMMA HeadWriter ==
  ASSUME TypeOK, OneWriteEach, persistence # <<>>
  PROVE  /\ Head(persistence) \in Write
         /\ Head(persistence) = persistence[1] /\ 1 \in DOMAIN persistence
         /\ Tail(persistence) \in Seq(Write)
         /\ pc[Head(persistence).by] \in {"reserving", "storing"}
<1>1. /\ Head(persistence) \in Write
      /\ Head(persistence) = persistence[1] /\ 1 \in DOMAIN persistence
      /\ Tail(persistence) \in Seq(Write)
  BY DEF TypeOK
<1> QED BY <1>1 DEF OneWriteEach

\* Every action keeps the types.
LEMMA TypeInductive ==
  ASSUME Inv, [Next]_vars
  PROVE  TypeOK'
<1> USE DEF Inv
<1>1. /\ \A kind \in Kinds : Told(kind) \in Reply
      /\ \A r \in Calls \cup {Nil} : Gave(r) \in Reply
  BY DEF Told, Gave, Kinds, Reply
<1>2. ASSUME NEW c \in Calls, CallTool(c) PROVE TypeOK'
  <2>1. CASE CtxOf[c] = NoContext /\ Keyed(c)
    <3>1. Told("invalid") \in Reply
      BY <1>1 DEF Kinds
    <3>2. /\ pc' = [pc EXCEPT ![c] = "settled"]
          /\ reply' = [reply EXCEPT ![c] = Told("invalid")]
          /\ UNCHANGED <<queue, dispatches>>
      BY <1>2, <2>1 DEF CallTool, Locked
    <3> QED BY <1>2, <3>1, <3>2 DEF CallTool, TypeOK, Stages
  <2>2. CASE ~Locked(c) /\ ~(CtxOf[c] = NoContext /\ Keyed(c))
    BY <1>2, <2>2, FragmentTypes DEF CallTool, TypeOK, Locked
  <2>3. CASE Locked(c)
    <3>1. /\ pc' = [pc EXCEPT ![c] = "queued"]
          /\ queue' = [queue EXCEPT ![CtxOf[c]] = Append(@, c)]
          /\ UNCHANGED <<reply, dispatches>>
      BY <1>2, <2>3 DEF CallTool, Locked
    <3>2. queue' \in [Contexts -> Seq(Calls)]
      BY <2>3, <3>1 DEF TypeOK, Locked
    <3> QED BY <1>2, <3>1, <3>2 DEF CallTool, TypeOK, Stages
  <2> QED BY <2>1, <2>2, <2>3
<1>3. ASSUME NEW c \in Calls, Abort(c) PROVE TypeOK'
  <2>1. Told("cancelled") \in Reply
    BY <1>1 DEF Kinds
  <2> QED BY <1>3, <2>1, FragmentTypes DEF Abort, TypeOK
<1>4. ASSUME NEW c \in Calls, StartUnkeyed(c) PROVE TypeOK'
  BY <1>4, FragmentTypes DEF StartUnkeyed, TypeOK
<1>5. ASSUME NEW c \in Calls, Begin(c) PROVE TypeOK'
  <2>1. KeyOf[c] \in Keys /\ BindingOf[c] \in Bindings /\ clock \in Nat /\ entries \in Table
    BY <1>5 DEF Begin, Keyed, TypeOK
  <2>2. PICK R \in PruneSets(entries, clock) :
          LET tab == Without(entries, R)
              k == KeyOf[c]
              b == BindingOf[c]
              decision == Decision(tab, k, b)
          IN /\ dispatches' = [j \in Keys |-> IF j \in R /\ entries[j].status = "completed"
                                            THEN {} ELSE dispatches[j]]
             /\ \/ /\ decision = "owner"
                   /\ entries' = Reserve(tab, k, b, clock)
                   /\ Persist(c, entries')
                   /\ pc' = [pc EXCEPT ![c] = "reserving"]
                   /\ UNCHANGED <<reply, queue>>
                \/ /\ decision # "owner"
                   /\ entries' = tab
                   /\ Settle(c, IF decision = "replay" THEN Gave(tab[k].result)
                                ELSE Told(decision))
                   /\ UNCHANGED persistence
    BY <1>5 DEF Begin
  <2> DEFINE tab == Without(entries, R)
             decision == Decision(tab, KeyOf[c], BindingOf[c])
  <2>3. tab \in Table
    BY <2>1, TableTypes DEF CallAssumption
  <2>4. dispatches' \in [Keys -> SUBSET Calls]
    BY <2>2 DEF TypeOK
  <2>5. CASE decision = "owner"
    <3>0. entries' = Reserve(tab, KeyOf[c], BindingOf[c], clock)
      BY <2>2, <2>5
    <3> HIDE DEF tab
    <3>1. entries' \in Table
      BY <2>1, <2>3, <3>0, TableTypes
    <3> USE DEF tab
    <3> QED BY <1>5, <2>2, <2>4, <2>5, <3>1, FragmentTypes DEF Begin, TypeOK, Stages
  <2>6. CASE decision # "owner"
    <3>1. decision # "replay" => decision \in Kinds
      BY <2>1, <2>3, <2>6, DecisionKinds DEF Kinds
    <3>2. tab[KeyOf[c]].result \in Calls \cup {Nil}
      BY <2>1, <2>3 DEF Table, Entry
    <3>3. (IF decision = "replay" THEN Gave(tab[KeyOf[c]].result) ELSE Told(decision))
            \in Reply
      BY <1>1, <3>1, <3>2
    <3>4. HasLock(c)
      BY <1>5 DEF Begin
    <3>5. /\ reply' \in [Calls -> Reply] /\ pc' \in [Calls -> Stages]
          /\ queue' \in [Contexts -> Seq(Calls)]
      BY <2>2, <2>6, <3>3, <3>4, SettleTypes
    <3> QED BY <1>5, <2>2, <2>3, <2>4, <2>6, <3>5 DEF Begin, TypeOK
  <2> QED BY <2>5, <2>6
<1>6. ASSUME PersistWrite PROVE TypeOK'
  <2> DEFINE w == Head(persistence)
  <2>1. w.snapshot \in Table /\ w.by \in Calls /\ Tail(persistence) \in Seq(Write)
    BY <1>6, HeadWriter DEF PersistWrite, Write
  <2>2. pc[w.by] \in Holding
    BY <1>6, HeadWriter DEF PersistWrite, Holding
  <2>3. Gave(w.by) \in Reply
    BY <1>1, <2>1
  <2>4. CASE pc[w.by] = "reserving"
    BY <1>6, <2>1, <2>4, FragmentTypes DEF PersistWrite, TypeOK
  <2>5. CASE pc[w.by] # "reserving"
    <3>1. Settle(w.by, Gave(w.by)) /\ UNCHANGED dispatches
      BY <1>6, <2>5 DEF PersistWrite
    <3>2. /\ reply' \in [Calls -> Reply] /\ pc' \in [Calls -> Stages]
          /\ queue' \in [Contexts -> Seq(Calls)]
      BY <2>1, <2>2, <2>3, <3>1, SettleTypes, MayRelease
    <3> QED BY <1>6, <2>1, <3>1, <3>2 DEF PersistWrite, TypeOK
  <2> QED BY <2>4, <2>5
<1>7. ASSUME PersistFail PROVE TypeOK'
  <2> DEFINE c == Head(persistence).by
  <2>1. c \in Calls /\ Tail(persistence) \in Seq(Write)
    BY <1>7, HeadWriter DEF PersistFail, Write
  <2>2. pc[c] \in Holding
    BY <1>7, HeadWriter DEF PersistFail, Holding
  <2>3. Told("failed") \in Reply
    BY <1>1 DEF Kinds
  <2>4. /\ reply' \in [Calls -> Reply] /\ pc' \in [Calls -> Stages]
        /\ queue' \in [Contexts -> Seq(Calls)]
    BY <1>7, <2>1, <2>2, <2>3, SettleTypes, MayRelease DEF PersistFail
  <2> QED BY <1>7, <2>1, <2>4 DEF PersistFail, TypeOK
<1>8. ASSUME NEW c \in Calls, PrimitiveOk(c) PROVE TypeOK'
  <2>1. pc[c] \in Holding
    BY <1>8 DEF PrimitiveOk, Holding
  <2>2. Told("failed") \in Reply /\ Gave(c) \in Reply
    BY <1>1 DEF Kinds
  <2>3. ASSUME NEW r \in Reply, Settle(c, r)
        PROVE  /\ reply' \in [Calls -> Reply] /\ pc' \in [Calls -> Stages]
               /\ queue' \in [Contexts -> Seq(Calls)]
    BY <2>1, <2>3, SettleTypes, MayRelease
  <2>4. CASE /\ Keyed(c) /\ Locked(c)
             /\ CanComplete(entries, KeyOf[c], BindingOf[c])
    <3>1. /\ entries' = Store(entries, KeyOf[c], BindingOf[c], c, clock)
          /\ Persist(c, entries')
          /\ pc' = [pc EXCEPT ![c] = "storing"]
          /\ doneAt' = [doneAt EXCEPT ![c] = clock]
          /\ UNCHANGED <<reply, queue>>
      BY <1>8, <2>4 DEF PrimitiveOk
    <3>2. entries' \in Table
      BY <2>4, <3>1, TableTypes DEF Keyed, TypeOK
    <3> QED BY <1>8, <3>1, <3>2, FragmentTypes DEF PrimitiveOk, TypeOK, Stages
  <2>5. CASE ~(/\ Keyed(c) /\ Locked(c)
               /\ CanComplete(entries, KeyOf[c], BindingOf[c]))
    <3>1. /\ UNCHANGED <<entries, persistence, doneAt>>
          /\ Settle(c, Gave(c)) \/ Settle(c, Told("failed"))
      BY <1>8, <2>5 DEF PrimitiveOk
    <3>2. /\ reply' \in [Calls -> Reply] /\ pc' \in [Calls -> Stages]
          /\ queue' \in [Contexts -> Seq(Calls)]
      BY <2>2, <2>3, <3>1
    <3> QED BY <1>8, <3>1, <3>2 DEF PrimitiveOk, TypeOK
  <2> QED BY <2>4, <2>5
<1>9. ASSUME NEW c \in Calls, PrimitiveFail(c) PROVE TypeOK'
  <2>1. pc[c] \in Holding /\ Told("failed") \in Reply
    BY <1>1, <1>9 DEF PrimitiveFail, Holding, Kinds
  <2>2. /\ reply' \in [Calls -> Reply] /\ pc' \in [Calls -> Stages]
        /\ queue' \in [Contexts -> Seq(Calls)]
    BY <1>9, <2>1, SettleTypes, MayRelease DEF PrimitiveFail
  <2> QED BY <1>9, <2>2 DEF PrimitiveFail, TypeOK
<1>10. ASSUME NEW c \in Calls, Timeout(c) PROVE TypeOK'
  <2>1. Told("timeout") \in Reply
    BY <1>1 DEF Kinds
  <2> QED BY <1>10, <2>1, FragmentTypes DEF Timeout, TypeOK
<1>11. ASSUME Crash PROVE TypeOK'
  <2>1. pc' \in [Calls -> Stages]
    BY <1>11 DEF Crash, TypeOK, Stages
  <2>2. queue' \in [Contexts -> Seq(Calls)] /\ persistence' \in Seq(Write)
    BY <1>11 DEF Crash
  <2>3. broken' \in BOOLEAN
    BY <1>11 DEF Crash
  <2>4. entries' \in Table /\ crashes' \in Nat
    BY <1>11 DEF Crash, TypeOK
  <2> QED BY <1>11, <2>1, <2>2, <2>3, <2>4 DEF Crash, TypeOK
<1>12. ASSUME Tick PROVE TypeOK'
  BY <1>12 DEF Tick, TypeOK
<1>13. ASSUME UNCHANGED vars PROVE TypeOK'
  BY <1>13 DEF vars, TypeOK
<1> QED
  BY <1>2, <1>3, <1>4, <1>5, <1>6, <1>7, <1>8, <1>9, <1>10, <1>11, <1>12, <1>13 DEF Next

-----------------------------------------------------------------------------
(* The per-context lock. *)

\* Giving a lock back leaves every other holder at the head of its chain.
LEMMA SettleKeepsLocks ==
  ASSUME TypeOK, HoldersHaveLock, NEW c \in Calls, NEW r, Settle(c, r),
         Locked(c) => HasLock(c)
  PROVE  HoldersHaveLock'
<1> SUFFICES ASSUME NEW d \in Calls, Locked(d), pc'[d] \in Holding
             PROVE  HasLock(d)'
  BY DEF HoldersHaveLock, Locked
<1>1. d # c /\ pc[d] \in Holding
  BY DEF Settle, TypeOK, Holding, Stages
<1>2. HasLock(d)
  BY <1>1 DEF HoldersHaveLock
<1>3. ~(Locked(c) /\ CtxOf[c] = CtxOf[d])
  BY <1>1, <1>2 DEF HasLock
<1>4. queue'[CtxOf[d]] = queue[CtxOf[d]]
  BY <1>3 DEF Settle, Release, TypeOK, Locked
<1> QED BY <1>2, <1>4 DEF HasLock

\* A step that moves no chain and lets only lock owners past begin() is safe.
LEMMA SameChainsKeepLocks ==
  ASSUME HoldersHaveLock, UNCHANGED queue,
         \A c \in Calls : (Locked(c) /\ pc'[c] \in Holding) => pc[c] \in Holding \/ HasLock(c)
  PROVE  HoldersHaveLock'
BY DEF HoldersHaveLock, HasLock, Locked

\* Every action keeps lock holders at the head of their chains, and calls in the
\* stages their key and context allow.
LEMMA LockInductive ==
  ASSUME Inv, [Next]_vars
  PROVE  HoldersHaveLock' /\ StagesFit'
<1> USE DEF Inv
<1>1. ASSUME NEW c \in Calls, NEW r, Settle(c, r), pc[c] \in Holding
      PROVE  HoldersHaveLock' /\ StagesFit'
  <2>1. HoldersHaveLock'
    BY <1>1, SettleKeepsLocks, MayRelease
  <2>2. StagesFit'
    BY <1>1 DEF Settle, StagesFit, TypeOK, Stages, Keyed, Locked
  <2> QED BY <2>1, <2>2
<1>2. ASSUME NEW c \in Calls, CallTool(c) PROVE HoldersHaveLock' /\ StagesFit'
  <2>1. CASE ~Locked(c)
    <3>1. UNCHANGED queue /\ \A d \in Calls \ {c} : pc'[d] = pc[d]
      BY <1>2, <2>1 DEF CallTool, Dispatch, TypeOK
    <3>2. pc'[c] \in {"settled", "running"}
      BY <1>2, <2>1 DEF CallTool, Dispatch, TypeOK
    <3>3. HoldersHaveLock'
      BY <2>1, <3>1, SameChainsKeepLocks
    <3> QED BY <2>1, <3>1, <3>2, <3>3 DEF StagesFit, Locked, Keyed
  <2>2. CASE Locked(c)
    <3>1. /\ pc' = [pc EXCEPT ![c] = "queued"]
          /\ queue' = [queue EXCEPT ![CtxOf[c]] = Append(@, c)]
      BY <1>2, <2>2 DEF CallTool, Locked
    <3>2. StagesFit'
      BY <2>2, <3>1 DEF StagesFit, TypeOK, Stages, Locked, Keyed
    <3>3. SUFFICES ASSUME NEW d \in Calls, Locked(d), pc'[d] \in Holding
                   PROVE  HasLock(d)'
      BY <3>2 DEF HoldersHaveLock, Locked
    <3>4. HasLock(d)
      BY <3>1, <3>3 DEF HoldersHaveLock, TypeOK, Holding
    <3>5. queue[CtxOf[d]] \in Seq(Calls) /\ queue'[CtxOf[d]] \in
            {queue[CtxOf[d]], Append(queue[CtxOf[d]], c)}
      BY <3>1, <3>3 DEF TypeOK, Locked
    <3>6. queue'[CtxOf[d]] # <<>> /\ Head(queue'[CtxOf[d]]) = Head(queue[CtxOf[d]])
      BY <3>4, <3>5 DEF HasLock
    <3> QED BY <3>4, <3>6 DEF HasLock
  <2> QED BY <2>1, <2>2
<1>3. ASSUME NEW c \in Calls, Abort(c) \/ Timeout(c) PROVE HoldersHaveLock' /\ StagesFit'
  BY <1>3, SameChainsKeepLocks DEF Abort, Timeout, StagesFit, Locked, Keyed
<1>4. ASSUME NEW c \in Calls, StartUnkeyed(c) PROVE HoldersHaveLock' /\ StagesFit'
  <2>1. UNCHANGED queue /\ pc' = [pc EXCEPT ![c] = "running"] /\ HasLock(c)
    BY <1>4 DEF StartUnkeyed, Dispatch
  <2>2. HoldersHaveLock'
    BY <2>1, SameChainsKeepLocks DEF TypeOK
  <2> QED BY <2>1, <2>2 DEF StagesFit, TypeOK, Stages, Locked, Keyed
<1>5. ASSUME NEW c \in Calls, Begin(c) PROVE HoldersHaveLock' /\ StagesFit'
  <2>1. pc[c] = "queued" /\ HasLock(c) /\ Keyed(c) /\ Locked(c)
    BY <1>5 DEF Begin, StagesFit
  <2>2. \/ UNCHANGED queue /\ pc' = [pc EXCEPT ![c] = "reserving"]
        \/ \E r : Settle(c, r)
    BY <1>5 DEF Begin
  <2>3. CASE UNCHANGED queue /\ pc' = [pc EXCEPT ![c] = "reserving"]
    <3>1. HoldersHaveLock'
      BY <2>1, <2>3, SameChainsKeepLocks DEF TypeOK
    <3> QED BY <2>1, <2>3, <3>1 DEF StagesFit, TypeOK, Stages, Locked, Keyed
  <2>4. ASSUME NEW r, Settle(c, r) PROVE HoldersHaveLock' /\ StagesFit'
    <3>1. HoldersHaveLock'
      BY <2>1, <2>4, SettleKeepsLocks
    <3> QED BY <2>1, <2>4, <3>1 DEF Settle, StagesFit, TypeOK, Stages, Locked, Keyed
  <2> QED BY <2>2, <2>3, <2>4
<1>6. ASSUME PersistWrite PROVE HoldersHaveLock' /\ StagesFit'
  <2> DEFINE c == Head(persistence).by
  <2>1. c \in Calls /\ pc[c] \in {"reserving", "storing"}
    BY <1>6, HeadWriter DEF PersistWrite, Write
  <2>2. CASE pc[c] = "reserving"
    <3>1. UNCHANGED queue /\ pc' = [pc EXCEPT ![c] = "running"]
      BY <1>6, <2>2 DEF PersistWrite, Dispatch
    <3>2. HoldersHaveLock'
      BY <2>1, <2>2, <3>1, SameChainsKeepLocks DEF TypeOK, Holding
    <3> QED BY <2>1, <3>1, <3>2 DEF StagesFit, TypeOK, Stages, Locked, Keyed
  <2>3. CASE pc[c] # "reserving"
    <3>1. Settle(c, Gave(c))
      BY <1>6, <2>3 DEF PersistWrite
    <3> QED BY <1>1, <2>1, <3>1 DEF Holding
  <2> QED BY <2>2, <2>3
<1>7. ASSUME PersistFail PROVE HoldersHaveLock' /\ StagesFit'
  <2>1. /\ Head(persistence).by \in Calls /\ pc[Head(persistence).by] \in Holding
        /\ Settle(Head(persistence).by, Told("failed"))
    BY <1>7, HeadWriter DEF PersistFail, Write, Holding
  <2> QED BY <1>1, <2>1
<1>8. ASSUME NEW c \in Calls, PrimitiveOk(c) PROVE HoldersHaveLock' /\ StagesFit'
  <2>1. pc[c] \in Holding /\ pc[c] = "running"
    BY <1>8 DEF PrimitiveOk, Holding
  <2>2. \/ /\ Keyed(c) /\ Locked(c) /\ UNCHANGED queue
           /\ pc' = [pc EXCEPT ![c] = "storing"]
        \/ \E r : Settle(c, r)
    BY <1>8 DEF PrimitiveOk
  <2>3. CASE /\ Keyed(c) /\ Locked(c) /\ UNCHANGED queue
             /\ pc' = [pc EXCEPT ![c] = "storing"]
    <3>1. HoldersHaveLock'
      BY <2>1, <2>3, SameChainsKeepLocks DEF TypeOK, Holding
    <3> QED BY <2>1, <2>3, <3>1 DEF StagesFit, TypeOK, Stages, Locked, Keyed
  <2> QED BY <1>1, <2>1, <2>2, <2>3
<1>9. ASSUME NEW c \in Calls, PrimitiveFail(c) PROVE HoldersHaveLock' /\ StagesFit'
  BY <1>1, <1>9 DEF PrimitiveFail, Holding
<1>10. ASSUME Crash PROVE HoldersHaveLock' /\ StagesFit'
  <2>1. \A d \in Calls : pc'[d] \in {"idle", "settled", "lost"}
    BY <1>10 DEF Crash
  <2> QED BY <2>1 DEF HoldersHaveLock, StagesFit, Holding
<1>11. ASSUME Tick \/ UNCHANGED vars PROVE HoldersHaveLock' /\ StagesFit'
  BY <1>11, SameChainsKeepLocks DEF Tick, vars, StagesFit, Locked, Keyed
<1> QED
  BY <1>2, <1>3, <1>4, <1>5, <1>6, <1>7, <1>8, <1>9, <1>10, <1>11 DEF Next

-----------------------------------------------------------------------------
(* Reservations, dispatches and the chain of writes. *)

\* The oldest write leaves the chain: the others move up by one.
LEMMA TailFacts ==
  ASSUME NEW S, NEW s \in Seq(S), s # <<>>
  PROVE  /\ DOMAIN Tail(s) = 1..(Len(s) - 1)
         /\ \A i \in DOMAIN Tail(s) : Tail(s)[i] = s[i + 1] /\ i + 1 \in DOMAIN s /\ i \in Nat
OBVIOUS

\* A new write goes last.
LEMMA AppendFacts ==
  ASSUME NEW S, NEW s \in Seq(S), NEW e \in S
  PROVE  /\ DOMAIN Append(s, e) = DOMAIN s \cup {Len(s) + 1}
         /\ \A i \in DOMAIN s : Append(s, e)[i] = s[i] /\ i \in Nat /\ i < Len(s) + 1
         /\ Append(s, e)[Len(s) + 1] = e
         /\ Len(s) + 1 \in Nat
OBVIOUS

\* Every chained write is a snapshot and the call that awaits it.
LEMMA ChainTypes ==
  ASSUME TypeOK
  PROVE  \A i \in DOMAIN persistence :
           /\ persistence[i] \in Write
           /\ persistence[i].by \in Calls /\ persistence[i].snapshot \in Table
<1>1. \A i \in DOMAIN persistence : persistence[i] \in Write
  BY DEF TypeOK
<1> QED BY <1>1 DEF Write

\* The part of Inv that is about reservations, dispatches and chained writes.
WriteInv ==
  /\ OneWriteEach
  /\ AtMostOneDispatch /\ DispatchedKnown
  /\ OwnerPending /\ OneReserver /\ StoringWaits
  /\ ReservationOnDisk /\ SnapshotsKeepEntry

\* Steps that touch neither the table, the file, the chain nor the dispatches, and
\* that move no call into or along the keyed write path.
LEMMA QuietStep ==
  ASSUME WriteInv, UNCHANGED <<entries, file, persistence, dispatches>>,
         \A c \in Calls : (Keyed(c) /\ Locked(c) /\ pc'[c] = "running") => pc[c] = "running",
         \A c \in Calls : pc'[c] \in {"reserving", "storing"} => pc'[c] = pc[c],
         \A i \in DOMAIN persistence : pc'[persistence[i].by] = pc[persistence[i].by]
  PROVE  WriteInv'
<1> USE DEF WriteInv
<1>1. OneWriteEach'
  BY DEF OneWriteEach
<1>2. AtMostOneDispatch' /\ DispatchedKnown'
  BY DEF AtMostOneDispatch, DispatchedKnown
<1>3. OwnerPending'
  BY DEF OwnerPending, Keyed, Locked, CanComplete
<1>4. OneReserver' /\ StoringWaits'
  BY DEF OneReserver, StoringWaits
<1>5. ReservationOnDisk' /\ SnapshotsKeepEntry'
  BY DEF ReservationOnDisk, SnapshotsKeepEntry, Keyed, Locked, CanComplete
<1> QED BY <1>1, <1>2, <1>3, <1>4, <1>5

\* No two calls of one key are past begin() and not yet stored.
LEMMA OneOwner ==
  ASSUME WriteInv, StagesFit, NEW c \in Calls, NEW d \in Calls,
         Keyed(c), Locked(c), Keyed(d), Locked(d), KeyOf[c] = KeyOf[d],
         KeyOf[c] \in Keys,
         pc[c] \in {"reserving", "running"}, pc[d] \in {"reserving", "running"}
  PROVE  c = d
<1>1. CASE pc[c] = "reserving" /\ pc[d] = "reserving"
  BY <1>1 DEF WriteInv, OneReserver
<1>2. CASE pc[c] = "running" /\ pc[d] = "running"
  BY <1>2 DEF WriteInv, OwnerPending, AtMostOneDispatch
<1>3. CASE pc[c] # pc[d]
  BY <1>3 DEF WriteInv, OwnerPending
<1> QED BY <1>1, <1>2, <1>3

\* begin(): what it prunes was completed, so no call on the write path loses its
\* entry; a new owner finds its key absent, hence never dispatched.
LEMMA BeginKeeps ==
  ASSUME Inv, NEW c \in Calls, Begin(c)
  PROVE  WriteInv'
<1> USE DEF Inv
<1> DEFINE k == KeyOf[c]
           b == BindingOf[c]
<1>1. /\ pc[c] = "queued" /\ Keyed(c) /\ Locked(c) /\ k \in Keys /\ b \in Bindings
      /\ UNCHANGED file
  BY DEF Begin, Keyed, StagesFit
<1>2. PICK R \in PruneSets(entries, clock) :
        LET tab == Without(entries, R)
            decision == Decision(tab, k, b)
        IN /\ dispatches' = [j \in Keys |-> IF j \in R /\ entries[j].status = "completed"
                                          THEN {} ELSE dispatches[j]]
           /\ \/ /\ decision = "owner"
                 /\ entries' = Reserve(tab, k, b, clock)
                 /\ Persist(c, entries')
                 /\ pc' = [pc EXCEPT ![c] = "reserving"]
                 /\ UNCHANGED <<reply, queue>>
              \/ /\ decision # "owner"
                 /\ entries' = tab
                 /\ Settle(c, IF decision = "replay" THEN Gave(tab[k].result)
                              ELSE Told(decision))
                 /\ UNCHANGED persistence
  BY DEF Begin
<1> DEFINE tab == Without(entries, R)
<1>3. \A j \in R : j \in Keys /\ entries[j].status = "completed"
  BY PruneCompletedOnly DEF Completed
<1>4. /\ \A j \in Keys : j \in R => dispatches'[j] = {}
      /\ \A j \in Keys : j \notin R => dispatches'[j] = dispatches[j] /\ tab[j] = entries[j]
      /\ \A j \in R : tab[j] = Absent
  BY <1>2, <1>3 DEF Without
<1>5. tab \in Table
  BY <1>1, TableTypes DEF TypeOK
<1>6. \A d \in Calls : (Keyed(d) /\ Locked(d) /\ pc[d] \in {"reserving", "running"})
        => KeyOf[d] \in Keys /\ KeyOf[d] \notin R
  BY <1>3 DEF OwnerPending, Keyed
<1>7. AtMostOneDispatch'
  BY <1>4 DEF AtMostOneDispatch
<1>8. CASE Decision(tab, k, b) # "owner"
  <2>1. entries' = tab /\ UNCHANGED persistence /\ pc' = [pc EXCEPT ![c] = "settled"]
    BY <1>2, <1>8 DEF Settle
  <2>2. \A d \in Calls : pc'[d] \in {"reserving", "running", "storing"} => pc'[d] = pc[d]
    BY <2>1 DEF TypeOK
  <2>3. \A i \in DOMAIN persistence : pc'[persistence[i].by] = pc[persistence[i].by]
    <3>1. \A i \in DOMAIN persistence : persistence[i].by \in Calls \ {c}
      BY <1>1, ChainTypes DEF OneWriteEach
    <3> QED BY <2>1, <3>1 DEF TypeOK
  <2> HIDE DEF tab, k, b
  <2>4. OneWriteEach'
    BY <2>1, <2>3 DEF OneWriteEach
  <2>5. DispatchedKnown'
    BY <1>1, <1>4, <2>1 DEF DispatchedKnown
  <2>6. OwnerPending'
    BY <1>4, <1>6, <2>1, <2>2 DEF OwnerPending, Keyed, Locked, CanComplete
  <2>7. OneReserver' /\ StoringWaits'
    BY <2>1, <2>2 DEF OneReserver, StoringWaits
  <2>8. ReservationOnDisk' /\ SnapshotsKeepEntry'
    BY <1>1, <2>1, <2>2 DEF ReservationOnDisk, SnapshotsKeepEntry, Keyed, Locked, CanComplete
  <2> QED BY <1>7, <2>4, <2>5, <2>6, <2>7, <2>8 DEF WriteInv
<1>9. CASE Decision(tab, k, b) = "owner"
  <2>1. /\ entries' = Reserve(tab, k, b, clock)
        /\ persistence' = Append(persistence, [snapshot |-> entries', by |-> c])
        /\ pc' = [pc EXCEPT ![c] = "reserving"]
    BY <1>2, <1>9 DEF Persist
  <2>2. tab[k].status = "absent"
    BY <1>1, <1>5, <1>9, DecisionKinds
  <2>3. entries' \in Table
    BY <1>1, <1>5, <2>1, TableTypes DEF TypeOK
  <2> DEFINE n == Len(persistence) + 1
  <2>4. /\ DOMAIN persistence' = DOMAIN persistence \cup {n}
        /\ \A i \in DOMAIN persistence : persistence'[i] = persistence[i] /\ i < n /\ i \in Nat
        /\ persistence'[n] = [snapshot |-> entries', by |-> c]
        /\ n \in Nat
    <3>1. [snapshot |-> entries', by |-> c] \in Write
      BY <2>3 DEF Write
    <3> QED BY <2>1, <3>1, AppendFacts DEF TypeOK
  <2>5. /\ entries'[k].status = "pending" /\ entries'[k].binding = b
        /\ \A j \in Keys \ {k} : entries'[j] = tab[j]
    BY <1>1, <1>5, <2>1 DEF Reserve, Table
  <2>6. dispatches'[k] = {}
    <3>1. CASE k \in R
      BY <1>1, <1>4, <3>1
    <3>2. CASE k \notin R
      BY <1>1, <1>4, <2>2, <3>2 DEF DispatchedKnown
    <3> QED BY <3>1, <3>2
  <2>7. /\ pc'[c] = "reserving"
        /\ \A d \in Calls : d # c => pc'[d] = pc[d]
    BY <2>1 DEF TypeOK
  <2>8. \A i \in DOMAIN persistence : persistence[i].by # c
    BY <1>1 DEF OneWriteEach
  <2>9. \A d \in Calls : (Keyed(d) /\ Locked(d) /\ pc[d] \in {"reserving", "running"})
          => KeyOf[d] # k
    <3> SUFFICES ASSUME NEW d \in Calls, Keyed(d), Locked(d), KeyOf[d] = k,
                        pc[d] \in {"reserving", "running"}
                 PROVE  FALSE
      OBVIOUS
    <3>1. entries[k].status = "pending"
      BY DEF OwnerPending
    <3>2. k \notin R
      BY <1>3, <3>1
    <3> QED BY <1>1, <1>4, <2>2, <3>1, <3>2
  <2> HIDE DEF tab, k, b, n
  <2>10. OneWriteEach'
    <3>1. \A i \in DOMAIN persistence : pc'[persistence[i].by] = pc[persistence[i].by]
      BY <2>7, <2>8, ChainTypes
    <3>2. \A i \in DOMAIN persistence' : pc'[persistence'[i].by] \in {"reserving", "storing"}
      BY <2>4, <2>7, <3>1 DEF OneWriteEach
    <3>3. \A i, j \in DOMAIN persistence' : persistence'[i].by = persistence'[j].by => i = j
      BY <2>4, <2>8 DEF OneWriteEach
    <3> QED BY <3>2, <3>3 DEF OneWriteEach
  <2>11. DispatchedKnown'
    BY <1>1, <1>4, <2>4, <2>5, <2>6 DEF DispatchedKnown
  <2>12. OneReserver'
    <3>1. \A d \in Calls : pc[d] = "reserving" => KeyOf[d] # k
      BY <2>9 DEF StagesFit
    <3> QED BY <2>7, <3>1 DEF OneReserver, k
  <2>17. StoringWaits'
    BY <2>4, <2>7 DEF StoringWaits
  <2>13. ASSUME NEW d \in Calls, Keyed(d), Locked(d), pc'[d] \in {"reserving", "running"}, d # c
         PROVE  /\ KeyOf[d] \in Keys \ {k}
                /\ pc[d] = pc'[d]
                /\ entries'[KeyOf[d]] = entries[KeyOf[d]]
                /\ dispatches'[KeyOf[d]] = dispatches[KeyOf[d]]
    BY <1>4, <1>6, <2>5, <2>7, <2>9, <2>13
  <2>14. OwnerPending'
    <3> SUFFICES ASSUME NEW d \in Calls, Keyed(d), Locked(d), pc'[d] \in {"reserving", "running"}
                 PROVE  /\ entries'[KeyOf[d]].status = "pending"
                        /\ entries'[KeyOf[d]].binding = BindingOf[d]
                        /\ pc'[d] = "running" => d \in dispatches'[KeyOf[d]]
                        /\ pc'[d] = "reserving" =>
                             /\ dispatches'[KeyOf[d]] = {}
                             /\ \E i \in DOMAIN persistence' : persistence'[i].by = d
                             /\ \A i \in DOMAIN persistence' : persistence'[i].by = d =>
                                  \A j \in DOMAIN persistence' : j >= i =>
                                    CanComplete(persistence'[j].snapshot, KeyOf[d], BindingOf[d])
      BY DEF OwnerPending, Keyed, Locked, CanComplete
    <3>1. CASE d = c
      BY <2>4, <2>5, <2>6, <2>7, <2>8, <3>1 DEF CanComplete, k, b
    <3>2. CASE d # c
      <4>1. /\ KeyOf[d] \in Keys \ {k} /\ pc[d] = pc'[d]
            /\ entries'[KeyOf[d]] = entries[KeyOf[d]]
            /\ dispatches'[KeyOf[d]] = dispatches[KeyOf[d]]
        BY <2>13, <3>2
      <4>2. /\ entries'[KeyOf[d]].status = "pending"
            /\ entries'[KeyOf[d]].binding = BindingOf[d]
            /\ pc'[d] = "running" => d \in dispatches'[KeyOf[d]]
        BY <4>1 DEF OwnerPending
      <4>3. CanComplete(persistence'[n].snapshot, KeyOf[d], BindingOf[d])
        BY <2>4, <4>2 DEF CanComplete
      <4>4. pc'[d] = "reserving" => persistence'[n].by # d
        BY <2>4, <3>2
      <4> QED BY <2>4, <4>1, <4>2, <4>3, <4>4 DEF OwnerPending
    <3> QED BY <3>1, <3>2
  <2>15. ReservationOnDisk'
    BY <1>1, <2>7 DEF ReservationOnDisk, Keyed, Locked, CanComplete
  <2>16. SnapshotsKeepEntry'
    <3> SUFFICES ASSUME NEW d \in Calls, Keyed(d), Locked(d)
                 PROVE  /\ pc'[d] = "running" =>
                             \A i \in DOMAIN persistence' :
                               CanComplete(persistence'[i].snapshot, KeyOf[d], BindingOf[d])
                        /\ pc'[d] = "storing" =>
                             \A i \in DOMAIN persistence' : persistence'[i].by = d =>
                               \A j \in DOMAIN persistence' : j <= i =>
                                 CanComplete(persistence'[j].snapshot, KeyOf[d], BindingOf[d])
      BY DEF SnapshotsKeepEntry, Keyed, Locked, CanComplete
    <3>1. CASE d = c
      BY <2>7, <3>1
    <3>2. CASE d # c /\ pc'[d] = "running"
      <4>1. entries'[KeyOf[d]] = entries[KeyOf[d]] /\ pc[d] = "running"
        BY <2>13, <3>2
      <4>2. CanComplete(persistence'[n].snapshot, KeyOf[d], BindingOf[d])
        BY <2>4, <4>1 DEF OwnerPending, CanComplete
      <4> QED BY <2>4, <3>2, <4>1, <4>2 DEF SnapshotsKeepEntry
    <3>3. CASE d # c /\ pc'[d] = "storing"
      BY <2>4, <2>7, <3>3 DEF SnapshotsKeepEntry
    <3> QED BY <3>1, <3>2, <3>3
  <2> QED BY <1>7, <2>10, <2>11, <2>12, <2>14, <2>15, <2>16, <2>17 DEF WriteInv
<1> QED BY <1>8, <1>9

\* The oldest write reaches the file.
LEMMA PersistWriteKeeps ==
  ASSUME Inv, PersistWrite
  PROVE  WriteInv'
<1> USE DEF Inv
<1> DEFINE w == Head(persistence)
           c == w.by
           k == KeyOf[c]
<1>1. /\ w = persistence[1] /\ 1 \in DOMAIN persistence
      /\ w.snapshot \in Table /\ c \in Calls /\ pc[c] \in {"reserving", "storing"}
  BY HeadWriter DEF PersistWrite, Write
<1>2. /\ file' = w.snapshot /\ persistence' = Tail(persistence) /\ UNCHANGED entries
      /\ persistence # <<>>
  BY DEF PersistWrite
<1>3. /\ \A i \in DOMAIN persistence' : /\ persistence'[i] = persistence[i + 1]
                                        /\ i + 1 \in DOMAIN persistence /\ i \in Nat
      /\ \A i \in DOMAIN persistence : i = 1 \/ (i - 1 \in DOMAIN persistence' /\ i > 1)
      /\ \A i \in DOMAIN persistence : i \in Nat
  BY <1>2, TailFacts DEF TypeOK
<1>4. \A i \in DOMAIN persistence' : persistence'[i].by \in Calls \ {c}
  <2> SUFFICES ASSUME NEW i \in DOMAIN persistence'
               PROVE  persistence'[i].by \in Calls /\ persistence'[i].by # c
    OBVIOUS
  <2>1. /\ persistence'[i] = persistence[i + 1] /\ i + 1 \in DOMAIN persistence
        /\ i + 1 # 1
    BY <1>2, <1>3, TailFacts DEF TypeOK
  <2>2. persistence[i + 1].by # persistence[1].by
    BY <1>1, <2>1 DEF OneWriteEach
  <2> QED BY <1>1, <2>1, <2>2, ChainTypes
<1>5. /\ \A d \in Calls \ {c} : pc'[d] = pc[d]
      /\ pc'[c] = IF pc[c] = "reserving" THEN "running" ELSE "settled"
  BY <1>1 DEF PersistWrite, Dispatch, Settle, TypeOK
<1>6. Keyed(c) /\ Locked(c) /\ k \in Keys
  BY <1>1 DEF StagesFit, Keyed
<1>7. /\ \A j \in Keys \ {k} : dispatches'[j] = dispatches[j]
      /\ pc[c] = "reserving" => dispatches'[k] = dispatches[k] \cup {c}
      /\ pc[c] # "reserving" => dispatches'[k] = dispatches[k]
  BY <1>6 DEF PersistWrite, Dispatch, TypeOK
<1>8. pc[c] = "reserving" =>
        /\ dispatches[k] = {} /\ dispatches'[k] = {c}
        /\ entries[k].status = "pending" /\ entries[k].binding = BindingOf[c]
        /\ CanComplete(file', k, BindingOf[c])
        /\ \A j \in DOMAIN persistence' :
             CanComplete(persistence'[j].snapshot, k, BindingOf[c])
  <2> SUFFICES ASSUME pc[c] = "reserving"
               PROVE  /\ dispatches[k] = {} /\ dispatches'[k] = {c}
                      /\ entries[k].status = "pending" /\ entries[k].binding = BindingOf[c]
                      /\ CanComplete(file', k, BindingOf[c])
                      /\ \A j \in DOMAIN persistence' :
                           CanComplete(persistence'[j].snapshot, k, BindingOf[c])
    OBVIOUS
  <2>1. /\ dispatches[k] = {} /\ entries[k].status = "pending"
        /\ entries[k].binding = BindingOf[c]
    BY <1>1, <1>6 DEF OwnerPending
  <2>2. \A j \in DOMAIN persistence : j >= 1 => CanComplete(persistence[j].snapshot, k, BindingOf[c])
    BY <1>1, <1>6 DEF OwnerPending
  <2>3. \A j \in DOMAIN persistence : CanComplete(persistence[j].snapshot, k, BindingOf[c])
    BY <1>3, <2>2
  <2> HIDE DEF w
  <2>4. CanComplete(file', k, BindingOf[c])
    BY <1>1, <1>2, <2>3
  <2>5. \A j \in DOMAIN persistence' : CanComplete(persistence'[j].snapshot, k, BindingOf[c])
    BY <1>3, <2>3
  <2> QED BY <1>7, <2>1, <2>4, <2>5
<1> HIDE DEF w, c, k
<1>9. OneWriteEach'
  <2>1. \A i \in DOMAIN persistence' : pc'[persistence'[i].by] \in {"reserving", "storing"}
    BY <1>3, <1>4, <1>5 DEF OneWriteEach
  <2>2. \A i, j \in DOMAIN persistence' : persistence'[i].by = persistence'[j].by => i = j
    BY <1>3 DEF OneWriteEach
  <2> QED BY <2>1, <2>2 DEF OneWriteEach
<1>10. AtMostOneDispatch'
  BY <1>1, <1>6, <1>7, <1>8 DEF AtMostOneDispatch
<1>11. DispatchedKnown'
  <2> SUFFICES ASSUME NEW j \in Keys, dispatches'[j] # {}
               PROVE  /\ entries'[j].status # "absent"
                      /\ file'[j].status # "absent"
                      /\ \A i \in DOMAIN persistence' : persistence'[i].snapshot[j].status # "absent"
    BY DEF DispatchedKnown
  <2>1. CASE j = k /\ pc[c] = "reserving"
    BY <1>2, <1>8, <2>1 DEF CanComplete
  <2>2. CASE ~(j = k /\ pc[c] = "reserving")
    <3>1. dispatches[j] # {}
      BY <1>7, <2>2
    <3> QED BY <1>1, <1>2, <1>3, <3>1 DEF DispatchedKnown
  <2> QED BY <2>1, <2>2
<1>12. OneReserver'
  BY <1>1, <1>5 DEF OneReserver
<1>17. StoringWaits'
  <2> SUFFICES ASSUME NEW d \in Calls, pc'[d] = "storing"
               PROVE  \E i \in DOMAIN persistence' : persistence'[i].by = d
    BY DEF StoringWaits
  <2>1. d # c /\ pc[d] = "storing"
    BY <1>1, <1>5
  <2>2. PICK i \in DOMAIN persistence : persistence[i].by = d
    BY <2>1 DEF StoringWaits
  <2>3. i # 1
    BY <1>1, <2>1, <2>2 DEF c
  <2>4. i - 1 \in DOMAIN persistence' /\ persistence'[i - 1] = persistence[i]
    BY <1>3, <2>2, <2>3
  <2> QED BY <2>2, <2>4
<1>13. ASSUME NEW d \in Calls, Keyed(d), Locked(d), pc'[d] \in {"reserving", "running"}, d # c
       PROVE  /\ pc[d] = pc'[d] /\ KeyOf[d] \in Keys
              /\ pc[c] = "reserving" => KeyOf[d] # k
              /\ dispatches'[KeyOf[d]] = dispatches[KeyOf[d]]
  <2>1. pc[d] = pc'[d] /\ KeyOf[d] \in Keys
    BY <1>5, <1>13 DEF Keyed
  <2>2. pc[c] = "reserving" => KeyOf[d] # k
    BY <1>1, <1>6, <1>13, <2>1, OneOwner DEF k, WriteInv
  <2> QED BY <1>7, <2>1, <2>2
<1>14. OwnerPending'
  <2> SUFFICES ASSUME NEW d \in Calls, Keyed(d), Locked(d), pc'[d] \in {"reserving", "running"}
               PROVE  /\ entries'[KeyOf[d]].status = "pending"
                      /\ entries'[KeyOf[d]].binding = BindingOf[d]
                      /\ pc'[d] = "running" => d \in dispatches'[KeyOf[d]]
                      /\ pc'[d] = "reserving" =>
                           /\ dispatches'[KeyOf[d]] = {}
                           /\ \E i \in DOMAIN persistence' : persistence'[i].by = d
                           /\ \A i \in DOMAIN persistence' : persistence'[i].by = d =>
                                \A j \in DOMAIN persistence' : j >= i =>
                                  CanComplete(persistence'[j].snapshot, KeyOf[d], BindingOf[d])
    BY DEF OwnerPending, Keyed, Locked, CanComplete
  <2>1. CASE d = c
    BY <1>2, <1>5, <1>8, <2>1 DEF k
  <2>2. CASE d # c
    <3>1. pc[d] = pc'[d] /\ dispatches'[KeyOf[d]] = dispatches[KeyOf[d]]
      BY <1>13, <2>2
    <3>2. /\ entries'[KeyOf[d]].status = "pending"
          /\ entries'[KeyOf[d]].binding = BindingOf[d]
          /\ pc'[d] = "running" => d \in dispatches'[KeyOf[d]]
      BY <1>2, <3>1 DEF OwnerPending
    <3>3. ASSUME pc'[d] = "reserving"
          PROVE  /\ dispatches'[KeyOf[d]] = {}
                 /\ \E i \in DOMAIN persistence' : persistence'[i].by = d
                 /\ \A i \in DOMAIN persistence' : persistence'[i].by = d =>
                      \A j \in DOMAIN persistence' : j >= i =>
                        CanComplete(persistence'[j].snapshot, KeyOf[d], BindingOf[d])
      <4>1. PICK i \in DOMAIN persistence : persistence[i].by = d
        BY <3>1, <3>3 DEF OwnerPending
      <4>2. i - 1 \in DOMAIN persistence' /\ persistence'[i - 1] = persistence[i]
        BY <1>1, <1>3, <2>2, <4>1 DEF c
      <4>3. \A m \in DOMAIN persistence' : persistence'[m].by = d =>
              \A j \in DOMAIN persistence' : j >= m =>
                CanComplete(persistence'[j].snapshot, KeyOf[d], BindingOf[d])
        BY <1>3, <3>1, <3>3 DEF OwnerPending
      <4> QED BY <3>1, <3>3, <4>1, <4>2, <4>3 DEF OwnerPending
    <3> QED BY <3>2, <3>3
  <2> QED BY <2>1, <2>2
<1>15. ReservationOnDisk'
  <2> SUFFICES ASSUME NEW d \in Calls, Keyed(d), Locked(d), pc'[d] \in {"running", "storing"}
               PROVE  CanComplete(file', KeyOf[d], BindingOf[d])
    BY DEF ReservationOnDisk, Keyed, Locked, CanComplete
  <2>1. CASE d = c
    BY <1>1, <1>5, <1>8, <2>1 DEF k
  <2>2. CASE d # c /\ pc[d] = "running"
    BY <1>1, <1>2, <2>2 DEF SnapshotsKeepEntry
  <2>3. CASE d # c /\ pc[d] = "storing"
    <3>1. \E i \in DOMAIN persistence : persistence[i].by = d
      BY <2>3 DEF StoringWaits
    <3>2. PICK i \in DOMAIN persistence : persistence[i].by = d
      BY <3>1
    <3>3. i \in Nat /\ 1 <= i
      BY <1>3, <3>2
    <3> QED BY <1>1, <1>2, <2>3, <3>2, <3>3 DEF SnapshotsKeepEntry
  <2> QED BY <1>5, <2>1, <2>2, <2>3
<1>16. SnapshotsKeepEntry'
  <2> SUFFICES ASSUME NEW d \in Calls, Keyed(d), Locked(d)
               PROVE  /\ pc'[d] = "running" =>
                           \A i \in DOMAIN persistence' :
                             CanComplete(persistence'[i].snapshot, KeyOf[d], BindingOf[d])
                      /\ pc'[d] = "storing" =>
                           \A i \in DOMAIN persistence' : persistence'[i].by = d =>
                             \A j \in DOMAIN persistence' : j <= i =>
                               CanComplete(persistence'[j].snapshot, KeyOf[d], BindingOf[d])
    BY DEF SnapshotsKeepEntry, Keyed, Locked, CanComplete
  <2>1. CASE d = c
    BY <1>1, <1>5, <1>8, <2>1 DEF k
  <2>2. CASE d # c
    BY <1>3, <1>5, <2>2 DEF SnapshotsKeepEntry
  <2> QED BY <2>1, <2>2
<1> QED BY <1>9, <1>10, <1>11, <1>12, <1>14, <1>15, <1>16, <1>17 DEF WriteInv
\* The oldest write fails: its call settles, its entry stays pending in memory.
LEMMA PersistFailKeeps ==
  ASSUME Inv, PersistFail
  PROVE  WriteInv'
<1> USE DEF Inv
<1> DEFINE c == Head(persistence).by
<1>1. /\ Head(persistence) = persistence[1] /\ 1 \in DOMAIN persistence
      /\ c \in Calls /\ pc[c] \in {"reserving", "storing"}
  BY HeadWriter DEF PersistFail, Write
<1>2. /\ persistence' = Tail(persistence) /\ UNCHANGED <<entries, file, dispatches>>
      /\ persistence # <<>>
  BY DEF PersistFail
<1>3. /\ \A i \in DOMAIN persistence' : /\ persistence'[i] = persistence[i + 1]
                                        /\ i + 1 \in DOMAIN persistence /\ i \in Nat
      /\ \A i \in DOMAIN persistence : i = 1 \/ (i - 1 \in DOMAIN persistence' /\ i > 1)
      /\ \A i \in DOMAIN persistence : i \in Nat
  BY <1>2, TailFacts DEF TypeOK
<1>4. \A i \in DOMAIN persistence' : persistence'[i].by \in Calls \ {c}
  <2> SUFFICES ASSUME NEW i \in DOMAIN persistence'
               PROVE  persistence'[i].by \in Calls /\ persistence'[i].by # c
    OBVIOUS
  <2>1. /\ persistence'[i] = persistence[i + 1] /\ i + 1 \in DOMAIN persistence
        /\ i + 1 # 1
    BY <1>2, <1>3, TailFacts DEF TypeOK
  <2>2. persistence[i + 1].by # persistence[1].by
    BY <1>1, <2>1 DEF OneWriteEach
  <2> QED BY <1>1, <2>1, <2>2, ChainTypes
<1>5. /\ \A d \in Calls \ {c} : pc'[d] = pc[d]
      /\ pc'[c] = "settled"
  BY <1>1 DEF PersistFail, Settle, TypeOK
<1>6. persistence[1].by = c
  BY <1>1
<1> HIDE DEF c
<1>7. ASSUME NEW d \in Calls \ {c}, \E i \in DOMAIN persistence : persistence[i].by = d
      PROVE  \E i \in DOMAIN persistence' : persistence'[i].by = d
  <2>1. PICK i \in DOMAIN persistence : persistence[i].by = d
    BY <1>7
  <2>2. i - 1 \in DOMAIN persistence' /\ persistence'[i - 1] = persistence[i]
    BY <1>3, <1>6, <2>1
  <2> QED BY <2>1, <2>2
<1>8. OneWriteEach'
  <2>1. \A i \in DOMAIN persistence' : pc'[persistence'[i].by] \in {"reserving", "storing"}
    BY <1>3, <1>4, <1>5 DEF OneWriteEach
  <2>2. \A i, j \in DOMAIN persistence' : persistence'[i].by = persistence'[j].by => i = j
    BY <1>3 DEF OneWriteEach
  <2> QED BY <2>1, <2>2 DEF OneWriteEach
<1>9. AtMostOneDispatch' /\ DispatchedKnown'
  BY <1>2, <1>3 DEF AtMostOneDispatch, DispatchedKnown
<1>10. OneReserver' /\ StoringWaits'
  BY <1>5, <1>7 DEF OneReserver, StoringWaits
<1>11. OwnerPending'
  <2> SUFFICES ASSUME NEW d \in Calls, Keyed(d), Locked(d), pc'[d] \in {"reserving", "running"}
               PROVE  /\ entries'[KeyOf[d]].status = "pending"
                      /\ entries'[KeyOf[d]].binding = BindingOf[d]
                      /\ pc'[d] = "running" => d \in dispatches'[KeyOf[d]]
                      /\ pc'[d] = "reserving" =>
                           /\ dispatches'[KeyOf[d]] = {}
                           /\ \E i \in DOMAIN persistence' : persistence'[i].by = d
                           /\ \A i \in DOMAIN persistence' : persistence'[i].by = d =>
                                \A j \in DOMAIN persistence' : j >= i =>
                                  CanComplete(persistence'[j].snapshot, KeyOf[d], BindingOf[d])
    BY DEF OwnerPending, Keyed, Locked, CanComplete
  <2>1. d # c /\ pc'[d] = pc[d]
    BY <1>5
  <2>2. /\ entries'[KeyOf[d]].status = "pending"
        /\ entries'[KeyOf[d]].binding = BindingOf[d]
        /\ pc'[d] = "running" => d \in dispatches'[KeyOf[d]]
        /\ pc'[d] = "reserving" => dispatches'[KeyOf[d]] = {}
    BY <1>2, <2>1 DEF OwnerPending
  <2>3. pc'[d] = "reserving" => \E i \in DOMAIN persistence' : persistence'[i].by = d
    BY <1>7, <2>1 DEF OwnerPending
  <2>4. pc'[d] = "reserving" =>
          \A i \in DOMAIN persistence' : persistence'[i].by = d =>
            \A j \in DOMAIN persistence' : j >= i =>
              CanComplete(persistence'[j].snapshot, KeyOf[d], BindingOf[d])
    <3> SUFFICES ASSUME pc'[d] = "reserving",
                        NEW i \in DOMAIN persistence', persistence'[i].by = d,
                        NEW j \in DOMAIN persistence', j >= i
                 PROVE  CanComplete(persistence'[j].snapshot, KeyOf[d], BindingOf[d])
      OBVIOUS
    <3>1. /\ i + 1 \in DOMAIN persistence /\ persistence[i + 1].by = d
          /\ j + 1 \in DOMAIN persistence /\ j + 1 >= i + 1
          /\ persistence'[j] = persistence[j + 1]
      BY <1>3
    <3> QED BY <2>1, <3>1 DEF OwnerPending
  <2> QED BY <2>2, <2>3, <2>4
<1>12. ReservationOnDisk'
  BY <1>2, <1>5 DEF ReservationOnDisk, Keyed, Locked, CanComplete
<1>13. SnapshotsKeepEntry'
  BY <1>3, <1>5 DEF SnapshotsKeepEntry, Keyed, Locked, CanComplete
<1> QED BY <1>8, <1>9, <1>10, <1>11, <1>12, <1>13 DEF WriteInv

\* complete(): the entry of a call whose primitive resolved turns completed, and
\* the table that says so goes last in the chain of writes.
LEMMA PrimitiveOkKeeps ==
  ASSUME Inv, NEW c \in Calls, PrimitiveOk(c),
         Keyed(c), Locked(c), CanComplete(entries, KeyOf[c], BindingOf[c])
  PROVE  WriteInv'
<1> USE DEF Inv
<1> DEFINE k == KeyOf[c]
           n == Len(persistence) + 1
<1>1. /\ entries' = Store(entries, k, BindingOf[c], c, clock)
      /\ persistence' = Append(persistence, [snapshot |-> entries', by |-> c])
      /\ pc' = [pc EXCEPT ![c] = "storing"]
      /\ pc[c] = "running"
      /\ UNCHANGED <<file, dispatches>>
  BY DEF PrimitiveOk, Persist
<1>2. k \in Keys /\ BindingOf[c] \in Bindings /\ clock \in Nat /\ entries \in Table
  BY DEF Keyed, TypeOK
<1>3. entries' \in Table
  BY <1>1, <1>2, TableTypes DEF TypeOK
<1>4. /\ DOMAIN persistence' = DOMAIN persistence \cup {n}
      /\ \A i \in DOMAIN persistence : persistence'[i] = persistence[i] /\ i < n /\ i \in Nat
      /\ persistence'[n] = [snapshot |-> entries', by |-> c]
      /\ n \in Nat
  <2>1. [snapshot |-> entries', by |-> c] \in Write
    BY <1>3 DEF Write
  <2> QED BY <1>1, <2>1, AppendFacts DEF TypeOK
<1>5. /\ entries'[k].status = "completed" /\ entries'[k].binding = BindingOf[c]
      /\ \A j \in Keys \ {k} : entries'[j] = entries[j]
  BY <1>1, <1>2 DEF Store, Table
<1>6. /\ pc'[c] = "storing"
      /\ \A d \in Calls : d # c => pc'[d] = pc[d]
  BY <1>1 DEF TypeOK
<1>7. \A i \in DOMAIN persistence : persistence[i].by \in Calls \ {c}
  BY <1>1, ChainTypes DEF OneWriteEach
<1>8. ASSUME NEW d \in Calls, Keyed(d), Locked(d), pc'[d] \in {"reserving", "running"}
      PROVE  /\ d # c /\ pc[d] = pc'[d]
             /\ KeyOf[d] \in Keys \ {k}
             /\ entries'[KeyOf[d]] = entries[KeyOf[d]]
  <2>1. d # c /\ pc[d] = pc'[d]
    BY <1>6, <1>8
  <2>2. KeyOf[d] \in Keys
    BY <1>8 DEF Keyed
  <2>3. KeyOf[d] # k
    BY <1>1, <1>2, <1>8, <2>1, OneOwner DEF WriteInv
  <2> QED BY <1>5, <2>1, <2>2, <2>3
<1> HIDE DEF k, n
<1>9. OneWriteEach'
  <2>1. \A i \in DOMAIN persistence' : pc'[persistence'[i].by] \in {"reserving", "storing"}
    BY <1>4, <1>6, <1>7 DEF OneWriteEach
  <2>2. \A i, j \in DOMAIN persistence' : persistence'[i].by = persistence'[j].by => i = j
    BY <1>4, <1>7 DEF OneWriteEach
  <2> QED BY <2>1, <2>2 DEF OneWriteEach
<1>10. AtMostOneDispatch'
  BY <1>1 DEF AtMostOneDispatch
<1>11. DispatchedKnown'
  BY <1>1, <1>4, <1>5 DEF DispatchedKnown
<1>12. OneReserver' /\ StoringWaits'
  BY <1>4, <1>6 DEF OneReserver, StoringWaits
<1>13. OwnerPending'
  <2> SUFFICES ASSUME NEW d \in Calls, Keyed(d), Locked(d), pc'[d] \in {"reserving", "running"}
               PROVE  /\ entries'[KeyOf[d]].status = "pending"
                      /\ entries'[KeyOf[d]].binding = BindingOf[d]
                      /\ pc'[d] = "running" => d \in dispatches'[KeyOf[d]]
                      /\ pc'[d] = "reserving" =>
                           /\ dispatches'[KeyOf[d]] = {}
                           /\ \E i \in DOMAIN persistence' : persistence'[i].by = d
                           /\ \A i \in DOMAIN persistence' : persistence'[i].by = d =>
                                \A j \in DOMAIN persistence' : j >= i =>
                                  CanComplete(persistence'[j].snapshot, KeyOf[d], BindingOf[d])
    BY DEF OwnerPending, Keyed, Locked, CanComplete
  <2>1. /\ d # c /\ pc[d] = pc'[d] /\ entries'[KeyOf[d]] = entries[KeyOf[d]]
    BY <1>8
  <2>2. /\ entries'[KeyOf[d]].status = "pending"
        /\ entries'[KeyOf[d]].binding = BindingOf[d]
        /\ pc'[d] = "running" => d \in dispatches'[KeyOf[d]]
    BY <1>1, <2>1 DEF OwnerPending
  <2>3. CanComplete(persistence'[n].snapshot, KeyOf[d], BindingOf[d])
    BY <1>4, <2>2 DEF CanComplete
  <2>4. persistence'[n].by # d
    BY <1>4, <2>1
  <2> QED BY <1>1, <1>4, <2>1, <2>2, <2>3, <2>4 DEF OwnerPending
<1>14. ReservationOnDisk'
  BY <1>1, <1>6 DEF ReservationOnDisk, Keyed, Locked, CanComplete
<1>15. SnapshotsKeepEntry'
  <2> SUFFICES ASSUME NEW d \in Calls, Keyed(d), Locked(d)
               PROVE  /\ pc'[d] = "running" =>
                           \A i \in DOMAIN persistence' :
                             CanComplete(persistence'[i].snapshot, KeyOf[d], BindingOf[d])
                      /\ pc'[d] = "storing" =>
                           \A i \in DOMAIN persistence' : persistence'[i].by = d =>
                             \A j \in DOMAIN persistence' : j <= i =>
                               CanComplete(persistence'[j].snapshot, KeyOf[d], BindingOf[d])
    BY DEF SnapshotsKeepEntry, Keyed, Locked, CanComplete
  <2>1. CASE d = c
    <3>1. \A j \in DOMAIN persistence : CanComplete(persistence'[j].snapshot, k, BindingOf[c])
      BY <1>1, <1>4 DEF SnapshotsKeepEntry, k
    <3>2. CanComplete(persistence'[n].snapshot, k, BindingOf[c])
      BY <1>4, <1>5 DEF CanComplete
    <3> QED BY <1>4, <1>6, <2>1, <3>1, <3>2 DEF k
  <2>2. CASE d # c /\ pc'[d] = "running"
    <3>1. entries'[KeyOf[d]] = entries[KeyOf[d]] /\ pc[d] = "running"
      BY <1>8, <2>2
    <3>2. CanComplete(persistence'[n].snapshot, KeyOf[d], BindingOf[d])
      BY <1>4, <3>1 DEF OwnerPending, CanComplete
    <3> QED BY <1>4, <2>2, <3>1, <3>2 DEF SnapshotsKeepEntry
  <2>3. CASE d # c /\ pc'[d] = "storing"
    BY <1>4, <1>6, <2>3 DEF SnapshotsKeepEntry
  <2> QED BY <2>1, <2>2, <2>3
<1> QED BY <1>9, <1>10, <1>11, <1>12, <1>13, <1>14, <1>15 DEF WriteInv

\* A crash: the table is read back from the file, which knows every key that was
\* dispatched, and no call survives.
LEMMA CrashKeeps ==
  ASSUME Inv, Crash
  PROVE  WriteInv'
<1> USE DEF Inv
<1>1. /\ entries' = file /\ persistence' = <<>> /\ UNCHANGED <<file, dispatches>>
      /\ \A d \in Calls : pc'[d] \in {"idle", "settled", "lost"}
  BY DEF Crash
<1>2. DOMAIN persistence' = {}
  BY <1>1
<1>3. OneWriteEach' /\ AtMostOneDispatch'
  BY <1>1, <1>2 DEF OneWriteEach, AtMostOneDispatch
<1>4. DispatchedKnown'
  BY <1>1, <1>2 DEF DispatchedKnown
<1>5. OwnerPending' /\ OneReserver' /\ StoringWaits'
  BY <1>1 DEF OwnerPending, OneReserver, StoringWaits
<1>6. ReservationOnDisk' /\ SnapshotsKeepEntry'
  BY <1>1 DEF ReservationOnDisk, SnapshotsKeepEntry
<1> QED BY <1>3, <1>4, <1>5, <1>6 DEF WriteInv
\* Every action keeps the part of Inv that is about reservations and writes.
LEMMA WriteInductive ==
  ASSUME Inv, [Next]_vars
  PROVE  WriteInv'
<1>0. WriteInv
  BY DEF Inv, WriteInv
<1> USE DEF Inv
<1>1. ASSUME NEW c \in Calls, pc[c] \notin {"reserving", "storing"}
      PROVE  \A i \in DOMAIN persistence : persistence[i].by \in Calls \ {c}
  BY <1>1, ChainTypes DEF OneWriteEach
<1>2. ASSUME NEW c \in Calls, pc[c] \notin {"reserving", "storing"},
             UNCHANGED <<entries, file, persistence, dispatches>>,
             \/ pc' = [pc EXCEPT ![c] = "settled"] \/ pc' = [pc EXCEPT ![c] = "queued"]
             \/ pc' = [pc EXCEPT ![c] = "running"] /\ ~(Keyed(c) /\ Locked(c))
      PROVE  WriteInv'
  <2>1. /\ \A d \in Calls \ {c} : pc'[d] = pc[d]
        /\ pc'[c] \in {"settled", "queued", "running"}
        /\ pc'[c] = "running" => ~(Keyed(c) /\ Locked(c))
    BY <1>2 DEF TypeOK
  <2>2. \A i \in DOMAIN persistence : pc'[persistence[i].by] = pc[persistence[i].by]
    BY <1>1, <1>2, <2>1
  <2>3. /\ \A d \in Calls : (Keyed(d) /\ Locked(d) /\ pc'[d] = "running") => pc[d] = "running"
        /\ \A d \in Calls : pc'[d] \in {"reserving", "storing"} => pc'[d] = pc[d]
    BY <2>1
  <2> QED BY <1>0, <1>2, <2>2, <2>3, QuietStep
<1>3. ASSUME UNCHANGED <<entries, file, persistence, dispatches, pc>> PROVE WriteInv'
  BY <1>0, <1>3, QuietStep
<1>4. ASSUME NEW c \in Calls, CallTool(c) PROVE WriteInv'
  <2>1. /\ pc[c] = "idle" /\ UNCHANGED <<entries, file, persistence, dispatches>>
        /\ \/ pc' = [pc EXCEPT ![c] = "settled"] \/ pc' = [pc EXCEPT ![c] = "queued"]
           \/ pc' = [pc EXCEPT ![c] = "running"] /\ ~(Keyed(c) /\ Locked(c))
    BY <1>4 DEF CallTool, Dispatch
  <2> QED BY <1>2, <2>1
<1>5. ASSUME NEW c \in Calls, StartUnkeyed(c) PROVE WriteInv'
  <2>1. /\ pc[c] = "queued" /\ UNCHANGED <<entries, file, persistence, dispatches>>
        /\ pc' = [pc EXCEPT ![c] = "running"] /\ ~(Keyed(c) /\ Locked(c))
    BY <1>5 DEF StartUnkeyed, Dispatch
  <2> QED BY <1>2, <2>1
<1>6. ASSUME NEW c \in Calls, PrimitiveFail(c) PROVE WriteInv'
  BY <1>2, <1>6 DEF PrimitiveFail, Settle
<1>7. ASSUME NEW c \in Calls, PrimitiveOk(c) PROVE WriteInv'
  <2>1. CASE /\ Keyed(c) /\ Locked(c)
             /\ CanComplete(entries, KeyOf[c], BindingOf[c])
    BY <1>7, <2>1, PrimitiveOkKeeps
  <2>2. CASE ~(/\ Keyed(c) /\ Locked(c)
               /\ CanComplete(entries, KeyOf[c], BindingOf[c]))
    BY <1>2, <1>7, <2>2 DEF PrimitiveOk, Settle
  <2> QED BY <2>1, <2>2
<1>8. ASSUME NEW c \in Calls, Abort(c) \/ Timeout(c) PROVE WriteInv'
  BY <1>3, <1>8 DEF Abort, Timeout
<1>9. ASSUME Tick \/ UNCHANGED vars PROVE WriteInv'
  BY <1>3, <1>9 DEF Tick, vars
<1> QED
  BY <1>4, <1>5, <1>6, <1>7, <1>8, <1>9, BeginKeeps, PersistWriteKeeps,
     PersistFailKeeps, CrashKeeps DEF Next

-----------------------------------------------------------------------------
(* The theorems. *)

\* The empty daemon satisfies the invariant.
LEMMA InitInv == Init => Inv
<1> SUFFICES ASSUME Init PROVE Inv
  OBVIOUS
<1>1. NoReply \in Reply /\ freshState \in Table
  BY DEF NoReply, Reply, Kinds, freshState, Table, Absent, Entry, Status
<1>2. broken \in BOOLEAN
  BY DEF Init
<1>3. queue \in [Contexts -> Seq(Calls)] /\ persistence \in Seq(Write)
  BY DEF Init
<1>4. /\ pc \in [Calls -> Stages] /\ reply \in [Calls -> Reply]
      /\ dispatches \in [Keys -> SUBSET Calls] /\ doneAt \in [Calls -> Int]
  BY <1>1 DEF Init, Stages
<1>5. TypeOK
  BY <1>1, <1>2, <1>3, <1>4 DEF Init, TypeOK
<1>6. /\ \A c \in Calls : pc[c] = "idle"
      /\ \A k \in Keys : dispatches[k] = {}
      /\ DOMAIN persistence = {}
  BY DEF Init
<1>7. HoldersHaveLock /\ StagesFit /\ OneWriteEach
  BY <1>6 DEF HoldersHaveLock, StagesFit, OneWriteEach, Holding
<1>8. AtMostOneDispatch /\ DispatchedKnown
  BY <1>6 DEF AtMostOneDispatch, DispatchedKnown
<1>9. OwnerPending /\ OneReserver /\ StoringWaits
  BY <1>6 DEF OwnerPending, OneReserver, StoringWaits
<1>10. ReservationOnDisk /\ SnapshotsKeepEntry
  BY <1>6 DEF ReservationOnDisk, SnapshotsKeepEntry
<1> QED BY <1>5, <1>7, <1>8, <1>9, <1>10 DEF Inv

\* Inv is inductive: every action of atribd, and a crash at any point, keeps it.
THEOREM Invariance == Spec => []Inv
<1>1. Inv /\ [Next]_vars => Inv'
  <2> SUFFICES ASSUME Inv, [Next]_vars PROVE Inv'
    OBVIOUS
  <2>1. TypeOK' /\ HoldersHaveLock' /\ StagesFit' /\ WriteInv'
    BY TypeInductive, LockInductive, WriteInductive
  <2> QED BY <2>1 DEF Inv, WriteInv
<1> QED BY <1>1, InitInv, PTL DEF Spec

\* Type correctness: every answer, stage, table and chain stays in its type, for any
\* calls, store limit and number of crashes.
THEOREM TypeCorrect == Spec => []TypeOK
<1>1. Inv => TypeOK
  BY DEF Inv
<1> QED BY <1>1, Invariance, PTL

\* Duplicate-safe writes: while the store remembers a key, atribd dispatched the
\* primitive for at most one of the calls that carry it.
THEOREM DuplicateSafe == Spec => []AtMostOneDispatch
<1>1. Inv => AtMostOneDispatch
  BY DEF Inv
<1> QED BY <1>1, Invariance, PTL

\* A keyed write runs only while the state file holds its reservation, so a crash
\* at any moment of the call is visible to a retry.
THEOREM ReservedBeforeDispatch == Spec => []ReservationOnDisk
<1>1. Inv => ReservationOnDisk
  BY DEF Inv
<1> QED BY <1>1, Invariance, PTL

\* ContextWriteLocks serializes writes: one call per context is past begin().
THEOREM SerializedWrites == Spec => []OneWriterPerContext
<1>1. Inv => OneWriterPerContext
  BY DEF Inv, HoldersHaveLock, OneWriterPerContext, HasLock, Locked
<1> QED BY <1>1, Invariance, PTL
-----------------------------------------------------------------------------
(* What each step does to the tables, the results and the answers. *)

\* A step that touches no table and stores no result.
Quiet ==
  /\ UNCHANGED <<entries, file, persistence, broken, doneAt>>
  /\ clock' \in Nat /\ clock <= clock'
  /\ \A d \in Calls : pc'[d] # pc[d] =>
       pc[d] \in {"idle", "queued", "running"} /\ pc'[d] # "storing"
  /\ \A d \in Calls : (Keyed(d) /\ Locked(d) /\ reply'[d] # reply[d]) =>
       reply'[d].kind # "result"

\* begin() on a table from which it removed the completed entries R.
Begins(c, R) ==
  LET tab == Without(entries, R)
      k == KeyOf[c]
  IN  /\ pc[c] = "queued" /\ k \in Keys
      /\ UNCHANGED <<file, broken, clock, doneAt>>
      /\ \/ /\ tab[k].status = "absent"
            /\ entries' = Reserve(tab, k, BindingOf[c], clock)
            /\ persistence' = Append(persistence, [snapshot |-> entries', by |-> c])
            /\ pc' = [pc EXCEPT ![c] = "reserving"]
            /\ UNCHANGED reply
         \/ /\ entries' = tab
            /\ UNCHANGED persistence
            /\ pc' = [pc EXCEPT ![c] = "settled"]
            /\ \A d \in Calls \ {c} : reply'[d] = reply[d]
            /\ \/ reply'[c] = reply[c]
               \/ reply'[c].kind # "result"
               \/ /\ tab[k].status = "completed" /\ tab[k].binding = BindingOf[c]
                  /\ reply'[c] = Gave(tab[k].result)

\* complete(): the result of c is stored and its write is chained.
Stores(c) ==
  /\ pc[c] = "running" /\ Keyed(c) /\ Locked(c)
  /\ entries' = Store(entries, KeyOf[c], BindingOf[c], c, clock)
  /\ persistence' = Append(persistence, [snapshot |-> entries', by |-> c])
  /\ pc' = [pc EXCEPT ![c] = "storing"]
  /\ doneAt' = [doneAt EXCEPT ![c] = clock]
  /\ UNCHANGED <<file, broken, reply, clock>>

\* The oldest write reaches the file; a stored result is acknowledged.
Writes(c) ==
  /\ persistence # <<>> /\ c = persistence[1].by
  /\ file' = persistence[1].snapshot /\ persistence' = Tail(persistence)
  /\ UNCHANGED <<entries, broken, clock, doneAt>> /\ ~broken
  /\ \A d \in Calls \ {c} : pc'[d] = pc[d] /\ reply'[d] = reply[d]
  /\ \/ pc[c] = "reserving" /\ pc'[c] = "running"
        /\ (reply'[c] = reply[c] \/ reply'[c].kind # "result")
     \/ pc[c] = "storing" /\ pc'[c] = "settled" /\ reply'[c] \in {reply[c], Gave(c)}

\* The oldest write is rejected and the call that awaits it fails.
Rejects(c) ==
  /\ persistence # <<>> /\ c = persistence[1].by
  /\ persistence' = Tail(persistence) /\ broken' = TRUE
  /\ UNCHANGED <<entries, file, clock, doneAt>>
  /\ \A d \in Calls \ {c} : pc'[d] = pc[d] /\ reply'[d] = reply[d]
  /\ pc[c] \in {"reserving", "storing"} /\ pc'[c] = "settled"
  /\ reply'[c] = reply[c] \/ reply'[c].kind # "result"

\* What begin() answers: a replay comes from a completed entry of the same binding.
LEMMA ReplayDecision ==
  ASSUME NEW tab \in Table, NEW k \in Keys, NEW b, Decision(tab, k, b) = "replay"
  PROVE  tab[k].status = "completed" /\ tab[k].binding = b
BY DEF Decision, Table, Entry, Status

\* An answer to c leaves the others' answers alone.
LEMMA AnswerFacts ==
  ASSUME TypeOK, NEW c \in Calls, NEW r, Answer(c, r)
  PROVE  /\ \A d \in Calls \ {c} : reply'[d] = reply[d]
         /\ reply'[c] \in {reply[c], r}
BY DEF Answer, TypeOK

\* What settling a call does to the stages and answers.
LEMMA SettleFacts ==
  ASSUME TypeOK, NEW c \in Calls, NEW r, Settle(c, r)
  PROVE  /\ \A d \in Calls \ {c} : pc'[d] = pc[d] /\ reply'[d] = reply[d]
         /\ pc'[c] = "settled"
         /\ reply'[c] \in {reply[c], r}
BY AnswerFacts DEF Settle, TypeOK

\* A dispatch moves one call and gives nobody a result.
LEMMA DispatchFacts ==
  ASSUME TypeOK, NEW c \in Calls, Dispatch(c)
  PROVE  /\ \A d \in Calls \ {c} : pc'[d] = pc[d] /\ reply'[d] = reply[d]
         /\ pc'[c] = "running"
         /\ reply'[c] = reply[c] \/ reply'[c].kind # "result"
BY DEF Dispatch, TypeOK, Told

\* A step that moves one call from before its result and answers nothing but
\* refusals and results of calls without a key is quiet.
LEMMA OneCallQuiet ==
  ASSUME TypeOK, NEW c \in Calls, pc[c] \in {"idle", "queued", "running"},
         UNCHANGED <<entries, file, persistence, broken, doneAt, clock>>,
         \A d \in Calls \ {c} : pc'[d] = pc[d] /\ reply'[d] = reply[d],
         pc'[c] # "storing",
         \/ reply'[c] = reply[c] \/ reply'[c].kind # "result"
         \/ ~(Keyed(c) /\ Locked(c))
  PROVE  Quiet
BY DEF Quiet, TypeOK

\* begin() in the form above, with what it pruned.
LEMMA BeginEffect ==
  ASSUME Inv, NEW c \in Calls, Begin(c)
  PROVE  \E R \in PruneSets(entries, clock) : Begins(c, R)
<1> USE DEF Inv
<1> DEFINE k == KeyOf[c]
           b == BindingOf[c]
<1>1. /\ pc[c] = "queued" /\ k \in Keys /\ b \in Bindings
      /\ UNCHANGED <<file, broken, clock, doneAt>> /\ clock \in Nat /\ entries \in Table
  BY DEF Begin, Keyed, TypeOK
<1>2. PICK R \in PruneSets(entries, clock) :
        LET tab == Without(entries, R)
            decision == Decision(tab, k, b)
        IN \/ /\ decision = "owner"
              /\ entries' = Reserve(tab, k, b, clock)
              /\ Persist(c, entries')
              /\ pc' = [pc EXCEPT ![c] = "reserving"]
              /\ UNCHANGED <<reply, queue>>
           \/ /\ decision # "owner"
              /\ entries' = tab
              /\ Settle(c, IF decision = "replay" THEN Gave(tab[k].result)
                           ELSE Told(decision))
              /\ UNCHANGED persistence
  BY DEF Begin
<1> DEFINE tab == Without(entries, R)
           decision == Decision(tab, k, b)
<1>3. tab \in Table
  BY <1>1, TableTypes
<1>4. decision \in {"binding-mismatch", "replay", "indeterminate", "full", "owner"}
  BY <1>1, <1>3, DecisionKinds
<1>5. CASE decision = "owner"
  <2>1. tab[k].status = "absent"
    BY <1>1, <1>3, <1>5, DecisionKinds
  <2>2. /\ entries' = Reserve(tab, k, b, clock)
        /\ persistence' = Append(persistence, [snapshot |-> entries', by |-> c])
        /\ pc' = [pc EXCEPT ![c] = "reserving"] /\ UNCHANGED reply
    BY <1>2, <1>5 DEF Persist
  <2> QED BY <1>1, <2>1, <2>2 DEF Begins
<1>6. CASE decision # "owner"
  <2> DEFINE r == IF decision = "replay" THEN Gave(tab[k].result) ELSE Told(decision)
  <2>1. entries' = tab /\ Settle(c, r) /\ UNCHANGED persistence
    BY <1>2, <1>6
  <2>2. pc' = [pc EXCEPT ![c] = "settled"]
    BY <2>1 DEF Settle
  <2>3. /\ \A d \in Calls \ {c} : reply'[d] = reply[d]
        /\ reply'[c] \in {reply[c], r}
    BY <2>1, SettleFacts
  <2>4. CASE decision = "replay"
    <3>1. tab[k].status = "completed" /\ tab[k].binding = b
      BY <1>1, <1>3, <2>4, ReplayDecision
    <3>2. r = Gave(tab[k].result)
      BY <2>4
    <3> HIDE DEF tab, r, decision
    <3>3. reply'[c] = reply[c] \/ reply'[c] = Gave(tab[k].result)
      BY <2>3, <3>2
    <3> QED BY <1>1, <2>1, <2>2, <2>3, <3>1, <3>3 DEF Begins, tab
  <2>5. CASE decision # "replay"
    <3>1. r.kind # "result"
      BY <1>4, <2>5 DEF Told
    <3> HIDE DEF r, decision
    <3>2. reply'[c] = reply[c] \/ reply'[c].kind # "result"
      BY <2>3, <3>1
    <3> QED BY <1>1, <2>1, <2>2, <2>3, <3>2 DEF Begins
  <2> QED BY <2>4, <2>5
<1> QED BY <1>5, <1>6

\* Every step is one of six kinds.
LEMMA StepKinds ==
  ASSUME Inv, [Next]_vars
  PROVE  \/ Quiet
         \/ \E c \in Calls : \E R \in PruneSets(entries, clock) : Begins(c, R)
         \/ \E c \in Calls : Stores(c)
         \/ \E c \in Calls : Writes(c)
         \/ \E c \in Calls : Rejects(c)
         \/ Crash
<1> USE DEF Inv
<1>1. ASSUME NEW c \in Calls, CallTool(c) PROVE Quiet
  <2>1. /\ pc[c] = "idle"
        /\ UNCHANGED <<entries, file, persistence, broken, doneAt, clock>>
    BY <1>1 DEF CallTool
  <2>2. CASE pc' = [pc EXCEPT ![c] = "settled"] /\ reply' = [reply EXCEPT ![c] = Told("invalid")]
    BY <2>1, <2>2, OneCallQuiet DEF TypeOK, Told
  <2>3. CASE Dispatch(c)
    BY <2>1, <2>3, DispatchFacts, OneCallQuiet
  <2>4. CASE pc' = [pc EXCEPT ![c] = "queued"] /\ UNCHANGED reply
    BY <2>1, <2>4, OneCallQuiet DEF TypeOK
  <2> QED BY <1>1, <2>2, <2>3, <2>4 DEF CallTool
<1>2. ASSUME NEW c \in Calls, Abort(c) \/ Timeout(c) PROVE Quiet
  <2>1. UNCHANGED <<entries, file, persistence, broken, pc, doneAt, clock>>
    BY <1>2 DEF Abort, Timeout
  <2>2. PICK kind \in {"cancelled", "timeout"} : UNCHANGED reply \/ Answer(c, Told(kind))
    BY <1>2 DEF Abort, Timeout
  <2>3. Told(kind).kind # "result"
    BY <2>2 DEF Told
  <2>4. \A d \in Calls : reply'[d] = reply[d] \/ reply'[d] = Told(kind)
    BY <2>2, AnswerFacts
  <2>5. \A d \in Calls : reply'[d] # reply[d] => reply'[d].kind # "result"
    BY <2>3, <2>4
  <2> QED BY <2>1, <2>5 DEF Quiet, TypeOK
<1>3. ASSUME NEW c \in Calls, StartUnkeyed(c) PROVE Quiet
  BY <1>3, DispatchFacts, OneCallQuiet DEF StartUnkeyed
<1>4. ASSUME NEW c \in Calls, PrimitiveFail(c) PROVE Quiet
  <2>1. Told("failed").kind # "result"
    BY DEF Told
  <2>2. Settle(c, Told("failed"))
    BY <1>4 DEF PrimitiveFail
  <2>3. pc'[c] = "settled" /\ (reply'[c] = reply[c] \/ reply'[c].kind # "result")
    BY <2>1, <2>2, SettleFacts
  <2> QED BY <1>4, <2>2, <2>3, SettleFacts, OneCallQuiet DEF PrimitiveFail
<1>5. ASSUME NEW c \in Calls, PrimitiveOk(c) PROVE Quiet \/ Stores(c)
  <2>1. CASE /\ Keyed(c) /\ Locked(c)
             /\ CanComplete(entries, KeyOf[c], BindingOf[c])
    BY <1>5, <2>1 DEF PrimitiveOk, Stores, Persist
  <2>2. CASE Keyed(c) /\ Locked(c) /\ ~CanComplete(entries, KeyOf[c], BindingOf[c])
    <3>1. Told("failed").kind # "result"
      BY DEF Told
    <3>2. Settle(c, Told("failed")) /\ UNCHANGED <<entries, persistence, doneAt>>
      BY <1>5, <2>2 DEF PrimitiveOk
    <3>3. pc'[c] = "settled" /\ (reply'[c] = reply[c] \/ reply'[c].kind # "result")
      BY <3>1, <3>2, SettleFacts
    <3> QED BY <1>5, <3>2, <3>3, SettleFacts, OneCallQuiet DEF PrimitiveOk
  <2>3. CASE ~(Keyed(c) /\ Locked(c))
    <3>1. Settle(c, Gave(c)) /\ UNCHANGED <<entries, persistence, doneAt>>
      BY <1>5, <2>3 DEF PrimitiveOk
    <3> QED BY <1>5, <2>3, <3>1, SettleFacts, OneCallQuiet DEF PrimitiveOk
  <2> QED BY <2>1, <2>2, <2>3
<1>6. ASSUME PersistWrite PROVE \E c \in Calls : Writes(c)
  <2> DEFINE c == Head(persistence).by
  <2>1. /\ c \in Calls /\ pc[c] \in {"reserving", "storing"}
        /\ Head(persistence) = persistence[1] /\ persistence # <<>>
    BY <1>6, HeadWriter DEF PersistWrite, Write
  <2>2. /\ file' = persistence[1].snapshot /\ persistence' = Tail(persistence) /\ ~broken
        /\ UNCHANGED <<entries, broken, clock, doneAt>>
    BY <1>6, <2>1 DEF PersistWrite
  <2>3. CASE pc[c] = "reserving"
    <3>1. Dispatch(c)
      BY <1>6, <2>3 DEF PersistWrite
    <3>2. c = persistence[1].by
      BY <2>1
    <3> HIDE DEF c
    <3> QED BY <2>1, <2>2, <2>3, <3>1, <3>2, DispatchFacts DEF Writes
  <2>4. CASE pc[c] = "storing"
    <3>1. Settle(c, Gave(c))
      BY <1>6, <2>4 DEF PersistWrite
    <3>2. c = persistence[1].by
      BY <2>1
    <3> HIDE DEF c
    <3> QED BY <2>1, <2>2, <2>4, <3>1, <3>2, SettleFacts DEF Writes
  <2> QED BY <2>1, <2>3, <2>4
<1>7. ASSUME PersistFail PROVE \E c \in Calls : Rejects(c)
  <2> DEFINE c == Head(persistence).by
  <2>1. /\ c \in Calls /\ pc[c] \in {"reserving", "storing"}
        /\ Head(persistence) = persistence[1] /\ persistence # <<>>
    BY <1>7, HeadWriter DEF PersistFail, Write
  <2>2. /\ persistence' = Tail(persistence) /\ broken' = TRUE
        /\ UNCHANGED <<entries, file, clock, doneAt>>
        /\ Settle(c, Told("failed"))
    BY <1>7 DEF PersistFail
  <2>3. Told("failed").kind # "result"
    BY DEF Told
  <2>4. c = persistence[1].by
    BY <2>1
  <2> HIDE DEF c
  <2>5. /\ \A d \in Calls \ {c} : pc'[d] = pc[d] /\ reply'[d] = reply[d]
        /\ pc'[c] = "settled" /\ (reply'[c] = reply[c] \/ reply'[c].kind # "result")
    BY <2>1, <2>2, <2>3, SettleFacts
  <2> QED BY <2>1, <2>2, <2>4, <2>5 DEF Rejects
<1>8. ASSUME Tick \/ UNCHANGED vars PROVE Quiet
  BY <1>8 DEF Tick, vars, Quiet, TypeOK
<1> QED
  BY <1>1, <1>2, <1>3, <1>4, <1>5, <1>6, <1>7, <1>8, BeginEffect DEF Next
-----------------------------------------------------------------------------
(* Replays. *)

\* Replayed and stored results stay those of calls with the key and binding.
LEMMA ReplayInductive ==
  ASSUME Inv, ReplayInv, [Next]_vars
  PROVE  ReplayInv'
<1> USE DEF Inv
<1> DEFINE Good(tab) == \A k \in Keys : tab[k].status = "completed" =>
                          /\ tab[k].result \in Calls
                          /\ KeyOf[tab[k].result] = k
                          /\ BindingOf[tab[k].result] = tab[k].binding
                          /\ doneAt'[tab[k].result] >= 0
           Faithful(c) == (Keyed(c) /\ Locked(c) /\ reply'[c].kind = "result") =>
                            /\ KeyOf[reply'[c].result] = KeyOf[c]
                            /\ BindingOf[reply'[c].result] = BindingOf[c]
                            /\ doneAt'[reply'[c].result] >= 0
           Dated(c) == /\ pc'[c] = "storing" => doneAt'[c] >= 0
                       /\ doneAt'[c] >= 0 => pc'[c] \in {"storing", "settled", "lost"}
<1>1. ASSUME Good(entries'), Good(file'),
             \A i \in DOMAIN persistence' : Good(persistence'[i].snapshot),
             \A c \in Calls : Faithful(c) /\ Dated(c)
      PROVE  ReplayInv'
  BY <1>1 DEF ReplayInv, ResultsKnown, ResultsOfCalls, ReplayFaithful, DoneFits, Keyed, Locked
<1>2. doneAt \in [Calls -> Int] /\ clock \in Nat /\ reply \in [Calls -> Reply]
  BY DEF TypeOK
<1>3. ASSUME UNCHANGED doneAt
      PROVE  /\ Good(entries) /\ Good(file)
             /\ \A i \in DOMAIN persistence : Good(persistence[i].snapshot)
  BY <1>3 DEF ReplayInv, ResultsKnown, ResultsOfCalls
<1>4. ASSUME UNCHANGED doneAt, NEW c \in Calls,
             reply'[c] = reply[c] \/ reply'[c].kind # "result"
      PROVE  Faithful(c)
  BY <1>4 DEF ReplayInv, ReplayFaithful
<1>5. ASSUME persistence # <<>>
      PROVE  /\ 1 \in DOMAIN persistence
             /\ \A i \in DOMAIN Tail(persistence) :
                  \E j \in DOMAIN persistence : Tail(persistence)[i] = persistence[j]
  BY <1>5, TailFacts DEF TypeOK
<1>6. ASSUME NEW tab \in Table, NEW c \in Calls,
             persistence' = Append(persistence, [snapshot |-> tab, by |-> c]),
             Good(tab), \A i \in DOMAIN persistence : Good(persistence[i].snapshot)
      PROVE  \A i \in DOMAIN persistence' : Good(persistence'[i].snapshot)
  <2>1. [snapshot |-> tab, by |-> c] \in Write
    BY DEF Write
  <2>2. \A i \in DOMAIN persistence' :
          persistence'[i].snapshot = tab
            \/ (i \in DOMAIN persistence /\ persistence'[i] = persistence[i])
    BY <1>6, <2>1, AppendFacts DEF TypeOK
  <2> HIDE DEF Good
  <2> QED BY <1>6, <2>2
<1>7. ASSUME Quiet PROVE ReplayInv'
  <2>1. UNCHANGED <<entries, file, persistence, doneAt>>
    BY <1>7 DEF Quiet
  <2>2. ASSUME NEW c \in Calls PROVE Faithful(c) /\ Dated(c)
    <3>1. Dated(c)
      BY <1>7, <2>1 DEF Quiet, ReplayInv, DoneFits
    <3>2. CASE ~(Keyed(c) /\ Locked(c))
      BY <3>1, <3>2
    <3>3. CASE Keyed(c) /\ Locked(c)
      BY <1>4, <1>7, <2>1, <3>1, <3>3 DEF Quiet
    <3> QED BY <3>2, <3>3
  <2> HIDE DEF Good, Faithful, Dated
  <2> QED BY <1>1, <1>3, <2>1, <2>2
<1>8. ASSUME NEW c \in Calls, NEW R \in PruneSets(entries, clock), Begins(c, R)
      PROVE  ReplayInv'
  <2> DEFINE tab == Without(entries, R)
             k == KeyOf[c]
  <2>1. UNCHANGED <<file, doneAt>> /\ pc[c] = "queued" /\ k \in Keys
    BY <1>8 DEF Begins
  <2>2. tab \in Table /\ BindingOf[c] \in Bindings
    BY <1>2, <2>1, TableTypes DEF TypeOK
  <2>3. Good(tab)
    BY <1>3, <2>1 DEF Without, Absent
  <2>4. doneAt[c] < 0
    BY <1>2, <2>1 DEF ReplayInv, DoneFits
  <2>5. CASE /\ tab[k].status = "absent"
             /\ entries' = Reserve(tab, k, BindingOf[c], clock)
             /\ persistence' = Append(persistence, [snapshot |-> entries', by |-> c])
             /\ pc' = [pc EXCEPT ![c] = "reserving"]
             /\ UNCHANGED reply
    <3>1. entries' \in Table
      BY <1>2, <2>1, <2>2, <2>5, TableTypes
    <3>2. Good(entries')
      <4> HIDE DEF tab, k
      <4>1. entries'[k].status = "pending" /\ \A j \in Keys \ {k} : entries'[j] = tab[j]
        BY <2>1, <2>2, <2>5 DEF Reserve, Table
      <4> QED BY <2>3, <4>1
    <3>3. \A i \in DOMAIN persistence' : Good(persistence'[i].snapshot)
      BY <1>3, <1>6, <2>1, <2>5, <3>1, <3>2
    <3>4. \A d \in Calls : Faithful(d)
      BY <1>4, <2>1, <2>5
    <3>5. \A d \in Calls : Dated(d)
      BY <2>1, <2>4, <2>5 DEF ReplayInv, DoneFits, TypeOK
    <3> HIDE DEF Good, Faithful, Dated
    <3> QED BY <1>1, <1>3, <2>1, <3>2, <3>3, <3>4, <3>5
  <2>6. CASE /\ entries' = tab
             /\ UNCHANGED persistence
             /\ pc' = [pc EXCEPT ![c] = "settled"]
             /\ \A d \in Calls \ {c} : reply'[d] = reply[d]
             /\ \/ reply'[c] = reply[c]
                \/ reply'[c].kind # "result"
                \/ /\ tab[k].status = "completed" /\ tab[k].binding = BindingOf[c]
                   /\ reply'[c] = Gave(tab[k].result)
    <3>1. \A d \in Calls : Dated(d)
      BY <2>1, <2>4, <2>6 DEF ReplayInv, DoneFits, TypeOK
    <3>2. \A d \in Calls \ {c} : Faithful(d)
      BY <1>4, <2>1, <2>6
    <3>3. Faithful(c)
      <4>1. CASE reply'[c] = reply[c] \/ reply'[c].kind # "result"
        BY <1>4, <2>1, <4>1
      <4>2. CASE /\ tab[k].status = "completed" /\ tab[k].binding = BindingOf[c]
                 /\ reply'[c] = Gave(tab[k].result)
        <5>1. reply'[c].result = tab[k].result
          BY <4>2 DEF Gave
        <5> HIDE DEF tab
        <5> QED BY <2>1, <2>3, <4>2, <5>1
      <4> QED BY <2>6, <4>1, <4>2
    <3> HIDE DEF Good, Faithful, Dated
    <3> QED BY <1>1, <1>3, <2>1, <2>3, <2>6, <3>1, <3>2, <3>3
  <2> QED BY <1>8, <2>5, <2>6 DEF Begins
<1>9. ASSUME NEW c \in Calls, Stores(c) PROVE ReplayInv'
  <2> DEFINE k == KeyOf[c]
  <2>1. k \in Keys /\ BindingOf[c] \in Bindings /\ entries \in Table
    BY <1>9 DEF Stores, Keyed, TypeOK
  <2>2. /\ entries' = Store(entries, k, BindingOf[c], c, clock)
        /\ persistence' = Append(persistence, [snapshot |-> entries', by |-> c])
        /\ pc' = [pc EXCEPT ![c] = "storing"]
        /\ doneAt' = [doneAt EXCEPT ![c] = clock]
        /\ UNCHANGED <<file, reply>>
    BY <1>9 DEF Stores
  <2>3. /\ doneAt'[c] >= 0 /\ \A d \in Calls \ {c} : doneAt'[d] = doneAt[d]
        /\ \A d \in Calls : doneAt[d] >= 0 => doneAt'[d] >= 0
    BY <1>2, <2>2
  <2>4. /\ Good(entries) /\ Good(file)
        /\ \A i \in DOMAIN persistence : Good(persistence[i].snapshot)
    BY <2>3 DEF ReplayInv, ResultsKnown, ResultsOfCalls
  <2>5. entries' \in Table
    BY <1>2, <2>1, <2>2, TableTypes
  <2>6. /\ entries'[k].status = "completed" /\ entries'[k].binding = BindingOf[c]
        /\ entries'[k].result = c
        /\ \A j \in Keys \ {k} : entries'[j] = entries[j]
    BY <2>1, <2>2 DEF Store, Table
  <2>7. Good(entries')
    BY <2>3, <2>4, <2>6
  <2>8. \A i \in DOMAIN persistence' : Good(persistence'[i].snapshot)
    BY <1>6, <2>2, <2>4, <2>5, <2>7
  <2>9. \A d \in Calls : Faithful(d)
    <3> SUFFICES ASSUME NEW d \in Calls, Keyed(d), Locked(d), reply'[d].kind = "result"
                 PROVE  /\ KeyOf[reply'[d].result] = KeyOf[d]
                        /\ BindingOf[reply'[d].result] = BindingOf[d]
                        /\ doneAt'[reply'[d].result] >= 0
      OBVIOUS
    <3>1. /\ KeyOf[reply[d].result] = KeyOf[d]
          /\ BindingOf[reply[d].result] = BindingOf[d]
          /\ doneAt[reply[d].result] >= 0
      BY <2>2 DEF ReplayInv, ReplayFaithful
    <3>2. reply[d] \in Reply
      BY <1>2
    <3>3. reply[d].result \in Calls \cup {Nil}
      BY <3>2 DEF Reply
    <3>4. reply[d].result # c => doneAt'[reply[d].result] = doneAt[reply[d].result]
      BY <1>2, <2>2, <3>3
    <3> QED BY <2>2, <2>3, <3>1, <3>4
  <2>10. \A d \in Calls : Dated(d)
    BY <2>2, <2>3 DEF ReplayInv, DoneFits, TypeOK
  <2> HIDE DEF Good, Faithful, Dated
  <2> QED BY <1>1, <2>2, <2>4, <2>7, <2>8, <2>9, <2>10
<1>10. ASSUME NEW c \in Calls, Writes(c) PROVE ReplayInv'
  <2>1. /\ UNCHANGED <<entries, doneAt>> /\ persistence # <<>>
        /\ file' = persistence[1].snapshot /\ persistence' = Tail(persistence)
    BY <1>10 DEF Writes
  <2>2. /\ Good(entries') /\ Good(file')
        /\ \A i \in DOMAIN persistence' : Good(persistence'[i].snapshot)
    <3> HIDE DEF Good
    <3> QED BY <1>3, <1>5, <2>1
  <2>3. \A d \in Calls : Dated(d)
    BY <1>10, <2>1 DEF Writes, ReplayInv, DoneFits
  <2>4. \A d \in Calls \ {c} : Faithful(d)
    BY <1>4, <1>10, <2>1 DEF Writes
  <2>5. Faithful(c)
    <3>1. CASE reply'[c] = reply[c] \/ reply'[c].kind # "result"
      BY <1>4, <2>1, <3>1
    <3>2. CASE pc[c] = "storing" /\ reply'[c] = Gave(c)
      BY <2>1, <3>2 DEF Gave, ReplayInv, DoneFits
    <3> QED BY <1>10, <3>1, <3>2 DEF Writes
  <2> HIDE DEF Good, Faithful, Dated
  <2> QED BY <1>1, <2>2, <2>3, <2>4, <2>5
<1>11. ASSUME NEW c \in Calls, Rejects(c) PROVE ReplayInv'
  <2>1. /\ UNCHANGED <<entries, file, doneAt>> /\ persistence # <<>>
        /\ persistence' = Tail(persistence)
    BY <1>11 DEF Rejects
  <2>2. /\ Good(entries') /\ Good(file')
        /\ \A i \in DOMAIN persistence' : Good(persistence'[i].snapshot)
    <3> HIDE DEF Good
    <3> QED BY <1>3, <1>5, <2>1
  <2>3. \A d \in Calls : Dated(d)
    BY <1>11, <2>1 DEF Rejects, ReplayInv, DoneFits
  <2>4. \A d \in Calls : Faithful(d)
    BY <1>4, <1>11, <2>1 DEF Rejects
  <2> HIDE DEF Good, Faithful, Dated
  <2> QED BY <1>1, <2>2, <2>3, <2>4
<1>12. ASSUME Crash PROVE ReplayInv'
  <2>1. /\ UNCHANGED <<file, doneAt, reply>> /\ entries' = file /\ persistence' = <<>>
    BY <1>12 DEF Crash
  <2>2. \A d \in Calls : Dated(d)
    BY <1>12, <2>1 DEF Crash, ReplayInv, DoneFits
  <2>3. \A d \in Calls : Faithful(d)
    BY <1>4, <2>1
  <2>4. DOMAIN persistence' = {}
    BY <2>1
  <2> HIDE DEF Good, Faithful, Dated
  <2> QED BY <1>1, <1>3, <2>1, <2>2, <2>3, <2>4
<1> HIDE DEF Good, Faithful, Dated
<1> QED BY <1>7, <1>8, <1>9, <1>10, <1>11, <1>12, StepKinds

\* A replayed answer is the result a call with the same key and binding stored.
THEOREM ReplaysFaithful == Spec => []ReplayFaithful
<1>1. Init => ReplayInv
  <2> SUFFICES ASSUME Init PROVE ReplayInv
    OBVIOUS
  <2>1. /\ \A k \in Keys : entries[k].status = "absent" /\ file[k].status = "absent"
        /\ DOMAIN persistence = {}
        /\ \A c \in Calls : reply[c].kind = "none" /\ doneAt[c] = -1 /\ pc[c] = "idle"
    BY DEF Init, freshState, Absent, NoReply
  <2> QED BY <2>1 DEF ReplayInv, ReplayFaithful, ResultsKnown, ResultsOfCalls, DoneFits
<1>2. Inv /\ ReplayInv /\ [Next]_vars => ReplayInv'
  BY ReplayInductive
<1>3. ReplayInv => ReplayFaithful
  BY DEF ReplayInv
<1> QED BY <1>1, <1>2, <1>3, Invariance, PTL DEF Spec
-----------------------------------------------------------------------------
(* Writes reach the file in the order their snapshots were taken. *)

\* A new write follows the last table of the chain.
LEMMA ChainExtends ==
  ASSUME TypeOK, WritesInOrder, NEW tab \in Table, NEW c \in Calls,
         persistence' = Append(persistence, [snapshot |-> tab, by |-> c]),
         entries' = tab, UNCHANGED <<file, broken>>,
         ~broken => \A k \in Keys : entries[k].status = "pending"
                                      => CanComplete(tab, k, entries[k].binding)
  PROVE  WritesInOrder'
<1> SUFFICES ASSUME ~broken PROVE WritesInOrder'
  BY DEF WritesInOrder
<1> DEFINE n == Len(persistence) + 1
           w == [snapshot |-> tab, by |-> c]
<1>1. w \in Write
  BY DEF Write
<1>2. /\ DOMAIN persistence' = DOMAIN persistence \cup {n}
      /\ \A i \in DOMAIN persistence : persistence'[i] = persistence[i] /\ i \in Nat /\ i < n
      /\ persistence'[n] = w /\ n \in Nat /\ Len(persistence') = n
      /\ DOMAIN persistence = 1..(n - 1)
  BY <1>1, AppendFacts DEF TypeOK
<1>3. ASSUME NEW i \in 0..(n - 1) PROVE TableAt(i)' = TableAt(i)
  <2>1. i = 0 \/ i \in DOMAIN persistence
    BY <1>2
  <2> QED BY <1>2, <2>1 DEF TableAt
<1>5. ASSUME NEW i \in DOMAIN persistence', NEW k \in Keys,
             TableAt(i - 1)'[k].status = "pending"
      PROVE  CanComplete(persistence'[i].snapshot, k, TableAt(i - 1)'[k].binding)
  <2>1. CASE i \in DOMAIN persistence
    <3>1. TableAt(i - 1)' = TableAt(i - 1) /\ persistence'[i] = persistence[i]
      BY <1>2, <1>3, <2>1
    <3> QED BY <1>5, <2>1, <3>1 DEF WritesInOrder
  <2>2. CASE i = n
    <3>1. i - 1 = Len(persistence) /\ TableAt(i - 1)' = TableAt(Len(persistence))
      BY <1>2, <1>3, <2>2
    <3>2. entries[k] = TableAt(i - 1)'[k]
      BY <1>5, <3>1 DEF WritesInOrder
    <3> QED BY <1>2, <1>5, <2>2, <3>2
  <2> QED BY <1>2, <2>1, <2>2
<1>6. \A k \in Keys : TableAt(Len(persistence))'[k] = entries'[k]
  BY <1>2 DEF TableAt
<1> HIDE DEF n, w
<1> QED BY <1>5, <1>6 DEF WritesInOrder, CanComplete

\* Every step keeps the chain in order.
LEMMA OrderInductive ==
  ASSUME Inv, WritesInOrder, [Next]_vars
  PROVE  WritesInOrder'
<1> USE DEF Inv
<1>1. ASSUME Quiet PROVE WritesInOrder'
  <2>1. UNCHANGED <<entries, file, persistence, broken>>
    BY <1>1 DEF Quiet
  <2> QED BY <2>1 DEF WritesInOrder, TableAt, CanComplete
<1>2. ASSUME NEW c \in Calls, NEW R \in PruneSets(entries, clock), Begins(c, R)
      PROVE  WritesInOrder'
  <2> DEFINE tab == Without(entries, R)
             k == KeyOf[c]
  <2>1. UNCHANGED <<file, broken>> /\ k \in Keys
    BY <1>2 DEF Begins
  <2>2. tab \in Table /\ BindingOf[c] \in Bindings /\ clock \in Nat
    BY <2>1, TableTypes DEF TypeOK
  <2>3. \A j \in Keys : entries[j].status = "pending" => tab[j] = entries[j]
    BY PruneCompletedOnly DEF Without, Completed
  <2>4. CASE /\ tab[k].status = "absent"
             /\ entries' = Reserve(tab, k, BindingOf[c], clock)
             /\ persistence' = Append(persistence, [snapshot |-> entries', by |-> c])
    <3> HIDE DEF tab, k
    <3>1. Reserve(tab, k, BindingOf[c], clock) \in Table
      BY <2>1, <2>2, TableTypes
    <3>2. \A j \in Keys : entries[j].status = "pending"
            => j # k /\ Reserve(tab, k, BindingOf[c], clock)[j] = entries[j]
      BY <2>1, <2>2, <2>3, <2>4 DEF Reserve, Table
    <3>3. \A j \in Keys : entries[j].status = "pending"
            => CanComplete(Reserve(tab, k, BindingOf[c], clock), j, entries[j].binding)
      BY <3>2 DEF CanComplete
    <3> QED BY <2>1, <2>4, <3>1, <3>3, ChainExtends
  <2>5. CASE entries' = tab /\ UNCHANGED persistence
    <3> HIDE DEF tab, k
    <3> QED BY <2>1, <2>3, <2>5 DEF WritesInOrder, TableAt, CanComplete
  <2> QED BY <1>2, <2>4, <2>5 DEF Begins
<1>3. ASSUME NEW c \in Calls, Stores(c) PROVE WritesInOrder'
  <2> DEFINE k == KeyOf[c]
             tab == Store(entries, k, BindingOf[c], c, clock)
  <2>1. /\ k \in Keys /\ BindingOf[c] \in Bindings /\ clock \in Nat /\ entries \in Table
        /\ pc[c] = "running" /\ Keyed(c) /\ Locked(c)
    BY <1>3 DEF Stores, Keyed, TypeOK
  <2>2. /\ entries' = tab /\ UNCHANGED <<file, broken>>
        /\ persistence' = Append(persistence, [snapshot |-> tab, by |-> c])
    BY <1>3 DEF Stores
  <2>3. entries[k].binding = BindingOf[c]
    BY <2>1 DEF OwnerPending
  <2>4. tab \in Table
    BY <2>1, TableTypes
  <2>5. /\ tab[k].status = "completed" /\ tab[k].binding = BindingOf[c]
        /\ \A j \in Keys \ {k} : tab[j] = entries[j]
    BY <2>1 DEF Store, Table
  <2>6. \A j \in Keys : entries[j].status = "pending"
          => CanComplete(tab, j, entries[j].binding)
    BY <2>3, <2>5 DEF CanComplete
  <2> HIDE DEF tab, k
  <2> QED BY <2>2, <2>4, <2>6, ChainExtends
<1>4. ASSUME NEW c \in Calls, Writes(c) PROVE WritesInOrder'
  <2>1. /\ persistence # <<>> /\ file' = persistence[1].snapshot
        /\ persistence' = Tail(persistence)
        /\ UNCHANGED <<entries, broken>> /\ ~broken
    BY <1>4 DEF Writes
  <2>2. /\ DOMAIN persistence' = 1..(Len(persistence) - 1)
        /\ \A i \in DOMAIN persistence' :
             persistence'[i] = persistence[i + 1] /\ i + 1 \in DOMAIN persistence
        /\ Len(persistence') = Len(persistence) - 1
        /\ Len(persistence) \in Nat \ {0}
    BY <2>1, TailFacts DEF TypeOK
  <2>3. ASSUME NEW i \in 0..(Len(persistence) - 1)
        PROVE  TableAt(i)' = TableAt(i + 1)
    <3>1. CASE i = 0
      BY <2>1, <3>1 DEF TableAt
    <3>2. CASE i \in DOMAIN persistence'
      <4>1. i # 0 /\ i + 1 # 0 /\ persistence'[i] = persistence[i + 1]
        BY <2>2, <3>2
      <4> QED BY <4>1 DEF TableAt
    <3> QED BY <2>2, <3>1, <3>2
  <2>4. ASSUME NEW i \in DOMAIN persistence', NEW k \in Keys,
               TableAt(i - 1)'[k].status = "pending"
        PROVE  CanComplete(persistence'[i].snapshot, k, TableAt(i - 1)'[k].binding)
    <3>1. /\ i - 1 \in 0..(Len(persistence) - 1)
          /\ (i - 1) + 1 = (i + 1) - 1
          /\ i + 1 \in DOMAIN persistence /\ persistence'[i] = persistence[i + 1]
      BY <2>2
    <3>2. TableAt(i - 1)' = TableAt((i + 1) - 1)
      BY <2>3, <3>1
    <3> QED BY <2>1, <2>4, <3>1, <3>2 DEF WritesInOrder
  <2>5. TableAt(Len(persistence))' = TableAt(Len(persistence))
    <3>1. CASE Len(persistence) = 1
      BY <2>1, <2>2, <3>1 DEF TableAt
    <3>2. CASE Len(persistence) # 1
      <4>1. /\ Len(persistence') # 0 /\ Len(persistence) # 0
            /\ Len(persistence') \in DOMAIN persistence'
            /\ Len(persistence') + 1 = Len(persistence)
        BY <2>2, <3>2
      <4>2. persistence'[Len(persistence')] = persistence[Len(persistence)]
        BY <2>2, <4>1
      <4> QED BY <4>1, <4>2 DEF TableAt
    <3> QED BY <3>1, <3>2
  <2> QED BY <2>1, <2>4, <2>5 DEF WritesInOrder, CanComplete
<1>5. ASSUME NEW c \in Calls, Rejects(c) PROVE WritesInOrder'
  BY <1>5 DEF Rejects, WritesInOrder
<1>6. ASSUME Crash PROVE WritesInOrder'
  <2>1. persistence' = <<>> /\ entries' = file'
    BY <1>6 DEF Crash
  <2>2. DOMAIN persistence' = {} /\ Len(persistence') = 0
    BY <2>1
  <2> QED BY <2>1, <2>2 DEF WritesInOrder, TableAt
<1> QED BY <1>1, <1>2, <1>3, <1>4, <1>5, <1>6, StepKinds

\* No write, prune or restart forgets what the state file calls pending: the next
\* table in the file still has the entry, with its binding.
THEOREM PendingKept == Spec => PendingNeverForgotten
<1>1. Init => WritesInOrder
  <2> SUFFICES ASSUME Init PROVE WritesInOrder
    OBVIOUS
  <2>1. DOMAIN persistence = {} /\ Len(persistence) = 0 /\ entries = file
    BY DEF Init
  <2> QED BY <2>1 DEF WritesInOrder, TableAt
<1>2. Inv /\ WritesInOrder /\ [Next]_vars => WritesInOrder'
  BY OrderInductive
<1>3. ASSUME Inv, WritesInOrder, [Next]_vars
      PROVE  [\A k \in Keys : file[k].status = "pending"
                => /\ file'[k].status # "absent"
                   /\ file'[k].binding = file[k].binding]_vars
  <2> SUFFICES ASSUME NEW k \in Keys, file[k].status = "pending"
               PROVE  file'[k].status # "absent" /\ file'[k].binding = file[k].binding
    OBVIOUS
  <2>1. CASE UNCHANGED file
    BY <2>1
  <2>2. ASSUME NEW c \in Calls, Writes(c)
        PROVE  file'[k].status # "absent" /\ file'[k].binding = file[k].binding
    <3>1. /\ persistence # <<>> /\ file' = persistence[1].snapshot /\ ~broken
          /\ TableAt(1 - 1) = file
      BY <2>2 DEF Writes, TableAt
    <3>2. 1 \in DOMAIN persistence
      BY <1>3, <3>1, HeadWriter DEF Inv
    <3>3. CanComplete(persistence[1].snapshot, k, file[k].binding)
      BY <1>3, <3>1, <3>2 DEF WritesInOrder
    <3> QED BY <3>1, <3>3 DEF CanComplete
  <2>3. UNCHANGED file \/ \E c \in Calls : Writes(c)
    BY <1>3, StepKinds DEF Quiet, Begins, Stores, Rejects, Crash
  <2> QED BY <2>1, <2>2, <2>3
<1> QED BY <1>1, <1>2, <1>3, Invariance, PTL DEF Spec, PendingNeverForgotten
-----------------------------------------------------------------------------
(* The replay window, for a table that never reaches its limit. *)

\* Below the limit pruneCompleted removes exactly the expired entries.
LEMMA PruneExpiredOnly ==
  ASSUME IsFiniteSet(Keys), Cardinality(Keys) < MaxEntries,
         NEW tab \in Table, NEW now \in Nat, NEW R \in PruneSets(tab, now)
  PROVE  R = Expired(tab, now)
<1> DEFINE P == Present(tab)
           E == Expired(tab, now)
<1>1. P \subseteq Keys /\ E \subseteq Keys /\ R \subseteq Keys /\ E \subseteq R
  BY DEF PruneSets, Present, Expired, Completed
<1>2. /\ IsFiniteSet(R)
      /\ Cardinality(P) <= Cardinality(Keys) /\ Cardinality(P) \in Nat
      /\ Cardinality(E) \in Nat /\ Cardinality(Keys) \in Nat
  BY <1>1, FS_Subset, FS_CardinalityType
<1>3. Cardinality(R) = Cardinality(E) + Overflow(tab, now)
  BY DEF PruneSets
<1>4. Overflow(tab, now) = 0
  <2>1. Cardinality(P) - Cardinality(E) - MaxEntries + 1 <= 0
    BY <1>2
  <2> HIDE DEF P, E
  <2> QED BY <2>1 DEF Overflow, P, E
<1>5. Cardinality(R) = Cardinality(E)
  BY <1>2, <1>3, <1>4
<1> QED BY <1>1, <1>2, <1>5, FS_Subset

\* Stored and acknowledged results stay where WindowKept says.
LEMMA WindowInductive ==
  ASSUME IsFiniteSet(Keys), Cardinality(Keys) < MaxEntries,
         Inv, ReplayInv, WindowKept, [Next]_vars
  PROVE  WindowKept'
<1> USE DEF Inv
<1> DEFINE Kept(tab, d) == tab[KeyOf[d]] = [status |-> "completed", binding |-> BindingOf[d],
                                            result |-> d, updated_at |-> doneAt'[d]]
           Fresh(d) == Keyed(d) /\ Locked(d) /\ clock' - doneAt'[d] <= WindowMs
           Stored(d) ==
             /\ Kept(entries', d)
             /\ \A i, j \in DOMAIN persistence' :
                  (persistence'[i].by = d /\ i <= j) => Kept(persistence'[j].snapshot, d)
           Known(d) ==
             /\ Kept(entries', d) /\ Kept(file', d)
             /\ \A i \in DOMAIN persistence' : Kept(persistence'[i].snapshot, d)
<1>1. ASSUME \A d \in Calls : (Fresh(d) /\ pc'[d] = "storing") => Stored(d),
             \A d \in Calls : (Fresh(d) /\ reply'[d] = Gave(d)) => Known(d)
      PROVE  WindowKept'
  BY <1>1 DEF WindowKept, Remembers, Keyed, Locked, Gave
<1>2. doneAt \in [Calls -> Int] /\ clock \in Nat /\ entries \in Table
  BY DEF TypeOK
<1>3. ASSUME UNCHANGED doneAt, clock' \in Nat, clock <= clock', NEW d \in Calls, Fresh(d)
      PROVE  /\ pc[d] = "storing" =>
                  /\ Kept(entries, d)
                  /\ \A i, j \in DOMAIN persistence :
                       (persistence[i].by = d /\ i <= j) => Kept(persistence[j].snapshot, d)
             /\ reply[d] = Gave(d) =>
                  /\ Kept(entries, d) /\ Kept(file, d)
                  /\ \A i \in DOMAIN persistence : Kept(persistence[i].snapshot, d)
  <2>1. clock - doneAt[d] <= WindowMs
    BY <1>2, <1>3
  <2> QED BY <1>3, <2>1 DEF WindowKept, Remembers
<1>4. ASSUME NEW d \in Calls, Keyed(d), Locked(d), reply[d] = Gave(d)
      PROVE  doneAt[d] >= 0
  <2>1. reply[d].kind = "result" /\ reply[d].result = d
    BY <1>4 DEF Gave
  <2> QED BY <1>4, <2>1 DEF ReplayInv, ReplayFaithful
<1>5. ASSUME Quiet PROVE WindowKept'
  <2>1. UNCHANGED <<entries, file, persistence, doneAt>> /\ clock' \in Nat /\ clock <= clock'
    BY <1>5 DEF Quiet
  <2>2. ASSUME NEW d \in Calls, Fresh(d), pc'[d] = "storing" PROVE Stored(d)
    <3>1. pc[d] = "storing"
      BY <1>5, <2>2 DEF Quiet
    <3> QED BY <1>3, <2>1, <2>2, <3>1
  <2>3. ASSUME NEW d \in Calls, Fresh(d), reply'[d] = Gave(d) PROVE Known(d)
    <3>1. reply[d] = Gave(d)
      BY <1>5, <2>3 DEF Quiet, Gave
    <3> QED BY <1>3, <2>1, <2>3, <3>1
  <2> HIDE DEF Fresh, Stored, Known
  <2> QED BY <1>1, <2>2, <2>3
<1>6. ASSUME NEW c \in Calls, NEW R \in PruneSets(entries, clock), Begins(c, R)
      PROVE  WindowKept'
  <2> DEFINE tab == Without(entries, R)
             k == KeyOf[c]
             w == [snapshot |-> entries', by |-> c]
  <2>1. /\ UNCHANGED <<file, doneAt, clock>> /\ pc[c] = "queued" /\ k \in Keys
        /\ clock' \in Nat /\ clock <= clock'
    BY <1>2, <1>6 DEF Begins
  <2>2. doneAt[c] < 0
    BY <1>2, <2>1 DEF ReplayInv, DoneFits
  <2>3. tab \in Table /\ BindingOf[c] \in Bindings
    BY <1>2, <2>1, TableTypes
  <2>4. ASSUME NEW d \in Calls, Fresh(d), Kept(entries, d) PROVE Kept(tab, d)
    <3>1. KeyOf[d] \in Keys
      BY <2>4 DEF Keyed
    <3>2. entries[KeyOf[d]].updated_at = doneAt[d]
      BY <2>1, <2>4
    <3>3. KeyOf[d] \notin Expired(entries, clock)
      BY <1>2, <2>1, <2>4, <3>2 DEF Expired
    <3>4. KeyOf[d] \notin R
      BY <1>2, <3>3, PruneExpiredOnly
    <3> QED BY <2>4, <3>1, <3>4 DEF Without
  <2>5. ASSUME NEW d \in Calls, Fresh(d), Kept(tab, d)
        PROVE  Kept(entries', d) /\ KeyOf[d] \in Keys
    <3>1. KeyOf[d] \in Keys
      BY <2>5 DEF Keyed
    <3>2. CASE entries' = tab
      BY <2>5, <3>1, <3>2
    <3>3. CASE tab[k].status = "absent" /\ entries' = Reserve(tab, k, BindingOf[c], clock)
      <4>1. tab[KeyOf[d]].status = "completed"
        BY <2>5
      <4>2. KeyOf[d] # k
        BY <3>3, <4>1
      <4> HIDE DEF tab, k
      <4>3. entries'[KeyOf[d]] = tab[KeyOf[d]]
        BY <2>1, <2>3, <3>1, <3>3, <4>2 DEF Reserve, Table
      <4> QED BY <2>5, <3>1, <4>3
    <3> QED BY <1>6, <3>2, <3>3 DEF Begins
  <2>6. \/ UNCHANGED persistence
        \/ /\ persistence' = Append(persistence, w) /\ w \in Write
           /\ pc' = [pc EXCEPT ![c] = "reserving"]
    <3>1. entries' \in Table
      BY TypeInductive DEF TypeOK
    <3>2. w \in Write
      BY <3>1 DEF Write
    <3> QED BY <1>6, <3>2 DEF Begins
  <2>7. \A i \in DOMAIN persistence' :
          \/ i \in DOMAIN persistence /\ persistence'[i] = persistence[i]
          \/ persistence'[i].snapshot = entries' /\ persistence'[i].by = c
    <3>1. CASE UNCHANGED persistence
      BY <3>1
    <3>2. CASE persistence' = Append(persistence, w) /\ w \in Write
      <4>1. w.snapshot = entries' /\ w.by = c
        OBVIOUS
      <4> HIDE DEF w
      <4> QED BY <3>2, <4>1, AppendFacts DEF TypeOK
    <3> QED BY <2>6, <3>1, <3>2
  <2>8. \A d \in Calls : pc'[d] = "storing" => pc[d] = "storing" /\ d # c
    BY <1>6 DEF Begins, TypeOK
  <2> HIDE DEF tab, k, w
  <2>9. ASSUME NEW d \in Calls, Fresh(d), pc'[d] = "storing" PROVE Stored(d)
    <3>1. /\ Kept(entries, d)
          /\ \A i, j \in DOMAIN persistence :
               (persistence[i].by = d /\ i <= j) => Kept(persistence[j].snapshot, d)
      BY <1>3, <2>1, <2>8, <2>9
    <3>2. Kept(entries', d)
      BY <2>4, <2>5, <2>9, <3>1
    <3> HIDE DEF Kept
    <3> QED BY <2>7, <2>8, <2>9, <3>1, <3>2
  <2>10. ASSUME NEW d \in Calls, Fresh(d), reply'[d] = Gave(d) PROVE Known(d)
    <3>1. reply[d] = Gave(d)
      <4>1. ASSUME reply'[d] = Gave(tab[k].result), tab[k].status = "completed", d = c
            PROVE  FALSE
        <5>1. tab[k].result = c
          BY <2>10, <4>1 DEF Gave
        <5>2. tab[k] = entries[k]
          BY <2>1, <4>1 DEF tab, Without, Absent
        <5>3. doneAt[c] >= 0
          BY <2>1, <4>1, <5>1, <5>2 DEF ReplayInv, ResultsKnown, ResultsOfCalls
        <5> QED BY <1>2, <2>2, <5>3
      <4>2. Gave(d).kind = "result"
        BY DEF Gave
      <4> QED BY <1>6, <2>10, <4>1, <4>2 DEF Begins, tab, k
    <3>2. /\ Kept(entries, d) /\ Kept(file, d)
          /\ \A i \in DOMAIN persistence : Kept(persistence[i].snapshot, d)
      BY <1>3, <2>1, <2>10, <3>1
    <3>3. Kept(entries', d)
      BY <2>4, <2>5, <2>10, <3>2
    <3>4. file' = file
      BY <2>1
    <3> HIDE DEF Kept
    <3> QED BY <2>7, <3>2, <3>3, <3>4
  <2> HIDE DEF Fresh, Stored, Known
  <2> QED BY <1>1, <2>9, <2>10
<1>7. ASSUME NEW c \in Calls, Stores(c) PROVE WindowKept'
  <2> DEFINE k == KeyOf[c]
             n == Len(persistence) + 1
             w == [snapshot |-> entries', by |-> c]
  <2>1. /\ pc[c] = "running" /\ Keyed(c) /\ Locked(c) /\ k \in Keys
        /\ UNCHANGED <<file, reply, clock>>
        /\ pc' = [pc EXCEPT ![c] = "storing"] /\ doneAt' = [doneAt EXCEPT ![c] = clock]
        /\ entries' = Store(entries, k, BindingOf[c], c, clock)
        /\ persistence' = Append(persistence, w)
    BY <1>7 DEF Stores, Keyed
  <2>2. w \in Write
    BY TypeInductive DEF TypeOK, Write
  <2>3. /\ DOMAIN persistence' = DOMAIN persistence \cup {n}
        /\ \A i \in DOMAIN persistence : persistence'[i] = persistence[i] /\ i \in Nat /\ i < n
        /\ persistence'[n] = w /\ n \in Nat
    BY <2>1, <2>2, AppendFacts DEF TypeOK
  <2>4. /\ Kept(entries', c) /\ \A j \in Keys \ {k} : entries'[j] = entries[j]
    BY <1>2, <2>1 DEF Store, Table
  <2>5. entries[k].status = "pending"
    BY <2>1 DEF OwnerPending
  <2>6. \A i \in DOMAIN persistence : persistence[i].by # c
    BY <2>1 DEF OneWriteEach
  <2>7. ASSUME NEW d \in Calls \ {c}, Fresh(d)
        PROVE  /\ doneAt'[d] = doneAt[d] /\ pc'[d] = pc[d]
               /\ clock - doneAt[d] <= WindowMs /\ KeyOf[d] \in Keys
    BY <1>2, <2>1, <2>7 DEF TypeOK, Keyed
  <2>8. ASSUME NEW d \in Calls \ {c}, Fresh(d), Kept(entries, d)
        PROVE  Kept(entries', d)
    <3>1. KeyOf[d] # k
      BY <2>5, <2>8
    <3> QED BY <2>4, <2>7, <2>8, <3>1
  <2>9. Stored(c)
    <3>1. \A i \in DOMAIN persistence' : persistence'[i].by = c => i = n
      BY <2>3, <2>6
    <3>2. \A j \in DOMAIN persistence' : n <= j => j = n
      BY <2>3
    <3>3. persistence'[n].snapshot = entries'
      BY <2>3
    <3> HIDE DEF Kept, n
    <3> QED BY <2>4, <3>1, <3>2, <3>3
  <2>10. ASSUME NEW d \in Calls \ {c}, Fresh(d), pc'[d] = "storing" PROVE Stored(d)
    <3>1. /\ Kept(entries, d)
          /\ \A i, j \in DOMAIN persistence :
               (persistence[i].by = d /\ i <= j) => Kept(persistence[j].snapshot, d)
      BY <2>7, <2>10 DEF WindowKept, Remembers
    <3>2. Kept(entries', d)
      BY <2>8, <2>10, <3>1
    <3>3. persistence'[n].by = c /\ persistence'[n].snapshot = entries'
      BY <2>3
    <3> HIDE DEF Kept, n, w
    <3> QED BY <2>3, <2>10, <3>1, <3>2, <3>3
  <2>11. ASSUME NEW d \in Calls, Fresh(d), reply'[d] = Gave(d) PROVE Known(d)
    <3>1. reply[d] = Gave(d) /\ doneAt[d] >= 0 /\ d # c
      BY <1>4, <2>1, <2>11 DEF ReplayInv, DoneFits
    <3>2. /\ Kept(entries, d) /\ Kept(file, d)
          /\ \A i \in DOMAIN persistence : Kept(persistence[i].snapshot, d)
      BY <2>7, <2>11, <3>1 DEF WindowKept, Remembers
    <3>3. Kept(entries', d)
      BY <2>8, <2>11, <3>1, <3>2
    <3>4. persistence'[n].snapshot = entries' /\ file' = file
      BY <2>1, <2>3
    <3> HIDE DEF Kept, n, w
    <3> QED BY <2>3, <3>2, <3>3, <3>4
  <2> HIDE DEF Fresh, Stored, Known
  <2> QED BY <1>1, <2>9, <2>10, <2>11
<1>8. ASSUME persistence # <<>>, persistence' = Tail(persistence)
      PROVE  /\ 1 \in DOMAIN persistence
             /\ \A i \in DOMAIN persistence :  i \in Nat /\ 1 <= i
             /\ \A i \in DOMAIN persistence' : /\ i \in Nat /\ i + 1 \in DOMAIN persistence
                                               /\ persistence'[i] = persistence[i + 1]
  BY <1>8, TailFacts DEF TypeOK
<1>9. ASSUME NEW c \in Calls, Writes(c) \/ Rejects(c), UNCHANGED <<entries, doneAt, clock>>,
             persistence # <<>>, persistence' = Tail(persistence),
             NEW d \in Calls, Fresh(d), pc'[d] = "storing"
      PROVE  Stored(d)
  <2>1. pc[d] = "storing"
    BY <1>9 DEF Writes, Rejects
  <2>2. /\ Kept(entries, d)
        /\ \A i, j \in DOMAIN persistence :
             (persistence[i].by = d /\ i <= j) => Kept(persistence[j].snapshot, d)
    BY <1>2, <1>3, <1>9, <2>1
  <2>3. Kept(entries', d)
    BY <1>9, <2>2
  <2> HIDE DEF Kept
  <2>4. ASSUME NEW i \in DOMAIN persistence', NEW j \in DOMAIN persistence',
               persistence'[i].by = d, i <= j
        PROVE  Kept(persistence'[j].snapshot, d)
    <3>1. /\ i + 1 \in DOMAIN persistence /\ j + 1 \in DOMAIN persistence
          /\ persistence[i + 1].by = d /\ i + 1 <= j + 1
          /\ persistence'[j] = persistence[j + 1]
      BY <1>8, <1>9, <2>4
    <3> QED BY <2>2, <3>1
  <2> QED BY <2>3, <2>4
<1>10. ASSUME NEW c \in Calls, Writes(c) PROVE WindowKept'
  <2>1. /\ UNCHANGED <<entries, doneAt, clock>> /\ persistence # <<>>
        /\ file' = persistence[1].snapshot /\ persistence' = Tail(persistence)
        /\ c = persistence[1].by
    BY <1>10 DEF Writes
  <2>2. ASSUME NEW d \in Calls, Fresh(d), reply'[d] = Gave(d) PROVE Known(d)
    <3>1. /\ Kept(entries, d)
          /\ \A i \in DOMAIN persistence : Kept(persistence[i].snapshot, d)
      <4>1. CASE reply[d] = Gave(d)
        BY <1>2, <1>3, <2>1, <2>2, <4>1
      <4>2. CASE reply[d] # Gave(d)
        <5>1. d = c /\ pc[c] = "storing"
          BY <1>10, <2>2, <4>2 DEF Writes, Gave
        <5>2. /\ Kept(entries, d)
              /\ \A i, j \in DOMAIN persistence :
                   (persistence[i].by = d /\ i <= j) => Kept(persistence[j].snapshot, d)
          BY <1>2, <1>3, <2>1, <2>2, <5>1
        <5> HIDE DEF Kept
        <5> QED BY <1>8, <2>1, <5>1, <5>2
      <4> QED BY <4>1, <4>2
    <3> HIDE DEF Kept
    <3> QED BY <1>8, <2>1, <3>1
  <2> HIDE DEF Fresh, Stored, Known
  <2> QED BY <1>1, <1>9, <1>10, <2>1, <2>2
<1>11. ASSUME NEW c \in Calls, Rejects(c) PROVE WindowKept'
  <2>1. /\ UNCHANGED <<entries, file, doneAt, clock>> /\ persistence # <<>>
        /\ persistence' = Tail(persistence)
    BY <1>11 DEF Rejects
  <2>2. ASSUME NEW d \in Calls, Fresh(d), reply'[d] = Gave(d) PROVE Known(d)
    <3>1. reply[d] = Gave(d)
      BY <1>11, <2>2 DEF Rejects, Gave
    <3>2. /\ Kept(entries, d) /\ Kept(file, d)
          /\ \A i \in DOMAIN persistence : Kept(persistence[i].snapshot, d)
      BY <1>2, <1>3, <2>1, <2>2, <3>1
    <3> HIDE DEF Kept
    <3> QED BY <1>8, <2>1, <3>2
  <2> HIDE DEF Fresh, Stored, Known
  <2> QED BY <1>1, <1>9, <1>11, <2>1, <2>2
<1>12. ASSUME Crash PROVE WindowKept'
  <2>1. /\ UNCHANGED <<file, doneAt, reply, clock>> /\ entries' = file /\ persistence' = <<>>
        /\ \A d \in Calls : pc'[d] \in {"idle", "settled", "lost"}
    BY <1>12 DEF Crash
  <2>2. DOMAIN persistence' = {}
    BY <2>1
  <2>3. ASSUME NEW d \in Calls, Fresh(d), reply'[d] = Gave(d) PROVE Known(d)
    BY <1>2, <1>3, <2>1, <2>2, <2>3
  <2> HIDE DEF Fresh, Stored, Known
  <2> QED BY <1>1, <2>1, <2>3
<1> HIDE DEF Kept, Fresh, Stored, Known
<1> QED BY <1>5, <1>6, <1>7, <1>10, <1>11, <1>12, StepKinds

\* An acknowledged result stays replayable, from memory and after a restart, for the
\* whole window, as long as the table cannot reach its limit: with room for every
\* key, pruneCompleted never takes an entry that is still in the window.
THEOREM ReplayWindow ==
  ASSUME IsFiniteSet(Keys), Cardinality(Keys) < MaxEntries
  PROVE  Spec => []ReplayableForWindow
<1>1. Init => ReplayInv /\ WindowKept
  <2> SUFFICES ASSUME Init PROVE ReplayInv /\ WindowKept
    OBVIOUS
  <2>1. /\ \A k \in Keys : entries[k].status = "absent" /\ file[k].status = "absent"
        /\ DOMAIN persistence = {}
        /\ \A c \in Calls : /\ reply[c].kind = "none" /\ doneAt[c] = -1 /\ pc[c] = "idle"
                            /\ reply[c] # Gave(c)
    BY DEF Init, freshState, Absent, NoReply, Gave
  <2>2. ReplayInv
    BY <2>1 DEF ReplayInv, ReplayFaithful, ResultsKnown, ResultsOfCalls, DoneFits
  <2> QED BY <2>1, <2>2 DEF WindowKept
<1>2. Inv /\ ReplayInv /\ WindowKept /\ [Next]_vars => ReplayInv' /\ WindowKept'
  BY ReplayInductive, WindowInductive
<1>3. WindowKept => ReplayableForWindow
  <2> SUFFICES ASSUME WindowKept, NEW c \in Calls, Keyed(c), Locked(c), reply[c] = Gave(c),
                      clock - doneAt[c] <= WindowMs
               PROVE  /\ entries[KeyOf[c]].status = "completed" /\ entries[KeyOf[c]].result = c
                      /\ file[KeyOf[c]].status = "completed" /\ file[KeyOf[c]].result = c
    BY DEF ReplayableForWindow
  <2>1. Remembers(entries, c) /\ Remembers(file, c)
    BY DEF WindowKept
  <2> QED BY <2>1 DEF Remembers
<1> QED BY <1>1, <1>2, <1>3, Invariance, PTL DEF Spec
=============================================================================
