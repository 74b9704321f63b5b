----------------------------- MODULE Mcp_proofs -----------------------------
(***************************************************************************)
(* Proofs about packages/mcp.  Middleware: for any calls, contexts and     *)
(* inbound hashes, in every mode and with destroy() at any moment.         *)
(* MirrorIndex: for any number of files, records, readers and rounds, with *)
(* appends and replacements between any two steps of a read.               *)
(***************************************************************************)
EXTENDS Middleware, MirrorIndex, WellFoundedInduction, TLAPS

USE MiddlewareAssumption

CallState == [stage : Stages, pre : BOOLEAN]
BuiltState == [parent : Parents \cup {Nil}, seeded : BOOLEAN, key : Keys]

\* What the invariant says of the order of commits and of the chain.
OrderInv ==
  /\ CommittedOnce /\ ParentsKnown /\ TailLatest /\ SeedUsed /\ Sequential
  /\ ParentsCommitted

-----------------------------------------------------------------------------
(* The list of committed records. *)

LEMMA CommittedByIndex ==
  ASSUME NEW r
  PROVE  r \in Committed <=> \E i \in DOMAIN committed : committed[i] = r
BY DEF Committed, Range

\* A record that is committed comes after all the earlier ones.
LEMMA AppendOrder ==
  ASSUME committed \in Seq(Records), NEW r \in Records, r \notin Committed,
         committed' = Append(committed, r)
  PROVE  /\ committed' \in Seq(Records)
         /\ Committed' = Committed \cup {r}
         /\ \A a, b : Earlier(a, b) => Earlier(a, b)'
         /\ \A a \in Committed : Earlier(a, r)'
         /\ CommittedOnce => CommittedOnce'
<1>1. /\ committed' \in Seq(Records) /\ Len(committed') = Len(committed) + 1
      /\ DOMAIN committed = 1..Len(committed)
      /\ DOMAIN committed' = 1..(Len(committed) + 1)
      /\ committed'[Len(committed) + 1] = r
      /\ \A i \in 1..Len(committed) : committed'[i] = committed[i]
  OBVIOUS
<1>2. Len(committed) \in Nat
  OBVIOUS
<1>3. Committed' = Committed \cup {r}
  <2>1. ASSUME NEW a PROVE a \in Committed' <=> a \in Committed \cup {r}
    <3>1. a \in Committed' <=> \E i \in DOMAIN committed' : committed'[i] = a
      BY DEF Committed, Range
    <3>2. a \in Committed <=> \E i \in DOMAIN committed : committed[i] = a
      BY DEF Committed, Range
    <3> QED BY <1>1, <1>2, <3>1, <3>2
  <2> QED BY <2>1
<1>4. ASSUME NEW a, NEW b, Earlier(a, b) PROVE Earlier(a, b)'
  BY <1>1, <1>2, <1>4 DEF Earlier
<1>5. ASSUME NEW a \in Committed PROVE Earlier(a, r)'
  <2>1. PICK i \in DOMAIN committed : committed[i] = a
    BY CommittedByIndex
  <2>2. i \in DOMAIN committed' /\ Len(committed) + 1 \in DOMAIN committed'
        /\ i < Len(committed) + 1
        /\ committed'[i] = a /\ committed'[Len(committed) + 1] = r
    BY <1>1, <1>2, <2>1
  <2> QED BY <2>2 DEF Earlier
<1>6. ASSUME CommittedOnce PROVE CommittedOnce'
  <2>1. \A i \in DOMAIN committed : committed[i] # r
    BY CommittedByIndex
  <2> QED BY <1>1, <1>2, <1>6, <2>1 DEF CommittedOnce
<1> QED BY <1>1, <1>3, <1>4, <1>5, <1>6

-----------------------------------------------------------------------------
(* How the kinds of steps treat the order of the chain. *)

LEMMA Types ==
  ASSUME Inv
  PROVE  /\ call \in [Calls -> CallState] /\ built \in [Records -> BuiltState]
         /\ committed \in Seq(Records) /\ tail \in [Contexts -> Records \cup {Nil}]
         /\ \A r \in Records : r[1] \in Calls /\ r = <<r[1], r[2]>>
                               /\ r[2] \in {"pre", "post"} /\ CtxOf[r[1]] \in Contexts
         /\ Committed \subseteq Records
         /\ Records \cap (Tokens \cup {Nil, Genesis}) = {}
<1>1. committed \in Seq(Records)
  BY DEF Inv, TypeOK
<1>2. Committed \subseteq Records
  BY <1>1 DEF Committed, Range
<1> QED BY <1>1, <1>2 DEF Inv, TypeOK, CallState, BuiltState, Records

\* The order depends on what was built, not on keys or stages, except that calls
\* that have ended stay so.
LEMMA OrderKept ==
  ASSUME Inv, NEW c \in Calls, call[c].stage # "done",
         \A d \in Calls : d # c => call'[d] = call[d],
         \A r \in Records : /\ built'[r].parent = built[r].parent
                            /\ built'[r].seeded = built[r].seeded,
         UNCHANGED <<optionVars, seedConsumed, tail, committed>>,
         overlap \subseteq overlap',
         \A d \in Calls : Active(c)' /\ Active(d) /\ d # c => {c, d} \in overlap'
  PROVE  OrderInv'
<1> USE Types
<1>1. Committed' = Committed /\ \A a, b : Earlier(a, b)' = Earlier(a, b)
  BY DEF Committed, Range, Earlier
<1>2. CommittedOnce' /\ TailLatest'
  BY <1>1 DEF Inv, CommittedOnce, TailLatest, optionVars
<1>3. ParentsKnown' /\ SeedUsed'
  BY <1>1 DEF Inv, ParentsKnown, SeedUsed
<1>4. ParentsCommitted'
  <2>1. \A i \in DOMAIN committed : built'[committed[i]].parent = built[committed[i]].parent
    OBVIOUS
  <2> QED BY <2>1 DEF Inv, ParentsCommitted
<1>5. \A a, b \in Records : After(a, b) => After(a, b)'
  BY <1>1 DEF After, optionVars
<1>6. \A a, b \in Calls : Active(a)' /\ Active(b)' /\ a # b => {a, b} \in overlap'
  <2>1. \A a \in Calls : a # c => Active(a)' = Active(a)
    BY DEF Active
  <2>2. \A a \in Calls : {a, c} = {c, a}
    OBVIOUS
  <2> QED BY <2>1, <2>2 DEF Inv, Sequential
<1>7. ASSUME NEW r \in Records, NEW s \in Records, IsBuilt(r)', IsBuilt(s)',
             r[1] # s[1], {r[1], s[1]} \notin overlap'
      PROVE  After(r, s)' \/ After(s, r)'
  BY <1>5, <1>7 DEF Inv, Sequential, IsBuilt
<1>8. Sequential'
  BY <1>6, <1>7 DEF Sequential
<1> QED BY <1>2, <1>3, <1>4, <1>8 DEF OrderInv

\* A record is built by c, which is active, onto the chain root or its own request.
LEMMA OrderBuilt ==
  ASSUME Inv, NEW c \in Calls, call[c].stage # "done",
         \A d \in Calls : d # c => call'[d] = call[d],
         NEW r \in Records, r[1] = c, ~IsBuilt(r), r \notin Committed,
         NEW parent \in Parents,
         \/ parent = ChainRoot(c)
         \/ /\ parent = <<c, "pre">> /\ parent # r /\ parent \in Committed
            /\ IsBuilt(parent) /\ Active(c),
         Build(r, parent),
         UNCHANGED <<optionVars, seedConsumed, tail, committed>>,
         overlap \subseteq overlap',
         \A d \in Calls : Active(d) /\ d # c => {c, d} \in overlap'
  PROVE  OrderInv'
<1> USE Types
<1>1. Committed' = Committed /\ \A a, b : Earlier(a, b)' = Earlier(a, b)
  BY DEF Committed, Range, Earlier
<1>2. /\ built'[r].parent = parent /\ built'[r].seeded = (hasSeed /\ ~seedConsumed)
      /\ \A q \in Records : q # r => built'[q] = built[q]
  BY DEF Build
<1>3. CommittedOnce' /\ TailLatest'
  BY <1>1 DEF Inv, CommittedOnce, TailLatest, optionVars
<1>4. SeedUsed'
  BY <1>1, <1>2 DEF Inv, SeedUsed
<1>5. parent \in Records => parent \in Committed /\ parent # r
  BY DEF ChainRoot, Inv, TailLatest
<1>6. ParentsKnown'
  BY <1>1, <1>2, <1>5 DEF Inv, ParentsKnown
<1>7. ParentsCommitted'
  <2>1. \A i \in DOMAIN committed : committed[i] \in Records /\ committed[i] # r
    BY CommittedByIndex
  <2> QED BY <1>2, <2>1 DEF Inv, ParentsCommitted
<1>8. ASSUME NEW a \in Records, NEW b \in Records, a # r, b # r, After(a, b)
      PROVE  After(a, b)'
  BY <1>1, <1>2, <1>8 DEF After, optionVars
<1>9. ASSUME NEW q \in Records, IsBuilt(q), q[1] # c, {c, q[1]} \notin overlap'
      PROVE  After(q, r)'
  <2>1. call[q[1]].stage = "done"
    <3>1. call[q[1]].stage # "none"
      <4>1. q = <<q[1], "pre">> \/ q = <<q[1], "post">>
        OBVIOUS
      <4>2. PreFits(q[1]) /\ PostFits(q[1])
        BY DEF Inv, StagesFit
      <4> QED BY <1>9, <4>1, <4>2 DEF PreFits, PostFits
    <3> QED BY <1>9, <3>1 DEF Active
  <2>2. CASE q \notin Committed
    BY <1>1, <1>9, <2>1, <2>2 DEF After
  <2>3. CASE q \in Committed
    <3>1. q # r /\ ~(built'[q].seeded /\ built'[r].seeded)
      BY <1>2, <2>3 DEF Inv, SeedUsed
    <3>2. ASSUME autoChain, CtxOf[q[1]] = CtxOf[c]
          PROVE  parent \in Tokens \/ parent = q \/ Earlier(q, parent)
      <4>1. CASE parent = ChainRoot(c)
        <5>1. tail[CtxOf[c]] = q \/ Earlier(q, tail[CtxOf[c]])
          BY <2>3, <3>2 DEF Inv, TailLatest
        <5>2. tail[CtxOf[c]] # Nil
          BY <5>1 DEF Earlier
        <5> QED BY <3>2, <4>1, <5>1, <5>2 DEF ChainRoot
      <4>2. CASE /\ parent = <<c, "pre">> /\ parent \in Committed
                 /\ IsBuilt(parent) /\ Active(c)
        <5>1. parent \in Records /\ parent[1] = c /\ {q[1], c} = {c, q[1]}
          BY <4>2
        <5>2. After(q, parent) \/ After(parent, q)
          BY <1>9, <4>2, <5>1 DEF Inv, Sequential
        <5>3. ~After(parent, q)
          BY <5>1 DEF After
        <5> QED BY <2>3, <4>2, <5>2, <5>3 DEF After
      <4> QED BY <4>1, <4>2
    <3> QED BY <1>1, <1>2, <1>9, <2>1, <3>1, <3>2 DEF After, optionVars
  <2> QED BY <2>2, <2>3
<1>10. \A a, b \in Calls : Active(a)' /\ Active(b)' /\ a # b => {a, b} \in overlap'
  <2>1. \A a \in Calls : a # c => Active(a)' = Active(a)
    BY DEF Active
  <2>2. \A a \in Calls : {a, c} = {c, a}
    OBVIOUS
  <2> QED BY <2>1, <2>2 DEF Inv, Sequential
<1>11. ASSUME NEW a \in Records, NEW b \in Records, IsBuilt(a)', IsBuilt(b)',
             a[1] # b[1], {a[1], b[1]} \notin overlap'
      PROVE  After(a, b)' \/ After(b, a)'
  <2>1. CASE a = r
    <3>1. b # r /\ IsBuilt(b) /\ b[1] # c
      BY <1>2, <1>11, <2>1 DEF IsBuilt
    <3> QED BY <1>9, <1>11, <2>1, <3>1
  <2>2. CASE b = r
    <3>1. a # r /\ IsBuilt(a) /\ a[1] # c /\ {a[1], c} = {c, a[1]}
      BY <1>2, <1>11, <2>2 DEF IsBuilt
    <3> QED BY <1>9, <1>11, <2>2, <3>1
  <2>3. CASE a # r /\ b # r
    <3>1. IsBuilt(a) /\ IsBuilt(b)
      BY <1>2, <1>11, <2>3 DEF IsBuilt
    <3> QED BY <1>8, <1>11, <2>3, <3>1 DEF Inv, Sequential
  <2> QED BY <2>1, <2>2, <2>3
<1>12. Sequential'
  BY <1>10, <1>11 DEF Sequential
<1> QED BY <1>3, <1>4, <1>6, <1>7, <1>12 DEF OrderInv

\* A record of c is committed while c runs.
LEMMA OrderCommitted ==
  ASSUME Inv, NEW c \in Calls, Active(c),
         \A d \in Calls : d # c => call'[d] = call[d],
         NEW r \in Records, r[1] = c, IsBuilt(r), r \notin Committed,
         Commit(r), UNCHANGED <<optionVars, built, overlap>>
  PROVE  OrderInv'
<1> USE Types
<1>1. /\ committed' = Append(committed, r) /\ committed' \in Seq(Records)
      /\ Committed' = Committed \cup {r}
      /\ \A a, b : Earlier(a, b) => Earlier(a, b)'
      /\ \A a \in Committed : Earlier(a, r)'
      /\ CommittedOnce'
  BY AppendOrder DEF Commit, Inv
<1>2. TailLatest'
  <2>1. CASE autoChain
    <3>1. tail' = [tail EXCEPT ![CtxOf[c]] = r]
      BY <2>1 DEF Commit
    <3>2. \A x \in Contexts : tail'[x] = IF x = CtxOf[c] THEN r ELSE tail[x]
      BY <3>1
    <3>3. ASSUME NEW q \in Committed'
          PROVE  (tail[CtxOf[q[1]]] = q \/ Earlier(q, tail[CtxOf[q[1]]]))'
      <4> DEFINE x == CtxOf[q[1]]
      <4>1. q \in Records /\ x \in Contexts
        BY <1>1
      <4>2. CASE x = CtxOf[c]
        <5>1. tail'[x] = r /\ (q = r \/ Earlier(q, r)')
          BY <1>1, <3>2, <4>1, <4>2
        <5> QED BY <5>1 DEF Earlier
      <4>3. CASE x # CtxOf[c]
        <5>1. tail'[x] = tail[x] /\ q # r /\ q \in Committed
          BY <1>1, <3>2, <4>1, <4>3
        <5>2. tail[x] = q \/ Earlier(q, tail[x])
          BY <2>1, <5>1 DEF Inv, TailLatest
        <5>3. ASSUME NEW b, Earlier(q, b), tail[x] = b
              PROVE  Earlier(q, tail[x])'
          <6>1. Earlier(q, b)'
            BY <1>1, <5>3
          <6> QED BY <5>1, <5>3, <6>1 DEF Earlier
        <5> QED BY <5>1, <5>2, <5>3
      <4> QED BY <4>2, <4>3
    <3>4. \A x \in Contexts : tail'[x] # Nil => tail'[x] \in Committed'
      BY <1>1, <3>2 DEF Inv, TailLatest
    <3> QED BY <3>3, <3>4 DEF TailLatest
  <2>2. CASE ~autoChain
    BY <1>1, <2>2 DEF Commit, Inv, TailLatest, optionVars
  <2> QED BY <2>1, <2>2
<1>3. ParentsKnown' /\ SeedUsed'
  BY <1>1 DEF Inv, ParentsKnown, SeedUsed, Commit
<1>4. ParentsCommitted'
  <2>1. /\ Len(committed) \in Nat /\ DOMAIN committed = 1..Len(committed)
        /\ DOMAIN committed' = 1..(Len(committed) + 1)
        /\ committed'[Len(committed) + 1] = r
        /\ \A i \in 1..Len(committed) : committed'[i] = committed[i]
    BY <1>1
  <2>2. ASSUME NEW i \in DOMAIN committed', built[committed'[i]].parent \in Records
        PROVE  \E j \in 1..(i - 1) : committed'[j] = built[committed'[i]].parent
    <3>1. CASE i \in 1..Len(committed)
      <4>1. PICK j \in 1..(i - 1) : committed[j] = built[committed[i]].parent
        BY <2>1, <2>2, <3>1 DEF Inv, ParentsCommitted
      <4> QED BY <2>1, <3>1, <4>1
    <3>2. CASE i = Len(committed) + 1
      <4>1. built[r].parent \in Committed
        BY <2>1, <2>2, <3>2 DEF Inv, ParentsKnown
      <4>2. PICK j \in DOMAIN committed : committed[j] = built[r].parent
        BY <4>1, CommittedByIndex
      <4> QED BY <2>1, <3>2, <4>2
    <3> QED BY <2>1, <3>1, <3>2
  <2> QED BY <2>2 DEF ParentsCommitted
<1>5. ASSUME NEW a \in Records, NEW b \in Records, After(a, b)
      PROVE  After(a, b)'
  <2>1. call[a[1]].stage = "done" /\ a[1] # c /\ a # r /\ call'[a[1]].stage = "done"
    BY <1>5 DEF After, Active
  <2> QED BY <1>1, <1>5, <2>1 DEF After, optionVars
<1>6. \A a, b \in Calls : Active(a)' /\ Active(b)' /\ a # b => {a, b} \in overlap'
  <2>1. \A a \in Calls : Active(a)' => Active(a)
    BY DEF Active
  <2> QED BY <2>1 DEF Inv, Sequential
<1>7. Sequential'
  BY <1>5, <1>6 DEF Inv, Sequential, IsBuilt
<1> QED BY <1>1, <1>2, <1>3, <1>4, <1>7 DEF OrderInv

-----------------------------------------------------------------------------
(* The stages of a call and its records, step by step. *)

LEMMA StageMoves ==
  ASSUME call \in [Calls -> CallState], NEW c \in Calls, NEW s \in Stages, Stage(c, s)
  PROVE  /\ call' \in [Calls -> CallState]
         /\ call'[c].stage = s /\ call'[c].pre = call[c].pre
         /\ \A d \in Calls : d # c => call'[d] = call[d]
BY DEF Stage, CallState

LEMMA RecordsOf ==
  ASSUME NEW c \in Calls
  PROVE  /\ <<c, "pre">> \in Records /\ <<c, "post">> \in Records
         /\ <<c, "pre">> # <<c, "post">>
         /\ <<c, "pre">>[1] = c /\ <<c, "post">>[1] = c
         /\ \A d \in Calls : d # c =>
              /\ <<d, "pre">> # <<c, "pre">> /\ <<d, "pre">> # <<c, "post">>
              /\ <<d, "post">> # <<c, "pre">> /\ <<d, "post">> # <<c, "post">>
BY DEF Records

\* A step of c keeps the fit of the other calls when it leaves their records alone.
LEMMA OthersFit ==
  ASSUME Inv, NEW c \in Calls, NEW d \in Calls, d # c, call'[d] = call[d],
         built'[<<d, "pre">>] = built[<<d, "pre">>],
         built'[<<d, "post">>] = built[<<d, "post">>],
         <<d, "pre">> \in Committed' <=> <<d, "pre">> \in Committed,
         <<d, "post">> \in Committed' <=> <<d, "post">> \in Committed,
         UNCHANGED optionVars
  PROVE  PreFits(d)' /\ PostFits(d)'
<1>1. PreFits(d) /\ PostFits(d)
  BY DEF Inv, StagesFit
<1>2. PreFits(d)'
  BY <1>1 DEF PreFits, IsBuilt, optionVars
<1>3. PostFits(d)'
  BY <1>1 DEF PostFits, IsBuilt, optionVars
<1> QED BY <1>2, <1>3

\* A step that moves c on without building, signing or committing.
LEMMA MoveKeeps ==
  ASSUME Inv, NEW c \in Calls, call[c].stage # "done", NEW s \in Stages \ {"none"}, Stage(c, s),
         UNCHANGED <<optionVars, seedConsumed, destroyed, tail, built, committed,
                     signingAtDestroy>>,
         cut \subseteq cut', cut' \subseteq Calls,
         overlap \subseteq overlap', overlap' \subseteq SUBSET Calls,
         \A d \in Calls : Active(c)' /\ Active(d) /\ d # c => {c, d} \in overlap',
         s \in {"handler", "done"},
         s = "handler" => call[c].stage \in {"none", "preBuild", "preSign"},
         s = "done" =>
           \/ call[c].stage \in {"postBuild", "postSign"} /\ c \in cut'
           \/ call[c].stage = "handler" /\ (Paired(c) => destroyed)
  PROVE  Inv'
<1> USE Types
<1>1. /\ call' \in [Calls -> CallState]
      /\ call'[c].stage = s /\ call'[c].pre = call[c].pre
      /\ \A d \in Calls : d # c => call'[d] = call[d]
  BY StageMoves
<1>2. Committed' = Committed
  BY DEF Committed, Range
<1>3. TypeOK'
  BY <1>1 DEF Inv, TypeOK, CallState, optionVars
<1>4. PreFits(c) /\ PostFits(c)
  BY DEF Inv, StagesFit
<1>5. StagesFit'
  <2>1. PreFits(c)'
    BY <1>1, <1>2, <1>4 DEF PreFits, IsBuilt, optionVars
  <2>2. PostFits(c)'
    BY <1>1, <1>2, <1>4 DEF PreFits, PostFits, IsBuilt, optionVars
  <2>3. \A d \in Calls : d # c => PreFits(d)' /\ PostFits(d)'
    BY <1>1, <1>2, OthersFit
  <2> QED BY <2>1, <2>2, <2>3 DEF StagesFit
<1>6. RequestAnswered'
  BY <1>1, <1>2, <1>4 DEF Inv, RequestAnswered, PreFits, Paired, optionVars
<1>7. ZeroKeys' /\ ZeroKeyOnlyAcrossDestroy'
  BY <1>1 DEF Inv, ZeroKeys, ZeroKeyOnlyAcrossDestroy, Building
<1>8. OrderInv'
  BY <1>1, OrderKept
<1> QED BY <1>3, <1>5, <1>6, <1>7, <1>8 DEF Inv, OrderInv

\* A record of c is built, for the outcome or before the call.
LEMMA BuildKeeps ==
  ASSUME Inv, NEW c \in Calls, NEW s \in {"preBuild", "postBuild"}, Stage(c, s),
         NEW r, r = <<c, IF s = "preBuild" THEN "pre" ELSE "post">>,
         call[c].stage = IF s = "preBuild" THEN "none" ELSE "handler",
         s = "postBuild" => (call[c].pre => mode = "paired"),
         ~destroyed,
         NEW parent, Build(r, parent),
         parent = IF s = "postBuild" /\ Paired(c) THEN <<c, "pre">> ELSE ChainRoot(c),
         UNCHANGED <<optionVars, seedConsumed, destroyed, tail, committed, cut,
                     signingAtDestroy>>,
         overlap \subseteq overlap', overlap' \subseteq SUBSET Calls,
         \A d \in Calls : Active(d) /\ d # c => {c, d} \in overlap'
  PROVE  Inv'
<1> USE Types, RecordsOf
<1>1. /\ call' \in [Calls -> CallState]
      /\ call'[c].stage = s /\ call'[c].pre = call[c].pre
      /\ \A d \in Calls : d # c => call'[d] = call[d]
  BY StageMoves DEF Stages
<1>2. Committed' = Committed
  BY DEF Committed, Range
<1>3. PreFits(c) /\ PostFits(c)
  BY DEF Inv, StagesFit
<1>4. r \in Records /\ r[1] = c /\ ~IsBuilt(r) /\ r \notin Committed
  BY <1>3 DEF PreFits, PostFits
<1>5. s = "postBuild" /\ Paired(c) =>
        /\ <<c, "pre">> \in Committed /\ IsBuilt(<<c, "pre">>) /\ Active(c)
        /\ parent = <<c, "pre">> /\ parent # r
  BY <1>3 DEF Inv, RequestAnswered, PreFits, Paired, Active
<1>6. ChainRoot(c) \in Parents
  <2>1. CtxOf[c] \in Contexts /\ InboundOf[c] \in Tokens \cup {Nil}
    OBVIOUS
  <2> QED BY <2>1 DEF ChainRoot, Parents
<1>7. parent \in Parents
  BY <1>5, <1>6 DEF Parents
<1>8. parent = ChainRoot(c) \/
        /\ parent = <<c, "pre">> /\ parent # r /\ parent \in Committed
        /\ IsBuilt(parent) /\ Active(c)
  BY <1>5
<1>9. OrderInv'
  BY <1>1, <1>4, <1>7, <1>8, OrderBuilt
<1>10. /\ built' \in [Records -> BuiltState]
       /\ built'[r].parent = parent /\ built'[r].key = "unsigned"
       /\ built'[r].seeded = (hasSeed /\ ~seedConsumed)
       /\ \A q \in Records : q # r => built'[q] = built[q]
  <2>1. [parent |-> parent, seeded |-> hasSeed /\ ~seedConsumed, key |-> "unsigned"]
          \in BuiltState
    BY <1>7 DEF BuiltState, Keys
  <2> QED BY <1>4, <2>1 DEF Build
<1>11. parent # Nil
  BY <1>7 DEF Parents
<1>12. TypeOK'
  BY <1>1, <1>10, <1>11 DEF Inv, TypeOK, CallState, BuiltState, optionVars
<1>13. StagesFit'
  <2>1. \A d \in Calls : d # c => PreFits(d)' /\ PostFits(d)'
    <3>1. ASSUME NEW d \in Calls, d # c
          PROVE  /\ <<d, "pre">> \in Records /\ <<d, "pre">> # r
                 /\ <<d, "post">> \in Records /\ <<d, "post">> # r
      BY <3>1
    <3>2. UNCHANGED optionVars
      OBVIOUS
    <3>3. ASSUME NEW d \in Calls, d # c PROVE PreFits(d)' /\ PostFits(d)'
      <4>1. /\ built'[<<d, "pre">>] = built[<<d, "pre">>]
            /\ built'[<<d, "post">>] = built[<<d, "post">>]
        BY <1>10, <3>1, <3>3
      <4>2. call'[d] = call[d]
        BY <1>1, <3>3
      <4> QED BY <1>2, <3>2, <3>3, <4>1, <4>2, OthersFit
    <3> QED BY <3>3
  <2>2. CASE s = "preBuild"
    <3>1. PreFits(c)'
      BY <1>1, <1>2, <1>3, <1>4, <1>10, <1>11, <2>2 DEF PreFits, IsBuilt, optionVars
    <3>2. PostFits(c)'
      BY <1>1, <1>2, <1>3, <1>4, <1>10, <1>11, <2>2 DEF PreFits, PostFits, IsBuilt, optionVars
    <3> QED BY <2>1, <3>1, <3>2 DEF StagesFit
  <2>3. CASE s = "postBuild"
    <3>1. PreFits(c)'
      <4>1. r = <<c, "post">> /\ built'[<<c, "pre">>] = built[<<c, "pre">>]
        BY <1>10, <2>3
      <4>2. call[c].stage = "handler"
        BY <2>3
      <4> QED BY <1>1, <1>2, <1>3, <2>3, <4>1, <4>2 DEF PreFits, IsBuilt, optionVars
    <3>2. ASSUME call[c].pre
          PROVE  /\ mode = "paired" /\ parent = <<c, "pre">>
                 /\ ~(built'[r].seeded /\ built'[<<c, "pre">>].seeded)
      BY <1>5, <1>10, <2>3, <3>2 DEF Paired, Inv, SeedUsed
    <3>3. PostFits(c)'
      BY <1>1, <1>2, <1>3, <1>4, <1>10, <1>11, <2>3, <3>2 DEF PostFits, IsBuilt, optionVars
    <3> QED BY <2>1, <3>1, <3>3 DEF StagesFit
  <2> QED BY <2>2, <2>3
<1>14. RequestAnswered'
  BY <1>1, <1>2, <1>3 DEF Inv, RequestAnswered, PreFits, optionVars
<1>15. ZeroKeys' /\ ZeroKeyOnlyAcrossDestroy'
  BY <1>10 DEF Inv, ZeroKeys, ZeroKeyOnlyAcrossDestroy
<1> QED BY <1>9, <1>12, <1>13, <1>14, <1>15 DEF Inv, OrderInv

\* The key is read when the record is signed.
LEMMA SignKeeps ==
  ASSUME Inv, NEW c \in Calls, StartSigning(c)
  PROVE  Inv'
<1> USE Types, RecordsOf
<1>1. PICK k \in {"pre", "post"} :
        /\ call[c].stage = IF k = "pre" THEN "preBuild" ELSE "postBuild"
        /\ Stage(c, IF k = "pre" THEN "preSign" ELSE "postSign") /\ Sign(<<c, k>>)
  BY DEF StartSigning
<1> DEFINE r == <<c, k>>
           s == IF k = "pre" THEN "preSign" ELSE "postSign"
<1>2. /\ UNCHANGED <<optionVars, seedConsumed, destroyed, tail, committed, overlap, cut,
                      signingAtDestroy>>
      /\ r \in Records /\ r[1] = c
  BY DEF StartSigning, Records
<1>3. /\ call' \in [Calls -> CallState]
      /\ call'[c].stage = s /\ call'[c].pre = call[c].pre
      /\ \A d \in Calls : d # c => call'[d] = call[d]
  BY <1>1, StageMoves DEF Stages
<1>4. /\ built' \in [Records -> BuiltState]
      /\ built'[r].parent = built[r].parent /\ built'[r].seeded = built[r].seeded
      /\ built'[r].key = (IF destroyed THEN "zero" ELSE "real")
      /\ \A q \in Records : q # r => built'[q] = built[q]
  <2>1. built[r] \in BuiltState
    BY <1>2
  <2> DEFINE key == IF destroyed THEN "zero" ELSE "real"
             x == [built[r] EXCEPT !.key = key]
  <2>2. /\ x \in BuiltState /\ x.key = key
        /\ x.parent = built[r].parent /\ x.seeded = built[r].seeded
    BY <2>1 DEF BuiltState, Keys
  <2>3. built' = [built EXCEPT ![r] = x]
    BY <1>1 DEF Sign
  <2> HIDE DEF r, x
  <2> QED BY <1>2, <2>2, <2>3
<1>5. Committed' = Committed
  BY <1>2 DEF Committed, Range
<1>6. PreFits(c) /\ PostFits(c)
  BY DEF Inv, StagesFit
<1>7. IsBuilt(r)
  BY <1>1, <1>6 DEF PreFits, PostFits
<1>8. TypeOK'
  BY <1>2, <1>3, <1>4, <1>7 DEF Inv, TypeOK, CallState, BuiltState, optionVars, IsBuilt
<1>9. \A q \in Records : built'[q].parent = built[q].parent /\ built'[q].seeded = built[q].seeded
  BY <1>4
<1>10. OrderInv'
  <2>1. \A d \in Calls : Active(c)' /\ Active(d) /\ d # c => {c, d} \in overlap'
    BY <1>1, <1>2 DEF Inv, Sequential, Active
  <2> QED BY <1>1, <1>2, <1>3, <1>9, <2>1, OrderKept
<1>11. StagesFit'
  <2>1. PreFits(c)'
    BY <1>1, <1>2, <1>3, <1>5, <1>6, <1>9 DEF PreFits, IsBuilt, optionVars
  <2>2. PostFits(c)'
    BY <1>1, <1>2, <1>3, <1>5, <1>6, <1>9 DEF PostFits, IsBuilt, optionVars
  <2>3. \A d \in Calls : d # c => PreFits(d)' /\ PostFits(d)'
    <3>1. ASSUME NEW d \in Calls, d # c
          PROVE  /\ <<d, "pre">> \in Records /\ <<d, "pre">> # r
                 /\ <<d, "post">> \in Records /\ <<d, "post">> # r
      BY <3>1
    <3>2. UNCHANGED optionVars
      BY <1>2
    <3> HIDE DEF r
    <3>3. ASSUME NEW d \in Calls, d # c
          PROVE  PreFits(d)' /\ PostFits(d)'
      <4>1. /\ call'[d] = call[d] /\ built'[<<d, "pre">>] = built[<<d, "pre">>]
            /\ built'[<<d, "post">>] = built[<<d, "post">>]
        BY <1>3, <1>4, <3>1, <3>3
      <4> QED BY <1>5, <3>2, <3>3, <4>1, OthersFit
    <3> QED BY <3>3
  <2> QED BY <2>1, <2>2, <2>3 DEF StagesFit
<1>12. RequestAnswered'
  BY <1>1, <1>2, <1>3, <1>5 DEF Inv, RequestAnswered, optionVars
<1>13. ZeroKeyOnlyAcrossDestroy'
  BY <1>1, <1>2, <1>4 DEF Inv, ZeroKeyOnlyAcrossDestroy, ZeroKeys, Building
<1>14. ZeroKeys'
  BY <1>1, <1>2, <1>3, <1>4 DEF Inv, ZeroKeys, Building
<1> QED BY <1>8, <1>10, <1>11, <1>12, <1>13, <1>14 DEF Inv, OrderInv

\* A record of c is committed: the request before the tool runs, or the last record.
LEMMA CommitKeeps ==
  ASSUME Inv, NEW c \in Calls, NEW k \in {"pre", "post"}, Commit(<<c, k>>),
         UNCHANGED <<optionVars, destroyed, built, overlap, cut, signingAtDestroy>>,
         call' \in [Calls -> CallState],
         \A d \in Calls : d # c => call'[d] = call[d],
         \/ /\ k = "pre" /\ mode = "paired" /\ call[c].stage = "preSign"
            /\ call'[c].stage = "handler" /\ call'[c].pre
         \/ /\ k = "pre" /\ mode # "paired" /\ call[c].stage = "handler" /\ call[c].pre
            /\ call'[c].stage = "done" /\ call'[c].pre
         \/ /\ k = "post" /\ call[c].stage = "postSign"
            /\ call'[c].stage = "done" /\ call'[c].pre = call[c].pre
  PROVE  Inv'
<1> USE Types, RecordsOf
<1> DEFINE r == <<c, k>>
<1>1. PreFits(c) /\ PostFits(c)
  BY DEF Inv, StagesFit
<1>2. r \in Records /\ r[1] = c /\ IsBuilt(r) /\ r \notin Committed /\ Active(c)
  BY <1>1 DEF PreFits, PostFits, Active, Records
<1>3. OrderInv'
  BY <1>2, OrderCommitted
<1>4. committed' \in Seq(Records) /\ Committed' = Committed \cup {r}
  BY <1>2, AppendOrder DEF Commit
<1>5. TypeOK'
  <2>1. tail' \in [Contexts -> Records \cup {Nil}]
    BY <1>2 DEF Commit
  <2>2. seedConsumed' \in BOOLEAN
    BY DEF Commit, Inv, TypeOK
  <2> QED BY <1>4, <2>1, <2>2 DEF Inv, TypeOK, CallState, optionVars
<1>6. /\ <<c, "pre">> \in Committed' <=> (k = "pre" \/ <<c, "pre">> \in Committed)
      /\ <<c, "post">> \in Committed' <=> (k = "post" \/ <<c, "post">> \in Committed)
  BY <1>4
<1>7. StagesFit'
  <2>1. PreFits(c)'
    BY <1>1, <1>6 DEF PreFits, IsBuilt, optionVars
  <2>2. PostFits(c)'
    BY <1>1, <1>6 DEF PreFits, PostFits, IsBuilt, optionVars
  <2>3. ASSUME NEW d \in Calls, d # c PROVE PreFits(d)' /\ PostFits(d)'
    <3>1. <<d, "pre">> # r /\ <<d, "post">> # r
      BY <2>3
    <3>2. /\ <<d, "pre">> \in Committed' <=> <<d, "pre">> \in Committed
          /\ <<d, "post">> \in Committed' <=> <<d, "post">> \in Committed
      BY <1>4, <3>1
    <3>3. UNCHANGED <<optionVars, built>>
      OBVIOUS
    <3> QED BY <2>3, <3>2, <3>3, OthersFit
  <2> QED BY <2>1, <2>2, <2>3 DEF StagesFit
<1>8. RequestAnswered'
  <2>1. ASSUME NEW d \in Calls, d # c
        PROVE  /\ <<d, "pre">> \in Committed' <=> <<d, "pre">> \in Committed
               /\ <<d, "post">> \in Committed' <=> <<d, "post">> \in Committed
    <3>1. <<d, "pre">> # r /\ <<d, "post">> # r
      BY <2>1
    <3> QED BY <1>4, <3>1
  <2> QED BY <1>1, <1>6, <2>1 DEF Inv, RequestAnswered, PreFits, optionVars
<1>9. ZeroKeys' /\ ZeroKeyOnlyAcrossDestroy'
  BY DEF Inv, ZeroKeys, ZeroKeyOnlyAcrossDestroy, Building
<1> QED BY <1>3, <1>5, <1>7, <1>8, <1>9 DEF Inv, OrderInv

-----------------------------------------------------------------------------
(* The actions. *)

LEMMA ArriveKeeps ==
  ASSUME Inv, NEW c \in Calls, Arrive(c)
  PROVE  Inv'
<1>1. /\ call[c].stage = "none"
      /\ UNCHANGED <<optionVars, seedConsumed, destroyed, tail, committed, cut, signingAtDestroy>>
      /\ overlap' = overlap \cup {{c, d} : d \in {d \in Calls : Active(d)}}
  BY DEF Arrive
<1>2. /\ overlap \subseteq overlap' /\ overlap' \subseteq SUBSET Calls
      /\ \A d \in Calls : Active(d) => {c, d} \in overlap'
  BY <1>1 DEF Inv, TypeOK
<1>3. CASE mode # "post" /\ ~destroyed
  <2>1. Stage(c, "preBuild") /\ Build(<<c, "pre">>, ChainRoot(c))
    BY <1>3 DEF Arrive
  <2> QED BY <1>1, <1>2, <1>3, <2>1, BuildKeeps
<1>4. CASE ~(mode # "post" /\ ~destroyed)
  <2>1. Stage(c, "handler") /\ UNCHANGED built
    BY <1>4 DEF Arrive
  <2>2. cut' \subseteq Calls /\ cut \subseteq cut'
    BY <1>1 DEF Inv, TypeOK
  <2> QED BY <1>1, <1>2, <2>1, <2>2, MoveKeeps DEF Stages
<1> QED BY <1>3, <1>4

\* An active call overlaps every other active one.
LEMMA Overlapped ==
  ASSUME Inv, NEW c \in Calls, Active(c), UNCHANGED overlap
  PROVE  /\ overlap \subseteq overlap' /\ overlap' \subseteq SUBSET Calls
         /\ \A d \in Calls : Active(d) /\ d # c => {c, d} \in overlap'
BY DEF Inv, TypeOK, Sequential

LEMMA PreSignedKeeps ==
  ASSUME Inv, NEW c \in Calls, PreSigned(c)
  PROVE  Inv'
<1>1. /\ call[c].stage = "preSign"
      /\ call' = [call EXCEPT ![c] = [stage |-> "handler", pre |-> TRUE]]
      /\ UNCHANGED <<optionVars, destroyed, built, overlap, cut, signingAtDestroy>>
  BY DEF PreSigned
<1>2. /\ call' \in [Calls -> CallState] /\ call'[c].stage = "handler" /\ call'[c].pre
      /\ \A d \in Calls : d # c => call'[d] = call[d]
  BY <1>1, Types DEF CallState, Stages
<1>3. CASE mode = "paired"
  <2>1. Commit(<<c, "pre">>)
    BY <1>3 DEF PreSigned
  <2> QED BY <1>1, <1>2, <1>3, <2>1, CommitKeeps
<1>4. CASE mode # "paired"
  <2> USE Types, RecordsOf
  <2>1. UNCHANGED <<committed, tail, seedConsumed>>
    BY <1>4 DEF PreSigned
  <2>2. Committed' = Committed
    BY <2>1 DEF Committed, Range
  <2>3. TypeOK'
    BY <1>1, <1>2, <2>1 DEF Inv, TypeOK, CallState, optionVars
  <2>4. PreFits(c) /\ PostFits(c)
    BY DEF Inv, StagesFit
  <2>5. StagesFit'
    <3>1. PreFits(c)'
      BY <1>1, <1>2, <2>2, <2>4 DEF PreFits, IsBuilt, optionVars
    <3>2. PostFits(c)'
      BY <1>1, <1>2, <2>2, <2>4 DEF PostFits, IsBuilt, optionVars
    <3>3. ASSUME NEW d \in Calls, d # c PROVE PreFits(d)' /\ PostFits(d)'
      BY <1>1, <1>2, <2>2, <3>3, OthersFit
    <3> QED BY <3>1, <3>2, <3>3 DEF StagesFit
  <2>6. RequestAnswered'
    BY <1>1, <1>4 DEF RequestAnswered, optionVars
  <2>7. ZeroKeys' /\ ZeroKeyOnlyAcrossDestroy'
    BY <1>1, <1>2 DEF Inv, ZeroKeys, ZeroKeyOnlyAcrossDestroy, Building
  <2>8. OrderInv'
    <3>1. Active(c)
      BY <1>1 DEF Active
    <3> QED BY <1>1, <1>2, <2>1, <3>1, Overlapped, OrderKept
  <2> QED BY <2>3, <2>5, <2>6, <2>7, <2>8 DEF Inv, OrderInv
<1> QED BY <1>3, <1>4

LEMMA PreFailsKeeps ==
  ASSUME Inv, NEW c \in Calls, PreFails(c)
  PROVE  Inv'
<1>1. /\ call[c].stage \in {"preBuild", "preSign"} /\ Stage(c, "handler") /\ Active(c)
      /\ UNCHANGED <<optionVars, seedConsumed, destroyed, tail, built, committed, overlap, cut,
                      signingAtDestroy>>
  BY DEF PreFails, Active
<1>2. cut \subseteq cut' /\ cut' \subseteq Calls
  BY <1>1 DEF Inv, TypeOK
<1> QED BY <1>1, <1>2, Overlapped, MoveKeeps DEF Stages

LEMMA PostFailsKeeps ==
  ASSUME Inv, NEW c \in Calls, PostFails(c)
  PROVE  Inv'
<1>1. /\ call[c].stage \in {"postBuild", "postSign"} /\ Stage(c, "done") /\ Active(c)
      /\ cut' = cut \cup {c}
      /\ UNCHANGED <<optionVars, seedConsumed, destroyed, tail, built, committed, overlap,
                      signingAtDestroy>>
  BY DEF PostFails, Active
<1>2. cut \subseteq cut' /\ cut' \subseteq Calls /\ c \in cut'
  BY <1>1 DEF Inv, TypeOK
<1> QED BY <1>1, <1>2, Overlapped, MoveKeeps DEF Stages

LEMMA EndKeeps ==
  ASSUME Inv, NEW c \in Calls, call[c].stage = "handler", Paired(c) => destroyed,
         EndCall(c), UNCHANGED <<optionVars, destroyed, overlap, signingAtDestroy>>
  PROVE  Inv'
<1>1. Stage(c, "done") /\ UNCHANGED <<built, committed, tail, seedConsumed, cut>> /\ Active(c)
  BY DEF EndCall, Active
<1>2. cut \subseteq cut' /\ cut' \subseteq Calls
  BY <1>1 DEF Inv, TypeOK
<1> QED BY <1>1, <1>2, Overlapped, MoveKeeps DEF Stages

LEMMA OutcomeKeeps ==
  ASSUME Inv, NEW c \in Calls, call[c].stage = "handler", ~destroyed,
         call[c].pre => Paired(c),
         BuildPost(c), UNCHANGED <<optionVars, destroyed, overlap, signingAtDestroy>>
  PROVE  Inv'
<1>1. /\ Stage(c, "postBuild") /\ UNCHANGED <<committed, tail, seedConsumed, cut>>
      /\ Build(<<c, "post">>, IF Paired(c) THEN <<c, "pre">> ELSE ChainRoot(c))
      /\ Active(c) /\ (call[c].pre => mode = "paired")
  BY DEF BuildPost, Active, Paired
<1> DEFINE parent == IF Paired(c) THEN <<c, "pre">> ELSE ChainRoot(c)
<1>2. Build(<<c, "post">>, parent)
  BY <1>1
<1> HIDE DEF parent
<1>3. parent = IF "postBuild" = "postBuild" /\ Paired(c) THEN <<c, "pre">> ELSE ChainRoot(c)
  BY DEF parent
<1> QED BY <1>1, <1>2, <1>3, Overlapped, BuildKeeps

LEMMA HandlerFailsKeeps ==
  ASSUME Inv, NEW c \in Calls, HandlerFails(c)
  PROVE  Inv'
<1>1. /\ call[c].stage = "handler"
      /\ UNCHANGED <<optionVars, destroyed, overlap, signingAtDestroy>>
  BY DEF HandlerFails
<1>2. CASE Paired(c) /\ ~destroyed
  BY <1>1, <1>2, OutcomeKeeps DEF HandlerFails
<1>3. CASE ~(Paired(c) /\ ~destroyed)
  BY <1>1, <1>3, EndKeeps DEF HandlerFails
<1> QED BY <1>2, <1>3

LEMMA HandlerReturnsKeeps ==
  ASSUME Inv, NEW c \in Calls, HandlerReturns(c)
  PROVE  Inv'
<1>1. /\ call[c].stage = "handler"
      /\ UNCHANGED <<optionVars, destroyed, overlap, signingAtDestroy>>
  BY DEF HandlerReturns
<1>2. CASE destroyed
  BY <1>1, <1>2, EndKeeps DEF HandlerReturns
<1>3. CASE ~destroyed /\ call[c].pre /\ ~Paired(c)
  <2>1. Stage(c, "done") /\ Commit(<<c, "pre">>) /\ UNCHANGED <<built, cut>>
    BY <1>3 DEF HandlerReturns
  <2>2. /\ call' \in [Calls -> CallState]
        /\ call'[c].stage = "done" /\ call'[c].pre = call[c].pre
        /\ \A d \in Calls : d # c => call'[d] = call[d]
    BY <2>1, Types, StageMoves DEF Stages
  <2>3. mode # "paired"
    BY <1>3 DEF Paired
  <2> QED BY <1>1, <1>3, <2>1, <2>2, <2>3, CommitKeeps
<1>4. CASE ~destroyed /\ ~(call[c].pre /\ ~Paired(c))
  BY <1>1, <1>4, OutcomeKeeps DEF HandlerReturns
<1> QED BY <1>2, <1>3, <1>4

LEMMA PostSignedKeeps ==
  ASSUME Inv, NEW c \in Calls, PostSigned(c)
  PROVE  Inv'
<1>1. /\ call[c].stage = "postSign" /\ Stage(c, "done") /\ Commit(<<c, "post">>)
      /\ UNCHANGED <<optionVars, destroyed, built, overlap, cut, signingAtDestroy>>
  BY DEF PostSigned
<1>2. /\ call' \in [Calls -> CallState]
      /\ call'[c].stage = "done" /\ call'[c].pre = call[c].pre
      /\ \A d \in Calls : d # c => call'[d] = call[d]
  BY <1>1, Types, StageMoves DEF Stages
<1> QED BY <1>1, <1>2, CommitKeeps

LEMMA DestroyKeeps ==
  ASSUME Inv, Destroy
  PROVE  Inv'
<1>1. /\ ~destroyed /\ destroyed' = TRUE /\ signingAtDestroy' = {c \in Calls : Building(c)}
      /\ UNCHANGED <<optionVars, seedConsumed, tail, call, built, committed, overlap, cut>>
  BY DEF Destroy
<1>2. TypeOK'
  BY <1>1 DEF Inv, TypeOK, optionVars
<1>3. StagesFit' /\ RequestAnswered'
  BY <1>1 DEF Inv, StagesFit, PreFits, PostFits, RequestAnswered, IsBuilt, Committed, optionVars
<1>4. ZeroKeys' /\ ZeroKeyOnlyAcrossDestroy'
  BY <1>1 DEF Inv, ZeroKeys, ZeroKeyOnlyAcrossDestroy, Building
<1>5. CommittedOnce' /\ ParentsKnown' /\ TailLatest' /\ SeedUsed' /\ ParentsCommitted'
  BY <1>1 DEF Inv, CommittedOnce, ParentsKnown, TailLatest, SeedUsed, ParentsCommitted,
              Committed, Earlier, optionVars
<1>6. Sequential'
  BY <1>1 DEF Inv, Sequential, After, Active, IsBuilt, Committed, Earlier, optionVars
<1> QED BY <1>2, <1>3, <1>4, <1>5, <1>6 DEF Inv

LEMMA StutterKeeps ==
  ASSUME Inv, UNCHANGED vars
  PROVE  Inv'
<1> USE DEF vars, optionVars
<1>1. TypeOK' /\ StagesFit' /\ RequestAnswered'
  BY DEF Inv, TypeOK, StagesFit, PreFits, PostFits, RequestAnswered, IsBuilt, Committed
<1>2. ZeroKeys' /\ ZeroKeyOnlyAcrossDestroy'
  BY DEF Inv, ZeroKeys, ZeroKeyOnlyAcrossDestroy, Building
<1>3. CommittedOnce' /\ ParentsKnown' /\ TailLatest' /\ SeedUsed' /\ ParentsCommitted'
  BY DEF Inv, CommittedOnce, ParentsKnown, TailLatest, SeedUsed, ParentsCommitted,
         Committed, Earlier
<1>4. Sequential'
  BY DEF Inv, Sequential, After, Active, IsBuilt, Committed, Earlier
<1> QED BY <1>1, <1>2, <1>3, <1>4 DEF Inv

-----------------------------------------------------------------------------
(* The theorems. *)

LEMMA InitInv == Init => Inv
<1> SUFFICES ASSUME Init PROVE Inv
  OBVIOUS
<1>1. Committed = {} /\ DOMAIN committed = {}
  BY DEF Init, Committed, Range
<1>2. \A r \in Records : /\ built[r] = NotBuilt /\ built[r].parent = Nil
                         /\ built[r].key = "unsigned"
  BY DEF Init, NotBuilt
<1>3. \A c \in Calls : call[c].stage = "none" /\ ~call[c].pre
  BY DEF Init
<1>4. TypeOK
  <2>1. NotBuilt \in [parent : Parents \cup {Nil}, seeded : BOOLEAN, key : Keys]
    BY DEF NotBuilt, Keys
  <2>2. /\ call \in [Calls -> [stage : Stages, pre : BOOLEAN]]
        /\ committed \in Seq(Records) /\ tail \in [Contexts -> Records \cup {Nil}]
    BY DEF Init, Stages
  <2>3. built \in [Records -> [parent : Parents \cup {Nil}, seeded : BOOLEAN, key : Keys]]
    BY <2>1 DEF Init
  <2> QED BY <1>2, <2>2, <2>3 DEF Init, TypeOK
<1>5. StagesFit /\ RequestAnswered
  BY <1>1, <1>2, <1>3, RecordsOf DEF StagesFit, PreFits, PostFits, RequestAnswered, IsBuilt
<1>6. Nil \notin Records
  BY DEF Records
<1>7. CommittedOnce /\ ParentsKnown /\ TailLatest /\ SeedUsed /\ ParentsCommitted
  BY <1>1, <1>2, <1>6 DEF Init, CommittedOnce, ParentsKnown, TailLatest, SeedUsed, ParentsCommitted
<1>8. Sequential
  BY <1>2, <1>3 DEF Sequential, Active, IsBuilt
<1>9. ZeroKeys /\ ZeroKeyOnlyAcrossDestroy
  BY <1>2 DEF Init, ZeroKeys, ZeroKeyOnlyAcrossDestroy
<1> QED BY <1>4, <1>5, <1>7, <1>8, <1>9 DEF Inv

LEMMA NextInv == Inv /\ [Next]_vars => Inv'
<1> SUFFICES ASSUME Inv, [Next]_vars PROVE Inv'
  OBVIOUS
<1>1. ASSUME NEW c \in Calls,
             \/ Arrive(c) \/ StartSigning(c) \/ PreSigned(c) \/ PreFails(c)
             \/ HandlerFails(c) \/ HandlerReturns(c) \/ PostSigned(c) \/ PostFails(c)
      PROVE  Inv'
  BY <1>1, ArriveKeeps, SignKeeps, PreSignedKeeps, PreFailsKeeps, HandlerFailsKeeps,
     HandlerReturnsKeeps, PostSignedKeeps, PostFailsKeeps
<1> QED BY <1>1, DestroyKeeps, StutterKeeps DEF Next

\* The wrapper of middleware.ts keeps the inductive invariant: which records a call
\* has built and committed at each stage, and in which order calls that did not
\* overlap were chained.
THEOREM Invariance == Spec => []Inv
BY InitInv, NextInv, PTL DEF Spec

\* Every variable of the wrapper keeps its type, and a signed record has a parent.
THEOREM TypeCorrect == Spec => []TypeOK
<1>1. Inv => TypeOK
  BY DEF Inv
<1> QED BY <1>1, Invariance, PTL

\* commitRecord never commits a record before the one it is chained to, and nothing
\* is chained to a record that was dropped.
THEOREM ParentsFirst == Spec => []ParentsCommitted
<1>1. Inv => ParentsCommitted
  BY DEF Inv
<1> QED BY <1>1, Invariance, PTL

\* Two committed records share a parent of the process's own chain, or the seed of
\* the parent process, only when their calls overlapped.
THEOREM ForksExplained == Spec => []ForksOnlyOverlapping
<1>1. ASSUME Inv, NEW r \in Committed, NEW s \in Committed, r[1] # s[1],
             {r[1], s[1]} \notin overlap, After(r, s)
      PROVE  /\ built[r].parent = built[s].parent /\ CtxOf[r[1]] = CtxOf[s[1]] /\ autoChain
                => built[r].parent \in Tokens
             /\ ~(built[r].seeded /\ built[s].seeded)
  <2> USE Types
  <2>1. ASSUME built[r].parent = built[s].parent, CtxOf[r[1]] = CtxOf[s[1]], autoChain,
               built[r].parent \notin Tokens
        PROVE  FALSE
    <3> DEFINE p == built[s].parent
    <3>0. /\ Len(committed) \in Nat /\ DOMAIN committed = 1..Len(committed)
          /\ \A i \in DOMAIN committed : committed[i] \in Records
      BY <1>1
    <3>1. p = r \/ Earlier(r, p)
      BY <1>1, <2>1 DEF After
    <3>2. PICK i \in DOMAIN committed, k \in DOMAIN committed :
            i <= k /\ committed[i] = r /\ committed[k] = p
      <4>1. CASE p = r
        <5>1. PICK i \in DOMAIN committed : committed[i] = r
          BY CommittedByIndex
        <5>2. i <= i
          BY <3>0
        <5> QED BY <4>1, <5>1, <5>2
      <4>2. CASE Earlier(r, p)
        <5>1. PICK i \in DOMAIN committed, k \in DOMAIN committed :
                i < k /\ committed[i] = r /\ committed[k] = p
          BY <4>2 DEF Earlier
        <5>2. i <= k
          BY <3>0, <5>1
        <5> QED BY <5>1, <5>2
      <4> QED BY <3>1, <4>1, <4>2
    <3>3. PICK j \in 1..(i - 1) : committed[j] = p
      <4>1. p \in Records
        BY <3>0, <3>2
      <4>2. built[committed[i]].parent = p
        BY <2>1, <3>2
      <4> QED BY <1>1, <4>1, <4>2 DEF Inv, ParentsCommitted
    <3>4. j \in DOMAIN committed /\ j # k
      BY <3>0, <3>2, <3>3
    <3> QED BY <1>1, <3>2, <3>3, <3>4 DEF Inv, CommittedOnce
  <2> QED BY <1>1, <2>1 DEF After
<1>2. ASSUME Inv, NEW r \in Committed, NEW s \in Committed, r # s, r[1] = s[1]
      PROVE  built[r].parent # built[s].parent /\ ~(built[r].seeded /\ built[s].seeded)
  <2> USE Types
  <2> DEFINE c == r[1]
  <2>1. c \in Calls /\ {r, s} = {<<c, "pre">>, <<c, "post">>}
    <3>1. /\ c \in Calls /\ r = <<c, r[2]>> /\ s = <<c, s[2]>>
          /\ r[2] \in {"pre", "post"} /\ s[2] \in {"pre", "post"}
      BY <1>2
    <3>2. r[2] # s[2]
      BY <1>2, <3>1
    <3>3. \/ r = <<c, "pre">> /\ s = <<c, "post">>
          \/ r = <<c, "post">> /\ s = <<c, "pre">>
      BY <3>1, <3>2
    <3> QED BY <3>1, <3>3
  <2>2. PreFits(c) /\ PostFits(c) /\ <<c, "pre">> \in Committed /\ <<c, "post">> \in Committed
    BY <1>2, <2>1 DEF Inv, StagesFit
  <2>3. /\ built[<<c, "post">>].parent = <<c, "pre">>
        /\ ~(built[<<c, "post">>].seeded /\ built[<<c, "pre">>].seeded)
    BY <2>2 DEF PreFits, PostFits
  <2>4. built[<<c, "pre">>].parent # <<c, "pre">>
    BY <1>2, <2>2 DEF Inv, ParentsKnown
  <2> QED BY <2>1, <2>3, <2>4
<1>3. Inv => ForksOnlyOverlapping
  <2> SUFFICES ASSUME Inv, NEW r \in Committed, NEW s \in Committed, r # s,
                      {r[1], s[1]} \notin overlap
               PROVE  /\ built[r].parent = built[s].parent /\ CtxOf[r[1]] = CtxOf[s[1]]
                         /\ autoChain => built[r].parent \in Tokens
                      /\ ~(built[r].seeded /\ built[s].seeded)
    BY DEF ForksOnlyOverlapping
  <2> USE Types
  <2>1. CASE r[1] = s[1]
    BY <1>2, <2>1
  <2>2. CASE r[1] # s[1]
    <3>1. IsBuilt(r) /\ IsBuilt(s)
      <4>1. ASSUME NEW q \in Committed PROVE IsBuilt(q)
        <5>1. q = <<q[1], "pre">> \/ q = <<q[1], "post">>
          OBVIOUS
        <5>2. PreFits(q[1]) /\ PostFits(q[1])
          BY DEF Inv, StagesFit
        <5> QED BY <5>1, <5>2 DEF PreFits, PostFits
      <4> QED BY <4>1
    <3>2. After(r, s) \/ After(s, r)
      BY <2>2, <3>1 DEF Inv, Sequential
    <3>3. {s[1], r[1]} = {r[1], s[1]}
      OBVIOUS
    <3>4. CASE After(r, s)
      BY <1>1, <2>2, <3>4
    <3>5. CASE After(s, r)
      BY <1>1, <2>2, <3>3, <3>5
    <3> QED BY <3>2, <3>4, <3>5
  <2> QED BY <2>1, <2>2
<1> QED BY <1>3, Invariance, PTL

\* In paired mode a request is committed before its tool runs and gets its outcome,
\* unless the key was destroyed or the outcome could not be signed.
THEOREM RequestsAnswered == Spec => []RequestAnswered
<1>1. Inv => RequestAnswered
  BY DEF Inv
<1> QED BY <1>1, Invariance, PTL

\* The zeroed key signs only for calls that were building a record at destroy().
THEOREM ZeroKeyBounded == Spec => []ZeroKeyOnlyAcrossDestroy
<1>1. Inv => ZeroKeyOnlyAcrossDestroy
  BY DEF Inv
<1> QED BY <1>1, Invariance, PTL
-----------------------------------------------------------------------------
(* MirrorIndex.  Nothing below is about the middleware. *)

HIDE MiddlewareAssumption

-----------------------------------------------------------------------------
(* Largest and least elements. *)

\* A set of naturals with an element has a least one.
LEMMA MinFacts ==
  ASSUME NEW T \in SUBSET Nat, T # {}
  PROVE  Min(T) \in T /\ \A k \in T : Min(T) <= k
<1>1. PICK m \in T : \A k \in T : ~(<<k, m>> \in OpToRel(<, Nat))
  BY WFMin, NatLessThanWellFounded, Zenon
<1>2. \A k \in T : ~(k < m)
  BY <1>1 DEF OpToRel
<1>3. \E i \in T : \A k \in T : i =< k
  BY <1>2
<1> QED BY <1>3 DEF Min

\* A set of naturals with an element and a bound has a largest one.
LEMMA MaxFacts ==
  ASSUME NEW n \in Nat, NEW T \in SUBSET (0..n), T # {}
  PROVE  Max(T) \in T /\ \A k \in T : k <= Max(T)
<1> DEFINE D == {k \in Nat : n - k \in T}
<1>1. D # {}
  <2>1. PICK i \in T : TRUE
    OBVIOUS
  <2>2. n - i \in Nat /\ n - (n - i) = i
    BY <2>1
  <2>3. n - i \in D
    BY <2>1, <2>2
  <2> QED BY <2>3
<1>2. Min(D) \in D /\ \A k \in D : Min(D) <= k
  BY <1>1, MinFacts
<1>3. ASSUME NEW k \in T PROVE k <= n - Min(D)
  <2>1. n - k \in Nat /\ n - (n - k) = k
    OBVIOUS
  <2>2. n - k \in D
    BY <2>1
  <2>3. Min(D) <= n - k /\ Min(D) \in Nat
    BY <1>2, <2>2
  <2> QED BY <2>1, <2>3
<1>4. n - Min(D) \in T
  BY <1>2
<1>5. n - Min(D) \in Nat
  <2>1. \A k \in T : k \in Nat
    OBVIOUS
  <2> QED BY <1>4, <2>1
<1>6. \E i \in T : \A k \in T : i >= k
  BY <1>3, <1>4, <1>5
<1>7. Max(T) \in T /\ \A k \in T : Max(T) >= k
  BY <1>6 DEF Max
<1> QED BY <1>7

LEMMA MaxIs ==
  ASSUME NEW T \in SUBSET Int, NEW m \in T, \A k \in T : k <= m
  PROVE  Max(T) = m
<1>1. m >= m /\ \A k \in T : m >= k
  OBVIOUS
<1>2. Max(T) \in T /\ \A k \in T : Max(T) >= k
  BY <1>1 DEF Max
<1>3. Max(T) >= m /\ m >= Max(T) /\ Max(T) \in Int
  BY <1>1, <1>2
<1> QED BY <1>3

-----------------------------------------------------------------------------
(* The tail of a file, and of a part of it. *)

\* v is the last record in a sequence of lines.
EndsIn(lines, v) ==
  \/ v = 0 /\ \A i \in DOMAIN lines : lines[i] = 0
  \/ \E i \in DOMAIN lines :
       /\ lines[i] = v /\ v # 0
       /\ \A j \in DOMAIN lines : j > i => lines[j] = 0

LEMMA TailOfFacts ==
  ASSUME NEW lines \in Seq(Lines)
  PROVE  TailOf(lines) \in Lines /\ EndsIn(lines, TailOf(lines))
<1> USE MirrorAssumption DEF Lines
<1> DEFINE own == {i \in DOMAIN lines : lines[i] # 0}
<1>1. Len(lines) \in Nat /\ DOMAIN lines = 1..Len(lines) /\ own \in SUBSET (0..Len(lines))
  OBVIOUS
<1>2. CASE own = {}
  BY <1>2 DEF TailOf, EndsIn
<1>3. CASE own # {}
  <2>1. Max(own) \in own /\ \A k \in own : k <= Max(own)
    BY <1>1, <1>3, MaxFacts
  <2>2. TailOf(lines) = lines[Max(own)]
    BY <1>3 DEF TailOf
  <2>3. ASSUME NEW j \in DOMAIN lines, j > Max(own) PROVE lines[j] = 0
    <3>1. ~(j <= Max(own))
      BY <1>1, <2>1, <2>3
    <3>2. j \notin own
      BY <2>1, <3>1
    <3> QED BY <3>2
  <2> HIDE DEF own
  <2>4. Max(own) \in DOMAIN lines /\ lines[Max(own)] # 0
    BY <2>1 DEF own
  <2> QED BY <2>2, <2>3, <2>4 DEF EndsIn
<1> QED BY <1>2, <1>3

LEMMA EndsInOnce ==
  ASSUME NEW lines \in Seq(Lines), NEW v, NEW w, EndsIn(lines, v), EndsIn(lines, w)
  PROVE  v = w
<1>1. DOMAIN lines = 1..Len(lines) /\ Len(lines) \in Nat
  OBVIOUS
<1>2. ASSUME NEW i \in DOMAIN lines, NEW k \in DOMAIN lines,
             lines[i] = v, v # 0, \A j \in DOMAIN lines : j > i => lines[j] = 0,
             lines[k] = w, w # 0, \A j \in DOMAIN lines : j > k => lines[j] = 0
      PROVE  v = w
  BY <1>1, <1>2
<1> QED BY <1>1, <1>2 DEF EndsIn

LEMMA SubSeqFacts ==
  ASSUME NEW lines \in Seq(Lines), NEW a \in Nat, NEW b \in Nat, a <= b, b <= Len(lines)
  PROVE  /\ SubSeq(lines, a + 1, b) \in Seq(Lines)
         /\ DOMAIN SubSeq(lines, a + 1, b) = 1..(b - a)
         /\ \A i \in 1..(b - a) : SubSeq(lines, a + 1, b)[i] = lines[a + i]
<1>1. \A i \in (a + 1)..b : lines[i] \in Lines
  OBVIOUS
<1> QED BY <1>1

\* The part up to b ends in the last record added after a, or in that up to a.
LEMMA TailAdded ==
  ASSUME NEW lines \in Seq(Lines), NEW a \in Nat, NEW b \in Nat, a <= b, b <= Len(lines)
  PROVE  LET added == TailOf(SubSeq(lines, a + 1, b)) IN
         /\ added \in Lines
         /\ TailOf(SubSeq(lines, 1, b)) =
              IF added = 0 THEN TailOf(SubSeq(lines, 1, a)) ELSE added
<1> DEFINE A == SubSeq(lines, 1, a)
           B == SubSeq(lines, 1, b)
           C == SubSeq(lines, a + 1, b)
<1>1. /\ A \in Seq(Lines) /\ DOMAIN A = 1..a /\ \A i \in 1..a : A[i] = lines[i]
      /\ B \in Seq(Lines) /\ DOMAIN B = 1..b /\ \A i \in 1..b : B[i] = lines[i]
  <2>1. a <= Len(lines)
    OBVIOUS
  <2> QED BY <2>1, SubSeqFacts
<1>2. C \in Seq(Lines) /\ DOMAIN C = 1..(b - a) /\ \A i \in 1..(b - a) : C[i] = lines[a + i]
  BY SubSeqFacts
<1> HIDE DEF A, B, C
<1>3. /\ EndsIn(A, TailOf(A)) /\ EndsIn(B, TailOf(B))
      /\ EndsIn(C, TailOf(C)) /\ TailOf(C) \in Lines
  BY <1>1, <1>2, TailOfFacts
<1>4. CASE TailOf(C) = 0
  <2>1. \A i \in 1..(b - a) : C[i] = 0
    BY <1>2, <1>3, <1>4 DEF EndsIn
  <2>2. ASSUME NEW j \in 1..b, j > a PROVE B[j] = 0
    <3>1. j - a \in 1..(b - a) /\ a + (j - a) = j
      BY <2>2
    <3>2. C[j - a] = lines[j]
      BY <1>2, <3>1
    <3> QED BY <1>1, <2>1, <3>1, <3>2
  <2>3. EndsIn(B, TailOf(A))
    <3>1. CASE TailOf(A) = 0 /\ \A i \in DOMAIN A : A[i] = 0
      <4>1. \A i \in DOMAIN B : B[i] = 0
        BY <1>1, <2>2, <3>1
      <4> QED BY <3>1, <4>1 DEF EndsIn
    <3>2. ASSUME NEW i \in DOMAIN A, A[i] = TailOf(A), TailOf(A) # 0,
                 \A j \in DOMAIN A : j > i => A[j] = 0
          PROVE  EndsIn(B, TailOf(A))
      <4>1. i \in DOMAIN B /\ B[i] = TailOf(A)
        BY <1>1, <3>2
      <4>2. \A j \in DOMAIN B : j > i => B[j] = 0
        BY <1>1, <2>2, <3>2
      <4> QED BY <3>2, <4>1, <4>2 DEF EndsIn
    <3> QED BY <1>3, <3>1, <3>2 DEF EndsIn
  <2> QED BY <1>1, <1>3, <1>4, <2>3, EndsInOnce DEF A, B, C
<1>5. CASE TailOf(C) # 0
  <2>1. PICK i \in 1..(b - a) : /\ C[i] = TailOf(C)
                                /\ \A j \in 1..(b - a) : j > i => C[j] = 0
    BY <1>2, <1>3, <1>5 DEF EndsIn
  <2>2. a + i \in 1..b /\ B[a + i] = TailOf(C)
    <3>1. a + i \in 1..b
      OBVIOUS
    <3>2. B[a + i] = lines[a + i] /\ C[i] = lines[a + i]
      BY <1>1, <1>2, <3>1
    <3> QED BY <2>1, <3>1, <3>2
  <2>3. ASSUME NEW j \in 1..b, j > a + i PROVE B[j] = 0
    <3>1. j - a \in 1..(b - a) /\ a + (j - a) = j /\ j - a > i
      BY <2>3
    <3>2. C[j - a] = lines[j] /\ C[j - a] = 0
      BY <1>2, <2>1, <3>1
    <3> QED BY <1>1, <3>2
  <2>4. EndsIn(B, TailOf(C))
    BY <1>1, <1>5, <2>2, <2>3 DEF EndsIn
  <2> QED BY <1>1, <1>3, <1>5, <2>4, EndsInOnce DEF A, B, C
<1> QED BY <1>3, <1>4, <1>5 DEF A, B, C
-----------------------------------------------------------------------------
(* Files. *)

FileState == [ino : Nat, lines : Seq(Lines), torn : BOOLEAN]

ReaderState ==
  [step : Steps, stat : SUBSET Files, snap : [Files -> Fingerprint],
   base : [Files -> Fingerprint], scan : SUBSET Files, tail : Tails,
   found : [Files -> Lines], changed : BOOLEAN,
   round : 0..Max({1, MaxRounds - 1}), reads : 0..MaxReads]

LEMMA MirrorTypes ==
  ASSUME MirrorTypeOK
  PROVE  /\ file \in [Files -> FileState]
         /\ \A f \in Files : file[f].torn => file[f].lines # <<>>
         /\ index \in [made : BOOLEAN, files : [Files -> Fingerprint], tail : Tails]
         /\ reader \in [Readers -> ReaderState]
         /\ writes \in 0..MaxWrites
         /\ seen \in [Readers -> [Files -> SUBSET Lines]]
BY DEF MirrorTypeOK, FileState, ReaderState

LEMMA Halves ==
  ASSUME NEW n \in Nat
  PROVE  /\ n \div 2 \in Nat
         /\ n % 2 = 0 <=> n = 2 * (n \div 2)
         /\ n = 2 * (n \div 2) \/ n = 2 * (n \div 2) + 1
OBVIOUS

\* Only a torn file has an odd size.
LEMMA SizeFacts ==
  ASSUME NEW s \in FileState, s.torn => s.lines # <<>>
  PROVE  /\ Size(s) \in Nat /\ Len(s.lines) \in Nat
         /\ s.torn => Size(s) = 2 * Len(s.lines) - 1
         /\ ~s.torn => Size(s) = 2 * Len(s.lines)
         /\ Size(s) % 2 = 0 => ~s.torn
<1>1. s.lines \in Seq(Lines) /\ s.torn \in BOOLEAN
  BY DEF FileState
<1>2. Len(s.lines) \in Nat /\ (s.torn => Len(s.lines) > 0)
  BY <1>1
<1>3. /\ s.torn => Size(s) = 2 * Len(s.lines) - 1
      /\ ~s.torn => Size(s) = 2 * Len(s.lines)
  <2>1. CASE s.torn
    BY <1>2, <2>1 DEF Size
  <2>2. CASE ~s.torn
    BY <1>2, <2>2 DEF Size
  <2> QED BY <2>1, <2>2
<1>4. Size(s) \in Nat
  BY <1>1, <1>2, <1>3
<1>5. s.torn => Size(s) % 2 # 0
  BY <1>2, <1>3, <1>4, Halves
<1> QED BY <1>2, <1>3, <1>4, <1>5

LEMMA PrefixFacts ==
  ASSUME NEW s \in FileState, s.torn => s.lines # <<>>, NEW n \in Nat, n <= Size(s)
  PROVE  /\ n \div 2 \in Nat /\ n \div 2 <= Len(s.lines)
         /\ Prefix(s, n) \in Seq(Lines) /\ TailOf(Prefix(s, n)) \in Lines
         /\ n = Size(s) /\ n % 2 = 0 => Prefix(s, n) = s.lines
<1>1. s.lines \in Seq(Lines) /\ s.torn \in BOOLEAN
  BY DEF FileState
<1>2. n \div 2 \in Nat /\ n \div 2 <= Len(s.lines)
  <2>1. Len(s.lines) \in Nat /\ Size(s) \in Nat /\ Size(s) <= 2 * Len(s.lines)
    BY <1>1, SizeFacts
  <2> QED BY <2>1, Halves
<1>3. Prefix(s, n) \in Seq(Lines)
  BY <1>1, <1>2, SubSeqFacts DEF Prefix
<1>4. ASSUME n = Size(s), n % 2 = 0 PROVE Prefix(s, n) = s.lines
  <2>1. n \div 2 = Len(s.lines)
    BY <1>1, <1>4, SizeFacts, Halves
  <2>2. SubSeq(s.lines, 1, Len(s.lines)) = s.lines
    BY <1>1
  <2> QED BY <2>1, <2>2 DEF Prefix
<1> QED BY <1>2, <1>3, <1>4, TailOfFacts

LEMMA FileTailsFacts ==
  ASSUME NEW s \in FileState, s.torn => s.lines # <<>>
  PROVE  /\ FileTails(s) \subseteq Lines /\ FileTails(s) # {}
         /\ TailOf(s.lines) \in FileTails(s)
         /\ ~s.torn => FileTails(s) = {TailOf(s.lines)}
<1>1. s.lines \in Seq(Lines) /\ s.torn \in BOOLEAN
  BY DEF FileState
<1>2. s.torn => Front(s.lines) \in Seq(Lines)
  <2>1. ASSUME s.torn PROVE Len(s.lines) \in Nat /\ Len(s.lines) - 1 \in Nat
    BY <1>1, <2>1
  <2> QED BY <1>1, <2>1, SubSeqFacts DEF Front
<1> QED BY <1>1, <1>2, TailOfFacts DEF FileTails

\* How a file changes: it grows, or a new one takes its place.
Grows(old, new) ==
  /\ new.ino # 0
  /\ \/ /\ new.ino = old.ino
        /\ Size(new) > Size(old)
        /\ \A n \in 0..Size(old) : Prefix(new, n) = Prefix(old, n)
     \/ new.ino = old.ino + 1

LEMMA TornFile ==
  ASSUME NEW o \in FileState, NEW line \in Lines
  PROVE  LET s == [o EXCEPT !.lines = Append(@, line), !.torn = TRUE] IN
         /\ s.ino = o.ino /\ s.lines = Append(o.lines, line) /\ s.torn = TRUE
         /\ s \in FileState
<1> DEFINE l == Append(o.lines, line)
           u == [o EXCEPT !.lines = Append(@, line)]
           s == [u EXCEPT !.torn = TRUE]
<1>1. l \in Seq(Lines)
  BY DEF FileState
<1>2. u \in FileState /\ u.ino = o.ino /\ u.lines = l
  BY <1>1 DEF FileState
<1> HIDE DEF u, l
<1>3. s \in FileState /\ s.ino = u.ino /\ s.lines = u.lines /\ s.torn = TRUE
  BY <1>2 DEF FileState
<1>4. [o EXCEPT !.lines = Append(@, line), !.torn = TRUE] = s
  BY DEF u
<1> HIDE DEF s
<1> QED BY <1>2, <1>3, <1>4 DEF l

LEMMA WritesGrow ==
  ASSUME MirrorInv, NEW f \in Files, NEW line \in Lines,
         BeginAppend(f, line) \/ Replace(f, line) \/ EndAppend(f)
  PROVE  \E s \in FileState :
           /\ s.torn => s.lines # <<>>
           /\ Grows(file[f], s) /\ Write(f, s) /\ writes' \in 0..MaxWrites
<1> USE MirrorTypes DEF MirrorInv
<1> DEFINE o == file[f]
<1>1. /\ o \in FileState /\ o.lines \in Seq(Lines) /\ o.torn \in BOOLEAN /\ o.ino \in Nat
      /\ o.torn => o.lines # <<>>
      /\ o.ino = 0 => o.lines = <<>>
  BY DEF FileState, RecordsFit
<1>2. Len(o.lines) \in Nat /\ Size(o) \in Nat
  BY <1>1, SizeFacts
<1>3. writes' \in 0..MaxWrites
  <2>1. writes \in 0..MaxWrites /\ MaxWrites \in Nat
    BY MirrorAssumption
  <2> QED BY <2>1 DEF BeginAppend, Replace, EndAppend
<1>4. CASE BeginAppend(f, line)
  <2> DEFINE s == [o EXCEPT !.lines = Append(@, line), !.torn = TRUE]
  <2>1. o.ino > 0 /\ ~o.torn /\ Write(f, s)
    BY <1>4 DEF BeginAppend
  <2>2. /\ s.ino = o.ino /\ s.lines = Append(o.lines, line) /\ s.torn = TRUE
        /\ s \in FileState
    BY <1>1, TornFile
  <2> HIDE DEF s
  <2>3. s.lines # <<>> /\ Len(s.lines) = Len(o.lines) + 1
    BY <1>1, <2>2
  <2>4. Size(s) = 2 * Len(o.lines) + 1 /\ Size(o) = 2 * Len(o.lines)
    <3>1. s.torn
      BY <2>2
    <3>2. Size(s) = 2 * Len(s.lines) - 1
      BY <2>2, <2>3, <3>1, SizeFacts
    <3>3. Size(o) = 2 * Len(o.lines)
      BY <1>1, <2>1, SizeFacts
    <3> QED BY <1>2, <2>3, <3>2, <3>3
  <2>5. ASSUME NEW n \in 0..Size(o) PROVE Prefix(s, n) = Prefix(o, n)
    <3>1. n \div 2 \in Nat /\ n \div 2 <= Len(o.lines)
      BY <1>1, <1>2, <2>5, PrefixFacts
    <3>2. SubSeq(Append(o.lines, line), 1, n \div 2) = SubSeq(o.lines, 1, n \div 2)
      BY <1>1, <3>1
    <3> QED BY <2>2, <3>2 DEF Prefix
  <2>6. Grows(o, s)
    BY <1>1, <1>2, <2>1, <2>2, <2>4, <2>5 DEF Grows
  <2> QED BY <1>3, <2>1, <2>2, <2>3, <2>6
<1>5. CASE EndAppend(f)
  <2> DEFINE s == [o EXCEPT !.torn = FALSE]
  <2>1. o.torn /\ Write(f, s)
    BY <1>5 DEF EndAppend
  <2>2. s.ino = o.ino /\ s.lines = o.lines /\ s.torn = FALSE /\ s \in FileState
    BY <1>1 DEF FileState
  <2> HIDE DEF s
  <2>3. Size(s) = 2 * Len(o.lines) /\ Size(o) = 2 * Len(o.lines) - 1
    BY <1>1, <1>2, <2>1, <2>2, SizeFacts
  <2>4. \A n \in 0..Size(o) : Prefix(s, n) = Prefix(o, n)
    BY <2>2 DEF Prefix
  <2>5. o.ino # 0
    BY <1>1, <2>1
  <2>6. Grows(o, s)
    BY <1>2, <2>2, <2>3, <2>4, <2>5 DEF Grows
  <2> QED BY <1>3, <2>1, <2>2, <2>6
<1>6. CASE Replace(f, line)
  <2> DEFINE s == [ino |-> o.ino + 1, lines |-> <<line>>, torn |-> FALSE]
  <2>1. Write(f, s)
    BY <1>6 DEF Replace
  <2>2. s \in FileState /\ s.ino = o.ino + 1 /\ s.torn = FALSE
    BY <1>1 DEF FileState
  <2>3. Grows(o, s)
    BY <1>1, <2>2 DEF Grows
  <2> QED BY <1>3, <2>1, <2>2, <2>3
<1> QED BY <1>4, <1>5, <1>6
-----------------------------------------------------------------------------
(* A file is written while readers are under way. *)

\* What the invariant says of one reader.
Knows(p) ==
  /\ TailsSeen(p) /\ ScanningNew(p) /\ Rechecking(p)
  /\ ScanningAll(p) /\ Checking(p) /\ Returned(p)

\* What was recorded of file g is still of an earlier moment, and where the file is
\* still the same the recorded part has not changed.
LEMMA RecordKept ==
  ASSUME MirrorInv, NEW f \in Files, NEW s \in FileState, s.torn => s.lines # <<>>,
         Grows(file[f], s), file' = [file EXCEPT ![f] = s],
         NEW g \in Files, NEW fp \in Fingerprint, Recorded(g, fp)
  PROVE  /\ Recorded(g, fp)'
         /\ fp.ino \in {0, file'[g].ino} =>
              fp.ino \in {0, file[g].ino} /\ TailUpTo(g, fp)' = TailUpTo(g, fp)
         /\ fp = FingerprintOf(file'[g]) => g # f
         /\ fp.ino # file[g].ino => fp.ino # file'[g].ino \/ fp.ino = 0
<1> USE MirrorTypes DEF MirrorInv
<1>1. fp.ino \in Nat /\ fp.size \in Nat
  BY DEF Fingerprint
<1>2. file[g] \in FileState /\ file[g].ino \in Nat /\ (file[g].torn => file[g].lines # <<>>)
      /\ file[f].ino \in Nat
  BY DEF FileState
<1>3. CASE g # f
  <2>1. file'[g] = file[g]
    BY <1>3
  <2> QED BY <1>1, <1>2, <1>3, <2>1 DEF Recorded, TailUpTo
<1>4. CASE g = f
  <2>1. file'[g] = s
    BY <1>4
  <2>2. Size(file[g]) \in Nat /\ Size(s) \in Nat /\ s.ino \in Nat
    BY <1>2, SizeFacts DEF FileState
  <2>3. fp.ino <= file[g].ino /\ (fp.ino = 0 => fp.size = 0)
        /\ (fp.ino = file[g].ino => fp.size <= Size(file[g]))
    BY DEF Recorded
  <2>4. CASE s.ino = file[g].ino /\ Size(s) > Size(file[g])
             /\ \A n \in 0..Size(file[g]) : Prefix(s, n) = Prefix(file[g], n)
    <3>1. Recorded(g, fp)'
      BY <1>1, <2>1, <2>2, <2>3, <2>4 DEF Recorded
    <3>2. ASSUME fp.ino \in {0, s.ino} PROVE TailOf(Prefix(s, fp.size)) = TailUpTo(g, fp)
      <4>1. fp.size \in 0..Size(file[g])
        BY <1>1, <2>2, <2>3, <2>4, <3>2
      <4> QED BY <2>4, <4>1 DEF TailUpTo
    <3>3. fp # FingerprintOf(s)
      <4>1. SUFFICES ASSUME fp = FingerprintOf(s) PROVE FALSE
        OBVIOUS
      <4>2. fp.ino = s.ino /\ fp.size = Size(s)
        BY <4>1 DEF FingerprintOf
      <4> QED BY <1>1, <2>2, <2>3, <2>4, <4>2
    <3> QED BY <2>1, <2>4, <3>1, <3>2, <3>3 DEF TailUpTo
  <2>5. CASE s.ino = file[g].ino + 1
    <3>1. fp.ino < s.ino
      BY <1>1, <1>2, <2>2, <2>3, <2>5
    <3>2. Recorded(g, fp)'
      BY <1>1, <2>1, <2>2, <2>3, <3>1 DEF Recorded
    <3>3. ASSUME fp.ino \in {0, s.ino}
          PROVE  fp.ino = 0 /\ TailOf(Prefix(s, fp.size)) = TailUpTo(g, fp)
      <4>1. fp.ino = 0 /\ fp.size = 0
        BY <1>1, <2>2, <2>3, <3>1, <3>3
      <4>2. Prefix(s, 0) = <<>> /\ Prefix(file[g], 0) = <<>>
        <5>1. 0 \div 2 = 0
          OBVIOUS
        <5>2. s.lines \in Seq(Lines) /\ file[g].lines \in Seq(Lines)
          BY <1>2 DEF FileState
        <5> QED BY <5>1, <5>2 DEF Prefix
      <4> QED BY <4>1, <4>2 DEF TailUpTo
    <3>4. fp # FingerprintOf(s)
      <4>1. FingerprintOf(s).ino = s.ino
        BY DEF FingerprintOf
      <4> QED BY <1>1, <2>2, <3>1, <4>1
    <3> QED BY <1>1, <2>1, <2>2, <3>1, <3>2, <3>3, <3>4 DEF TailUpTo
  <2> QED BY <1>4, <2>4, <2>5 DEF Grows
<1> QED BY <1>3, <1>4

\* A tail that fits the recorded sizes goes on to fit them.
LEMMA FitKept ==
  ASSUME MirrorInv, NEW f \in Files, NEW s \in FileState, s.torn => s.lines # <<>>,
         Grows(file[f], s), file' = [file EXCEPT ![f] = s],
         NEW fps \in [Files -> Fingerprint], \A g \in Files : Recorded(g, fps[g]),
         Current(fps)'
  PROVE  Current(fps) /\ \A t \in Tails : TailFits(fps, t) => TailFits(fps, t)'
<1>1. \A g \in Files : fps[g] \in Fingerprint
  OBVIOUS
<1>2. \A g \in Files : fps[g].ino \in {0, file'[g].ino}
  BY DEF Current
<1>3. \A g \in Files : fps[g].ino \in {0, file[g].ino} /\ TailUpTo(g, fps[g])' = TailUpTo(g, fps[g])
  BY <1>1, <1>2, RecordKept
<1> QED BY <1>3 DEF Current, TailFits

LEMMA FreshKept ==
  ASSUME NEW p \in Readers, Fresh(p), reader'[p].tail = reader[p].tail,
         \A g \in Files : seen[p][g] \subseteq seen'[p][g]
  PROVE  Fresh(p)'
BY DEF Fresh

\* The tails of the new content are seen by the reads under way.
LEMMA ObserveFacts ==
  ASSUME MirrorInv, NEW f \in Files, NEW s \in FileState, s.torn => s.lines # <<>>,
         Observe(f, s), reader' = reader
  PROVE  /\ seen' \in [Readers -> [Files -> SUBSET Lines]]
         /\ \A p \in Readers : ~Reading(p) => seen'[p] = seen[p]
         /\ \A p \in Readers : \A g \in Files : seen[p][g] \subseteq seen'[p][g]
         /\ \A p \in Readers : Reading(p) => FileTails(s) \subseteq seen'[p][f]
<1> USE MirrorTypes DEF MirrorInv
<1>1. FileTails(s) \in SUBSET Lines
  BY FileTailsFacts
<1>2. ASSUME NEW p \in Readers
      PROVE  /\ seen'[p] \in [Files -> SUBSET Lines]
             /\ ~Reading(p) => seen'[p] = seen[p]
             /\ \A g \in Files : seen[p][g] \subseteq seen'[p][g]
             /\ Reading(p) => FileTails(s) \subseteq seen'[p][f]
  <2>1. seen[p] \in [Files -> SUBSET Lines]
    OBVIOUS
  <2>2. CASE Reading(p)
    <3>1. seen'[p] = [seen[p] EXCEPT ![f] = @ \cup FileTails(s)]
      BY <2>2 DEF Observe, Reading
    <3>2. seen'[p][f] = seen[p][f] \cup FileTails(s)
      BY <2>1, <3>1
    <3>3. \A g \in Files : g # f => seen'[p][g] = seen[p][g]
      BY <2>1, <3>1
    <3>4. seen'[p] \in [Files -> SUBSET Lines]
      <4>1. seen[p][f] \cup FileTails(s) \in SUBSET Lines
        BY <1>1, <2>1
      <4> QED BY <2>1, <3>1, <4>1
    <3> QED BY <2>2, <3>2, <3>3, <3>4
  <2>3. CASE ~Reading(p)
    <3>1. seen'[p] = seen[p]
      BY <2>3 DEF Observe, Reading
    <3> QED BY <2>1, <2>3, <3>1
  <2> QED BY <2>2, <2>3
<1>3. seen' \in [Readers -> [Files -> SUBSET Lines]]
  BY <1>2 DEF Observe
<1> QED BY <1>2, <1>3

\* What a reader knows holds for the files as they are after a write.
LEMMA WriteKnows ==
  ASSUME MirrorInv, NEW f \in Files, NEW s \in FileState, s.torn => s.lines # <<>>,
         Grows(file[f], s), Write(f, s), NEW p \in Readers
  PROVE  Knows(p)'
<1>1. /\ MirrorTypeOK /\ Knows(p) /\ reader' = reader
      /\ file' = [file EXCEPT ![f] = s] /\ Observe(f, s)
  BY DEF MirrorInv, Knows, Write
<1>2. PICK r \in ReaderState : r = reader[p] /\ r = reader'[p]
  BY <1>1, MirrorTypes
<1>3. /\ r.snap \in [Files -> Fingerprint] /\ r.base \in [Files -> Fingerprint]
      /\ r.tail \in Tails
      /\ \A g \in Files : Recorded(g, r.snap[g]) /\ Recorded(g, r.base[g])
  BY <1>2 DEF MirrorInv, RecordsFit, ReaderState
<1>4. /\ \A g \in Files : seen[p][g] \subseteq seen'[p][g]
      /\ Reading(p) => FileTails(s) \subseteq seen'[p][f]
  BY <1>1, ObserveFacts
<1>5. /\ file'[f] = s
      /\ \A g \in Files : g # f => file'[g] = file[g]
  BY <1>1, MirrorTypes
<1>6. Fresh(p) => Fresh(p)'
  BY <1>1, <1>4, FreshKept
<1>7. TailsSeen(p)'
  <2>1. SUFFICES ASSUME Reading(p), NEW g \in Files
                 PROVE  /\ FileTails(file'[g]) \subseteq seen'[p][g]
                        /\ g \notin r.stat /\ r.snap[g].ino \in {0, file'[g].ino}
                             /\ r.snap[g].size % 2 = 0
                             => TailUpTo(g, r.snap[g])' \in seen'[p][g]
    BY <1>2, <1>1 DEF TailsSeen, Reading, TailUpTo
  <2>2. FileTails(file'[g]) \subseteq seen'[p][g]
    <3>1. FileTails(file[g]) \subseteq seen[p][g]
      BY <1>1, <2>1 DEF Knows, TailsSeen
    <3> QED BY <1>4, <1>5, <2>1, <3>1
  <2>3. ASSUME g \notin r.stat, r.snap[g].ino \in {0, file'[g].ino}, r.snap[g].size % 2 = 0
        PROVE  TailUpTo(g, r.snap[g])' \in seen'[p][g]
    <3>1. r.snap[g] \in Fingerprint /\ Recorded(g, r.snap[g])
      BY <1>3
    <3>2. r.snap[g].ino \in {0, file[g].ino} /\ TailUpTo(g, r.snap[g])' = TailUpTo(g, r.snap[g])
      BY <1>1, <2>3, <3>1, RecordKept
    <3>3. TailUpTo(g, r.snap[g]) \in seen[p][g]
      BY <1>1, <1>2, <2>1, <2>3, <3>2 DEF Knows, TailsSeen
    <3> QED BY <1>4, <3>2, <3>3
  <2> QED BY <2>2, <2>3
<1>8. ScanningNew(p)'
  <2>1. SUFFICES ASSUME r.step = "scanNew", Current(r.snap)'
                 PROVE  TailFits(ReadUpTo(r), r.tail)'
    BY <1>1, <1>2 DEF Knows, ScanningNew
  <2>2. AppendOnly(r.base, r.snap) /\ (Current(r.snap) => TailFits(ReadUpTo(r), r.tail))
    BY <1>1, <1>2, <2>1 DEF Knows, ScanningNew
  <2>3. Current(r.snap)
    BY <1>1, <1>3, <2>1, FitKept
  <2>4. PICK fps \in [Files -> Fingerprint] : fps = ReadUpTo(r)
    BY <1>3 DEF ReadUpTo
  <2>5. \A g \in Files : fps[g] = r.base[g] \/ fps[g] = r.snap[g]
    BY <2>4 DEF ReadUpTo
  <2>6. \A g \in Files : Recorded(g, fps[g])
    BY <1>3, <2>5
  <2>7. Current(fps)'
    BY <2>1, <2>2, <2>5 DEF Current, AppendOnly
  <2>8. TailFits(fps, r.tail)'
    BY <1>1, <1>3, <2>2, <2>3, <2>4, <2>6, <2>7, FitKept
  <2> QED BY <2>4, <2>8
<1>9. Rechecking(p)'
  <2>1. SUFFICES ASSUME r.step = "again"
                 PROVE  /\ WholeLines(r.base)
                        /\ Current(r.base)' => TailFits(r.base, r.tail)'
                        /\ Fresh(p)' \/ \E g \in Files : Replaced(r, g)'
    BY <1>2 DEF Rechecking, WholeLines
  <2>2. /\ WholeLines(r.base) /\ (Current(r.base) => TailFits(r.base, r.tail))
        /\ Fresh(p) \/ \E g \in Files : Replaced(r, g)
    BY <1>1, <1>2, <2>1 DEF Knows, Rechecking
  <2>3. Current(r.base)' => TailFits(r.base, r.tail)'
    BY <1>1, <1>3, <2>2, FitKept
  <2>4. ASSUME NEW g \in Files, Replaced(r, g) PROVE Replaced(r, g)'
    <3>1. r.base[g] \in Fingerprint /\ Recorded(g, r.base[g])
      BY <1>3
    <3> QED BY <1>1, <2>4, <3>1, RecordKept DEF Replaced
  <2> QED BY <1>6, <2>2, <2>3, <2>4
<1>10. ScanningAll(p)'
  <2>1. SUFFICES ASSUME r.step = "scanAll", NEW g \in Files \ r.scan
                 PROVE  /\ r.found[g] \in seen'[p][g]
                        /\ r.snap[g] = FingerprintOf(file'[g]) /\ r.snap[g].size % 2 = 0
                             => r.found[g] = TailUpTo(g, r.snap[g])'
    BY <1>1, <1>2 DEF Knows, ScanningAll
  <2>2. /\ r.found[g] \in seen[p][g]
        /\ r.snap[g] = FingerprintOf(file[g]) /\ r.snap[g].size % 2 = 0
             => r.found[g] = TailUpTo(g, r.snap[g])
    BY <1>1, <1>2, <2>1 DEF Knows, ScanningAll
  <2>3. ASSUME r.snap[g] = FingerprintOf(file'[g]) PROVE file'[g] = file[g]
    <3>1. r.snap[g] \in Fingerprint /\ Recorded(g, r.snap[g])
      BY <1>3
    <3> QED BY <1>1, <1>5, <2>3, <3>1, RecordKept
  <2> QED BY <1>4, <2>2, <2>3 DEF TailUpTo
<1>11. Checking(p)'
  <2>1. SUFFICES ASSUME r.step = "check"
                 PROVE  /\ Fresh(p)'
                        /\ Current(r.base)' /\ WholeLines(r.base)
                             /\ (\A g \in Files : Unmoved(r, g)')
                             => TailFits(r.base, r.tail)'
    BY <1>2 DEF Checking, WholeLines
  <2>2. /\ Fresh(p)
        /\ Current(r.base) /\ WholeLines(r.base) /\ (\A g \in Files : Unmoved(r, g))
             => TailFits(r.base, r.tail)
    BY <1>1, <1>2, <2>1 DEF Knows, Checking
  <2>3. ASSUME NEW g \in Files, Unmoved(r, g)' PROVE Unmoved(r, g)
    <3>1. r.base[g] \in Fingerprint /\ Recorded(g, r.base[g])
      BY <1>3
    <3>2. r.base[g] = FingerprintOf(file'[g]) => file'[g] = file[g]
      BY <1>1, <1>5, <3>1, RecordKept
    <3> QED BY <2>3, <3>2 DEF Unmoved
  <2>4. ASSUME Current(r.base)', WholeLines(r.base), \A g \in Files : Unmoved(r, g)'
        PROVE  TailFits(r.base, r.tail)'
    <3>1. Current(r.base) /\ \A t \in Tails : TailFits(r.base, t) => TailFits(r.base, t)'
      BY <1>1, <1>3, <2>4, FitKept
    <3> QED BY <1>3, <2>2, <2>3, <2>4, <3>1
  <2> QED BY <1>6, <2>2, <2>4
<1>12. Returned(p)'
  BY <1>1, <1>6 DEF Knows, Returned
<1> QED BY <1>7, <1>8, <1>9, <1>10, <1>11, <1>12 DEF Knows

\* An append, the end of one, or a replacement keeps the invariant.
LEMMA WriteKeeps ==
  ASSUME MirrorInv, NEW f \in Files, NEW s \in FileState, s.torn => s.lines # <<>>,
         Grows(file[f], s), Write(f, s), writes' \in 0..MaxWrites
  PROVE  MirrorInv'
<1>1. /\ MirrorTypeOK /\ RecordsFit /\ IndexKnown /\ reader' = reader /\ index' = index
      /\ file' = [file EXCEPT ![f] = s] /\ Observe(f, s)
  BY DEF MirrorInv, Write
<1>2. /\ file'[f] = s
      /\ \A g \in Files : g # f => file'[g] = file[g]
      /\ file' \in [Files -> FileState]
  BY <1>1, MirrorTypes
<1>3. MirrorTypeOK'
  <2>1. seen' \in [Readers -> [Files -> SUBSET Lines]]
    BY <1>1, ObserveFacts
  <2>2. \A g \in Files : file'[g].torn => file'[g].lines # <<>>
    BY <1>1, <1>2, MirrorTypes
  <2> QED BY <1>1, <1>2, <2>1, <2>2 DEF MirrorTypeOK, FileState
<1>4. RecordsFit'
  <2>1. \A g \in Files : file'[g].ino = 0 => file'[g].lines = <<>>
    BY <1>1, <1>2 DEF RecordsFit, Grows
  <2>2. \A g \in Files : index.files[g] \in Fingerprint /\ Recorded(g, index.files[g])
    BY <1>1, MirrorTypes DEF RecordsFit
  <2>3. \A g \in Files, fp \in Fingerprint : Recorded(g, fp) => Recorded(g, fp)'
    BY <1>1, RecordKept
  <2>4. PICK fps \in [Files -> Fingerprint] : fps = index.files /\ fps = index'.files
    BY <1>1, MirrorTypes
  <2>5. \A g \in Files : Recorded(g, fps[g])'
    BY <2>2, <2>3, <2>4
  <2>6. ASSUME NEW p \in Readers, NEW g \in Files
        PROVE  Recorded(g, reader[p].snap[g])' /\ Recorded(g, reader[p].base[g])'
    <3>1. PICK r \in ReaderState : r = reader[p] /\ r = reader'[p]
      BY <1>1, MirrorTypes
    <3>2. /\ r.snap[g] \in Fingerprint /\ r.base[g] \in Fingerprint
          /\ Recorded(g, r.snap[g]) /\ Recorded(g, r.base[g])
      BY <1>1, <3>1 DEF RecordsFit, ReaderState
    <3>3. Recorded(g, r.snap[g])' /\ Recorded(g, r.base[g])'
      BY <2>3, <3>2
    <3> QED BY <3>1, <3>3
  <2>7. \A g \in Files : Recorded(g, index.files[g])'
    BY <2>4, <2>5
  <2> QED BY <2>1, <2>6, <2>7 DEF RecordsFit
<1>5. IndexKnown'
  <2>1. PICK i \in [made : BOOLEAN, files : [Files -> Fingerprint], tail : Tails] :
          i = index /\ i = index'
    BY <1>1, MirrorTypes
  <2>2. i.files \in [Files -> Fingerprint] /\ i.tail \in Tails
        /\ \A g \in Files : Recorded(g, i.files[g])
    BY <1>1, <2>1 DEF RecordsFit
  <2>3. i.made => WholeLines(i.files) /\ (Current(i.files) => TailFits(i.files, i.tail))
    BY <1>1, <2>1 DEF IndexKnown
  <2>4. Current(i.files)' => Current(i.files)
                             /\ (TailFits(i.files, i.tail) => TailFits(i.files, i.tail)')
    BY <1>1, <2>2, FitKept
  <2> QED BY <2>1, <2>3, <2>4 DEF IndexKnown, WholeLines
<1>6. \A p \in Readers : Knows(p)'
  BY WriteKnows
<1> QED BY <1>3, <1>4, <1>5, <1>6 DEF MirrorInv, Knows
-----------------------------------------------------------------------------
(* A step of a reader: the files stay, and what the invariant says of the     *)
(* reader is put in terms of its new state x and of the tails s it has seen.  *)

FreshOf(s, rec) == \E had \in [Files -> Lines] : (\A f \in Files : had[f] \in s[f]) /\ Latest(had, rec)

SeenOf(x, s) ==
  x.step \notin {"idle", "done"} => \A f \in Files :
    /\ FileTails(file[f]) \subseteq s[f]
    /\ f \notin x.stat /\ x.snap[f].ino \in {0, file[f].ino} /\ x.snap[f].size % 2 = 0
         => TailUpTo(f, x.snap[f]) \in s[f]

NewOf(x) ==
  x.step = "scanNew" =>
    /\ x.stat = {} /\ x.scan \subseteq Changes(x.base, x.snap)
    /\ AppendOnly(x.base, x.snap)
    /\ WholeLines(x.base) /\ WholeLines(ReadUpTo(x))
    /\ Current(x.snap) => TailFits(ReadUpTo(x), x.tail)

AgainOf(x, s) ==
  x.step = "again" =>
    /\ WholeLines(x.base)
    /\ Current(x.base) => TailFits(x.base, x.tail)
    /\ FreshOf(s, x.tail.rec) \/ \E f \in Files : Replaced(x, f)

AllOf(x, s) ==
  x.step = "scanAll" =>
    /\ x.stat # {} => x.scan = Files
    /\ \A f \in Files \ x.scan :
         /\ x.found[f] \in s[f]
         /\ x.snap[f] = FingerprintOf(file[f]) /\ x.snap[f].size % 2 = 0
              => x.found[f] = TailUpTo(f, x.snap[f])

CheckOf(x, s) ==
  x.step = "check" =>
    /\ FreshOf(s, x.tail.rec)
    /\ Current(x.base) /\ WholeLines(x.base) /\ (\A f \in Files : Unmoved(x, f))
         => TailFits(x.base, x.tail)

KnowsOf(x, s) ==
  /\ SeenOf(x, s) /\ NewOf(x) /\ AgainOf(x, s) /\ AllOf(x, s) /\ CheckOf(x, s)
  /\ x.step = "done" => FreshOf(s, x.tail.rec)
  /\ \A f \in Files : Recorded(f, x.snap[f]) /\ Recorded(f, x.base[f])

IndexOf(i) ==
  /\ \A f \in Files : Recorded(f, i.files[f])
  /\ i.made => WholeLines(i.files) /\ (Current(i.files) => TailFits(i.files, i.tail))

LEMMA KnowsIs ==
  ASSUME MirrorInv, NEW p \in Readers
  PROVE  /\ KnowsOf(reader[p], seen[p]) /\ IndexOf(index)
         /\ reader[p] \in ReaderState /\ seen[p] \in [Files -> SUBSET Lines]
         /\ index \in [made : BOOLEAN, files : [Files -> Fingerprint], tail : Tails]
<1>1. /\ reader[p] \in ReaderState /\ seen[p] \in [Files -> SUBSET Lines]
      /\ index \in [made : BOOLEAN, files : [Files -> Fingerprint], tail : Tails]
  BY MirrorTypes DEF MirrorInv
<1>2. SeenOf(reader[p], seen[p])
  BY DEF MirrorInv, TailsSeen, Reading, SeenOf
<1>3. NewOf(reader[p])
  BY DEF MirrorInv, ScanningNew, NewOf
<1>4. AgainOf(reader[p], seen[p])
  BY DEF MirrorInv, Rechecking, AgainOf, Fresh, FreshOf
<1>5. AllOf(reader[p], seen[p])
  BY DEF MirrorInv, ScanningAll, AllOf
<1>6. CheckOf(reader[p], seen[p])
  BY DEF MirrorInv, Checking, CheckOf, Fresh, FreshOf
<1>7. reader[p].step = "done" => FreshOf(seen[p], reader[p].tail.rec)
  BY DEF MirrorInv, Returned, Fresh, FreshOf
<1>8. /\ \A f \in Files : Recorded(f, reader[p].snap[f]) /\ Recorded(f, reader[p].base[f])
      /\ IndexOf(index)
  BY DEF MirrorInv, RecordsFit, IndexKnown, IndexOf
<1> QED BY <1>1, <1>2, <1>3, <1>4, <1>5, <1>6, <1>7, <1>8 DEF KnowsOf

\* What holds of the new state of a reader, in files that stay, is known after the step.
LEMMA KnowsNext ==
  ASSUME NEW p \in Readers, NEW x, NEW s, reader'[p] = x, seen'[p] = s, file' = file, KnowsOf(x, s)
  PROVE  /\ Knows(p)'
         /\ \A f \in Files : Recorded(f, reader'[p].snap[f]) /\ Recorded(f, reader'[p].base[f])
<1>1. TailsSeen(p)'
  BY DEF KnowsOf, SeenOf, TailsSeen, Reading, TailUpTo
<1>2. ScanningNew(p)'
  BY DEF KnowsOf, NewOf, ScanningNew, Current, TailFits, TailUpTo
<1>3. Rechecking(p)'
  BY DEF KnowsOf, AgainOf, Rechecking, Current, TailFits, TailUpTo, Fresh, FreshOf, Replaced
<1>4. ScanningAll(p)'
  BY DEF KnowsOf, AllOf, ScanningAll, TailUpTo
<1>5. Checking(p)'
  BY DEF KnowsOf, CheckOf, Checking, Current, TailFits, TailUpTo, Fresh, FreshOf, Unmoved
<1>6. Returned(p)'
  BY DEF KnowsOf, Returned, Fresh, FreshOf
<1>7. \A f \in Files : Recorded(f, reader'[p].snap[f]) /\ Recorded(f, reader'[p].base[f])
  BY DEF KnowsOf
<1> QED BY <1>1, <1>2, <1>3, <1>4, <1>5, <1>6, <1>7 DEF Knows

\* One reader moves, and may write the index file; the others know what they knew.
LEMMA ReaderKeeps ==
  ASSUME MirrorInv, NEW p \in Readers, NEW x \in ReaderState, NEW s \in [Files -> SUBSET Lines],
         NEW i \in [made : BOOLEAN, files : [Files -> Fingerprint], tail : Tails],
         Reader(p, x), seen' = [seen EXCEPT ![p] = s], index' = i, UNCHANGED <<file, writes>>,
         KnowsOf(x, s), IndexOf(i)
  PROVE  MirrorInv'
<1>1. /\ reader \in [Readers -> ReaderState] /\ seen \in [Readers -> [Files -> SUBSET Lines]]
      /\ reader' = [reader EXCEPT ![p] = x] /\ file' = file
  BY MirrorTypes DEF MirrorInv, Reader
<1>2. MirrorTypeOK'
  <2>1. reader' \in [Readers -> ReaderState] /\ seen' \in [Readers -> [Files -> SUBSET Lines]]
    BY <1>1
  <2> QED BY <2>1, MirrorTypes DEF MirrorInv, MirrorTypeOK, ReaderState
<1>3. ASSUME NEW q \in Readers
      PROVE  /\ Knows(q)'
             /\ \A f \in Files : Recorded(f, reader'[q].snap[f]) /\ Recorded(f, reader'[q].base[f])
  <2>1. CASE q = p
    <3>1. reader'[q] = x /\ seen'[q] = s
      BY <1>1, <2>1
    <3> QED BY <1>1, <3>1, KnowsNext
  <2>2. CASE q # p
    <3>1. reader'[q] = reader[q] /\ seen'[q] = seen[q]
      BY <1>1, <2>2
    <3>2. KnowsOf(reader[q], seen[q])
      BY KnowsIs
    <3>3. PICK r, t : r = reader[q] /\ t = seen[q] /\ r = reader'[q] /\ t = seen'[q]
      BY <3>1
    <3> QED BY <1>1, <3>2, <3>3, KnowsNext
  <2> QED BY <2>1, <2>2
<1>4. RecordsFit'
  <2>1. \A f \in Files : file[f].ino = 0 => file[f].lines = <<>>
    BY DEF MirrorInv, RecordsFit
  <2>2. ASSUME NEW q \in Readers, NEW f \in Files
        PROVE  Recorded(f, reader[q].snap[f])' /\ Recorded(f, reader[q].base[f])'
    BY <1>1, <1>3 DEF Recorded
  <2>3. \A f \in Files : Recorded(f, index.files[f])'
    BY <1>1 DEF IndexOf, Recorded
  <2> QED BY <1>1, <2>1, <2>2, <2>3 DEF RecordsFit
<1>5. IndexKnown'
  BY <1>1 DEF IndexOf, IndexKnown, Current, WholeLines, TailFits, TailUpTo
<1> QED BY <1>2, <1>3, <1>4, <1>5 DEF MirrorInv, Knows
-----------------------------------------------------------------------------
(* The states a reader's step ends in. *)

LEMMA RoundFacts ==
  /\ Max({1, MaxRounds - 1}) \in Nat
  /\ 1 <= Max({1, MaxRounds - 1}) /\ MaxRounds - 1 <= Max({1, MaxRounds - 1})
<1>1. MaxRounds \in Nat /\ MaxRounds - 1 \in Nat
  BY MirrorAssumption
<1>2. CASE MaxRounds - 1 <= 1
  <2>1. Max({1, MaxRounds - 1}) = 1
    BY <1>1, <1>2, MaxIs
  <2> QED BY <1>2, <2>1
<1>3. CASE ~(MaxRounds - 1 <= 1)
  <2>1. \A k \in {1, MaxRounds - 1} : k <= MaxRounds - 1
    BY <1>1, <1>3
  <2>2. {1, MaxRounds - 1} \in SUBSET Int
    BY <1>1
  <2>3. Max({1, MaxRounds - 1}) = MaxRounds - 1
    BY <2>1, <2>2, MaxIs
  <2> QED BY <1>1, <1>3, <2>3
<1> QED BY <1>2, <1>3

Nothing == [f \in Files |-> Absent]

LEMMA IdleFacts ==
  ASSUME NEW n \in 0..MaxReads
  PROVE  /\ Idle(n) \in ReaderState
         /\ Idle(n).step = "idle" /\ Idle(n).stat = {} /\ Idle(n).snap = Nothing
         /\ Idle(n).base = Nothing /\ Idle(n).scan = {} /\ Idle(n).tail = NoTail
         /\ Idle(n).found = [f \in Files |-> 0] /\ Idle(n).changed = FALSE
         /\ Idle(n).round = 0 /\ Idle(n).reads = n
<1>1. Nothing \in [Files -> Fingerprint]
  BY DEF Nothing, Absent, Fingerprint
<1>2. NoTail \in Tails /\ [f \in Files |-> 0] \in [Files -> Lines]
  BY MirrorAssumption DEF NoTail, Tails, Lines
<1>3. 0 \in 0..Max({1, MaxRounds - 1})
  BY RoundFacts
<1> QED BY <1>1, <1>2, <1>3 DEF Idle, ReaderState, Steps, Nothing

LEMMA SnapshotFacts ==
  ASSUME NEW r \in ReaderState, NEW step \in Steps, NEW x, x = Snapshot(r, step)
  PROVE  /\ x \in ReaderState
         /\ x.step = step /\ x.stat = Files /\ x.snap = Nothing
         /\ x.base = r.base /\ x.scan = r.scan /\ x.tail = r.tail /\ x.found = r.found
         /\ x.changed = r.changed /\ x.round = r.round /\ x.reads = r.reads
<1>1. Nothing \in [Files -> Fingerprint]
  BY DEF Nothing, Absent, Fingerprint
<1> QED BY <1>1 DEF Snapshot, ReaderState, Nothing

\* A file that was not there is of an earlier moment.
LEMMA AbsentFacts ==
  ASSUME MirrorInv, NEW f \in Files
  PROVE  /\ file[f] \in FileState /\ (file[f].torn => file[f].lines # <<>>)
         /\ file[f].ino \in Nat /\ Size(file[f]) \in Nat
         /\ Recorded(f, Nothing[f]) /\ Nothing[f].ino = 0 /\ Nothing[f].size = 0
<1>1. /\ file[f] \in FileState /\ (file[f].torn => file[f].lines # <<>>)
      /\ file[f].ino \in Nat
  BY MirrorTypes DEF MirrorInv, FileState
<1>2. Size(file[f]) \in Nat
  BY <1>1, SizeFacts
<1>3. Nothing[f].ino = 0 /\ Nothing[f].size = 0
  BY DEF Nothing, Absent
<1> QED BY <1>1, <1>2, <1>3 DEF Recorded

LEMMA FullScanFacts ==
  ASSUME MirrorInv, NEW r \in ReaderState, NEW s \in [Files -> SUBSET Lines],
         \A f \in Files : FileTails(file[f]) \subseteq s[f],
         NEW n \in 0..1, NEW x, x = [FullScan(r) EXCEPT !.round = n]
  PROVE  x \in ReaderState /\ KnowsOf(x, s)
<1> DEFINE i == Idle(r.reads)
           u == Snapshot(i, "scanAll")
           y == [u EXCEPT !.scan = Files]
<1>1. r.reads \in 0..MaxReads
  BY DEF ReaderState
<1>2. i \in ReaderState /\ i.base = Nothing
  BY <1>1, IdleFacts
<1> HIDE DEF i
<1>3. u \in ReaderState /\ u.step = "scanAll" /\ u.stat = Files /\ u.snap = Nothing /\ u.base = Nothing
  BY <1>2, SnapshotFacts DEF Steps
<1> HIDE DEF u
<1>4. /\ y \in ReaderState /\ y.step = "scanAll" /\ y.stat = Files /\ y.snap = Nothing
      /\ y.base = Nothing /\ y.scan = Files
  BY <1>3 DEF ReaderState
<1> HIDE DEF y
<1>5. n \in 0..Max({1, MaxRounds - 1})
  BY RoundFacts
<1>6. x = [y EXCEPT !.round = n]
  BY DEF y, u, i, FullScan
<1>7. /\ x \in ReaderState /\ x.step = "scanAll" /\ x.stat = Files /\ x.snap = Nothing
      /\ x.base = Nothing /\ x.scan = Files
  BY <1>4, <1>5, <1>6 DEF ReaderState
<1>8. \A f \in Files : Recorded(f, x.snap[f]) /\ Recorded(f, x.base[f])
  BY <1>7, AbsentFacts
<1>9. SeenOf(x, s) /\ AllOf(x, s)
  BY <1>7 DEF SeenOf, AllOf
<1>10. NewOf(x) /\ AgainOf(x, s) /\ CheckOf(x, s)
  BY <1>7 DEF NewOf, AgainOf, CheckOf
<1> QED BY <1>7, <1>8, <1>9, <1>10 DEF KnowsOf

\* The round of a scan that begins is zero.
LEMMA FullScanFirst ==
  ASSUME NEW r \in ReaderState
  PROVE  FullScan(r) = [FullScan(r) EXCEPT !.round = 0]
<1> DEFINE i == Idle(r.reads)
           u == Snapshot(i, "scanAll")
           y == [u EXCEPT !.scan = Files]
<1>1. r.reads \in 0..MaxReads
  BY DEF ReaderState
<1>2. i \in ReaderState /\ i.round = 0
  BY <1>1, IdleFacts
<1> HIDE DEF i
<1>3. u \in ReaderState /\ u.round = 0
  BY <1>2, SnapshotFacts DEF Steps
<1> HIDE DEF u
<1>4. y \in ReaderState /\ y.round = 0
  BY <1>3 DEF ReaderState
<1>5. y = FullScan(r)
  BY DEF u, i, FullScan
<1> HIDE DEF y
<1>6. y = [y EXCEPT !.round = 0]
  BY <1>4 DEF ReaderState
<1> QED BY <1>5, <1>6

LEMMA ReturnFacts ==
  ASSUME MirrorInv, NEW r \in ReaderState, NEW s \in [Files -> SUBSET Lines],
         FreshOf(s, r.tail.rec), NEW x, x = Return(r)
  PROVE  x \in ReaderState /\ KnowsOf(x, s)
<1> DEFINE i == Idle(r.reads)
           u == [i EXCEPT !.step = "done"]
<1>1. r.reads \in 0..MaxReads /\ r.tail \in Tails
  BY DEF ReaderState
<1>2. i \in ReaderState /\ i.base = Nothing /\ i.snap = Nothing
  BY <1>1, IdleFacts
<1> HIDE DEF i
<1>3. u \in ReaderState /\ u.step = "done" /\ u.base = Nothing /\ u.snap = Nothing
  BY <1>2 DEF ReaderState, Steps
<1> HIDE DEF u
<1>4. x = [u EXCEPT !.tail = r.tail]
  BY DEF u, i, Return
<1>5. /\ x \in ReaderState /\ x.step = "done" /\ x.base = Nothing /\ x.snap = Nothing
      /\ x.tail = r.tail
  BY <1>1, <1>3, <1>4 DEF ReaderState
<1>6. \A f \in Files : Recorded(f, x.snap[f]) /\ Recorded(f, x.base[f])
  BY <1>5, AbsentFacts
<1>7. SeenOf(x, s) /\ AllOf(x, s) /\ NewOf(x) /\ AgainOf(x, s) /\ CheckOf(x, s)
  BY <1>5 DEF SeenOf, AllOf, NewOf, AgainOf, CheckOf
<1> QED BY <1>5, <1>6, <1>7 DEF KnowsOf

LEMMA StartReadKeeps ==
  ASSUME MirrorInv, NEW p \in Readers, StartRead(p)
  PROVE  MirrorInv'
<1> DEFINE i == Idle(reader[p].reads + 1)
           x == Snapshot(i, "loadIndex")
           s == [f \in Files |-> FileTails(file[f])]
<1>1. reader[p] \in ReaderState /\ IndexOf(index)
      /\ index \in [made : BOOLEAN, files : [Files -> Fingerprint], tail : Tails]
  BY KnowsIs
<1>2. reader[p].reads + 1 \in 0..MaxReads
  <2>1. reader[p].reads \in 0..MaxReads /\ MaxReads \in Nat /\ reader[p].reads < MaxReads
    BY <1>1, MirrorAssumption DEF ReaderState, StartRead
  <2> QED BY <2>1
<1>3. i \in ReaderState /\ i.base = Nothing
  BY <1>2, IdleFacts
<1> HIDE DEF i
<1>4. x \in ReaderState /\ x.step = "loadIndex" /\ x.stat = Files /\ x.snap = Nothing /\ x.base = Nothing
  BY <1>3, SnapshotFacts DEF Steps
<1>5. s \in [Files -> SUBSET Lines]
  BY AbsentFacts, FileTailsFacts
<1>6. KnowsOf(x, s)
  <2>1. \A f \in Files : Recorded(f, x.snap[f]) /\ Recorded(f, x.base[f])
    BY <1>4, AbsentFacts
  <2> HIDE DEF x
  <2>2. SeenOf(x, s) /\ NewOf(x) /\ AgainOf(x, s) /\ AllOf(x, s) /\ CheckOf(x, s)
    BY <1>4 DEF SeenOf, NewOf, AgainOf, AllOf, CheckOf
  <2> QED BY <1>4, <2>1, <2>2 DEF KnowsOf
<1>7. Reader(p, x) /\ seen' = [seen EXCEPT ![p] = s] /\ index' = index /\ UNCHANGED <<file, writes>>
  BY DEF StartRead, i
<1> HIDE DEF x, s
<1> QED BY <1>1, <1>4, <1>5, <1>6, <1>7, ReaderKeeps
-----------------------------------------------------------------------------
(* The steps of a reader, one by one. *)

LEMMA ReaderStep ==
  ASSUME MirrorInv, NEW p \in Readers, NEW x \in ReaderState, Reader(p, x),
         UNCHANGED <<file, index, writes, seen>>, KnowsOf(x, seen[p])
  PROVE  MirrorInv'
<1>1. /\ index \in [made : BOOLEAN, files : [Files -> Fingerprint], tail : Tails] /\ IndexOf(index)
      /\ seen[p] \in [Files -> SUBSET Lines]
  BY KnowsIs
<1>2. seen' = [seen EXCEPT ![p] = seen[p]]
  BY MirrorTypes DEF MirrorInv
<1> QED BY <1>1, <1>2, ReaderKeeps

\* A reader under way may go over to a full scan at any time.
LEMMA FullScanStep ==
  ASSUME MirrorInv, NEW p \in Readers, reader[p].step \notin {"idle", "done"},
         Reader(p, FullScan(reader[p])) \/ Reader(p, [FullScan(reader[p]) EXCEPT !.round = 1]),
         UNCHANGED <<file, index, writes, seen>>
  PROVE  MirrorInv'
<1>1. /\ reader[p] \in ReaderState /\ seen[p] \in [Files -> SUBSET Lines]
      /\ \A f \in Files : FileTails(file[f]) \subseteq seen[p][f]
  BY KnowsIs DEF KnowsOf, SeenOf
<1>2. PICK n \in 0..1 : Reader(p, [FullScan(reader[p]) EXCEPT !.round = n])
  <2>1. 0 \in 0..1 /\ 1 \in 0..1
    OBVIOUS
  <2>2. Reader(p, FullScan(reader[p])) => Reader(p, [FullScan(reader[p]) EXCEPT !.round = 0])
    <3>1. FullScan(reader[p]) = [FullScan(reader[p]) EXCEPT !.round = 0]
      BY <1>1, FullScanFirst
    <3> QED BY <3>1
  <2> QED BY <2>1, <2>2
<1>3. PICK x : x = [FullScan(reader[p]) EXCEPT !.round = n]
  OBVIOUS
<1>4. x \in ReaderState /\ KnowsOf(x, seen[p])
  BY <1>1, <1>3, FullScanFacts
<1> QED BY <1>2, <1>3, <1>4, ReaderStep

\* A read returns a fresh tail, and may write an index that is right.
LEMMA ReturnStep ==
  ASSUME MirrorInv, NEW p \in Readers, FreshOf(seen[p], reader[p].tail.rec),
         Reader(p, Return(reader[p])), UNCHANGED <<file, writes, seen>>,
         NEW fps \in [Files -> Fingerprint],
         index' = index \/ (/\ WriteIndex(fps, reader[p].tail) /\ WholeLines(fps)
                            /\ \A f \in Files : Recorded(f, fps[f])
                            /\ Current(fps) => TailFits(fps, reader[p].tail))
  PROVE  MirrorInv'
<1>1. /\ index \in [made : BOOLEAN, files : [Files -> Fingerprint], tail : Tails] /\ IndexOf(index)
      /\ reader[p] \in ReaderState /\ seen[p] \in [Files -> SUBSET Lines]
  BY KnowsIs
<1>2. seen' = [seen EXCEPT ![p] = seen[p]]
  BY MirrorTypes DEF MirrorInv
<1>3. PICK x : x = Return(reader[p])
  OBVIOUS
<1>4. x \in ReaderState /\ KnowsOf(x, seen[p])
  BY <1>1, <1>3, ReturnFacts
<1>5. /\ index' \in [made : BOOLEAN, files : [Files -> Fingerprint], tail : Tails]
      /\ IndexOf(index')
  <2>1. CASE index' = index
    BY <1>1, <2>1
  <2>2. CASE /\ index' = [made |-> TRUE, files |-> fps, tail |-> reader[p].tail]
             /\ WholeLines(fps) /\ \A f \in Files : Recorded(f, fps[f])
             /\ Current(fps) => TailFits(fps, reader[p].tail)
    <3>1. reader[p].tail \in Tails
      BY <1>1 DEF ReaderState
    <3>2. index'.files = fps /\ index'.tail = reader[p].tail
      BY <2>2
    <3> QED BY <2>2, <3>1, <3>2 DEF IndexOf
  <2> QED BY <2>1, <2>2 DEF WriteIndex
<1>6. PICK i \in [made : BOOLEAN, files : [Files -> Fingerprint], tail : Tails] :
        i = index' /\ IndexOf(i)
  BY <1>5
<1> QED BY <1>1, <1>2, <1>3, <1>4, <1>6, ReaderKeeps

\* The file as it is: what it yields, and its fingerprint.
LEMMA FingerprintFacts ==
  ASSUME MirrorInv, NEW f \in Files, NEW fp, fp = FingerprintOf(file[f])
  PROVE  /\ fp \in Fingerprint /\ Recorded(f, fp)
         /\ fp.ino = file[f].ino
         /\ fp.size % 2 = 0 => FileTails(file[f]) = {TailUpTo(f, fp)}
<1>1. /\ file[f] \in FileState /\ (file[f].torn => file[f].lines # <<>>)
      /\ file[f].ino \in Nat /\ Size(file[f]) \in Nat
  BY AbsentFacts
<1>2. fp.ino = file[f].ino /\ fp.size = Size(file[f]) /\ fp \in Fingerprint
  BY <1>1 DEF FingerprintOf, Fingerprint
<1>3. file[f].ino = 0 => Size(file[f]) = 0
  <2>1. ASSUME file[f].ino = 0 PROVE file[f].lines = <<>> /\ ~file[f].torn
    BY <1>1, <2>1 DEF MirrorInv, RecordsFit
  <2> QED BY <1>1, <2>1, SizeFacts
<1>4. ASSUME fp.size % 2 = 0 PROVE FileTails(file[f]) = {TailUpTo(f, fp)}
  <2>1. ~file[f].torn
    BY <1>1, <1>2, <1>4, SizeFacts
  <2>2. Prefix(file[f], fp.size) = file[f].lines
    BY <1>1, <1>2, <1>4, PrefixFacts
  <2> QED BY <1>1, <2>1, <2>2, FileTailsFacts DEF TailUpTo
<1> QED BY <1>1, <1>2, <1>3, <1>4 DEF Recorded

LEMMA StatFileKeeps ==
  ASSUME MirrorInv, NEW p \in Readers, NEW f \in Files, StatFile(p, f)
  PROVE  MirrorInv'
<1>1. PICK r \in ReaderState : r = reader[p]
  BY KnowsIs
<1>2. PICK s \in [Files -> SUBSET Lines] : s = seen[p]
  BY KnowsIs
<1>3. PICK fp \in Fingerprint : fp = FingerprintOf(file[f])
  BY FingerprintFacts
<1> DEFINE u == [r EXCEPT !.stat = r.stat \ {f}]
           x == [u EXCEPT !.snap = [r.snap EXCEPT ![f] = fp]]
<1>4. f \in r.stat /\ KnowsOf(r, s)
  BY <1>1, <1>2, KnowsIs DEF StatFile
<1>5. r.snap \in [Files -> Fingerprint] /\ r.stat \in SUBSET Files
  BY DEF ReaderState
<1>6. u \in ReaderState /\ u.snap = r.snap /\ u.stat = r.stat \ {f} /\ u.step = r.step
      /\ u.base = r.base /\ u.scan = r.scan /\ u.tail = r.tail /\ u.found = r.found
  BY <1>5 DEF ReaderState
<1>7. Reader(p, x)
  <2>1. x = [r EXCEPT !.stat = @ \ {f}, !.snap[f] = fp]
    OBVIOUS
  <2> QED BY <1>1, <1>3, <2>1 DEF StatFile
<1> HIDE DEF u
<1>8. x \in ReaderState /\ x.stat = r.stat \ {f} /\ x.step = r.step
      /\ x.base = r.base /\ x.scan = r.scan /\ x.tail = r.tail /\ x.found = r.found
      /\ x.snap = [r.snap EXCEPT ![f] = fp]
  <2>1. [r.snap EXCEPT ![f] = fp] \in [Files -> Fingerprint]
    BY <1>5
  <2> QED BY <1>6, <2>1 DEF ReaderState
<1> HIDE DEF x
<1>9. x.snap[f] = fp /\ \A g \in Files : g # f => x.snap[g] = r.snap[g]
  BY <1>5, <1>8
<1>10. /\ Recorded(f, fp) /\ fp.ino = file[f].ino
       /\ fp.size % 2 = 0 => FileTails(file[f]) = {TailUpTo(f, fp)}
  BY <1>3, FingerprintFacts
<1>11. SeenOf(x, s)
  BY <1>4, <1>8, <1>9, <1>10 DEF KnowsOf, SeenOf
<1>12. NewOf(x)
  BY <1>4, <1>8 DEF KnowsOf, NewOf
<1>13. AgainOf(x, s)
  <2>1. ASSUME NEW g \in Files, Replaced(r, g) PROVE Replaced(x, g)
    BY <1>4, <1>8, <1>9, <1>10, <2>1 DEF Replaced
  <2> QED BY <1>4, <1>8, <2>1 DEF KnowsOf, AgainOf
<1>14. AllOf(x, s)
  BY <1>4, <1>8 DEF KnowsOf, AllOf
<1>15. CheckOf(x, s)
  <2>1. ASSUME NEW g \in Files, Unmoved(x, g) PROVE Unmoved(r, g)
    BY <1>3, <1>4, <1>8, <1>9, <2>1 DEF Unmoved
  <2> QED BY <1>4, <1>8, <2>1 DEF KnowsOf, CheckOf
<1>16. KnowsOf(x, s)
  BY <1>4, <1>8, <1>9, <1>10, <1>11, <1>12, <1>13, <1>14, <1>15 DEF KnowsOf
<1>17. UNCHANGED <<file, index, writes, seen>>
  BY DEF StatFile
<1> QED BY <1>2, <1>7, <1>8, <1>16, <1>17, ReaderStep
\* The appended parts are to be read from sizes for which the tail is right.
LEMMA NewScan ==
  ASSUME NEW x \in ReaderState, x.stat = {}, x.scan = Changes(x.base, x.snap),
         AppendOnly(x.base, x.snap), WholeLines(x.base),
         Current(x.base) => TailFits(x.base, x.tail)
  PROVE  NewOf(x)
<1>1. x.base \in [Files -> Fingerprint] /\ x.snap \in [Files -> Fingerprint]
  BY DEF ReaderState
<1>2. ReadUpTo(x) = x.base
  <2>1. \A f \in Files : f \notin x.scan => x.snap[f] = x.base[f]
    BY DEF Changes
  <2>2. \A f \in Files : ReadUpTo(x)[f] = x.base[f]
    BY <2>1 DEF ReadUpTo
  <2>3. ReadUpTo(x) = [f \in Files |-> ReadUpTo(x)[f]] /\ x.base = [f \in Files |-> x.base[f]]
    BY <1>1 DEF ReadUpTo
  <2> QED BY <2>2, <2>3, Zenon
<1>3. Current(x.snap) => Current(x.base)
  BY DEF Current, AppendOnly
<1> QED BY <1>2, <1>3 DEF NewOf

LEMMA LoadIndexKeeps ==
  ASSUME MirrorInv, NEW p \in Readers, LoadIndex(p)
  PROVE  MirrorInv'
<1>1. PICK r \in ReaderState : r = reader[p]
  BY KnowsIs
<1>2. PICK s \in [Files -> SUBSET Lines] : s = seen[p]
  BY KnowsIs
<1>3. KnowsOf(r, s) /\ r.step = "loadIndex" /\ r.stat = {} /\ IndexOf(index)
  BY <1>1, <1>2, KnowsIs DEF LoadIndex
<1>4. UNCHANGED <<file, index, writes, seen>>
  BY DEF LoadIndex
<1>5. CASE /\ index.made /\ AppendOnly(index.files, r.snap)
           /\ BoundariesIntact(index.files, r.snap)
  <2>1. PICK i \in [made : BOOLEAN, files : [Files -> Fingerprint], tail : Tails] : i = index
    BY KnowsIs
  <2> DEFINE u == [r EXCEPT !.step = "scanNew", !.base = i.files]
             x == [u EXCEPT !.tail = i.tail, !.scan = Changes(i.files, r.snap)]
  <2>2. Changes(i.files, r.snap) \in SUBSET Files
    BY DEF Changes
  <2>3. u \in ReaderState /\ u.snap = r.snap /\ u.stat = r.stat /\ u.step = "scanNew" /\ u.base = i.files
    BY DEF ReaderState, Steps
  <2>4. Reader(p, x)
    BY <1>1, <1>5, <2>1 DEF LoadIndex
  <2> HIDE DEF u
  <2>5. x \in ReaderState /\ x.snap = r.snap /\ x.stat = r.stat /\ x.step = "scanNew" /\ x.base = i.files
        /\ x.tail = i.tail /\ x.scan = Changes(i.files, r.snap)
    BY <2>2, <2>3 DEF ReaderState
  <2> HIDE DEF x
  <2>6. NewOf(x)
    BY <1>3, <1>5, <2>1, <2>5, NewScan DEF IndexOf
  <2>7. SeenOf(x, s)
    BY <1>3, <2>5 DEF KnowsOf, SeenOf
  <2>8. \A f \in Files : Recorded(f, x.snap[f]) /\ Recorded(f, x.base[f])
    BY <1>3, <2>1, <2>5 DEF KnowsOf, IndexOf
  <2>9. AgainOf(x, s) /\ AllOf(x, s) /\ CheckOf(x, s)
    BY <2>5 DEF AgainOf, AllOf, CheckOf
  <2>10. KnowsOf(x, s)
    BY <2>5, <2>6, <2>7, <2>8, <2>9 DEF KnowsOf
  <2> QED BY <1>2, <1>4, <2>4, <2>5, <2>10, ReaderStep
<1>6. CASE ~(/\ index.made /\ AppendOnly(index.files, r.snap)
             /\ BoundariesIntact(index.files, r.snap))
  <2>1. Reader(p, FullScan(reader[p]))
    BY <1>1, <1>6 DEF LoadIndex
  <2> QED BY <1>1, <1>3, <1>4, <2>1, FullScanStep
<1> QED BY <1>5, <1>6

\* A recorded part of a file that is still there has a tail.
LEMMA TailUpToType ==
  ASSUME MirrorInv, NEW f \in Files, NEW fp \in Fingerprint, Recorded(f, fp),
         fp.ino \in {0, file[f].ino}
  PROVE  fp.size <= Size(file[f]) /\ TailUpTo(f, fp) \in Lines
<1>1. fp.ino \in Nat /\ fp.size \in Nat
  BY DEF Fingerprint
<1>2. /\ file[f] \in FileState /\ (file[f].torn => file[f].lines # <<>>)
      /\ Size(file[f]) \in Nat
  BY AbsentFacts
<1>3. fp.size <= Size(file[f])
  BY <1>1, <1>2 DEF Recorded
<1> QED BY <1>1, <1>2, <1>3, PrefixFacts DEF TailUpTo

LEMMA ScanNewKeeps ==
  ASSUME MirrorInv, NEW p \in Readers, ScanNew(p)
  PROVE  MirrorInv'
<1>1. PICK r \in ReaderState : r = reader[p]
  BY KnowsIs
<1>2. PICK s \in [Files -> SUBSET Lines] : s = seen[p]
  BY KnowsIs
<1>3. KnowsOf(r, s) /\ r.step = "scanNew" /\ r.scan # {}
  BY <1>1, <1>2, KnowsIs DEF ScanNew
<1>4. UNCHANGED <<file, index, writes, seen>>
  BY DEF ScanNew
<1>5. /\ r.snap \in [Files -> Fingerprint] /\ r.base \in [Files -> Fingerprint]
      /\ r.scan \in SUBSET Files /\ r.tail \in Tails
  BY DEF ReaderState
<1>6. PICK f \in Files : f = Min(r.scan) /\ f \in r.scan
  <2>1. r.scan \in SUBSET Nat
    BY <1>5, MirrorAssumption DEF Files
  <2> QED BY <1>3, <1>5, <2>1, MinFacts
<1> DEFINE complete == Size(file[f]) >= r.snap[f].size /\ r.snap[f].size % 2 = 0
           added == SubSeq(file[f].lines, (r.base[f].size \div 2) + 1, r.snap[f].size \div 2)
           rec == TailOf(added)
<1>7. CASE ~(complete /\ MergeNew(r.tail, f, rec) # {})
  <2>1. Reader(p, FullScan(reader[p]))
    BY <1>1, <1>6, <1>7 DEF ScanNew
  <2> QED BY <1>1, <1>3, <1>4, <2>1, FullScanStep
<1>8. CASE complete /\ MergeNew(r.tail, f, rec) # {}
  <2>1. PICK t \in MergeNew(r.tail, f, rec) :
          Reader(p, [r EXCEPT !.scan = r.scan \ {f}, !.tail = t, !.changed = TRUE])
    BY <1>1, <1>6, <1>8 DEF ScanNew
  <2>2. /\ r.stat = {} /\ r.scan \subseteq Changes(r.base, r.snap)
        /\ AppendOnly(r.base, r.snap) /\ WholeLines(r.base) /\ WholeLines(ReadUpTo(r))
        /\ Current(r.snap) => TailFits(ReadUpTo(r), r.tail)
        /\ \A g \in Files : Recorded(g, r.snap[g]) /\ Recorded(g, r.base[g])
    BY <1>3 DEF KnowsOf, NewOf
  <2>3. /\ rec \in Lines
        /\ TailUpTo(f, r.snap[f]) = IF rec = 0 THEN TailUpTo(f, r.base[f]) ELSE rec
    <3>1. r.snap[f].size \in Nat /\ r.base[f].size \in Nat
      BY <1>5 DEF Fingerprint
    <3>2. /\ file[f] \in FileState /\ (file[f].torn => file[f].lines # <<>>)
          /\ Size(file[f]) \in Nat /\ file[f].lines \in Seq(Lines)
      BY AbsentFacts DEF FileState
    <3>3. r.base[f].size <= r.snap[f].size
      BY <2>2, <3>1 DEF AppendOnly, Recorded
    <3>4. PICK a \in Nat, b \in Nat : a = r.base[f].size \div 2 /\ b = r.snap[f].size \div 2
      BY <3>1, Halves
    <3>5. a <= b
      BY <3>1, <3>3, <3>4, Halves
    <3>6. b <= Len(file[f].lines)
      BY <1>8, <3>1, <3>2, <3>4, PrefixFacts
    <3> QED BY <3>2, <3>4, <3>5, <3>6, TailAdded DEF TailUpTo, Prefix
  <2>4. t \in Tails
    BY <1>5, <2>1, <2>3, MirrorAssumption DEF MergeNew, Tails, Files
  <2> DEFINE x == [r EXCEPT !.scan = r.scan \ {f}, !.tail = t, !.changed = TRUE]
  <2>5. /\ x \in ReaderState /\ x.step = r.step /\ x.stat = r.stat /\ x.snap = r.snap
        /\ x.base = r.base /\ x.scan = r.scan \ {f} /\ x.tail = t
    BY <1>5, <2>4 DEF ReaderState
  <2> HIDE DEF x
  <2>6. /\ f \in r.scan /\ ReadUpTo(r)[f] = r.base[f] /\ ReadUpTo(x)[f] = r.snap[f]
        /\ \A g \in Files : g # f => ReadUpTo(x)[g] = ReadUpTo(r)[g]
    BY <1>6, <2>5 DEF ReadUpTo
  <2>7. WholeLines(ReadUpTo(x))
    BY <1>8, <2>2, <2>6 DEF WholeLines
  <2>8. ASSUME Current(r.snap) PROVE TailFits(ReadUpTo(x), t)
    <3> DEFINE T(g) == TailUpTo(g, ReadUpTo(r)[g])
               V(g) == TailUpTo(g, ReadUpTo(x)[g])
    <3>1. TailFits(ReadUpTo(r), r.tail)
      BY <2>2, <2>8
    <3>2. \A g \in Files : T(g) <= r.tail.rec
      BY <3>1 DEF TailFits
    <3>3. r.tail.rec # 0 => r.tail.src \in Files /\ T(r.tail.src) = r.tail.rec
      BY <3>1 DEF TailFits
    <3>4. \A g \in Files : T(g) \in Lines
      <4>1. ASSUME NEW g \in Files PROVE T(g) \in Lines
        <5>1. PICK fp \in Fingerprint : fp = ReadUpTo(r)[g] /\ (fp = r.base[g] \/ fp = r.snap[g])
          BY <1>5 DEF ReadUpTo
        <5>2. Recorded(g, fp) /\ fp.ino \in {0, file[g].ino}
          BY <2>2, <2>8, <5>1 DEF Current, AppendOnly
        <5> QED BY <5>1, <5>2, TailUpToType
      <4> QED BY <4>1
    <3>5. V(f) = (IF rec = 0 THEN T(f) ELSE rec) /\ \A g \in Files : g # f => V(g) = T(g)
      BY <2>3, <2>6
    <3>6. r.tail.rec \in Lines /\ \A i \in Lines : i \in Nat
      BY <1>5, MirrorAssumption DEF Tails, Lines
    <3> HIDE DEF T, V, rec
    <3>7. (\A g \in Files : V(g) <= t.rec) /\ (t.rec # 0 => t.src \in Files /\ V(t.src) = t.rec)
      <4>1. CASE rec = 0
        <5>1. t = r.tail
          BY <2>1, <4>1 DEF MergeNew
        <5> QED BY <3>2, <3>3, <3>5, <4>1, <5>1
      <4>2. CASE rec # 0 /\ rec > r.tail.rec
        <5>1. t = [src |-> f, rec |-> rec]
          BY <2>1, <4>2 DEF MergeNew
        <5>2. \A g \in Files : V(g) <= rec
          BY <2>3, <3>2, <3>4, <3>5, <3>6, <4>2
        <5> QED BY <3>5, <4>2, <5>1, <5>2
      <4>3. CASE rec # 0 /\ ~(rec > r.tail.rec)
        <5>1. t = r.tail /\ r.tail.src # f
          BY <2>1, <4>3 DEF MergeNew
        <5>2. rec <= r.tail.rec
          BY <2>3, <3>6, <4>3
        <5> QED BY <3>2, <3>3, <3>5, <4>3, <5>1, <5>2
      <4> QED BY <4>1, <4>2, <4>3
    <3> QED BY <3>7 DEF TailFits, V
  <2>9. NewOf(x)
    BY <2>2, <2>5, <2>7, <2>8 DEF NewOf
  <2>10. SeenOf(x, s)
    BY <1>3, <2>5 DEF KnowsOf, SeenOf
  <2>11. AgainOf(x, s) /\ AllOf(x, s) /\ CheckOf(x, s)
    BY <1>3, <2>5 DEF AgainOf, AllOf, CheckOf
  <2>12. KnowsOf(x, s)
    BY <1>3, <2>2, <2>5, <2>9, <2>10, <2>11 DEF KnowsOf
  <2>13. Reader(p, x)
    BY <2>1 DEF x
  <2> QED BY <1>2, <1>4, <2>5, <2>12, <2>13, ReaderStep
<1> QED BY <1>7, <1>8
\* A tail that fits a finished snapshot of files that are still there is fresh.
LEMMA FitsFresh ==
  ASSUME MirrorInv, NEW r \in ReaderState, NEW s \in [Files -> SUBSET Lines], SeenOf(r, s),
         r.step = "scanNew", r.stat = {}, WholeLines(r.snap), Current(r.snap),
         \A f \in Files : Recorded(f, r.snap[f]), TailFits(r.snap, r.tail)
  PROVE  FreshOf(s, r.tail.rec)
<1> DEFINE had == [f \in Files |-> TailUpTo(f, r.snap[f])]
<1>1. r.snap \in [Files -> Fingerprint]
  BY DEF ReaderState
<1>2. \A f \in Files : r.snap[f] \in Fingerprint /\ r.snap[f].ino \in {0, file[f].ino}
                       /\ r.snap[f].size % 2 = 0
  BY <1>1 DEF Current, WholeLines
<1>3. \A f \in Files : TailUpTo(f, r.snap[f]) \in Lines
  BY <1>2, TailUpToType
<1>4. \A f \in Files : TailUpTo(f, r.snap[f]) \in s[f]
  BY <1>2 DEF SeenOf
<1>5. had \in [Files -> Lines] /\ \A f \in Files : had[f] \in s[f]
  BY <1>3, <1>4
<1>6. Latest(had, r.tail.rec)
  BY DEF TailFits, Latest
<1> QED BY <1>5, <1>6 DEF FreshOf

LEMMA RecheckKeeps ==
  ASSUME MirrorInv, NEW p \in Readers, Recheck(p)
  PROVE  MirrorInv'
<1>1. PICK r \in ReaderState : r = reader[p]
  BY KnowsIs
<1>2. PICK s \in [Files -> SUBSET Lines] : s = seen[p]
  BY KnowsIs
<1>3. KnowsOf(r, s) /\ r.step = "scanNew" /\ r.scan = {}
  BY <1>1, <1>2, KnowsIs DEF Recheck
<1>4. UNCHANGED <<file, index, writes, seen>>
  BY DEF Recheck
<1>5. r.snap \in [Files -> Fingerprint]
  BY DEF ReaderState
<1>6. ReadUpTo(r) = r.snap
  <2>1. ReadUpTo(r) = [f \in Files |-> r.snap[f]]
    BY <1>3 DEF ReadUpTo
  <2> QED BY <1>5, <2>1
<1>7. /\ r.stat = {} /\ WholeLines(r.snap) /\ SeenOf(r, s)
      /\ Current(r.snap) => TailFits(r.snap, r.tail)
      /\ \A f \in Files : Recorded(f, r.snap[f])
  BY <1>3, <1>6 DEF KnowsOf, NewOf
<1> DEFINE u == [r EXCEPT !.base = r.snap]
           x == Snapshot(u, "again")
<1>8. u \in ReaderState /\ u.base = r.snap /\ u.tail = r.tail
  BY <1>5 DEF ReaderState
<1>9. Reader(p, x)
  BY <1>1 DEF Recheck
<1> HIDE DEF u
<1>10. /\ x \in ReaderState /\ x.step = "again" /\ x.stat = Files /\ x.snap = Nothing
       /\ x.base = r.snap /\ x.tail = r.tail
  BY <1>8, SnapshotFacts DEF Steps
<1> HIDE DEF x
<1>11. AgainOf(x, s)
  <2>1. ASSUME ~Current(r.snap) PROVE \E f \in Files : Replaced(x, f)
    BY <1>10, <2>1 DEF Current, Replaced
  <2>2. ASSUME Current(r.snap) PROVE FreshOf(s, r.tail.rec)
    BY <1>3, <1>7, <2>2, FitsFresh
  <2> QED BY <1>7, <1>10, <2>1, <2>2 DEF AgainOf
<1>12. SeenOf(x, s)
  BY <1>3, <1>7, <1>10 DEF SeenOf
<1>13. NewOf(x) /\ AllOf(x, s) /\ CheckOf(x, s)
  BY <1>10 DEF NewOf, AllOf, CheckOf
<1>14. \A f \in Files : Recorded(f, x.snap[f]) /\ Recorded(f, x.base[f])
  BY <1>7, <1>10, AbsentFacts
<1>15. KnowsOf(x, s)
  BY <1>10, <1>11, <1>12, <1>13, <1>14 DEF KnowsOf
<1> QED BY <1>2, <1>4, <1>9, <1>10, <1>15, ReaderStep

LEMMA ContinueKeeps ==
  ASSUME MirrorInv, NEW p \in Readers, Continue(p)
  PROVE  MirrorInv'
<1>1. PICK r \in ReaderState : r = reader[p]
  BY KnowsIs
<1>2. PICK s \in [Files -> SUBSET Lines] : s = seen[p]
  BY KnowsIs
<1>3. KnowsOf(r, s) /\ r.step = "again" /\ r.stat = {}
  BY <1>1, <1>2, KnowsIs DEF Continue
<1>4. UNCHANGED <<file, writes, seen>>
  BY DEF Continue
<1>5. r.snap \in [Files -> Fingerprint] /\ r.base \in [Files -> Fingerprint]
  BY DEF ReaderState
<1>6. /\ WholeLines(r.base) /\ (Current(r.base) => TailFits(r.base, r.tail))
      /\ FreshOf(s, r.tail.rec) \/ \E f \in Files : Replaced(r, f)
      /\ \A f \in Files : Recorded(f, r.snap[f]) /\ Recorded(f, r.base[f])
  BY <1>3 DEF KnowsOf, AgainOf
<1> DEFINE grown == AppendOnly(r.base, r.snap) /\ BoundariesIntact(r.base, r.snap)
<1>7. CASE r.snap # r.base /\ grown /\ r.round + 1 < MaxRounds
  <2> DEFINE u == [r EXCEPT !.step = "scanNew", !.round = r.round + 1]
             x == [u EXCEPT !.scan = Changes(r.base, r.snap)]
  <2>1. Reader(p, x) /\ index' = index
    BY <1>1, <1>7 DEF Continue
  <2>2. r.round + 1 \in 0..Max({1, MaxRounds - 1})
    <3>1. r.round \in 0..Max({1, MaxRounds - 1}) /\ MaxRounds \in Nat
      BY MirrorAssumption DEF ReaderState
    <3> QED BY <1>7, <3>1, RoundFacts
  <2>3. u \in ReaderState /\ u.snap = r.snap /\ u.stat = r.stat /\ u.step = "scanNew" /\ u.base = r.base
        /\ u.tail = r.tail
    BY <2>2 DEF ReaderState, Steps
  <2> HIDE DEF u
  <2>4. Changes(r.base, r.snap) \in SUBSET Files
    BY DEF Changes
  <2>5. x \in ReaderState /\ x.snap = r.snap /\ x.stat = r.stat /\ x.step = "scanNew" /\ x.base = r.base
        /\ x.tail = r.tail /\ x.scan = Changes(r.base, r.snap)
    BY <2>3, <2>4 DEF ReaderState
  <2> HIDE DEF x
  <2>6. NewOf(x)
    BY <1>3, <1>6, <1>7, <2>5, NewScan
  <2>7. SeenOf(x, s)
    BY <1>3, <2>5 DEF KnowsOf, SeenOf
  <2>8. AgainOf(x, s) /\ AllOf(x, s) /\ CheckOf(x, s)
    BY <2>5 DEF AgainOf, AllOf, CheckOf
  <2>9. KnowsOf(x, s)
    BY <1>6, <2>5, <2>6, <2>7, <2>8 DEF KnowsOf
  <2> QED BY <1>2, <1>4, <2>1, <2>5, <2>9, ReaderStep
<1>8. CASE ~(r.snap # r.base /\ grown /\ r.round + 1 < MaxRounds) /\ (r.snap = r.base \/ grown)
  <2>1. /\ Reader(p, Return(reader[p]))
        /\ index' = index \/ WriteIndex(r.base, reader[p].tail)
    BY <1>1, <1>8 DEF Continue
  <2>2. AppendOnly(r.base, r.snap)
    <3>1. \A f \in Files : r.base[f].size \in Nat
      BY <1>5 DEF Fingerprint
    <3> QED BY <1>8, <3>1 DEF AppendOnly
  <2>3. \A f \in Files : ~Replaced(r, f)
    BY <1>3, <2>2 DEF Replaced, AppendOnly
  <2> QED BY <1>1, <1>2, <1>4, <1>5, <1>6, <2>1, <2>3, ReturnStep
<1>9. CASE ~(r.snap = r.base \/ grown)
  <2>1. Reader(p, FullScan(reader[p])) /\ index' = index
    BY <1>1, <1>9 DEF Continue
  <2> QED BY <1>1, <1>3, <1>4, <2>1, FullScanStep
<1> QED BY <1>7, <1>8, <1>9

LEMMA ScanFileKeeps ==
  ASSUME MirrorInv, NEW p \in Readers, NEW f \in Files, ScanFile(p, f)
  PROVE  MirrorInv'
<1>1. PICK r \in ReaderState : r = reader[p]
  BY KnowsIs
<1>2. PICK s \in [Files -> SUBSET Lines] : s = seen[p]
  BY KnowsIs
<1>3. KnowsOf(r, s) /\ r.step = "scanAll" /\ r.stat = {} /\ f \in r.scan
  BY <1>1, <1>2, KnowsIs DEF ScanFile
<1>4. UNCHANGED <<file, index, writes, seen>>
  BY DEF ScanFile
<1>5. PICK t \in FileTails(file[f]) :
        Reader(p, [r EXCEPT !.scan = r.scan \ {f}, !.found = [r.found EXCEPT ![f] = t]])
  BY <1>1 DEF ScanFile
<1>6. t \in Lines /\ t \in s[f]
  <2>1. FileTails(file[f]) \subseteq Lines
    BY AbsentFacts, FileTailsFacts
  <2> QED BY <1>3, <2>1 DEF KnowsOf, SeenOf
<1> DEFINE found == [r.found EXCEPT ![f] = t]
           x == [r EXCEPT !.scan = r.scan \ {f}, !.found = found]
<1>7. r.found \in [Files -> Lines] /\ r.scan \in SUBSET Files
  BY DEF ReaderState
<1>8. found \in [Files -> Lines] /\ found[f] = t /\ \A g \in Files : g # f => found[g] = r.found[g]
  BY <1>6, <1>7
<1>9. Reader(p, x)
  BY <1>5
<1> HIDE DEF found
<1>10. /\ x \in ReaderState /\ x.step = r.step /\ x.stat = r.stat /\ x.snap = r.snap
       /\ x.base = r.base /\ x.scan = r.scan \ {f} /\ x.found = found
  BY <1>7, <1>8 DEF ReaderState
<1> HIDE DEF x
<1>11. AllOf(x, s)
  <2>1. SUFFICES ASSUME NEW g \in Files \ x.scan
                 PROVE  /\ found[g] \in s[g]
                        /\ r.snap[g] = FingerprintOf(file[g]) /\ r.snap[g].size % 2 = 0
                             => found[g] = TailUpTo(g, r.snap[g])
    BY <1>3, <1>10 DEF AllOf
  <2>2. CASE g = f
    <3>1. PICK fp : fp = FingerprintOf(file[f])
      OBVIOUS
    <3>2. fp.size % 2 = 0 => FileTails(file[f]) = {TailUpTo(f, fp)}
      BY <3>1, FingerprintFacts
    <3> QED BY <1>5, <1>6, <1>8, <2>2, <3>1, <3>2
  <2>3. CASE g # f
    <3>1. g \in Files \ r.scan
      BY <1>10, <2>1, <2>3
    <3> QED BY <1>3, <1>8, <2>3, <3>1 DEF KnowsOf, AllOf
  <2> QED BY <2>2, <2>3
<1>12. SeenOf(x, s)
  BY <1>3, <1>10 DEF KnowsOf, SeenOf
<1>13. NewOf(x) /\ AgainOf(x, s) /\ CheckOf(x, s)
  BY <1>3, <1>10 DEF NewOf, AgainOf, CheckOf
<1>14. KnowsOf(x, s)
  BY <1>3, <1>10, <1>11, <1>12, <1>13 DEF KnowsOf
<1> QED BY <1>2, <1>4, <1>9, <1>10, <1>14, ReaderStep

\* mergeCorpusTail yields the latest of what was found, and a file that has it.
LEMMA MergedFacts ==
  ASSUME NEW found \in [Files -> Lines]
  PROVE  /\ Merged(found) \in Tails /\ Latest(found, Merged(found).rec)
         /\ Merged(found).rec # 0 =>
              Merged(found).src \in Files /\ found[Merged(found).src] = Merged(found).rec
<1> DEFINE T == {found[f] : f \in Files} \cup {0}
           best == Max(T)
           F == {f \in Files : found[f] = best}
<1>1. NRecords \in Nat /\ NFiles \in Nat /\ Lines = 0..NRecords /\ Files = 1..NFiles
  BY MirrorAssumption DEF Lines, Files
<1>2. T \in SUBSET (0..NRecords) /\ T # {}
  BY <1>1
<1>3. best \in T /\ \A k \in T : k <= best
  BY <1>1, <1>2, MaxFacts
<1>4. best \in Lines /\ \A f \in Files : found[f] <= best
  BY <1>1, <1>2, <1>3
<1>5. CASE best = 0
  <2>1. Merged(found) = NoTail
    BY <1>5 DEF Merged
  <2> QED BY <1>1, <1>4, <1>5, <2>1 DEF NoTail, Tails, Latest
<1>6. CASE best # 0
  <2>1. PICK g \in Files : found[g] = best
    BY <1>3, <1>6
  <2>2. F \in SUBSET Nat /\ F # {}
    <3>1. g \in F
      BY <2>1
    <3> HIDE DEF best
    <3>2. F \in SUBSET Nat
      BY <1>1
    <3> QED BY <3>1, <3>2
  <2>3. Min(F) \in F
    BY <2>2, MinFacts
  <2>4. Merged(found) = [src |-> Min(F), rec |-> best]
    BY <1>6 DEF Merged
  <2> HIDE DEF best
  <2>5. Min(F) \in Files /\ found[Min(F)] = best
    BY <2>3
  <2> HIDE DEF F
  <2>6. Merged(found).src = Min(F) /\ Merged(found).rec = best /\ Merged(found) \in Tails
    BY <1>1, <1>4, <2>4, <2>5 DEF Tails
  <2> QED BY <1>4, <2>1, <2>5, <2>6 DEF Latest
<1> QED BY <1>5, <1>6
LEMMA ScannedAllKeeps ==
  ASSUME MirrorInv, NEW p \in Readers, ScannedAll(p)
  PROVE  MirrorInv'
<1>1. PICK r \in ReaderState : r = reader[p]
  BY KnowsIs
<1>2. PICK s \in [Files -> SUBSET Lines] : s = seen[p]
  BY KnowsIs
<1>3. KnowsOf(r, s) /\ r.step = "scanAll" /\ r.stat = {} /\ r.scan = {}
  BY <1>1, <1>2, KnowsIs DEF ScannedAll
<1>4. UNCHANGED <<file, index, writes, seen>>
  BY DEF ScannedAll
<1>5. r.snap \in [Files -> Fingerprint] /\ r.found \in [Files -> Lines]
  BY DEF ReaderState
<1>6. PICK t \in Tails : /\ t = Merged(r.found) /\ Latest(r.found, t.rec)
                         /\ t.rec # 0 => t.src \in Files /\ r.found[t.src] = t.rec
  BY <1>5, MergedFacts
<1> DEFINE v == [r EXCEPT !.base = r.snap, !.tail = t]
           u == [v EXCEPT !.found = [f \in Files |-> 0]]
           x == Snapshot(u, "check")
<1>7. v \in ReaderState /\ v.base = r.snap /\ v.tail = t
  BY <1>5 DEF ReaderState
<1>8. Reader(p, x)
  BY <1>1, <1>6 DEF ScannedAll
<1> HIDE DEF v
<1>9. u \in ReaderState /\ u.base = r.snap /\ u.tail = t
  <2>1. [f \in Files |-> 0] \in [Files -> Lines]
    BY MirrorAssumption DEF Lines
  <2> QED BY <1>7, <2>1 DEF ReaderState
<1> HIDE DEF u
<1>10. /\ x \in ReaderState /\ x.step = "check" /\ x.stat = Files /\ x.snap = Nothing
       /\ x.base = r.snap /\ x.tail = t
  BY <1>9, SnapshotFacts DEF Steps
<1> HIDE DEF x
<1>11. \A f \in Files :
         /\ r.found[f] \in s[f]
         /\ r.snap[f] = FingerprintOf(file[f]) /\ r.snap[f].size % 2 = 0
              => r.found[f] = TailUpTo(f, r.snap[f])
  BY <1>3 DEF KnowsOf, AllOf
<1>12. CheckOf(x, s)
  <2>1. FreshOf(s, t.rec)
    BY <1>5, <1>6, <1>11 DEF FreshOf
  <2>2. ASSUME WholeLines(r.snap), \A f \in Files : Unmoved(x, f)
        PROVE  TailFits(r.snap, t)
    <3>1. \A f \in Files : r.found[f] = TailUpTo(f, r.snap[f])
      BY <1>10, <1>11, <2>2 DEF WholeLines, Unmoved
    <3> QED BY <1>6, <3>1 DEF TailFits, Latest
  <2> QED BY <1>10, <2>1, <2>2 DEF CheckOf
<1>13. SeenOf(x, s)
  BY <1>3, <1>10 DEF KnowsOf, SeenOf
<1>14. NewOf(x) /\ AllOf(x, s) /\ AgainOf(x, s)
  BY <1>10 DEF NewOf, AllOf, AgainOf
<1>15. \A f \in Files : Recorded(f, x.snap[f]) /\ Recorded(f, x.base[f])
  BY <1>3, <1>10, AbsentFacts DEF KnowsOf
<1>16. KnowsOf(x, s)
  BY <1>10, <1>12, <1>13, <1>14, <1>15 DEF KnowsOf
<1> QED BY <1>2, <1>4, <1>8, <1>10, <1>16, ReaderStep

LEMMA CheckScanKeeps ==
  ASSUME MirrorInv, NEW p \in Readers, CheckScan(p)
  PROVE  MirrorInv'
<1>1. PICK r \in ReaderState : r = reader[p]
  BY KnowsIs
<1>2. PICK s \in [Files -> SUBSET Lines] : s = seen[p]
  BY KnowsIs
<1>3. KnowsOf(r, s) /\ r.step = "check" /\ r.stat = {}
  BY <1>1, <1>2, KnowsIs DEF CheckScan
<1>4. UNCHANGED <<file, writes, seen>>
  BY DEF CheckScan
<1>5. r.snap \in [Files -> Fingerprint]
  BY DEF ReaderState
<1>6. /\ FreshOf(s, r.tail.rec)
      /\ Current(r.base) /\ WholeLines(r.base) /\ (\A f \in Files : Unmoved(r, f))
           => TailFits(r.base, r.tail)
      /\ \A f \in Files : Recorded(f, r.snap[f])
  BY <1>3 DEF KnowsOf, CheckOf
<1>7. CASE r.snap # r.base /\ r.round = 0
  <2>1. Reader(p, [FullScan(reader[p]) EXCEPT !.round = 1]) /\ index' = index
    BY <1>1, <1>7 DEF CheckScan
  <2> QED BY <1>1, <1>3, <1>4, <2>1, FullScanStep
<1>8. CASE ~(r.snap # r.base /\ r.round = 0)
  <2> DEFINE whole == r.snap = r.base /\ \A f \in Files : EndsWithNewline(f, r.snap[f].size)
  <2>1. /\ Reader(p, Return(reader[p]))
        /\ index' = index \/ (whole /\ WriteIndex(r.snap, reader[p].tail))
    BY <1>1, <1>8 DEF CheckScan
  <2>2. ASSUME whole
        PROVE  WholeLines(r.snap) /\ (Current(r.snap) => TailFits(r.snap, r.tail))
    <3>1. WholeLines(r.snap)
      <4>1. 0 % 2 = 0
        OBVIOUS
      <4> QED BY <2>2, <4>1 DEF WholeLines, EndsWithNewline
    <3>2. \A f \in Files : Unmoved(r, f)
      BY <1>3, <2>2 DEF Unmoved
    <3> QED BY <1>6, <2>2, <3>1, <3>2
  <2> HIDE DEF whole
  <2> QED BY <1>1, <1>2, <1>4, <1>5, <1>6, <2>1, <2>2, ReturnStep
<1> QED BY <1>7, <1>8
-----------------------------------------------------------------------------
(* The invariant, and what it gives. *)

LEMMA MirrorStarts ==
  ASSUME MirrorInit
  PROVE  MirrorInv
<1> USE MirrorAssumption
<1>1. 0 \in 0..MaxReads /\ 0 \in 0..MaxWrites
  OBVIOUS
<1>2. \A f \in Files : \E l \in Seq(Lines) :
        /\ file[f] = [ino |-> Len(l), lines |-> l, torn |-> FALSE]
        /\ Len(l) = 0 => l = <<>>
  <2> TAKE f \in Files
  <2>1. PICK l \in {<<>>} \cup {<<line>> : line \in Lines} :
          file[f] = [ino |-> Len(l), lines |-> l, torn |-> FALSE]
    BY Zenon DEF MirrorInit
  <2>2. l \in Seq(Lines)
    <3>1. CASE l = <<>>
      BY <3>1
    <3>2. ASSUME NEW line \in Lines, l = <<line>> PROVE l \in Seq(Lines)
      BY <3>2
    <3> QED BY <2>1, <3>1, <3>2
  <2>3. Len(l) = 0 => l = <<>>
    BY <2>2
  <2> QED BY <2>1, <2>2, <2>3, Zenon
<1>3. \A f \in Files : /\ file[f] \in FileState /\ ~file[f].torn
                       /\ file[f].ino = 0 => file[f].lines = <<>>
  <2> TAKE f \in Files
  <2>1. PICK l \in Seq(Lines) : /\ file[f] = [ino |-> Len(l), lines |-> l, torn |-> FALSE]
                                /\ Len(l) = 0 => l = <<>>
    BY <1>2
  <2>2. Len(l) \in Nat
    OBVIOUS
  <2> QED BY <2>1, <2>2 DEF FileState
<1>4. file \in [Files -> FileState]
  <2>1. file = [f \in Files |-> file[f]]
    BY DEF MirrorInit
  <2> QED BY <1>3, <2>1
<1>5. /\ Idle(0) \in ReaderState /\ Idle(0).step = "idle"
      /\ Idle(0).snap = Nothing /\ Idle(0).base = Nothing
  BY <1>1, IdleFacts
<1>6. \A p \in Readers : reader[p] = Idle(0)
  BY DEF MirrorInit
<1>7. reader \in [Readers -> ReaderState] /\ seen \in [Readers -> [Files -> SUBSET Lines]]
  BY <1>5 DEF MirrorInit
<1>8. /\ index \in [made : BOOLEAN, files : [Files -> Fingerprint], tail : Tails]
      /\ index.made = FALSE /\ index.files = Nothing
  BY DEF MirrorInit, NoIndex, Nothing, Absent, NoTail, Fingerprint, Tails, Lines
<1>9. MirrorTypeOK
  BY <1>1, <1>3, <1>4, <1>7, <1>8 DEF MirrorInit, MirrorTypeOK, FileState, ReaderState
<1>10. \A f \in Files : Recorded(f, Nothing[f])
  <2> TAKE f \in Files
  <2>1. file[f] \in FileState /\ file[f].ino \in Nat /\ Size(file[f]) \in Nat
    BY <1>3, SizeFacts DEF FileState
  <2>2. Nothing[f].ino = 0 /\ Nothing[f].size = 0
    BY DEF Nothing, Absent
  <2> QED BY <2>1, <2>2 DEF Recorded
<1>11. RecordsFit /\ IndexKnown
  BY <1>3, <1>5, <1>6, <1>8, <1>10 DEF RecordsFit, IndexKnown
<1>12. ASSUME NEW p \in Readers PROVE Knows(p)
  BY <1>5, <1>6 DEF Knows, TailsSeen, Reading, ScanningNew, Rechecking, ScanningAll,
                    Checking, Returned
<1> QED BY <1>9, <1>11, <1>12 DEF MirrorInv, Knows

LEMMA MirrorStays ==
  ASSUME MirrorInv, UNCHANGED mirrorVars
  PROVE  MirrorInv'
<1>1. /\ file' = file /\ reader' = reader /\ seen' = seen /\ index' = index /\ writes' = writes
  BY DEF mirrorVars
<1>2. MirrorTypeOK' /\ RecordsFit' /\ IndexKnown'
  BY <1>1 DEF MirrorInv, MirrorTypeOK, RecordsFit, IndexKnown, Recorded, Current, WholeLines,
              TailFits, TailUpTo
<1>3. ASSUME NEW p \in Readers PROVE Knows(p)'
  <2>1. PICK r, s : r = reader[p] /\ s = seen[p] /\ r = reader'[p] /\ s = seen'[p]
    BY <1>1
  <2>2. KnowsOf(r, s)
    BY <2>1, KnowsIs
  <2> QED BY <1>1, <2>1, <2>2, KnowsNext
<1> QED BY <1>2, <1>3 DEF MirrorInv, Knows

LEMMA MirrorSteps ==
  ASSUME MirrorInv, MirrorNext
  PROVE  MirrorInv'
<1>1. ASSUME NEW f \in Files, NEW line \in Lines,
             BeginAppend(f, line) \/ Replace(f, line) \/ EndAppend(f)
      PROVE  MirrorInv'
  <2>1. PICK s \in FileState : /\ s.torn => s.lines # <<>>
                               /\ Grows(file[f], s) /\ Write(f, s) /\ writes' \in 0..MaxWrites
    BY <1>1, WritesGrow
  <2> QED BY <2>1, WriteKeeps
<1>2. 0 \in Lines
  BY MirrorAssumption DEF Lines
<1>3. ASSUME NEW p \in Readers,
             \/ StartRead(p) \/ LoadIndex(p) \/ ScanNew(p) \/ Recheck(p) \/ Continue(p)
             \/ ScannedAll(p) \/ CheckScan(p)
      PROVE  MirrorInv'
  BY <1>3, StartReadKeeps, LoadIndexKeeps, ScanNewKeeps, RecheckKeeps, ContinueKeeps,
     ScannedAllKeeps, CheckScanKeeps
<1>4. ASSUME NEW p \in Readers, NEW f \in Files, StatFile(p, f) \/ ScanFile(p, f)
      PROVE  MirrorInv'
  BY <1>4, StatFileKeeps, ScanFileKeeps
<1> QED BY <1>1, <1>2, <1>3, <1>4 DEF MirrorNext

\* Whatever is appended, torn or replaced while readers scan: what a reader has
\* recorded is of an earlier moment of its files, its tail fits the sizes it has read
\* for as long as no file was replaced, and a replacement is found by its next
\* snapshot.
THEOREM MirrorInvariance == MirrorSpec => []MirrorInv
<1>1. MirrorInit => MirrorInv
  BY MirrorStarts
<1>2. MirrorInv /\ [MirrorNext]_mirrorVars => MirrorInv'
  BY MirrorSteps, MirrorStays
<1> QED BY <1>1, <1>2, PTL DEF MirrorSpec

\* The files, the index file and the readers keep their shapes; the rounds of
\* readMirrorCorpusTail stay within MAX_INCREMENTAL_ROUNDS.
THEOREM MirrorTypeCorrect == MirrorSpec => []MirrorTypeOK
<1>1. MirrorInv => MirrorTypeOK
  BY DEF MirrorInv
<1> QED BY <1>1, MirrorInvariance, PTL

\* The latest of what the files had is their greatest tail.
LEMMA LatestIsMax ==
  ASSUME NEW had \in [Files -> Lines], NEW rec \in Lines, Latest(had, rec)
  PROVE  rec = Max({had[f] : f \in Files} \cup {0})
<1> DEFINE T == {had[f] : f \in Files} \cup {0}
<1>1. \A i \in Lines : i \in Nat
  BY MirrorAssumption DEF Lines
<1>2. T \in SUBSET Int
  BY <1>1
<1>3. rec \in T /\ \A k \in T : k <= rec
  BY <1>1 DEF Latest
<1> HIDE DEF T
<1>4. rec = Max(T)
  BY <1>2, <1>3, MaxIs
<1> QED BY <1>4 DEF T

\* readMirrorCorpusTail returns the latest among tails its files really had while it
\* ran, through the index or by a full scan: for any number of files, records,
\* readers, rounds and writes.
THEOREM ReadsFresh == MirrorSpec => []ReadFresh
<1>1. MirrorInv => ReadFresh
  <2>1. SUFFICES ASSUME MirrorInv, NEW p \in Readers, reader[p].step = "done"
                 PROVE  \E had \in [Files -> Lines] :
                          /\ \A f \in Files : had[f] \in seen[p][f]
                          /\ reader[p].tail.rec = Max({had[f] : f \in Files} \cup {0})
    BY DEF ReadFresh
  <2>2. PICK had \in [Files -> Lines] : /\ \A f \in Files : had[f] \in seen[p][f]
                                        /\ Latest(had, reader[p].tail.rec)
    BY <2>1 DEF MirrorInv, Returned, Fresh
  <2>3. reader[p].tail.rec \in Lines
    BY <2>1, KnowsIs DEF ReaderState, Tails
  <2>4. reader[p].tail.rec = Max({had[f] : f \in Files} \cup {0})
    BY <2>2, <2>3, LatestIsMax
  <2> QED BY <2>2, <2>4
<1> QED BY <1>1, MirrorInvariance, PTL

\* The index file names a tail that a full scan of the parts it names would find,
\* whichever readers wrote it last.
THEOREM IndexIsSound == MirrorSpec => []IndexSound
<1>1. MirrorInv => IndexSound
  <2> DEFINE found == [f \in Files |-> TailOf(Prefix(file[f], index.files[f].size))]
  <2>1. SUFFICES ASSUME MirrorInv, index.made, \A f \in Files : index.files[f].ino \in {0, file[f].ino}
                 PROVE  /\ \A f \in Files : EndsWithNewline(f, index.files[f].size)
                        /\ index.tail.rec = Merged(found).rec
                        /\ index.tail.rec # 0 => found[index.tail.src] = index.tail.rec
    BY DEF IndexSound
  <2>2. /\ index \in [made : BOOLEAN, files : [Files -> Fingerprint], tail : Tails]
        /\ \A f \in Files : Recorded(f, index.files[f])
        /\ WholeLines(index.files) /\ TailFits(index.files, index.tail)
    BY <2>1, MirrorTypes DEF MirrorInv, RecordsFit, IndexKnown, Current
  <2>3. \A f \in Files : /\ index.files[f].size <= Size(file[f])
                         /\ TailUpTo(f, index.files[f]) \in Lines
    BY <2>1, <2>2, TailUpToType
  <2>4. \A f \in Files : EndsWithNewline(f, index.files[f].size)
    <3> TAKE f \in Files
    <3>1. Size(file[f]) \in Nat /\ index.files[f].size \in Nat
      BY <2>1, <2>2, AbsentFacts DEF Fingerprint
    <3> QED BY <2>2, <2>3, <3>1 DEF EndsWithNewline, WholeLines
  <2>5. found \in [Files -> Lines] /\ \A f \in Files : found[f] = TailUpTo(f, index.files[f])
    BY <2>3 DEF TailUpTo
  <2> HIDE DEF found
  <2>6. Latest(found, index.tail.rec) /\ (index.tail.rec # 0 => found[index.tail.src] = index.tail.rec)
    BY <2>2, <2>5 DEF TailFits, Latest
  <2>7. index.tail.rec \in Lines /\ Merged(found).rec \in Lines /\ Latest(found, Merged(found).rec)
    BY <2>2, <2>5, MergedFacts DEF Tails
  <2>8. index.tail.rec = Merged(found).rec
    BY <2>5, <2>6, <2>7, LatestIsMax
  <2> QED BY <2>4, <2>6, <2>8
<1> QED BY <1>1, MirrorInvariance, PTL
=============================================================================
