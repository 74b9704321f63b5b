------------------------------ MODULE Middleware ------------------------------
(***************************************************************************)
(* The server wrapper of packages/mcp/src/middleware.ts: tool calls that   *)
(* run concurrently, each signed into one record, or into a request and an *)
(* outcome record, chained to earlier records of the same context.         *)
(*                                                                         *)
(* A call reads the chain tail when it starts to build a record, waits for *)
(* the reference resolver, signs with the key it finds then, waits for the *)
(* signature, and commits.  destroy() zeroes the key at any moment.  A     *)
(* committed record is handed to delivery (SubmissionQueue).               *)
(***************************************************************************)
EXTENDS Integers, Sequences, FiniteSets, SequencesExt

CONSTANTS
  Calls, Contexts,
  CtxOf,       \* the context a call resolves to
  InboundOf,   \* the record hash propagated to a call, or Nil
  Tokens,      \* record hashes of other producers
  Nil,
  Genesis      \* chain root of a context without a tail

ASSUME MiddlewareAssumption ==
  /\ CtxOf \in [Calls -> Contexts]
  /\ InboundOf \in [Calls -> Tokens \cup {Nil}]
  /\ Nil \notin Tokens \cup {Genesis}
  /\ Genesis \notin Tokens
  /\ (Calls \X {"pre", "post"}) \cap (Tokens \cup {Nil, Genesis}) = {}

VARIABLES
  mode,        \* options: "post", "pre" (preCallTransform) or "paired"
               \* (preCallTransform in verifiable-action mode)
  autoChain,   \* options.autoChain
  hasSeed,     \* a parent record hash was set in the environment
  seedConsumed,
  destroyed,
  tail,        \* lastRecordHashByContext
  call,        \* stage of each call, and the record it signed before the call
  built,       \* records built so far
  committed,   \* records passed to commitRecord, in order
  overlap,     \* history: pairs of calls that ran at the same time
  cut,         \* history: calls whose outcome could not be signed
  signingAtDestroy  \* history: calls past the destroyed check at destroy()

optionVars == <<mode, autoChain, hasSeed>>
vars == <<optionVars, seedConsumed, destroyed, tail, call, built, committed,
          overlap, cut, signingAtDestroy>>

Records == Calls \X {"pre", "post"}
Stages == {"none", "preBuild", "preSign", "handler", "postBuild", "postSign", "done"}
Parents == Records \cup Tokens \cup {Genesis}
Keys == {"unsigned", "real", "zero"}
NotBuilt == [parent |-> Nil, seeded |-> FALSE, key |-> "unsigned"]

TypeOK ==
  /\ mode \in {"post", "pre", "paired"} /\ autoChain \in BOOLEAN /\ hasSeed \in BOOLEAN
  /\ seedConsumed \in BOOLEAN /\ destroyed \in BOOLEAN
  /\ tail \in [Contexts -> Records \cup {Nil}]
  /\ call \in [Calls -> [stage : Stages, pre : BOOLEAN]]
  /\ built \in [Records -> [parent : Parents \cup {Nil}, seeded : BOOLEAN, key : Keys]]
  /\ \A r \in Records : built[r].key # "unsigned" => built[r].parent # Nil
  /\ committed \in Seq(Records)
  /\ overlap \subseteq SUBSET Calls /\ cut \subseteq Calls /\ signingAtDestroy \subseteq Calls

Init ==
  /\ mode \in {"post", "pre", "paired"} /\ autoChain \in BOOLEAN /\ hasSeed \in BOOLEAN
  /\ seedConsumed = FALSE /\ destroyed = FALSE
  /\ tail = [x \in Contexts |-> Nil]
  /\ call = [c \in Calls |-> [stage |-> "none", pre |-> FALSE]]
  /\ built = [r \in Records |-> NotBuilt]
  /\ committed = <<>>
  /\ overlap = {} /\ cut = {} /\ signingAtDestroy = {}

-----------------------------------------------------------------------------
Active(c) == call[c].stage \notin {"none", "done"}
Committed == Range(committed)
Stage(c, s) == call' = [call EXCEPT ![c].stage = s]

\* resolveChainRoot: an inbound hash, else the tail of this process, else the tail
\* of the environment or the context's genesis, which the model does not tell apart.
ChainRoot(c) ==
  CASE InboundOf[c] # Nil -> InboundOf[c]
    [] InboundOf[c] = Nil /\ autoChain /\ tail[CtxOf[c]] # Nil -> tail[CtxOf[c]]
    [] OTHER -> Genesis

\* buildSignedRecord up to its first await: parent and seed are read here.
Build(r, parent) ==
  built' = [built EXCEPT ![r] =
              [parent |-> parent, seeded |-> hasSeed /\ ~seedConsumed, key |-> "unsigned"]]

\* signRecord, after the resolver: the key is read here.
Sign(r) == built' = [built EXCEPT ![r].key = IF destroyed THEN "zero" ELSE "real"]

\* Mutant of Commit: only outcome records become the chain tail.
CommitPostTail(r) ==
  /\ committed' = Append(committed, r)
  /\ tail' = IF autoChain /\ r[2] = "post" THEN [tail EXCEPT ![CtxOf[r[1]]] = r] ELSE tail
  /\ seedConsumed' = (seedConsumed \/ built[r].seeded)

\* commitRecord: chain tail, hand-over to delivery, consumed seed.
Commit(r) ==
  /\ committed' = Append(committed, r)
  /\ tail' = IF autoChain THEN [tail EXCEPT ![CtxOf[r[1]]] = r] ELSE tail
  /\ seedConsumed' = (seedConsumed \/ built[r].seeded)

-----------------------------------------------------------------------------
(* The wrapped tools/call handler. *)

\* A call arrives.  With preCallTransform its record is built before the call.
Arrive(c) ==
  /\ call[c].stage = "none"
  /\ overlap' = overlap \cup {{c, d} : d \in {d \in Calls : Active(d)}}
  /\ IF mode # "post" /\ ~destroyed
       THEN Stage(c, "preBuild") /\ Build(<<c, "pre">>, ChainRoot(c))
       ELSE Stage(c, "handler") /\ UNCHANGED built
  /\ UNCHANGED <<optionVars, seedConsumed, destroyed, tail, committed, cut, signingAtDestroy>>

\* The resolver answered: the record goes to the signer.
StartSigning(c) ==
  /\ \/ call[c].stage = "preBuild" /\ Stage(c, "preSign") /\ Sign(<<c, "pre">>)
     \/ call[c].stage = "postBuild" /\ Stage(c, "postSign") /\ Sign(<<c, "post">>)
  /\ UNCHANGED <<optionVars, seedConsumed, destroyed, tail, committed, overlap, cut,
                 signingAtDestroy>>

\* Mutant of PreSigned: the chain tail is set when the record is signed.
PreSignedSetsTail(c) ==
  /\ call[c].stage = "preSign"
  /\ call' = [call EXCEPT ![c] = [stage |-> "handler", pre |-> TRUE]]
  /\ IF mode = "paired" THEN Commit(<<c, "pre">>)
     ELSE /\ tail' = IF autoChain THEN [tail EXCEPT ![CtxOf[c]] = <<c, "pre">>] ELSE tail
          /\ UNCHANGED <<committed, seedConsumed>>
  /\ UNCHANGED <<optionVars, destroyed, built, overlap, cut, signingAtDestroy>>

\* Signed before the call: the transform puts the receipt into the arguments, and
\* in paired mode the request record is committed before the upstream sees it.
PreSigned(c) ==
  /\ call[c].stage = "preSign"
  /\ call' = [call EXCEPT ![c] = [stage |-> "handler", pre |-> TRUE]]
  /\ IF mode = "paired" THEN Commit(<<c, "pre">>) ELSE UNCHANGED <<committed, tail, seedConsumed>>
  /\ UNCHANGED <<optionVars, destroyed, built, overlap, cut, signingAtDestroy>>

\* Building, signing or the transform throws: the call goes on without the record.
PreFails(c) ==
  /\ call[c].stage \in {"preBuild", "preSign"}
  /\ Stage(c, "handler")
  /\ UNCHANGED <<optionVars, seedConsumed, destroyed, tail, built, committed, overlap, cut,
                 signingAtDestroy>>

Paired(c) == mode = "paired" /\ call[c].pre

\* Starts the record of the outcome; in paired mode it follows the request.
BuildPost(c) ==
  /\ Stage(c, "postBuild")
  /\ Build(<<c, "post">>, IF Paired(c) THEN <<c, "pre">> ELSE ChainRoot(c))
  /\ UNCHANGED <<committed, tail, seedConsumed, cut>>

\* The call ends without another record.
EndCall(c) ==
  /\ Stage(c, "done")
  /\ UNCHANGED <<built, committed, tail, seedConsumed, cut>>

\* Mutant of HandlerFails: a failed call ends without a record in every mode.
HandlerFailsUnrecorded(c) ==
  /\ call[c].stage = "handler"
  /\ EndCall(c)
  /\ UNCHANGED <<optionVars, destroyed, overlap, signingAtDestroy>>

\* The tool throws, or returns isError or no object: only paired mode signs.
HandlerFails(c) ==
  /\ call[c].stage = "handler"
  /\ IF Paired(c) /\ ~destroyed THEN BuildPost(c) ELSE EndCall(c)
  /\ UNCHANGED <<optionVars, destroyed, overlap, signingAtDestroy>>

\* Mutant of HandlerReturns: destroyed is not checked again after the tool returned.
HandlerReturnsUnchecked(c) ==
  /\ call[c].stage = "handler"
  /\ IF call[c].pre /\ ~Paired(c)
       THEN Stage(c, "done") /\ Commit(<<c, "pre">>) /\ UNCHANGED <<built, cut>>
       ELSE BuildPost(c)
  /\ UNCHANGED <<optionVars, destroyed, overlap, signingAtDestroy>>

\* The tool returns a result.  A record signed before an unpaired call is committed
\* at once, without another await.
HandlerReturns(c) ==
  /\ call[c].stage = "handler"
  /\ CASE destroyed -> EndCall(c)
       [] ~destroyed /\ call[c].pre /\ ~Paired(c) ->
            Stage(c, "done") /\ Commit(<<c, "pre">>) /\ UNCHANGED <<built, cut>>
       [] OTHER -> BuildPost(c)
  /\ UNCHANGED <<optionVars, destroyed, overlap, signingAtDestroy>>

PostSigned(c) ==
  /\ call[c].stage = "postSign"
  /\ Stage(c, "done")
  /\ Commit(<<c, "post">>)
  /\ UNCHANGED <<optionVars, destroyed, built, overlap, cut, signingAtDestroy>>

\* Attribution errors are caught and the result is returned as it is.
PostFails(c) ==
  /\ call[c].stage \in {"postBuild", "postSign"}
  /\ Stage(c, "done")
  /\ cut' = cut \cup {c}
  /\ UNCHANGED <<optionVars, seedConsumed, destroyed, tail, built, committed, overlap,
                 signingAtDestroy>>

\* A call past its check of destroyed, with a record still to be signed.
Building(c) == call[c].stage \in {"preBuild", "postBuild"}

\* destroy: the key is zeroed at once, whatever is under way.
Destroy ==
  /\ ~destroyed
  /\ destroyed' = TRUE
  /\ signingAtDestroy' = {c \in Calls : Building(c)}
  /\ UNCHANGED <<optionVars, seedConsumed, tail, call, built, committed, overlap, cut>>

Next ==
  \/ \E c \in Calls :
       \/ Arrive(c) \/ StartSigning(c) \/ PreSigned(c) \/ PreFails(c)
       \/ HandlerFails(c) \/ HandlerReturns(c) \/ PostSigned(c) \/ PostFails(c)
  \/ Destroy

Spec == Init /\ [][Next]_vars

-----------------------------------------------------------------------------
(* Properties. *)

\* commitRecord sets the tail only at commit "so failed/aborted calls don't poison
\* the chain": no record is chained to one that was dropped, and a record is
\* committed after the one it is chained to.
ParentsCommitted ==
  \A i \in DOMAIN committed :
    LET parent == built[committed[i]].parent IN
    parent \in Records => \E j \in 1..(i - 1) : committed[j] = parent

\* With autoChain two records of a context that follow the process's own tail have
\* the same parent only when their calls overlapped, and so for two records that
\* both carry the seed of the parent process.
ForksOnlyOverlapping ==
  \A r, s \in Committed : r # s =>
    \/ {r[1], s[1]} \in overlap
    \/ /\ built[r].parent = built[s].parent /\ CtxOf[r[1]] = CtxOf[s[1]] /\ autoChain
          => built[r].parent \in Tokens
       /\ ~(built[r].seeded /\ built[s].seeded)

\* "must commit a terminal error outcome as well": in paired mode the request is
\* committed before the tool runs, and a call that ends leaves no request without
\* its outcome unless the key was destroyed or the outcome could not be signed.
RequestAnswered ==
  mode = "paired" => \A c \in Calls :
    /\ call[c].stage \in {"handler", "postBuild", "postSign"} /\ call[c].pre
         => <<c, "pre">> \in Committed
    /\ call[c].stage = "done" /\ <<c, "pre">> \in Committed
         => <<c, "post">> \in Committed \/ c \in cut \/ destroyed

\* "Zero the private key and prevent further signing": a record is signed with the
\* zeroed key only by a call that had already checked destroyed and was waiting
\* for its references when destroy() came.
ZeroKeyOnlyAcrossDestroy ==
  \A r \in Records : built[r].key = "zero" => r[1] \in signingAtDestroy

-----------------------------------------------------------------------------
(* The inductive invariant. *)

IsBuilt(r) == built[r].parent # Nil

\* What the stage of a call says of its two records.
PreFits(c) ==
  LET r == <<c, "pre">> IN
  /\ call[c].stage \in {"preBuild", "preSign"} => IsBuilt(r) /\ ~call[c].pre
  /\ call[c].stage = "none" => ~IsBuilt(r) /\ ~call[c].pre
  /\ call[c].pre => IsBuilt(r)
  /\ r \in Committed => call[c].pre /\ (mode = "paired" \/ call[c].stage = "done")

PostFits(c) ==
  LET r == <<c, "post">> IN
  /\ call[c].stage \in {"postBuild", "postSign"} => IsBuilt(r)
  /\ IsBuilt(r) => call[c].stage \in {"postBuild", "postSign", "done"}
  /\ r \in Committed => IsBuilt(r) /\ call[c].stage = "done"
  /\ IsBuilt(r) /\ call[c].pre =>
       /\ mode = "paired" /\ built[r].parent = <<c, "pre">>
       /\ ~(built[r].seeded /\ built[<<c, "pre">>].seeded)

StagesFit == \A c \in Calls : PreFits(c) /\ PostFits(c)

\* r was committed before s; every record at most once.
Earlier(r, s) ==
  \E i, k \in DOMAIN committed : i < k /\ committed[i] = r /\ committed[k] = s

CommittedOnce == \A i, k \in DOMAIN committed : committed[i] = committed[k] => i = k

\* A record is chained to a committed one, and never to itself.
ParentsKnown ==
  \A r \in Records : built[r].parent \in Records =>
    built[r].parent \in Committed /\ built[r].parent # r

\* With autoChain the tail is the last committed record of its context.
TailLatest ==
  /\ \A x \in Contexts : tail[x] # Nil => tail[x] \in Committed
  /\ autoChain => \A r \in Committed :
       tail[CtxOf[r[1]]] = r \/ Earlier(r, tail[CtxOf[r[1]]])

SeedUsed == \A r \in Committed : built[r].seeded => seedConsumed

\* The call of r had ended when s was built: s is not chained before r.
After(r, s) ==
  /\ call[r[1]].stage = "done"
  /\ r \in Committed =>
       /\ ~(built[r].seeded /\ built[s].seeded)
       /\ s \in Committed => Earlier(r, s)
       /\ autoChain /\ CtxOf[r[1]] = CtxOf[s[1]] =>
            built[s].parent \in Tokens \/ built[s].parent = r \/ Earlier(r, built[s].parent)

\* Calls that did not overlap came one after the other.
Sequential ==
  /\ \A c, d \in Calls : Active(c) /\ Active(d) /\ c # d => {c, d} \in overlap
  /\ \A r, s \in Records :
       IsBuilt(r) /\ IsBuilt(s) /\ r[1] # s[1] /\ {r[1], s[1]} \notin overlap =>
         After(r, s) \/ After(s, r)

\* After destroy() only calls that were building then are still building.
ZeroKeys ==
  /\ destroyed => {c \in Calls : Building(c)} \subseteq signingAtDestroy
  /\ ~destroyed => \A r \in Records : built[r].key # "zero"

Inv ==
  /\ TypeOK
  /\ StagesFit /\ CommittedOnce /\ ParentsKnown /\ TailLatest /\ SeedUsed /\ Sequential
  /\ ParentsCommitted /\ RequestAnswered
  /\ ZeroKeys /\ ZeroKeyOnlyAcrossDestroy
=============================================================================
