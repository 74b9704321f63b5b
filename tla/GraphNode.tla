------------------------------- MODULE GraphNode -------------------------------
(***************************************************************************)
(* The record store of services/graph-node and its archive file:           *)
(* handleIngest of server.ts, addRecord of store.ts, the appender and the  *)
(* replay of persistence.ts.  Requests overlap: a record is in memory      *)
(* before the append of its line is awaited.  The process crashes and      *)
(* starts again from the file.                                             *)
(*                                                                         *)
(* A request carries a record and a log index or none (NoIndex); log-node  *)
(* repeats a request whose answer it did not get.  The indexes over the    *)
(* records (by context, creator and token) follow the record list and are  *)
(* left out.                                                               *)
(***************************************************************************)
EXTENDS JsonlFile, FiniteSets

CONSTANTS
  Records, Invalid,         \* records; those that fail validation or verification
  Requests, RecOf, IndexOf,
  NoIndex,
  MaxFaults                 \* bound: crashes, failing and short writes

ASSUME GraphAssumption ==
  /\ Invalid \subseteq Records /\ MaxFaults \in Nat
  /\ RecOf \in [Requests -> Records] /\ IndexOf \in [Requests -> Nat \cup {NoIndex}]
  /\ NoIndex \notin Nat

Indexes == {IndexOf[q] : q \in Requests} \cup {NoIndex}
Lines == [rec : Records, index : Indexes]

ASSUME GarbageAssumption == Garbage \notin Lines

VARIABLES
  store,    \* allRecords: the records in the order they were added
  logIndex, \* logIndexByHash
  file,     \* the archive file
  req,      \* requests: idle, append (awaiting the archive), ok, rejected, lost
  up, faults,
  tears,    \* history: appends that were cut short
  promised, \* history: records answered 200 after their whole line was written
  late      \* history: records whose log index came after the record was stored

vars == <<store, logIndex, file, req, up, faults, tears, promised, late>>

Added == {store[i] : i \in DOMAIN store}

TypeOK ==
  /\ store \in Seq(Records \ Invalid)
  /\ \A i, j \in DOMAIN store : store[i] = store[j] => i = j
  /\ logIndex \in [Records -> Indexes]
  /\ file.lines \in Seq(Lines \cup {Garbage}) /\ file.torn \in BOOLEAN
  /\ req \in [Requests -> {"idle", "append", "ok", "rejected", "lost"}]
  /\ up \in BOOLEAN /\ faults \in 0..MaxFaults /\ tears \in 0..MaxFaults
  /\ promised \subseteq Records /\ late \subseteq Records

NoIndexes == [r \in Records |-> NoIndex]

Init ==
  /\ store = <<>> /\ logIndex = NoIndexes
  /\ file = EmptyFile
  /\ req = [q \in Requests |-> "idle"]
  /\ up = TRUE /\ faults = 0 /\ tears = 0 /\ promised = {} /\ late = {}

-----------------------------------------------------------------------------
\* Mutant of AddIndex: a later index replaces the known one.
AddIndexLatest(r, index, known) == IF index # NoIndex THEN index ELSE known[r]

\* addRecord: the first index a record comes with is kept.
AddIndex(r, index, known) == IF known[r] = NoIndex THEN index ELSE known[r]

\* Mutant of IsNew: a record is looked up by its log index, which it may not have.
IsNewUnindexed(r) == logIndex[r] = NoIndex

IsNew(r) == r \notin Added

\* handleIngest up to the append: a known record is answered at once, and an index it
\* now comes with is kept in memory only.
Ingest(q) ==
  LET r == RecOf[q] IN
  /\ up /\ req[q] = "idle" /\ r \notin Invalid
  /\ store' = IF IsNew(r) THEN Append(store, r) ELSE store
  /\ logIndex' = [logIndex EXCEPT ![r] = AddIndex(r, IndexOf[q], logIndex)]
  /\ req' = [req EXCEPT ![q] = IF IsNew(r) THEN "append" ELSE "ok"]
  /\ late' = late \cup (IF ~IsNew(r) /\ logIndex[r] = NoIndex /\ IndexOf[q] # NoIndex
                        THEN {r} ELSE {})
  /\ UNCHANGED <<file, up, faults, tears, promised>>

RejectInvalid(q) ==
  /\ up /\ req[q] = "idle" /\ RecOf[q] \in Invalid
  /\ req' = [req EXCEPT ![q] = "rejected"]
  /\ UNCHANGED <<store, logIndex, file, up, faults, tears, promised, late>>

Line(q) == [rec |-> RecOf[q], index |-> IndexOf[q]]

\* Appends of several requests are under way on one handle, in any order.
ArchiveAppend(q) ==
  /\ up /\ req[q] = "append"
  /\ file' = AppendLine(file, Line(q))
  /\ promised' = promised \cup {RecOf[q]}
  /\ req' = [req EXCEPT ![q] = "ok"]
  /\ UNCHANGED <<store, logIndex, up, faults, tears, late>>

Fault == faults < MaxFaults /\ faults' = faults + 1

\* An error of the append is logged and the request answered as if it had worked.
ArchiveFails(q) ==
  /\ up /\ req[q] = "append" /\ Fault
  /\ req' = [req EXCEPT ![q] = "ok"]
  /\ UNCHANGED <<store, logIndex, file, up, tears, promised, late>>

\* A short write is not an error: the count that write() returns is not looked at.
ArchiveShort(q) ==
  /\ up /\ req[q] = "append" /\ Fault
  /\ req' = [req EXCEPT ![q] = "ok"]
  /\ file' \in CutLine(file, Line(q)) /\ tears' = tears + 1
  /\ UNCHANGED <<store, logIndex, up, promised, late>>

\* A crash; one append may have been cut short by it, or be done but not answered.
Crash ==
  /\ up /\ Fault /\ up' = FALSE
  /\ \/ UNCHANGED <<file, tears>>
     \/ \E q \in Requests : req[q] = "append"
          /\ \/ file' = AppendLine(file, Line(q)) /\ UNCHANGED tears
             \/ file' \in CutLine(file, Line(q)) /\ tears' = tears + 1
  /\ store' = <<>> /\ logIndex' = NoIndexes
  /\ req' = [q \in Requests |-> IF req[q] = "append" THEN "lost" ELSE req[q]]
  /\ UNCHANGED <<promised, late>>

Resend(q) ==
  /\ req[q] = "lost"
  /\ req' = [req EXCEPT ![q] = "idle"]
  /\ UNCHANGED <<store, logIndex, file, up, faults, tears, promised, late>>

-----------------------------------------------------------------------------
\* Mutant of Parsed: the replay ends at the first line that does not parse.
ParsedUntilBad(lines) ==
  {i \in DOMAIN lines : \A j \in 1..i : lines[j] # Garbage}

\* replayArchive: lines that do not parse are skipped.
Parsed(lines) == {i \in DOMAIN lines : lines[i] # Garbage}

FirstOf(r, lines) ==
  {i \in Parsed(lines) : lines[i].rec = r /\ \A j \in Parsed(lines) : lines[j].rec = r => i <= j}

Firsts(lines) == {i \in Parsed(lines) : i \in FirstOf(lines[i].rec, lines)}

Rank(i, S) == Cardinality({j \in S : j <= i})

\* The records of the file, in the order of their first lines, ...
Replayed(lines) ==
  [n \in 1..Cardinality(Firsts(lines)) |->
     lines[CHOOSE i \in Firsts(lines) : Rank(i, Firsts(lines)) = n].rec]

\* ... and the first index each of them comes with.
ReplayedIndex(r, lines) ==
  LET own == {i \in Parsed(lines) : lines[i].rec = r /\ lines[i].index # NoIndex}
  IN  IF own = {} THEN NoIndex
      ELSE lines[CHOOSE i \in own : \A j \in own : i <= j].index

Restart ==
  /\ ~up /\ up' = TRUE
  /\ store' = Replayed(file.lines)
  /\ logIndex' = [r \in Records |-> ReplayedIndex(r, file.lines)]
  /\ UNCHANGED <<file, req, faults, tears, promised, late>>

Next ==
  \/ \E q \in Requests :
       Ingest(q) \/ RejectInvalid(q) \/ Resend(q)
       \/ ArchiveAppend(q) \/ ArchiveFails(q) \/ ArchiveShort(q)
  \/ Crash \/ Restart

Spec == Init /\ [][Next]_vars

-----------------------------------------------------------------------------
(* Properties. *)

InArchive == {file.lines[i].rec : i \in Parsed(file.lines)}

\* "A restart ... doesn't lose state": of the records that were answered after their
\* whole line had been written, every append that was cut short costs at most one,
\* the one whose line was joined to the torn end of the file.
LossBounded == Cardinality(promised \ InArchive) <= tears

\* The index that memory has, or none because it came late and only memory has it.
SameOrLate(index, r) == index = logIndex[r] \/ (index = NoIndex /\ r \in late)

\* A restart has every archived record and never replaces its log index by another
\* one.  It forgets the index only if that came in a request after the one that brought
\* the record, which is not written to the file (store.ts:103): revocation then has
\* nothing to compare with its cutoff until the index is sent again.
RestartKeepsIndexes ==
  up => \A r \in InArchive : r \in Added /\ SameOrLate(ReplayedIndex(r, file.lines), r)

-----------------------------------------------------------------------------
(* The inductive invariant. *)

\* A verified record has at most one line: it is appended when memory does not have
\* it, and memory has every record of the file.
FileFits ==
  /\ file = [lines |-> file.lines, torn |-> file.torn]
  /\ file.torn => file.lines # <<>>
  /\ \A i \in Parsed(file.lines) : file.lines[i].rec \notin Invalid
  /\ \A i, j \in Parsed(file.lines) : file.lines[i].rec = file.lines[j].rec => i = j

\* What a join to the torn end of the file cannot spoil.
Whole == {i \in Parsed(file.lines) : file.torn => i < Len(file.lines)}
InWhole == {file.lines[i].rec : i \in Whole}

\* A torn end has cost one append already and may cost one more.
LossFits ==
  /\ IsFiniteSet(promised) /\ tears <= faults
  /\ Cardinality(promised \ InWhole) + (IF file.torn THEN 1 ELSE 0) <= tears

\* The append under way of a record is its only one, and its line is not in the file.
Appending(q) ==
  /\ RecOf[q] \in Added /\ RecOf[q] \notin Invalid /\ RecOf[q] \notin InArchive
  /\ SameOrLate(IndexOf[q], RecOf[q])
  /\ \A p \in Requests : req[p] = "append" /\ RecOf[p] = RecOf[q] => p = q

MemoryFits ==
  /\ InArchive \subseteq Added
  /\ \A r \in Records \ Added : logIndex[r] = NoIndex
  /\ \A i \in Parsed(file.lines) : SameOrLate(file.lines[i].index, file.lines[i].rec)

RequestsFit == \A q \in Requests : req[q] = "append" => up /\ Appending(q)

Inv == TypeOK /\ FileFits /\ LossFits /\ RequestsFit /\ (up => MemoryFits)
=============================================================================
