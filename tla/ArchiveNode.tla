------------------------------ MODULE ArchiveNode ------------------------------
(***************************************************************************)
(* The record-body archive of services/archive-node: handleSubmit of       *)
(* server.ts and ArchiveStore of store.ts.  A submission adds evidence to  *)
(* the entry of its record; the merged entry is set in memory and then     *)
(* appended to the file, by a call of appendFile of its own: the lines of  *)
(* overlapping submissions may come in either order.  The process crashes  *)
(* and starts again from the file, where the last line of a record counts. *)
(*                                                                         *)
(* An entry is the set of its evidence items (proofs, evidence blocks and  *)
(* facts under different names).  Retention is a read-side comparison with *)
(* the clock and is left out.                                              *)
(***************************************************************************)
EXTENDS JsonlFile, FiniteSets

CONSTANTS
  Records, Invalid,         \* records; those that fail the signature check
                            \* or the log commitment
  Evidence,
  Requests, RecOf, EvidenceOf,
  MaxFaults                 \* bound: crashes, failing and short writes

ASSUME ArchiveAssumption ==
  /\ Invalid \subseteq Records /\ MaxFaults \in Nat
  /\ RecOf \in [Requests -> Records] /\ EvidenceOf \in [Requests -> SUBSET Evidence]

VARIABLES
  entries,  \* the Map in memory; a record that is not in it has no "base" entry
  file,     \* the persistence file
  req,      \* requests, with the entry they are persisting
  up, faults,
  tears,     \* history: appends that were cut short
  disturbed, \* history: records with an append of their own that failed, was cut
             \* short or was lost in a crash, or that overlapped another submission
             \* of the record
  joined     \* history: records with a whole line that was written, and acknowledged,
             \* behind the torn end of the file and became part of it

vars == <<entries, file, req, up, faults, tears, disturbed, joined>>

Entries == [base : BOOLEAN, ev : SUBSET Evidence]
NoEntry == [base |-> FALSE, ev |-> {}]
Lines == [rec : Records, ev : SUBSET Evidence]

ASSUME GarbageAssumption == Garbage \notin Lines

TypeOK ==
  /\ entries \in [Records -> Entries]
  /\ \A r \in Invalid : entries[r] = NoEntry
  /\ file.lines \in Seq(Lines \cup {Garbage}) /\ file.torn \in BOOLEAN
  /\ req \in [Requests -> [step : {"idle", "verify", "persist", "ok", "rejected", "failed",
                                   "lost"}, ev : SUBSET Evidence]]
  /\ up \in BOOLEAN /\ faults \in 0..MaxFaults /\ tears \in 0..MaxFaults
  /\ disturbed \subseteq Records /\ joined \subseteq Records

Init ==
  /\ entries = [r \in Records |-> NoEntry]
  /\ file = EmptyFile
  /\ req = [q \in Requests |-> [step |-> "idle", ev |-> {}]]
  /\ up = TRUE /\ faults = 0 /\ tears = 0 /\ disturbed = {} /\ joined = {}

Answer(q, step) == req' = [req EXCEPT ![q] = [step |-> step, ev |-> {}]]

Persisting(r) == {q \in Requests : req[q].step = "persist" /\ RecOf[q] = r}

-----------------------------------------------------------------------------
Submit(q) ==
  /\ up /\ req[q].step = "idle" /\ Answer(q, "verify")
  /\ UNCHANGED <<entries, file, up, faults, tears, disturbed, joined>>

\* mergeEntries
Merge(existing, ev) == existing.ev \cup ev

\* Mutant of Accepted: the store is written before the commitment is confirmed.
AcceptedAny(q) == TRUE

\* The signature verifies and a trusted log has the record.
Accepted(q) == RecOf[q] \notin Invalid

\* The store is not touched.
RejectSubmission(q) ==
  /\ up /\ req[q].step = "verify" /\ ~Accepted(q)
  /\ Answer(q, "rejected")
  /\ UNCHANGED <<entries, file, up, faults, tears, disturbed, joined>>

\* put up to the append: nothing is written when the entry did not change.
Put(q) ==
  LET r == RecOf[q]
      entry == [base |-> TRUE, ev |-> Merge(entries[r], EvidenceOf[q])]
  IN
  /\ up /\ req[q].step = "verify" /\ Accepted(q)
  /\ entries' = [entries EXCEPT ![r] = entry]
  /\ req' = [req EXCEPT ![q] = IF entry # entries[r]
                                 THEN [step |-> "persist", ev |-> entry.ev]
                                 ELSE [step |-> "ok", ev |-> {}]]
  /\ disturbed' = disturbed \cup (IF Persisting(r) # {} THEN {r} ELSE {})
  /\ UNCHANGED <<file, up, faults, tears, joined>>

\* Mutant of Line: what was submitted is written instead of the merged entry.
LineSubmitted(q) == [rec |-> RecOf[q], ev |-> EvidenceOf[q]]

Line(q) == [rec |-> RecOf[q], ev |-> req[q].ev]

Persist(q) ==
  /\ up /\ req[q].step = "persist"
  /\ file' = AppendLine(file, Line(q))
  /\ joined' = joined \cup (IF file.torn THEN {RecOf[q]} ELSE {})
  /\ Answer(q, "ok")
  /\ UNCHANGED <<entries, up, faults, tears, disturbed>>

Fault == faults < MaxFaults /\ faults' = faults + 1

\* appendFile rejects, after part of the line was written or before: the caller is
\* told so, and the entry stays in memory.
PersistFails(q) ==
  /\ up /\ req[q].step = "persist" /\ Fault
  /\ \/ UNCHANGED <<file, tears>>
     \/ file' \in CutLine(file, Line(q)) /\ tears' = tears + 1
  /\ Answer(q, "failed")
  /\ disturbed' = disturbed \cup {RecOf[q]}
  /\ UNCHANGED <<entries, up, joined>>

\* A crash; one append may have been cut short by it, or be done but not answered.
Crash ==
  /\ up /\ Fault /\ up' = FALSE
  /\ entries' = [r \in Records |-> NoEntry]
  /\ \/ UNCHANGED <<file, tears>>
     \/ \E q \in Requests : req[q].step = "persist"
          /\ \/ file' = AppendLine(file, Line(q)) /\ UNCHANGED tears
             \/ file' \in CutLine(file, Line(q)) /\ tears' = tears + 1
  /\ req' = [q \in Requests |-> IF req[q].step \in {"verify", "persist"}
                                  THEN [step |-> "lost", ev |-> {}] ELSE req[q]]
  /\ disturbed' = disturbed \cup {RecOf[q] : q \in {p \in Requests : req[p].step = "persist"}}
  /\ UNCHANGED joined

\* The submission queue does not repeat a failed archive submission, but another
\* producer, or the same one later, sends the record again.
Resend(q) ==
  /\ req[q].step \in {"lost", "failed"} /\ Answer(q, "idle")
  /\ UNCHANGED <<entries, file, up, faults, tears, disturbed, joined>>

-----------------------------------------------------------------------------
\* init: lines that do not parse are skipped, later lines replace earlier ones.
Own(r, lines) == {i \in DOMAIN lines : lines[i] # Garbage /\ lines[i].rec = r}

Last(own) == CHOOSE i \in own : \A j \in own : j <= i

Restored(r, lines) ==
  IF Own(r, lines) = {} THEN NoEntry
  ELSE [base |-> TRUE, ev |-> lines[Last(Own(r, lines))].ev]

Restart ==
  /\ ~up /\ up' = TRUE
  /\ entries' = [r \in Records |-> Restored(r, file.lines)]
  /\ UNCHANGED <<file, req, faults, tears, disturbed, joined>>

Next ==
  \/ \E q \in Requests :
       \/ Submit(q) \/ RejectSubmission(q) \/ Put(q) \/ Persist(q) \/ PersistFails(q)
       \/ Resend(q)
  \/ Crash \/ Restart

Spec == Init /\ [][Next]_vars

-----------------------------------------------------------------------------
(* Properties. *)

\* A restart brings back what the submission came with.
Kept(q) ==
  LET kept == Restored(RecOf[q], file.lines)
  IN  kept.base /\ EvidenceOf[q] \subseteq kept.ev

Lost == {RecOf[q] : q \in {p \in Requests : req[p].step = "ok" /\ ~Kept(p)}}

\* What was acknowledged survives a restart: the body of the record and every piece
\* of evidence that came with it, whatever other submissions added before and after.
\* Two kinds of record are excepted: those with an append of their own that failed or
\* was interrupted, or that overlapped another submission of the record; and for every
\* append that was cut short one other record, whose line was written whole and
\* acknowledged but joined to the torn end of the file, which does not parse.
AcknowledgedKept == Cardinality(Lost \ disturbed) <= tears

-----------------------------------------------------------------------------
(* The inductive invariant. *)

\* Only verified records are written, and the torn end of the file is garbage or the
\* line of a record that counts as disturbed.
FileFits ==
  /\ file = [lines |-> file.lines, torn |-> file.torn]
  /\ \A i \in DOMAIN file.lines : file.lines[i] # Garbage => file.lines[i].rec \notin Invalid
  /\ file.torn => file.lines # <<>>
  /\ file.torn => LET last == file.lines[Len(file.lines)]
                  IN  last = Garbage \/ last.rec \in disturbed

Spoiled == disturbed \cup joined

\* Every tear spoils one line behind it; a torn end has not done so yet.
JoinsFit ==
  /\ IsFiniteSet(joined) /\ tears <= faults
  /\ Cardinality(joined) + (IF file.torn THEN 1 ELSE 0) <= tears

\* The memory of a record that was not spoiled is the file's, or its only submission
\* under way is about to bring the file up to it.
InStep(r) ==
  IF Persisting(r) = {} THEN entries[r] = Restored(r, file.lines)
  ELSE \E q \in Requests :
         /\ Persisting(r) = {q}
         /\ entries[r] = [base |-> TRUE, ev |-> req[q].ev]
         /\ Restored(r, file.lines).ev \subseteq req[q].ev

MemoryFits == up => \A r \in Records \ Spoiled : InStep(r)

\* Requests under way are of a running process; those persisting were accepted, and
\* their entry holds what they came with.
RequestsFit ==
  /\ \A q \in Requests : req[q].step \in {"verify", "persist"} => up
  /\ \A q \in Requests : req[q].step = "persist" =>
       Accepted(q) /\ EvidenceOf[q] \subseteq req[q].ev

KeptUnlessSpoiled ==
  \A q \in Requests : req[q].step = "ok" /\ RecOf[q] \notin Spoiled => Kept(q)

Inv == TypeOK /\ FileFits /\ JoinsFit /\ RequestsFit /\ MemoryFits /\ KeptUnlessSpoiled
=============================================================================
