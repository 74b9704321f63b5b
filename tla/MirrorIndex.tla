----------------------------- MODULE MirrorIndex -----------------------------
(***************************************************************************)
(* The chain tail of a context, read from the mirror files of a directory: *)
(* readMirrorCorpusTail of packages/mcp/src/mirror.ts.  Every producer     *)
(* appends its records to a file of its own; a reader combines the last    *)
(* record of each file and keeps the result in an index file, from which   *)
(* later reads continue at the sizes the index was made for.  Writers      *)
(* append, and files are replaced, while a read is under way.              *)
(*                                                                         *)
(* One context is followed.  A line is the rank of its record in the order *)
(* of isLaterCorpusTail (timestamp, then hash), 0 for a line of another    *)
(* context or one that does not parse.  A line and its newline are two     *)
(* units of file size: an odd size ends inside a line.  Files are appended *)
(* to or replaced (another inode), never rewritten in place.               *)
(***************************************************************************)
EXTENDS Integers, Sequences, FiniteSets, SequencesExt

CONSTANTS
  NFiles,       \* mirror files, in the order of their names
  NRecords,     \* records of the context, in isLaterCorpusTail order
  Readers,
  MaxRounds,    \* MAX_INCREMENTAL_ROUNDS
  MaxWrites, MaxReads  \* bounds: appends and replacements, reads per reader

ASSUME MirrorAssumption ==
  /\ NFiles \in Nat /\ NRecords \in Nat
  /\ MaxRounds \in Nat \ {0}
  /\ MaxWrites \in Nat /\ MaxReads \in Nat

Files == 1..NFiles
Lines == 0..NRecords

VARIABLES
  file,     \* the mirror files
  index,    \* the index file, or NoIndex
  reader,   \* the readers
  writes,
  seen      \* history: the tails each file had during the current read

mirrorVars == <<file, index, reader, writes, seen>>

NoTail == [src |-> 0, rec |-> 0]
Tails == [src : 0..NFiles, rec : Lines]
Fingerprint == [ino : Nat, size : Nat]
Absent == [ino |-> 0, size |-> 0]
NoIndex == [made |-> FALSE, files |-> [f \in Files |-> Absent], tail |-> NoTail]

\* loadIndex: the first snapshot is taken; scanNew: appended parts are read;
\* scanAll: whole files are read; again/check: the snapshot that follows them.
Steps == {"idle", "loadIndex", "scanNew", "again", "scanAll", "check", "done"}

Idle(reads) ==
  [step |-> "idle", stat |-> {}, snap |-> [f \in Files |-> Absent],
   base |-> [f \in Files |-> Absent], scan |-> {}, tail |-> NoTail,
   found |-> [f \in Files |-> 0], changed |-> FALSE, round |-> 0, reads |-> reads]

MirrorTypeOK ==
  /\ file \in [Files -> [ino : Nat, lines : Seq(Lines), torn : BOOLEAN]]
  /\ \A f \in Files : file[f].torn => file[f].lines # <<>>
  /\ index \in [made : BOOLEAN, files : [Files -> Fingerprint], tail : Tails]
  /\ reader \in [Readers -> [step : Steps, stat : SUBSET Files, snap : [Files -> Fingerprint],
                             base : [Files -> Fingerprint], scan : SUBSET Files, tail : Tails,
                             found : [Files -> Lines], changed : BOOLEAN,
                             round : 0..Max({1, MaxRounds - 1}), reads : 0..MaxReads]]
  /\ writes \in 0..MaxWrites
  /\ seen \in [Readers -> [Files -> SUBSET Lines]]

MirrorInit ==
  /\ file \in [Files -> {[ino |-> Len(l), lines |-> l, torn |-> FALSE] :
                          l \in {<<>>} \cup {<<line>> : line \in Lines}}]
  /\ index = NoIndex
  /\ reader = [p \in Readers |-> Idle(0)]
  /\ writes = 0
  /\ seen = [p \in Readers |-> [f \in Files |-> {}]]

-----------------------------------------------------------------------------
Size(s) == 2 * Len(s.lines) - (IF s.torn THEN 1 ELSE 0)
FingerprintOf(s) == [ino |-> s.ino, size |-> Size(s)]

\* The last record of the context in a sequence of lines, or 0.
TailOf(lines) ==
  LET own == {i \in DOMAIN lines : lines[i] # 0}
  IN  IF own = {} THEN 0 ELSE lines[Max(own)]

\* What a whole file may yield: an unfinished last line may parse or not.
FileTails(s) == {TailOf(s.lines)} \cup (IF s.torn THEN {TailOf(Front(s.lines))} ELSE {})

\* mergeCorpusTail over the files in name order: the first of the latest.
Merged(found) ==
  LET best == Max({found[f] : f \in Files} \cup {0})
  IN  IF best = 0 THEN NoTail
      ELSE [src |-> Min({f \in Files : found[f] = best}), rec |-> best]

\* The lines of a file up to a recorded size.
Prefix(s, size) == SubSeq(s.lines, 1, size \div 2)

-----------------------------------------------------------------------------
(* Writers, and replacement of files. *)

Observe(f, s) ==
  seen' = [p \in Readers |-> IF reader[p].step \in {"idle", "done"} THEN seen[p]
                             ELSE [seen[p] EXCEPT ![f] = @ \cup FileTails(s)]]

Write(f, s) ==
  /\ file' = [file EXCEPT ![f] = s]
  /\ Observe(f, s)
  /\ UNCHANGED <<index, reader>>

BeginAppend(f, line) ==
  /\ writes < MaxWrites /\ writes' = writes + 1
  /\ file[f].ino > 0 /\ ~file[f].torn
  /\ Write(f, [file[f] EXCEPT !.lines = Append(@, line), !.torn = TRUE])

EndAppend(f) ==
  /\ file[f].torn
  /\ Write(f, [file[f] EXCEPT !.torn = FALSE])
  /\ UNCHANGED writes

\* A file is created, or replaced by a new one that holds one line.
Replace(f, line) ==
  /\ writes < MaxWrites /\ writes' = writes + 1
  /\ ~file[f].torn
  /\ Write(f, [ino |-> file[f].ino + 1, lines |-> <<line>>, torn |-> FALSE])

-----------------------------------------------------------------------------
(* Readers. *)

Reader(p, r) == reader' = [reader EXCEPT ![p] = r]

\* snapshotMirrorCorpus: each file is stat'ed at a moment of its own.
Snapshot(r, step) ==
  [r EXCEPT !.step = step, !.stat = Files, !.snap = [f \in Files |-> Absent]]

StatFile(p, f) ==
  /\ f \in reader[p].stat
  /\ Reader(p, [reader[p] EXCEPT !.stat = @ \ {f}, !.snap[f] = FingerprintOf(file[f])])
  /\ UNCHANGED <<file, index, writes, seen>>

StartRead(p) ==
  /\ reader[p].step \in {"idle", "done"} /\ reader[p].reads < MaxReads
  /\ Reader(p, Snapshot(Idle(reader[p].reads + 1), "loadIndex"))
  /\ seen' = [seen EXCEPT ![p] = [f \in Files |-> FileTails(file[f])]]
  /\ UNCHANGED <<file, index, writes>>

\* fullScanCorpusTail: its attempts begin with a snapshot of their own.
FullScan(r) == [Snapshot(Idle(r.reads), "scanAll") EXCEPT !.scan = Files]

Return(r) == [Idle(r.reads) EXCEPT !.step = "done", !.tail = r.tail]

\* Mutant of AppendOnly: a file is taken by its name only.
AppendOnlyByName(old, new) == \A f \in Files : new[f].size >= old[f].size

\* appendOnlyChanges: no file is gone, replaced or shorter.
AppendOnly(old, new) ==
  \A f \in Files : old[f].ino # 0 => new[f].ino = old[f].ino /\ new[f].size >= old[f].size

\* The files with something to read since the older snapshot.
Changes(old, new) == {f \in Files : new[f] # old[f]}

\* fileEndsWithNewline at a recorded size, in the file as it is now.
EndsWithNewline(f, size) == size = 0 \/ (Size(file[f]) >= size /\ size % 2 = 0)

\* appendBoundariesIntact
BoundariesIntact(old, new) ==
  \A f \in Changes(old, new) : EndsWithNewline(f, old[f].size)

\* The index is loaded and compared with the snapshot.
LoadIndex(p) ==
  LET r == reader[p] IN
  /\ r.step = "loadIndex" /\ r.stat = {}
  /\ Reader(p, IF /\ index.made
                  /\ AppendOnly(index.files, r.snap)
                  /\ BoundariesIntact(index.files, r.snap)
                 THEN [r EXCEPT !.step = "scanNew", !.base = index.files,
                                !.tail = index.tail, !.scan = Changes(index.files, r.snap)]
                 ELSE FullScan(r))
  /\ UNCHANGED <<file, index, writes, seen>>

\* Mutant of MergeNew: a file's later line always replaces its earlier one.
MergeNewOverwrites(tail, f, rec) ==
  IF rec # 0 /\ (tail.src = f \/ rec > tail.rec) THEN {[src |-> f, rec |-> rec]} ELSE {tail}

\* The tail after the appended part of f was read, none when only a full scan can
\* tell: the file that held the tail now ends with an earlier record.
MergeNew(tail, f, rec) ==
  IF rec = 0 THEN {tail}
  ELSE IF rec > tail.rec THEN {[src |-> f, rec |-> rec]}
  ELSE IF tail.src = f THEN {} ELSE {tail}

\* scanAppendedTails of one file, in name order.
ScanNew(p) ==
  LET r == reader[p]
      f == Min(r.scan)
      complete == Size(file[f]) >= r.snap[f].size /\ r.snap[f].size % 2 = 0
      added == SubSeq(file[f].lines, (r.base[f].size \div 2) + 1, r.snap[f].size \div 2)
  IN
  /\ r.step = "scanNew" /\ r.scan # {}
  /\ IF complete /\ MergeNew(r.tail, f, TailOf(added)) # {}
       THEN \E t \in MergeNew(r.tail, f, TailOf(added)) :
              Reader(p, [r EXCEPT !.scan = @ \ {f}, !.tail = t, !.changed = TRUE])
       ELSE Reader(p, FullScan(r))
  /\ UNCHANGED <<file, index, writes, seen>>

\* All appended parts are read: another snapshot shows whether files grew meanwhile.
Recheck(p) ==
  LET r == reader[p] IN
  /\ r.step = "scanNew" /\ r.scan = {}
  /\ Reader(p, Snapshot([r EXCEPT !.base = r.snap], "again"))
  /\ UNCHANGED <<file, index, writes, seen>>

\* writeMirrorTailIndex: a failing write is swallowed.
WriteIndex(files, tail) == index' \in {index, [made |-> TRUE, files |-> files, tail |-> tail]}

\* Mutant of Continue: the rounds are not bounded.
ContinueForever(p) ==
  LET r == reader[p]
      grown == AppendOnly(r.base, r.snap) /\ BoundariesIntact(r.base, r.snap)
  IN
  /\ r.step = "again" /\ r.stat = {}
  /\ IF r.snap # r.base /\ grown
       THEN /\ Reader(p, [r EXCEPT !.step = "scanNew", !.round = @ + 1,
                                   !.scan = Changes(r.base, r.snap)])
            /\ UNCHANGED index
       ELSE IF r.snap = r.base
       THEN /\ Reader(p, Return(r))
            /\ IF r.changed THEN WriteIndex(r.base, r.tail) ELSE UNCHANGED index
       ELSE Reader(p, FullScan(r)) /\ UNCHANGED index
  /\ UNCHANGED <<file, writes, seen>>

\* Unchanged: the tail is returned.  Grown: the new part is read in another round,
\* or after the last one the tail of what was read is returned.  The index is
\* written for the sizes that were read.
Continue(p) ==
  LET r == reader[p]
      grown == AppendOnly(r.base, r.snap) /\ BoundariesIntact(r.base, r.snap)
  IN
  /\ r.step = "again" /\ r.stat = {}
  /\ IF r.snap # r.base /\ grown /\ r.round + 1 < MaxRounds
       THEN /\ Reader(p, [r EXCEPT !.step = "scanNew", !.round = @ + 1,
                                   !.scan = Changes(r.base, r.snap)])
            /\ UNCHANGED index
       ELSE IF r.snap = r.base \/ grown
       THEN /\ Reader(p, Return(r))
            /\ IF r.changed THEN WriteIndex(r.base, r.tail) ELSE UNCHANGED index
       ELSE Reader(p, FullScan(r)) /\ UNCHANGED index
  /\ UNCHANGED <<file, writes, seen>>

\* scanMirrorFileTails of one file.
ScanFile(p, f) ==
  LET r == reader[p] IN
  /\ r.step = "scanAll" /\ r.stat = {} /\ f \in r.scan
  /\ \E t \in FileTails(file[f]) :
       Reader(p, [r EXCEPT !.scan = @ \ {f}, !.found[f] = t])
  /\ UNCHANGED <<file, index, writes, seen>>

\* All files are read: the tail is known, and a snapshot shows what changed.
ScannedAll(p) ==
  LET r == reader[p] IN
  /\ r.step = "scanAll" /\ r.stat = {} /\ r.scan = {}
  /\ Reader(p, Snapshot([r EXCEPT !.base = r.snap, !.tail = Merged(r.found),
                                  !.found = [f \in Files |-> 0]], "check"))
  /\ UNCHANGED <<file, index, writes, seen>>

\* Unchanged and every file ends a line: the index is written.  Changed: one more
\* attempt, then the tail is returned as it is.
CheckScan(p) ==
  LET r == reader[p] IN
  /\ r.step = "check" /\ r.stat = {}
  /\ IF r.snap # r.base /\ r.round = 0
       THEN Reader(p, [FullScan(r) EXCEPT !.round = 1]) /\ UNCHANGED index
       ELSE /\ Reader(p, Return(r))
            /\ IF r.snap = r.base /\ \A f \in Files : EndsWithNewline(f, r.snap[f].size)
                 THEN WriteIndex(r.snap, r.tail)
                 ELSE UNCHANGED index
  /\ UNCHANGED <<file, writes, seen>>

-----------------------------------------------------------------------------
MirrorNext ==
  \/ \E f \in Files, line \in Lines : BeginAppend(f, line) \/ Replace(f, line)
  \/ \E f \in Files : EndAppend(f)
  \/ \E p \in Readers :
       \/ StartRead(p) \/ LoadIndex(p) \/ ScanNew(p) \/ Recheck(p) \/ Continue(p)
       \/ ScannedAll(p) \/ CheckScan(p)
       \/ \E f \in Files : StatFile(p, f) \/ ScanFile(p, f)

MirrorSpec == MirrorInit /\ [][MirrorNext]_mirrorVars

-----------------------------------------------------------------------------
(* Properties. *)

\* "Truncation, replacement, or a removed file still falls back to the full scan":
\* whatever is appended or replaced meanwhile, a read returns the latest among
\* tails its files really had while it ran, through the index or not.  A producer
\* that mirrored a record before the read is not chained behind it.
ReadFresh ==
  \A p \in Readers : reader[p].step = "done" =>
    \E had \in [Files -> Lines] :
      /\ \A f \in Files : had[f] \in seen[p][f]
      /\ reader[p].tail.rec = Max({had[f] : f \in Files} \cup {0})

\* The index file is right for the sizes it names: when no file was replaced since,
\* its tail is what a full scan of those parts of the files would find, whichever
\* readers wrote it last and in whatever order.
IndexSound ==
  index.made /\ (\A f \in Files : index.files[f].ino \in {0, file[f].ino}) =>
    /\ \A f \in Files : EndsWithNewline(f, index.files[f].size)
    /\ LET found == [f \in Files |-> TailOf(Prefix(file[f], index.files[f].size))] IN
       /\ index.tail.rec = Merged(found).rec
       /\ index.tail.rec # 0 => found[index.tail.src] = index.tail.rec
-----------------------------------------------------------------------------
(* The inductive invariant.  What a reader knows of a file is put in terms of *)
(* the file as it is now, as long as it was not replaced; a replacement is    *)
(* found by the snapshot that follows every scan.                             *)

\* What was recorded of file f at an earlier moment: files grow, and a new one
\* takes a new inode.
Recorded(f, fp) ==
  /\ fp.ino <= file[f].ino
  /\ fp.ino = 0 => fp.size = 0
  /\ fp.ino = file[f].ino => fp.size <= Size(file[f])

RecordsFit ==
  /\ \A f \in Files : file[f].ino = 0 => file[f].lines = <<>>
  /\ \A f \in Files : Recorded(f, index.files[f])
  /\ \A p \in Readers, f \in Files : Recorded(f, reader[p].snap[f]) /\ Recorded(f, reader[p].base[f])

Current(fps) == \A f \in Files : fps[f].ino \in {0, file[f].ino}

WholeLines(fps) == \A f \in Files : fps[f].size % 2 = 0

TailUpTo(f, fp) == TailOf(Prefix(file[f], fp.size))

\* rec is the latest of what the files had.
Latest(had, rec) ==
  /\ \A f \in Files : had[f] <= rec
  /\ rec # 0 => \E f \in Files : had[f] = rec

\* The tail is that of the files up to the recorded sizes.
TailFits(fps, tail) ==
  /\ \A f \in Files : TailUpTo(f, fps[f]) <= tail.rec
  /\ tail.rec # 0 => tail.src \in Files /\ TailUpTo(tail.src, fps[tail.src]) = tail.rec

IndexKnown ==
  index.made => WholeLines(index.files) /\ (Current(index.files) => TailFits(index.files, index.tail))

Reading(p) == reader[p].step \notin {"idle", "done"}

\* The present tails of a file are among those seen, and so are those it had when
\* it was stat'ed.
TailsSeen(p) ==
  Reading(p) => \A f \in Files :
    /\ FileTails(file[f]) \subseteq seen[p][f]
    /\ LET fp == reader[p].snap[f] IN
       f \notin reader[p].stat /\ fp.ino \in {0, file[f].ino} /\ fp.size % 2 = 0
         => TailUpTo(f, fp) \in seen[p][f]

\* The tail of a read is the latest of tails the files had during it.
Fresh(p) ==
  \E had \in [Files -> Lines] :
    /\ \A f \in Files : had[f] \in seen[p][f]
    /\ Latest(had, reader[p].tail.rec)

\* Sizes up to which the files were read while appended parts are scanned.
ReadUpTo(r) == [f \in Files |-> IF f \in r.scan THEN r.base[f] ELSE r.snap[f]]

ScanningNew(p) ==
  LET r == reader[p] IN
  r.step = "scanNew" =>
    /\ r.stat = {} /\ r.scan \subseteq Changes(r.base, r.snap)
    /\ AppendOnly(r.base, r.snap)
    /\ WholeLines(r.base) /\ WholeLines(ReadUpTo(r))
    /\ Current(r.snap) => TailFits(ReadUpTo(r), r.tail)

\* The second snapshot shows, or is going to show, that f was replaced.
Replaced(r, f) ==
  /\ r.base[f].ino # 0
  /\ r.base[f].ino # IF f \in r.stat THEN file[f].ino ELSE r.snap[f].ino

Rechecking(p) ==
  LET r == reader[p] IN
  r.step = "again" =>
    /\ WholeLines(r.base)
    /\ Current(r.base) => TailFits(r.base, r.tail)
    /\ Fresh(p) \/ \E f \in Files : Replaced(r, f)

ScanningAll(p) ==
  LET r == reader[p] IN
  r.step = "scanAll" =>
    /\ r.stat # {} => r.scan = Files
    /\ \A f \in Files \ r.scan :
         /\ r.found[f] \in seen[p][f]
         /\ r.snap[f] = FingerprintOf(file[f]) /\ r.snap[f].size % 2 = 0
              => r.found[f] = TailUpTo(f, r.snap[f])

\* The snapshot after a full scan has found f as before, or may still do so.
Unmoved(r, f) ==
  r.base[f] = IF f \in r.stat THEN FingerprintOf(file[f]) ELSE r.snap[f]

Checking(p) ==
  LET r == reader[p] IN
  r.step = "check" =>
    /\ Fresh(p)
    /\ Current(r.base) /\ WholeLines(r.base) /\ (\A f \in Files : Unmoved(r, f))
         => TailFits(r.base, r.tail)

Returned(p) == reader[p].step = "done" => Fresh(p)

MirrorInv ==
  /\ MirrorTypeOK /\ RecordsFit /\ IndexKnown
  /\ \A p \in Readers : /\ TailsSeen(p) /\ ScanningNew(p) /\ Rechecking(p)
                        /\ ScanningAll(p) /\ Checking(p) /\ Returned(p)
=============================================================================
