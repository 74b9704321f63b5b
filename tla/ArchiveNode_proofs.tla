-------------------------- MODULE ArchiveNode_proofs --------------------------
(***************************************************************************)
(* Proofs about ArchiveNode, for any records, evidence and submissions,    *)
(* and any number of faults and crashes.                                   *)
(***************************************************************************)
EXTENDS ArchiveNode, Integers, FiniteSetTheorems, WellFoundedInduction, TLAPS

USE ArchiveAssumption, GarbageAssumption

ReqState ==
  [step : {"idle", "verify", "persist", "ok", "rejected", "failed", "lost"},
   ev : SUBSET Evidence]

FileLines == Seq(Lines \cup {Garbage})

-----------------------------------------------------------------------------
(* The last line of a record. *)

\* A set of naturals with an element has a least one.
LEMMA LeastNat ==
  ASSUME NEW T \in SUBSET Nat, T # {}
  PROVE  \E m \in T : \A k \in T : m <= k
<1>1. PICK m \in T : \A k \in T : ~(<<k, m>> \in OpToRel(<, Nat))
  BY WFMin, NatLessThanWellFounded, Zenon
<1>2. \A k \in T : ~(k < m)
  BY <1>1 DEF OpToRel
<1> QED BY <1>2

LEMMA LastIsOwn ==
  ASSUME NEW n \in Nat, NEW own \in SUBSET (1..n), own # {}
  PROVE  Last(own) \in own /\ \A j \in own : j <= Last(own)
<1> DEFINE T == {k \in Nat : n - k \in own}
<1>1. T # {}
  <2>1. PICK i \in own : TRUE
    OBVIOUS
  <2>2. n - i \in T
    BY <2>1
  <2> QED BY <2>2
<1>2. PICK m \in T : \A k \in T : m <= k
  BY <1>1, LeastNat
<1>3. \A j \in own : j <= n - m
  <2>1. ASSUME NEW j \in own PROVE j <= n - m
    <3>1. n - j \in Nat /\ n - (n - j) = j
      OBVIOUS
    <3>2. n - j \in T
      BY <3>1
    <3>3. m <= n - j
      BY <1>2, <3>2
    <3> QED BY <3>1, <3>3
  <2> QED BY <2>1
<1>4. \E i \in own : \A j \in own : j <= i
  BY <1>3
<1> QED BY <1>4 DEF Last

\* A record with a line is restored from the last one.
LEMMA RestoredLast ==
  ASSUME NEW lines \in FileLines, NEW r
  PROVE  /\ Own(r, lines) \subseteq 1..Len(lines)
         /\ Own(r, lines) # {} =>
              /\ Last(Own(r, lines)) \in Own(r, lines)
              /\ \A j \in Own(r, lines) : j <= Last(Own(r, lines))
<1>1. Own(r, lines) \subseteq 1..Len(lines) /\ Len(lines) \in Nat
  BY DEF Own, FileLines
<1> QED BY <1>1, LastIsOwn

\* Two files with the same lines of a record restore the same entry.
LEMMA RestoredSame ==
  ASSUME NEW l \in FileLines, NEW m \in FileLines, NEW r,
         Own(r, l) = Own(r, m), \A i \in Own(r, l) : l[i] = m[i]
  PROVE  Restored(r, l) = Restored(r, m)
<1>1. CASE Own(r, l) = {}
  BY <1>1 DEF Restored
<1>2. CASE Own(r, l) # {}
  <2>1. l[Last(Own(r, l))] = m[Last(Own(r, m))]
    BY <1>2, RestoredLast
  <2> QED BY <1>2, <2>1 DEF Restored
<1> QED BY <1>1, <1>2

\* A line at the end of the file counts for its record and for no other.
LEMMA RestoredAppend ==
  ASSUME NEW lines \in FileLines, NEW line \in Lines \cup {Garbage}, NEW r
  PROVE  /\ Append(lines, line) \in FileLines
         /\ line # Garbage /\ line.rec = r =>
              Restored(r, Append(lines, line)) = [base |-> TRUE, ev |-> line.ev]
         /\ line = Garbage \/ line.rec # r =>
              Restored(r, Append(lines, line)) = Restored(r, lines)
<1> DEFINE all == Append(lines, line)
<1>1. /\ all \in FileLines /\ Len(lines) \in Nat /\ DOMAIN lines = 1..Len(lines)
      /\ DOMAIN all = 1..(Len(lines) + 1) /\ all[Len(lines) + 1] = line
      /\ \A i \in 1..Len(lines) : all[i] = lines[i]
  BY DEF FileLines
<1> HIDE DEF all
<1>2. ASSUME line # Garbage, line.rec = r
      PROVE  Restored(r, all) = [base |-> TRUE, ev |-> line.ev]
  <2>1. Len(lines) + 1 \in Own(r, all)
    BY <1>1, <1>2 DEF Own
  <2>2. Last(Own(r, all)) \in Own(r, all) /\ Len(lines) + 1 <= Last(Own(r, all))
    BY <1>1, <2>1, RestoredLast
  <2>3. Last(Own(r, all)) \in 1..(Len(lines) + 1)
    BY <1>1, <2>2 DEF Own
  <2>4. Last(Own(r, all)) = Len(lines) + 1
    BY <1>1, <2>2, <2>3
  <2> QED BY <1>1, <2>1, <2>4 DEF Restored
<1>3. ASSUME line = Garbage \/ line.rec # r
      PROVE  Restored(r, all) = Restored(r, lines)
  <2>1. Own(r, all) = Own(r, lines)
    BY <1>1, <1>3 DEF Own
  <2>2. \A i \in Own(r, all) : all[i] = lines[i]
    BY <1>1, <2>1 DEF Own
  <2> QED BY <1>1, <2>1, <2>2, RestoredSame
<1> QED BY <1>1, <1>2, <1>3 DEF all

\* A line joined to the torn end of the file spoils only the line that is there.
LEMMA RestoredJoined ==
  ASSUME NEW f, f.lines \in FileLines, f.lines # <<>>, NEW r,
         f.lines[Len(f.lines)] = Garbage \/ f.lines[Len(f.lines)].rec # r
  PROVE  /\ JoinedLines(f) \in FileLines /\ JoinedLines(f) # <<>>
         /\ Len(JoinedLines(f)) = Len(f.lines)
         /\ JoinedLines(f)[Len(f.lines)] = Garbage
         /\ \A i \in DOMAIN JoinedLines(f) : i \in DOMAIN f.lines
              /\ (JoinedLines(f)[i] # Garbage => JoinedLines(f)[i] = f.lines[i])
         /\ Restored(r, JoinedLines(f)) = Restored(r, f.lines)
<1> DEFINE l == f.lines
           j == JoinedLines(f)
           n == Len(f.lines)
<1>1. /\ n \in Nat \ {0} /\ DOMAIN l = 1..n
      /\ j \in FileLines /\ DOMAIN j = 1..n /\ Len(j) = n /\ j[n] = Garbage
      /\ \A i \in 1..n : i # n => j[i] = l[i]
  BY DEF JoinedLines, FileLines
<1>2. j # <<>>
  BY <1>1
<1>3. Own(r, j) = Own(r, l)
  BY <1>1 DEF Own
<1>4. \A i \in Own(r, j) : j[i] = l[i]
  BY <1>1, <1>3 DEF Own
<1>5. Restored(r, j) = Restored(r, l)
  BY <1>1, <1>3, <1>4, RestoredSame
<1> QED BY <1>1, <1>2, <1>5

LEMMA JoinedShape ==
  ASSUME NEW f, f.lines \in FileLines, f.lines # <<>>
  PROVE  /\ JoinedLines(f) \in FileLines /\ JoinedLines(f) # <<>>
         /\ Len(JoinedLines(f)) = Len(f.lines)
         /\ JoinedLines(f)[Len(f.lines)] = Garbage
         /\ \A i \in DOMAIN JoinedLines(f) : i \in DOMAIN f.lines
              /\ (JoinedLines(f)[i] # Garbage => JoinedLines(f)[i] = f.lines[i])
<1> DEFINE n == Len(f.lines)
<1>1. /\ n \in Nat \ {0} /\ DOMAIN f.lines = 1..n
      /\ JoinedLines(f) \in FileLines /\ DOMAIN JoinedLines(f) = 1..n
      /\ Len(JoinedLines(f)) = n /\ JoinedLines(f)[n] = Garbage
      /\ \A i \in 1..n : i # n => JoinedLines(f)[i] = f.lines[i]
  BY DEF JoinedLines, FileLines
<1> QED BY <1>1

-----------------------------------------------------------------------------
(* The file after a write. *)

LEMMA Types ==
  ASSUME Inv
  PROVE  /\ file.lines \in FileLines /\ file.torn \in BOOLEAN
         /\ req \in [Requests -> ReqState] /\ entries \in [Records -> Entries]
         /\ disturbed \subseteq Records /\ joined \subseteq Records
         /\ faults \in Nat /\ tears \in Nat
BY DEF Inv, TypeOK, FileLines, ReqState

\* A whole line is written, or a part of one whose record then counts as disturbed.
LEMMA Written ==
  ASSUME Inv, NEW line \in Lines, line.rec \notin Invalid,
         NEW D, disturbed \subseteq D,
         \/ file' = AppendLine(file, line)
         \/ file' \in CutLine(file, line) /\ line.rec \in D,
         disturbed' = D
  PROVE  /\ file'.lines \in FileLines /\ file'.torn \in BOOLEAN /\ FileFits'
         /\ \A r : r \notin D /\ r # line.rec =>
              Restored(r, file'.lines) = Restored(r, file.lines)
         /\ ~file.torn /\ file' = AppendLine(file, line) =>
              Restored(line.rec, file'.lines) = [base |-> TRUE, ev |-> line.ev]
<1> USE Types
<1>1. /\ \A i \in DOMAIN file.lines : file.lines[i] # Garbage => file.lines[i].rec \notin Invalid
      /\ file.torn => file.lines # <<>>
      /\ file.torn => \/ file.lines[Len(file.lines)] = Garbage
                      \/ file.lines[Len(file.lines)].rec \in disturbed
  BY DEF Inv, FileFits
<1>2. CASE file.torn
  <2>1. PICK t \in BOOLEAN : file' = [lines |-> JoinedLines(file), torn |-> t]
    BY <1>2 DEF AppendLine, CutLine
  <2>2. file'.lines = JoinedLines(file) /\ file'.torn = t
    BY <2>1
  <2>3. FileFits'
    <3>1. file' = [lines |-> file'.lines, torn |-> file'.torn]
      BY <2>1
    <3> QED BY <1>1, <1>2, <2>2, <3>1, JoinedShape DEF FileFits
  <2>4. ASSUME NEW r, r \notin D
        PROVE  Restored(r, file'.lines) = Restored(r, file.lines)
    BY <1>1, <1>2, <2>2, <2>4, RestoredJoined
  <2> QED BY <1>1, <1>2, <2>2, <2>3, <2>4, JoinedShape
<1>3. CASE ~file.torn
  <2>1. PICK t \in BOOLEAN, l \in {line, Garbage} :
          /\ file' = [lines |-> Append(file.lines, l), torn |-> t]
          /\ file' = AppendLine(file, line) => l = line /\ ~t
          /\ t => line.rec \in D
          /\ l = line \/ line.rec \in D
    <3>1. CASE file' = AppendLine(file, line)
      <4>1. file' = [lines |-> Append(file.lines, line), torn |-> FALSE]
        BY <1>3, <3>1 DEF AppendLine
      <4> QED BY <4>1
    <3>2. CASE file' \in CutLine(file, line) /\ line.rec \in D
      <4>1. PICK l \in {line, Garbage} : file' = [lines |-> Append(file.lines, l), torn |-> TRUE]
        BY <1>3, <3>2 DEF CutLine
      <4>2. file'.torn = TRUE /\ AppendLine(file, line).torn = FALSE
        BY <4>1 DEF AppendLine
      <4>3. file' # AppendLine(file, line)
        BY <4>2
      <4> QED BY <3>2, <4>1, <4>3
    <3> QED BY <3>1, <3>2
  <2>2. file'.lines = Append(file.lines, l) /\ file'.torn = t
    BY <2>1
  <2>3. /\ file'.lines \in FileLines
        /\ \A r : r # line.rec => Restored(r, file'.lines) = Restored(r, file.lines)
        /\ l = line => Restored(line.rec, file'.lines) = [base |-> TRUE, ev |-> line.ev]
    <3>1. l \in Lines \cup {Garbage} /\ line # Garbage /\ (l = Garbage \/ l = line)
      BY <2>1
    <3>2. ASSUME NEW r, r # line.rec
          PROVE  Restored(r, file'.lines) = Restored(r, file.lines)
      <4>1. l = Garbage \/ l.rec # r
        BY <3>1, <3>2
      <4>2. Restored(r, Append(file.lines, l)) = Restored(r, file.lines)
        BY <3>1, <4>1, RestoredAppend
      <4> QED BY <2>2, <4>2
    <3>3. ASSUME l = line
          PROVE  Restored(line.rec, file'.lines) = [base |-> TRUE, ev |-> line.ev]
      <4>1. Restored(line.rec, Append(file.lines, line)) = [base |-> TRUE, ev |-> line.ev]
        BY <3>1, RestoredAppend
      <4> QED BY <2>2, <3>3, <4>1
    <3>4. file'.lines \in FileLines
      BY <2>2, <3>1, RestoredAppend
    <3> QED BY <3>2, <3>3, <3>4
  <2>4. FileFits'
    <3>1. /\ Len(file.lines) \in Nat /\ DOMAIN file.lines = 1..Len(file.lines)
          /\ DOMAIN file'.lines = 1..(Len(file.lines) + 1)
          /\ Len(file'.lines) = Len(file.lines) + 1
          /\ file'.lines[Len(file.lines) + 1] = l
          /\ \A i \in 1..Len(file.lines) : file'.lines[i] = file.lines[i]
      BY <2>1, <2>2 DEF FileLines
    <3>2. file' = [lines |-> file'.lines, torn |-> file'.torn]
      BY <2>1
    <3>3. file'.lines # <<>>
      BY <3>1
    <3>4. \A i \in DOMAIN file'.lines :
            file'.lines[i] # Garbage => file'.lines[i].rec \notin Invalid
      BY <1>1, <2>1, <3>1
    <3> QED BY <2>1, <2>2, <3>1, <3>2, <3>3, <3>4 DEF FileFits
  <2> QED BY <2>1, <2>2, <2>3, <2>4
<1> QED BY <1>2, <1>3

LEMMA RestoredEntry ==
  ASSUME NEW lines \in FileLines, NEW r
  PROVE  Restored(r, lines) \in Entries
<1>1. CASE Own(r, lines) = {}
  BY <1>1 DEF Restored, NoEntry, Entries
<1>2. CASE Own(r, lines) # {}
  <2>1. Last(Own(r, lines)) \in Own(r, lines)
    BY <1>2, RestoredLast
  <2>2. lines[Last(Own(r, lines))] \in Lines
    BY <2>1 DEF Own, FileLines
  <2> QED BY <1>2, <2>2 DEF Restored, Entries, Lines
<1> QED BY <1>1, <1>2

\* No line is of a record that was not verified.
LEMMA RestoredInvalid ==
  ASSUME Inv, NEW r \in Invalid
  PROVE  Restored(r, file.lines) = NoEntry
<1>1. Own(r, file.lines) = {}
  BY DEF Inv, FileFits, Own
<1> QED BY <1>1 DEF Restored

\* A whole line that is joined to the torn end of the file uses up the tear.
LEMMA JoinCounted ==
  ASSUME Inv, NEW r, joined' = joined \cup (IF file.torn THEN {r} ELSE {}),
         file'.torn = FALSE, faults' = faults, tears' = tears
  PROVE  JoinsFit'
<1> USE Types
<1>1. IsFiniteSet(joined) /\ Cardinality(joined) \in Nat
  BY FS_CardinalityType DEF Inv, JoinsFit
<1>2. CASE file.torn
  <2>1. joined' = joined \cup {r}
    BY <1>2
  <2>2. /\ IsFiniteSet(joined \cup {r})
        /\ Cardinality(joined \cup {r}) \in {Cardinality(joined), Cardinality(joined) + 1}
    BY <1>1, FS_AddElement
  <2> QED BY <1>1, <1>2, <2>1, <2>2 DEF Inv, JoinsFit
<1>3. CASE ~file.torn
  BY <1>1, <1>3 DEF Inv, JoinsFit
<1> QED BY <1>2, <1>3

\* An append that is cut short adds a tear, the fault that cut it, and may leave the
\* file torn.
LEMMA TearCounted ==
  ASSUME Inv, joined' = joined, faults < MaxFaults, faults' = faults + 1, NEW line,
         \/ file' = file /\ tears' = tears
         \/ file' = AppendLine(file, line) /\ tears' = tears
         \/ file' \in CutLine(file, line) /\ tears' = tears + 1
  PROVE  JoinsFit' /\ tears' \in 0..MaxFaults
<1> USE Types
<1>1. IsFiniteSet(joined) /\ Cardinality(joined) \in Nat
  BY FS_CardinalityType DEF Inv, JoinsFit
<1>2. /\ tears <= faults
      /\ Cardinality(joined) + (IF file.torn THEN 1 ELSE 0) <= tears
  BY DEF Inv, JoinsFit
<1>3. file' = AppendLine(file, line) => file'.torn = FALSE
  BY DEF AppendLine
<1>4. tears' <= faults' /\ tears' \in 0..MaxFaults
  BY <1>2
<1>5. Cardinality(joined) + (IF file'.torn THEN 1 ELSE 0) <= tears'
  BY <1>1, <1>2, <1>3
<1> QED BY <1>1, <1>4, <1>5 DEF JoinsFit

-----------------------------------------------------------------------------
(* The actions. *)

LEMMA InitInv == Init => Inv
<1> SUFFICES ASSUME Init PROVE Inv
  OBVIOUS
<1>1. file.lines = <<>> /\ file.torn = FALSE
  BY DEF Init, EmptyFile
<1>2. file = [lines |-> file.lines, torn |-> file.torn]
  BY <1>1 DEF Init, EmptyFile
<1>3. TypeOK
  <2>1. entries \in [Records -> Entries] /\ \A r \in Invalid : entries[r] = NoEntry
    BY DEF Init, NoEntry, Entries
  <2>2. file.lines \in Seq(Lines \cup {Garbage}) /\ file.torn \in BOOLEAN
    <3>1. <<>> \in Seq(Lines \cup {Garbage})
      OBVIOUS
    <3> QED BY <1>1, <3>1
  <2>3. req \in [Requests -> ReqState]
    BY DEF Init, ReqState
  <2>4. /\ up \in BOOLEAN /\ faults \in 0..MaxFaults /\ tears \in 0..MaxFaults
        /\ disturbed \subseteq Records /\ joined \subseteq Records
    BY DEF Init
  <2> QED BY <2>1, <2>2, <2>3, <2>4 DEF TypeOK, ReqState
<1>4. FileFits
  BY <1>1, <1>2 DEF FileFits
<1>5. \A r \in Records : Own(r, file.lines) = {} /\ Persisting(r) = {}
  BY <1>1 DEF Own, Persisting, Init
<1>6. MemoryFits
  BY <1>5 DEF MemoryFits, InStep, Restored, Init
<1>7. RequestsFit /\ KeptUnlessSpoiled
  BY DEF RequestsFit, KeptUnlessSpoiled, Init
<1>8. JoinsFit
  BY <1>1, FS_EmptySet DEF JoinsFit, Init
<1> QED BY <1>3, <1>4, <1>6, <1>7, <1>8 DEF Inv

\* A request changes its step outside put.
LEMMA QuietStep ==
  ASSUME Inv, NEW q \in Requests, NEW s \in {"idle", "verify", "rejected"},
         Answer(q, s), req[q].step # "persist", s = "verify" => up,
         UNCHANGED <<entries, file, up, faults, tears, disturbed, joined>>
  PROVE  Inv'
<1> USE Types
<1>1. /\ req' \in [Requests -> ReqState]
      /\ req'[q] = [step |-> s, ev |-> {}]
      /\ \A p \in Requests : p # q => req'[p] = req[p]
  BY DEF Answer, ReqState
<1>2. TypeOK'
  BY <1>1 DEF Inv, TypeOK, ReqState
<1>3. FileFits' /\ JoinsFit' /\ Spoiled' = Spoiled
  BY DEF Inv, FileFits, JoinsFit, Spoiled
<1>4. RequestsFit'
  BY <1>1 DEF Inv, RequestsFit, Accepted
<1>5. \A r \in Records : Persisting(r)' = Persisting(r)
  BY <1>1 DEF Persisting
<1>6. MemoryFits'
  <2>1. SUFFICES ASSUME up, NEW r \in Records \ Spoiled PROVE InStep(r)'
    BY <1>3 DEF MemoryFits
  <2>2. InStep(r)
    BY <2>1 DEF Inv, MemoryFits
  <2>3. \A p \in Requests : Persisting(r) = {p} => req'[p] = req[p]
    BY <1>1 DEF Persisting
  <2> QED BY <1>5, <2>2, <2>3 DEF InStep
<1>7. KeptUnlessSpoiled'
  BY <1>1, <1>3 DEF Inv, KeptUnlessSpoiled, Kept
<1> QED BY <1>2, <1>3, <1>4, <1>6, <1>7 DEF Inv

LEMMA PutInv ==
  ASSUME Inv, NEW q \in Requests, Put(q)
  PROVE  Inv'
<1> USE Types
<1> DEFINE r == RecOf[q]
           entry == [base |-> TRUE, ev |-> Merge(entries[r], EvidenceOf[q])]
<1>1. /\ up /\ req[q].step = "verify" /\ Accepted(q)
      /\ entries' = [entries EXCEPT ![r] = entry]
      /\ req' = [req EXCEPT ![q] = IF entry # entries[r]
                                     THEN [step |-> "persist", ev |-> entry.ev]
                                     ELSE [step |-> "ok", ev |-> {}]]
      /\ disturbed' = disturbed \cup (IF Persisting(r) # {} THEN {r} ELSE {})
      /\ UNCHANGED <<file, up, faults, tears, joined>>
      /\ Spoiled' = Spoiled \cup (IF Persisting(r) # {} THEN {r} ELSE {})
  BY DEF Put, Spoiled
<1>2. /\ r \in Records /\ r \notin Invalid /\ entry \in Entries /\ entry.ev \in SUBSET Evidence
      /\ EvidenceOf[q] \subseteq entry.ev /\ entries[r].ev \subseteq entry.ev
      /\ entries[r] \in Entries /\ entry.base = TRUE
  BY <1>1 DEF Accepted, Merge, Entries
<1>3. /\ entries'[r] = entry
      /\ \A x \in Records : x # r => entries'[x] = entries[x]
      /\ entries' \in [Records -> Entries]
  BY <1>1, <1>2
<1> HIDE DEF entry
<1>4. /\ req' \in [Requests -> ReqState]
      /\ req'[q] = IF entry # entries[r] THEN [step |-> "persist", ev |-> entry.ev]
                                        ELSE [step |-> "ok", ev |-> {}]
      /\ \A p \in Requests : p # q => req'[p] = req[p]
  BY <1>1, <1>2 DEF ReqState
<1>5. TypeOK'
  <2>1. \A x \in Invalid : entries'[x] = NoEntry
    BY <1>2, <1>3 DEF Inv, TypeOK
  <2>2. disturbed' \subseteq Records
    BY <1>1, <1>2
  <2>3. file'.lines \in Seq(Lines \cup {Garbage}) /\ file'.torn \in BOOLEAN
        /\ up' \in BOOLEAN /\ faults' \in 0..MaxFaults /\ tears' \in 0..MaxFaults
        /\ joined' \subseteq Records
    BY <1>1 DEF Inv, TypeOK
  <2> QED BY <1>3, <1>4, <2>1, <2>2, <2>3 DEF TypeOK, ReqState
<1>6. FileFits' /\ JoinsFit'
  BY <1>1 DEF Inv, FileFits, JoinsFit
<1>7. RequestsFit'
  <2>1. \A p \in Requests : p # q /\ req'[p].step = "persist" =>
          Accepted(p) /\ EvidenceOf[p] \subseteq req'[p].ev
    BY <1>4 DEF Inv, RequestsFit
  <2>2. req'[q].step = "persist" => EvidenceOf[q] \subseteq req'[q].ev
    BY <1>2, <1>4
  <2>3. up'
    BY <1>1
  <2> QED BY <1>1, <2>1, <2>2, <2>3 DEF RequestsFit, Accepted
<1>8. \A x \in Records : x # r => Persisting(x)' = Persisting(x)
  BY <1>4 DEF Persisting
<1>9. MemoryFits'
  <2>1. SUFFICES ASSUME NEW x \in Records \ Spoiled' PROVE InStep(x)'
    BY DEF MemoryFits
  <2>2. InStep(x) /\ x \notin Spoiled
    BY <1>1, <2>1 DEF Inv, MemoryFits
  <2>3. CASE x # r
    <3>1. \A p \in Requests : Persisting(x) = {p} => req'[p] = req[p]
      BY <1>1, <1>4 DEF Persisting
    <3> QED BY <1>1, <1>3, <1>8, <2>2, <2>3, <3>1 DEF InStep
  <2>4. CASE x = r
    <3>1. Persisting(r) = {}
      BY <1>1, <2>1, <2>4
    <3>2. entries[r] = Restored(r, file.lines)
      BY <2>2, <2>4, <3>1 DEF InStep
    <3>3. CASE entry # entries[r]
      <4>1. Persisting(r)' = {q}
        BY <1>4, <3>1, <3>3 DEF Persisting
      <4>2. req'[q].ev = entry.ev
        BY <1>4, <3>3
      <4>3. entries'[r] = [base |-> TRUE, ev |-> req'[q].ev]
        BY <1>3, <4>2 DEF entry
      <4>4. Restored(r, file'.lines).ev \subseteq req'[q].ev
        BY <1>1, <1>2, <3>2, <4>2
      <4> QED BY <2>4, <4>1, <4>3, <4>4 DEF InStep
    <3>4. CASE entry = entries[r]
      <4>1. Persisting(r)' = {}
        BY <1>4, <3>1, <3>4 DEF Persisting
      <4>2. entries'[r] = Restored(r, file'.lines)
        BY <1>1, <1>3, <3>2, <3>4
      <4> QED BY <2>4, <4>1, <4>2 DEF InStep
    <3> QED BY <3>3, <3>4
  <2> QED BY <2>3, <2>4
<1>10. KeptUnlessSpoiled'
  <2>1. SUFFICES ASSUME NEW p \in Requests, req'[p].step = "ok", RecOf[p] \notin Spoiled'
                 PROVE  /\ Restored(RecOf[p], file.lines).base
                        /\ EvidenceOf[p] \subseteq Restored(RecOf[p], file.lines).ev
    BY <1>1 DEF KeptUnlessSpoiled, Kept
  <2>2. CASE p # q
    BY <1>1, <1>4, <2>1, <2>2 DEF Inv, KeptUnlessSpoiled, Kept
  <2>3. CASE p = q
    <3>1. entry = entries[r]
      BY <1>4, <2>1, <2>3
    <3>2. Persisting(r) = {} /\ r \notin Spoiled
      BY <1>1, <2>1, <2>3
    <3>3. entries[r] = Restored(r, file.lines)
      BY <1>1, <1>2, <3>2 DEF Inv, MemoryFits, InStep
    <3> QED BY <1>2, <2>3, <3>1, <3>3
  <2> QED BY <2>2, <2>3
<1> QED BY <1>5, <1>6, <1>7, <1>9, <1>10 DEF Inv

\* The append ends, well or badly.
LEMMA PersistInv ==
  ASSUME Inv, NEW q \in Requests, Persist(q) \/ PersistFails(q)
  PROVE  Inv'
<1> USE Types
<1> DEFINE r == RecOf[q]
<1>1. /\ up /\ up' = up /\ entries' = entries /\ req[q].step = "persist"
      /\ r \in Records /\ Accepted(q) /\ EvidenceOf[q] \subseteq req[q].ev
      /\ disturbed \subseteq disturbed' /\ disturbed' \subseteq disturbed \cup {r}
      /\ joined \subseteq joined' /\ joined' \subseteq joined \cup {r}
      /\ Spoiled \subseteq Spoiled' /\ disturbed' \subseteq Spoiled'
      /\ faults' \in 0..MaxFaults
  BY DEF Persist, PersistFails, Fault, Inv, RequestsFit, TypeOK, Spoiled
<1>2. PICK s \in {"ok", "failed"} : Answer(q, s) /\ (s = "ok" => Persist(q))
                                    /\ (s = "failed" => PersistFails(q))
  BY DEF Persist, PersistFails
<1>3. /\ req' \in [Requests -> ReqState]
      /\ req'[q] = [step |-> s, ev |-> {}]
      /\ \A p \in Requests : p # q => req'[p] = req[p]
  BY <1>2 DEF Answer, ReqState
<1>4. Line(q) \in Lines /\ Line(q).rec = r /\ Line(q).ev = req[q].ev /\ r \notin Invalid
  BY <1>1 DEF Line, Lines, ReqState, Accepted
<1>5. /\ file'.lines \in FileLines /\ file'.torn \in BOOLEAN /\ FileFits'
      /\ \A x : x \notin disturbed' /\ x # r =>
           Restored(x, file'.lines) = Restored(x, file.lines)
      /\ ~file.torn /\ file' = AppendLine(file, Line(q)) =>
           Restored(r, file'.lines) = [base |-> TRUE, ev |-> req[q].ev]
  <2>1. CASE file' = file
    <3>1. r \in disturbed'
      <4>1. CASE s = "ok"
        <5>1. file'.torn = FALSE
          BY <1>2, <4>1 DEF Persist, AppendLine
        <5>2. Len(file'.lines) # Len(file.lines)
          BY <1>2, <2>1, <4>1, <5>1 DEF Persist, AppendLine, FileLines
        <5> QED BY <2>1, <5>2
      <4>2. CASE s = "failed"
        BY <1>2, <4>2 DEF PersistFails
      <4> QED BY <4>1, <4>2
    <3>2. ~(~file.torn /\ file' = AppendLine(file, Line(q)))
      <4>1. SUFFICES ASSUME ~file.torn, file' = AppendLine(file, Line(q)) PROVE FALSE
        OBVIOUS
      <4>2. file'.lines = Append(file.lines, Line(q))
        BY <4>1 DEF AppendLine
      <4> QED BY <1>4, <2>1, <4>2 DEF FileLines
    <3>3. FileFits'
      BY <1>1, <2>1 DEF Inv, FileFits
    <3> QED BY <2>1, <3>2, <3>3
  <2>2. CASE file' # file
    <3>1. \/ file' = AppendLine(file, Line(q))
          \/ file' \in CutLine(file, Line(q)) /\ r \in disturbed'
      BY <2>2 DEF Persist, PersistFails
    <3> QED BY <1>1, <1>4, <3>1, Written
  <2> QED BY <2>1, <2>2
<1>6. JoinsFit' /\ tears' \in 0..MaxFaults
  <2>1. CASE s = "ok"
    <3>1. /\ Persist(q) /\ file'.torn = FALSE /\ faults' = faults /\ tears' = tears
      BY <1>2, <2>1 DEF Persist, AppendLine
    <3>2. joined' = joined \cup (IF file.torn THEN {r} ELSE {})
      BY <3>1 DEF Persist
    <3> QED BY <3>1, <3>2, JoinCounted DEF Inv, TypeOK
  <2>2. CASE s = "failed"
    <3>1. /\ joined' = joined /\ faults' = faults + 1 /\ faults < MaxFaults
          /\ \/ file' = file /\ tears' = tears
             \/ file' \in CutLine(file, Line(q)) /\ tears' = tears + 1
      BY <1>2, <2>2 DEF PersistFails, Fault
    <3> QED BY <3>1, TearCounted
  <2> QED BY <2>1, <2>2
<1>7. TypeOK'
  <2>1. disturbed' \subseteq Records /\ joined' \subseteq Records /\ up' \in BOOLEAN
    BY <1>1
  <2>2. \A x \in Invalid : entries'[x] = NoEntry
    BY <1>1 DEF Inv, TypeOK
  <2> QED BY <1>1, <1>3, <1>5, <1>6, <2>1, <2>2 DEF TypeOK, ReqState, FileLines
<1>8. RequestsFit'
  BY <1>1, <1>3 DEF Inv, RequestsFit, Accepted
<1>9. \A x \in Records : Persisting(x)' = Persisting(x) \ {q}
  BY <1>3 DEF Persisting
<1>10. q \in Persisting(r)
  BY <1>1 DEF Persisting
<1>11. ASSUME r \notin Spoiled'
       PROVE  /\ Persisting(r) = {q} /\ entries[r] = [base |-> TRUE, ev |-> req[q].ev]
              /\ Restored(r, file'.lines) = entries[r]
              /\ Restored(r, file.lines).ev \subseteq req[q].ev
  <2>1. s = "ok"
    BY <1>2, <1>11 DEF PersistFails, Spoiled
  <2>2. ~file.torn /\ file' = AppendLine(file, Line(q))
    BY <1>2, <1>11, <2>1 DEF Persist, Spoiled
  <2>3. InStep(r)
    BY <1>1, <1>11 DEF Inv, MemoryFits
  <2>4. PICK p \in Requests : /\ Persisting(r) = {p}
                              /\ entries[r] = [base |-> TRUE, ev |-> req[p].ev]
                              /\ Restored(r, file.lines).ev \subseteq req[p].ev
    BY <1>10, <2>3 DEF InStep
  <2>5. p = q
    BY <1>10, <2>4
  <2> QED BY <1>5, <2>2, <2>4, <2>5
<1>12. MemoryFits'
  <2>1. SUFFICES ASSUME NEW x \in Records \ Spoiled' PROVE InStep(x)'
    BY DEF MemoryFits
  <2>2. CASE x = r
    <3>1. Persisting(r)' = {}
      BY <1>1, <1>9, <1>11, <2>1, <2>2
    <3> QED BY <1>1, <1>11, <2>1, <2>2, <3>1 DEF InStep
  <2>3. CASE x # r
    <3>1. InStep(x)
      BY <1>1, <2>1 DEF Inv, MemoryFits
    <3>2. q \notin Persisting(x)
      BY <2>3 DEF Persisting
    <3>3. Persisting(x)' = Persisting(x)
      BY <1>9, <2>1, <3>2
    <3>4. \A p \in Requests : Persisting(x) = {p} => req'[p] = req[p]
      BY <1>3, <3>2
    <3>5. Restored(x, file'.lines) = Restored(x, file.lines)
      BY <1>1, <1>5, <2>1, <2>3
    <3> QED BY <1>1, <3>1, <3>3, <3>4, <3>5 DEF InStep
  <2> QED BY <2>2, <2>3
<1>13. KeptUnlessSpoiled'
  <2>1. SUFFICES ASSUME NEW p \in Requests, req'[p].step = "ok", RecOf[p] \notin Spoiled'
                 PROVE  /\ Restored(RecOf[p], file'.lines).base
                        /\ EvidenceOf[p] \subseteq Restored(RecOf[p], file'.lines).ev
    BY DEF KeptUnlessSpoiled, Kept
  <2>2. CASE p = q
    <3>1. Restored(r, file'.lines) = [base |-> TRUE, ev |-> req[q].ev]
      BY <1>11, <2>1, <2>2
    <3> QED BY <1>1, <2>2, <3>1
  <2>3. CASE p # q
    <3>1. /\ req[p].step = "ok" /\ RecOf[p] \notin Spoiled
          /\ Restored(RecOf[p], file.lines).base
          /\ EvidenceOf[p] \subseteq Restored(RecOf[p], file.lines).ev
      BY <1>1, <1>3, <2>1, <2>3 DEF Inv, KeptUnlessSpoiled, Kept
    <3>2. CASE RecOf[p] = r
      <4>1. /\ Restored(r, file'.lines) = [base |-> TRUE, ev |-> req[q].ev]
            /\ Restored(r, file.lines).ev \subseteq req[q].ev
        BY <1>11, <2>1, <3>2
      <4> QED BY <3>1, <3>2, <4>1
    <3>3. CASE RecOf[p] # r
      BY <1>1, <1>5, <2>1, <3>1, <3>3
    <3> QED BY <3>2, <3>3
  <2> QED BY <2>2, <2>3
<1> QED BY <1>5, <1>6, <1>7, <1>8, <1>12, <1>13 DEF Inv

LEMMA CrashInv ==
  ASSUME Inv, Crash
  PROVE  Inv'
<1> USE Types
<1> DEFINE D == disturbed \cup {RecOf[q] : q \in {p \in Requests : req[p].step = "persist"}}
<1>1. /\ up' = FALSE /\ faults' \in 0..MaxFaults /\ disturbed' = D /\ D \subseteq Records
      /\ joined' = joined /\ faults' = faults + 1 /\ faults < MaxFaults
      /\ disturbed \subseteq D
      /\ \A q \in Requests : req[q].step = "persist" => RecOf[q] \in D
      /\ entries' = [r \in Records |-> NoEntry]
  BY DEF Crash, Fault, Inv, TypeOK
<1> HIDE DEF D
<1>2. req' \in [Requests -> ReqState]
  <2>1. \A q \in Requests : req[q] \in ReqState /\ [step |-> "lost", ev |-> {}] \in ReqState
    BY DEF ReqState
  <2> QED BY <2>1 DEF Crash
<1>3. \A q \in Requests : /\ req'[q].step \notin {"verify", "persist"}
                          /\ req'[q].step = "ok" => req[q].step = "ok"
  BY DEF Crash, ReqState
<1>4. /\ file'.lines \in FileLines /\ file'.torn \in BOOLEAN /\ FileFits'
      /\ \A r : r \notin D => Restored(r, file'.lines) = Restored(r, file.lines)
  <2>1. CASE file' = file
    BY <1>1, <2>1 DEF Inv, FileFits
  <2>2. CASE \E q \in Requests :
               /\ req[q].step = "persist"
               /\ file' \in {AppendLine(file, Line(q))} \cup CutLine(file, Line(q))
    <3>1. PICK q \in Requests :
               /\ req[q].step = "persist"
               /\ file' \in {AppendLine(file, Line(q))} \cup CutLine(file, Line(q))
      BY <2>2
    <3>2. Line(q) \in Lines /\ Line(q).rec = RecOf[q] /\ RecOf[q] \notin Invalid /\ RecOf[q] \in D
      BY <1>1, <3>1 DEF Line, Lines, ReqState, Inv, RequestsFit, Accepted
    <3>3. \/ file' = AppendLine(file, Line(q))
          \/ file' \in CutLine(file, Line(q)) /\ Line(q).rec \in D
      BY <3>1, <3>2
    <3>4. /\ file'.lines \in FileLines /\ file'.torn \in BOOLEAN /\ FileFits'
          /\ \A r : r \notin D /\ r # Line(q).rec =>
               Restored(r, file'.lines) = Restored(r, file.lines)
      BY <1>1, <3>2, <3>3, Written
    <3> QED BY <3>2, <3>4
  <2> QED BY <2>1, <2>2 DEF Crash
<1>5. JoinsFit' /\ tears' \in 0..MaxFaults
  <2>1. CASE UNCHANGED <<file, tears>>
    BY <1>1, <2>1, TearCounted
  <2>2. CASE \E q \in Requests :
               \/ file' = AppendLine(file, Line(q)) /\ UNCHANGED tears
               \/ file' \in CutLine(file, Line(q)) /\ tears' = tears + 1
    BY <1>1, <2>2, TearCounted
  <2> QED BY <2>1, <2>2 DEF Crash
<1>6. TypeOK'
  <2>1. entries' \in [Records -> Entries] /\ \A r \in Invalid : entries'[r] = NoEntry
    BY <1>1 DEF NoEntry, Entries
  <2> QED BY <1>1, <1>2, <1>4, <1>5, <2>1 DEF TypeOK, ReqState, FileLines
<1>7. RequestsFit' /\ MemoryFits'
  BY <1>1, <1>3 DEF RequestsFit, MemoryFits
<1>8. KeptUnlessSpoiled'
  BY <1>1, <1>3, <1>4 DEF Inv, KeptUnlessSpoiled, Kept, Spoiled
<1> QED BY <1>4, <1>5, <1>6, <1>7, <1>8 DEF Inv

LEMMA RestartInv ==
  ASSUME Inv, Restart
  PROVE  Inv'
<1> USE Types
<1>1. /\ ~up /\ up' = TRUE /\ UNCHANGED <<file, req, faults, tears, disturbed, joined>>
      /\ entries' = [r \in Records |-> Restored(r, file.lines)]
  BY DEF Restart
<1>2. TypeOK'
  <2>1. entries' \in [Records -> Entries]
    BY <1>1, RestoredEntry
  <2>2. \A r \in Invalid : entries'[r] = NoEntry
    BY <1>1, RestoredInvalid
  <2> QED BY <1>1, <2>1, <2>2 DEF Inv, TypeOK
<1>3. \A r \in Records : Persisting(r)' = {}
  BY <1>1 DEF Inv, RequestsFit, Persisting
<1>4. MemoryFits'
  BY <1>1, <1>3 DEF MemoryFits, InStep
<1>5. RequestsFit' /\ FileFits' /\ JoinsFit'
  BY <1>1 DEF Inv, RequestsFit, FileFits, JoinsFit, Accepted
<1>6. KeptUnlessSpoiled'
  BY <1>1 DEF Inv, KeptUnlessSpoiled, Kept, Spoiled
<1> QED BY <1>2, <1>4, <1>5, <1>6 DEF Inv

LEMMA StutterInv ==
  ASSUME Inv, UNCHANGED vars
  PROVE  Inv'
<1>1. \A r : Persisting(r)' = Persisting(r)
  BY DEF vars, Persisting
<1>2. MemoryFits'
  BY <1>1 DEF vars, Inv, MemoryFits, InStep, Spoiled
<1>3. KeptUnlessSpoiled'
  BY DEF vars, Inv, KeptUnlessSpoiled, Kept, Spoiled
<1> QED BY <1>2, <1>3 DEF vars, Inv, TypeOK, RequestsFit, FileFits, JoinsFit, Accepted

LEMMA NextInv == Inv /\ [Next]_vars => Inv'
<1> SUFFICES ASSUME Inv, [Next]_vars PROVE Inv'
  OBVIOUS
<1>1. ASSUME NEW q \in Requests, Submit(q) \/ RejectSubmission(q) \/ Resend(q)
      PROVE  Inv'
  BY <1>1, QuietStep DEF Submit, RejectSubmission, Resend
<1>2. ASSUME NEW q \in Requests, Put(q) \/ Persist(q) \/ PersistFails(q)
      PROVE  Inv'
  BY <1>2, PutInv, PersistInv
<1> QED BY <1>1, <1>2, CrashInv, RestartInv, StutterInv DEF Next

-----------------------------------------------------------------------------
(* Results. *)

\* Every reachable state of handleSubmit, put and init satisfies the inductive
\* invariant: the memory of a record whose lines were not spoiled is what a restart
\* would read, or its one append under way will bring the file up to it; and every
\* append that was cut short has spoiled at most one line written behind it.
THEOREM Invariance == Spec => []Inv
BY InitInv, NextInv, PTL DEF Spec

\* The state is of its type, and no entry is of a record that fails verification.
THEOREM TypeCorrect == Spec => []TypeOK
<1>1. Inv => TypeOK
  BY DEF Inv
<1> QED BY <1>1, Invariance, PTL

\* An acknowledged submission is read back by a restart, whatever was submitted,
\* failed or crashed in between.  The records for which it is not had an append of
\* their own disturbed (failed, interrupted or overlapping), or are at most as many as
\* the appends that were cut short, each joined to the torn end one of these left.
THEOREM AcknowledgedSurvive == Spec => []AcknowledgedKept
<1>1. Inv => AcknowledgedKept
  <2> SUFFICES ASSUME Inv PROVE AcknowledgedKept
    OBVIOUS
  <2> USE Types
  <2>1. Lost \ disturbed \subseteq joined
    BY DEF Inv, KeptUnlessSpoiled, Spoiled, Lost
  <2>2. IsFiniteSet(joined) /\ Cardinality(joined) \in Nat /\ Cardinality(joined) <= tears
    BY FS_CardinalityType DEF Inv, JoinsFit
  <2>3. /\ Cardinality(Lost \ disturbed) <= Cardinality(joined)
        /\ Cardinality(Lost \ disturbed) \in Nat
    BY <2>1, <2>2, FS_Subset, FS_CardinalityType
  <2> QED BY <2>2, <2>3 DEF AcknowledgedKept
<1> QED BY <1>1, Invariance, PTL
=============================================================================
