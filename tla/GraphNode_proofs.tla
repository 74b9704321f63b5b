--------------------------- MODULE GraphNode_proofs ---------------------------
(***************************************************************************)
(* Proofs about GraphNode, for any records and requests, and any number of *)
(* faults and crashes.                                                     *)
(***************************************************************************)
EXTENDS GraphNode, Integers, FiniteSetTheorems, WellFoundedInduction, TLAPS

USE GraphAssumption, GarbageAssumption

FileLines == Seq(Lines \cup {Garbage})

-----------------------------------------------------------------------------
(* The order of a finite set of line numbers. *)

\* A set of naturals with an element has a least one.
LEMMA LeastNat ==
  ASSUME NEW T \in SUBSET Nat, T # {}
  PROVE  \E m \in T : \A k \in T : m <= k
<1>1. PICK m \in T : \A k \in T : ~(<<k, m>> \in OpToRel(<, Nat))
  BY WFMin, NatLessThanWellFounded, Zenon
<1>2. \A k \in T : ~(k < m)
  BY <1>1 DEF OpToRel
<1> QED BY <1>2

LEMMA RankType ==
  ASSUME NEW L \in Nat, NEW F \in SUBSET (1..L), NEW i \in Int
  PROVE  /\ IsFiniteSet(F) /\ Cardinality(F) \in Nat
         /\ IsFiniteSet({j \in F : j <= i}) /\ Rank(i, F) \in Nat
         /\ Rank(i, F) <= Cardinality(F)
<1>1. IsFiniteSet(F)
  <2>1. IsFiniteSet(1..L)
    BY FS_Interval, 1 \in Int, L \in Int
  <2> QED BY <2>1, FS_Subset
<1>2. /\ IsFiniteSet({j \in F : j <= i})
      /\ Cardinality({j \in F : j <= i}) <= Cardinality(F)
  BY <1>1, FS_Subset
<1>3. Cardinality(F) \in Nat /\ Cardinality({j \in F : j <= i}) \in Nat
  BY <1>1, <1>2, FS_CardinalityType
<1> QED BY <1>1, <1>2, <1>3 DEF Rank

\* From one number to the next, the rank grows by one at the members of the set.
LEMMA RankStep ==
  ASSUME NEW L \in Nat, NEW F \in SUBSET (1..L), NEW i \in Int
  PROVE  Rank(i, F) = IF i \in F THEN Rank(i - 1, F) + 1 ELSE Rank(i - 1, F)
<1> DEFINE S == {j \in F : j <= i - 1}
<1>0. \A j \in F : j \in Int /\ (j <= i <=> j <= i - 1 \/ j = i)
  OBVIOUS
<1>1. IsFiniteSet(S)
  BY RankType, i - 1 \in Int
<1>2. CASE i \in F
  <2>0. ~(i <= i - 1)
    OBVIOUS
  <2>1. {j \in F : j <= i} = S \cup {i} /\ i \notin S
    BY <1>0, <1>2, <2>0
  <2>2. Cardinality(S \cup {i}) = Cardinality(S) + 1
    BY <1>1, <2>1, FS_AddElement
  <2> QED BY <1>2, <2>1, <2>2 DEF Rank
<1>3. CASE i \notin F
  <2>1. {j \in F : j <= i} = S
    BY <1>0, <1>3
  <2> QED BY <1>3, <2>1 DEF Rank
<1> QED BY <1>2, <1>3

\* The ranks of n members are 1 to n, each once.
LEMMA RankOnto ==
  ASSUME NEW L \in Nat, NEW F \in SUBSET (1..L), NEW n \in 1..Cardinality(F)
  PROVE  \E i \in F : Rank(i, F) = n
<1> DEFINE T == {m \in 0..L : Rank(m, F) >= n}
<1>0. \A j \in F : j \in Int /\ j <= L /\ ~(j <= 0)
  OBVIOUS
<1>1. Cardinality(F) \in Nat /\ \A m \in Int : Rank(m, F) \in Nat
  <2>1. ASSUME NEW m \in Int PROVE Cardinality(F) \in Nat /\ Rank(m, F) \in Nat
    BY RankType
  <2> QED BY <2>1, 0 \in Int
<1>2. Rank(L, F) = Cardinality(F)
  <2>1. {j \in F : j <= L} = F
    BY <1>0
  <2> QED BY <2>1 DEF Rank
<1>3. Rank(0, F) = 0
  <2>1. {j \in F : j <= 0} = {}
    BY <1>0
  <2> QED BY <2>1, FS_EmptySet DEF Rank
<1>4. L \in T /\ T \in SUBSET Nat
  BY <1>1, <1>2
<1>5. PICK m \in T : \A k \in T : m <= k
  BY <1>4, LeastNat
<1>6. m \in 1..L /\ Rank(m, F) >= n
  BY <1>1, <1>3, <1>5
<1>7. m - 1 \in 0..L /\ m - 1 \notin T
  BY <1>5, <1>6
<1>8. Rank(m - 1, F) < n
  BY <1>1, <1>7
<1>9. Rank(m, F) = IF m \in F THEN Rank(m - 1, F) + 1 ELSE Rank(m - 1, F)
  <2>1. m \in Int
    BY <1>6
  <2> QED BY <2>1, RankStep
<1>10. m \in F /\ Rank(m, F) = n
  BY <1>1, <1>6, <1>8, <1>9
<1> QED BY <1>10

LEMMA RankOnce ==
  ASSUME NEW L \in Nat, NEW F \in SUBSET (1..L), NEW i \in F
  PROVE  /\ Rank(i, F) \in 1..Cardinality(F)
         /\ \A j \in F : Rank(i, F) = Rank(j, F) => i = j
<1>0. \A j \in F : j \in Int /\ j - 1 \in Int
  OBVIOUS
<1>1. /\ Cardinality(F) \in Nat
      /\ \A m \in Int : Rank(m, F) \in Nat /\ Rank(m, F) <= Cardinality(F)
  <2>1. ASSUME NEW m \in Int
        PROVE  /\ Cardinality(F) \in Nat /\ Rank(m, F) \in Nat
               /\ Rank(m, F) <= Cardinality(F)
    BY RankType
  <2> QED BY <2>1, 0 \in Int
<1>2. \A k \in F : Rank(k, F) = Rank(k - 1, F) + 1
  <2>1. ASSUME NEW k \in F PROVE Rank(k, F) = Rank(k - 1, F) + 1
    <3>1. k \in Int
      BY <1>0
    <3>2. Rank(k, F) = IF k \in F THEN Rank(k - 1, F) + 1 ELSE Rank(k - 1, F)
      BY <3>1, RankStep
    <3> QED BY <3>2
  <2> QED BY <2>1
<1>3. Rank(i, F) \in 1..Cardinality(F)
  BY <1>1, <1>2
<1>4. ASSUME NEW j \in F, NEW k \in F, j < k PROVE Rank(j, F) < Rank(k, F)
  <2>1. {x \in F : x <= j} \subseteq {x \in F : x <= k - 1}
    <3>1. \A x \in F : x \in Int /\ (x <= j => x <= k - 1)
      BY <1>0, <1>4
    <3> QED BY <3>1
  <2>2. IsFiniteSet({x \in F : x <= k - 1})
    <3>1. k - 1 \in Int
      BY <1>0
    <3> QED BY <3>1, RankType
  <2>3. Rank(j, F) <= Rank(k - 1, F)
    BY <2>1, <2>2, FS_Subset DEF Rank
  <2> QED BY <1>1, <1>2, <2>3
<1>5. ASSUME NEW j \in F, Rank(i, F) = Rank(j, F) PROVE i = j
  <2>1. ~(i < j)
    BY <1>1, <1>4, <1>5
  <2>2. ~(j < i)
    BY <1>1, <1>4, <1>5
  <2> QED BY <2>1, <2>2
<1> QED BY <1>3, <1>5

-----------------------------------------------------------------------------
(* The replay of a file that has one line per record. *)

LEMMA ReplayFacts ==
  ASSUME NEW lines \in FileLines,
         \A i, j \in Parsed(lines) : lines[i].rec = lines[j].rec => i = j
  PROVE  LET s == Replayed(lines)
         IN  /\ s \in Seq({lines[i].rec : i \in Parsed(lines)})
             /\ {s[n] : n \in DOMAIN s} = {lines[i].rec : i \in Parsed(lines)}
             /\ \A m, n \in DOMAIN s : s[m] = s[n] => m = n
<1> DEFINE F == Parsed(lines)
           N == Cardinality(F)
           at(n) == CHOOSE i \in F : Rank(i, F) = n
           s == Replayed(lines)
<1>1. Len(lines) \in Nat /\ F \in SUBSET (1..Len(lines)) /\ F \subseteq Int
  BY DEF Parsed, FileLines
<1>2. Firsts(lines) = F
  <2>1. ASSUME NEW i \in F PROVE i \in FirstOf(lines[i].rec, lines)
    BY <1>1 DEF FirstOf
  <2> QED BY <2>1 DEF Firsts
<1>3. N \in Nat
  BY <1>1, RankType, 0 \in Int
<1>4. s = [n \in 1..N |-> lines[at(n)].rec]
  BY <1>2 DEF Replayed
<1>5. \A n \in 1..N : at(n) \in F /\ Rank(at(n), F) = n
  BY <1>1, RankOnto
<1>6. \A i \in F : Rank(i, F) \in 1..N /\ at(Rank(i, F)) = i
  <2>1. ASSUME NEW i \in F PROVE Rank(i, F) \in 1..N /\ at(Rank(i, F)) = i
    <3>1. Rank(i, F) \in 1..N /\ \A j \in F : Rank(i, F) = Rank(j, F) => i = j
      BY <1>1, RankOnce
    <3>2. at(Rank(i, F)) \in F /\ Rank(at(Rank(i, F)), F) = Rank(i, F)
      BY <1>5, <3>1
    <3> QED BY <3>1, <3>2
  <2> QED BY <2>1
<1> HIDE DEF F, N, at, s
<1>7. s \in Seq({lines[i].rec : i \in F}) /\ DOMAIN s = 1..N
  <2>1. \A n \in 1..N : lines[at(n)].rec \in {lines[i].rec : i \in F}
    BY <1>5
  <2> QED BY <1>3, <1>4, <2>1
<1>8. {s[n] : n \in DOMAIN s} = {lines[i].rec : i \in F}
  <2>1. \A n \in DOMAIN s : s[n] = lines[at(n)].rec /\ at(n) \in F
    BY <1>4, <1>5, <1>7
  <2>2. \A i \in F : Rank(i, F) \in DOMAIN s /\ s[Rank(i, F)] = lines[i].rec
    BY <1>4, <1>6, <1>7
  <2> QED BY <2>1, <2>2
<1>9. ASSUME NEW m \in DOMAIN s, NEW n \in DOMAIN s, s[m] = s[n] PROVE m = n
  <2>1. lines[at(m)].rec = lines[at(n)].rec /\ at(m) \in F /\ at(n) \in F
    BY <1>4, <1>5, <1>7, <1>9
  <2>2. at(m) = at(n)
    BY <2>1 DEF F
  <2> QED BY <1>5, <1>7, <2>2
<1> QED BY <1>7, <1>8, <1>9 DEF s, F

\* The index of a record that has one line is that line's.
LEMMA ReplayedIndexOnly ==
  ASSUME NEW lines, NEW i \in Parsed(lines),
         \A j \in Parsed(lines) : lines[j].rec = lines[i].rec => j = i,
         i <= i
  PROVE  ReplayedIndex(lines[i].rec, lines) = lines[i].index
<1> DEFINE own == {j \in Parsed(lines) : lines[j].rec = lines[i].rec /\ lines[j].index # NoIndex}
<1>1. CASE lines[i].index = NoIndex
  <2>1. own = {}
    BY <1>1
  <2> QED BY <1>1, <2>1 DEF ReplayedIndex
<1>2. CASE lines[i].index # NoIndex
  <2>1. own = {i}
    BY <1>2
  <2>2. (CHOOSE k \in own : \A j \in own : k <= j) = i
    BY <2>1
  <2> QED BY <2>1, <2>2 DEF ReplayedIndex
<1> QED BY <1>1, <1>2

LEMMA ReplayedIndexNone ==
  ASSUME NEW lines, NEW r, \A i \in Parsed(lines) : lines[i].rec # r
  PROVE  ReplayedIndex(r, lines) = NoIndex
BY DEF ReplayedIndex

-----------------------------------------------------------------------------
(* The file after a write. *)

LEMMA Types ==
  ASSUME Inv
  PROVE  /\ file.lines \in FileLines /\ file.torn \in BOOLEAN
         /\ store \in Seq(Records \ Invalid) /\ logIndex \in [Records -> Indexes]
         /\ req \in [Requests -> {"idle", "append", "ok", "rejected", "lost"}]
         /\ Added \subseteq Records /\ promised \subseteq Records /\ late \subseteq Records
         /\ faults \in 0..MaxFaults /\ tears \in 0..MaxFaults
<1>1. /\ file.lines \in FileLines /\ file.torn \in BOOLEAN
      /\ store \in Seq(Records \ Invalid) /\ logIndex \in [Records -> Indexes]
      /\ req \in [Requests -> {"idle", "append", "ok", "rejected", "lost"}]
      /\ promised \subseteq Records /\ late \subseteq Records
      /\ faults \in 0..MaxFaults /\ tears \in 0..MaxFaults
  BY DEF Inv, TypeOK, FileLines
<1>2. Added \subseteq Records
  BY <1>1 DEF Added
<1> QED BY <1>1, <1>2

\* A line is written, whole or in part.  The lines before the torn end stay, and what
\* is new in the file is the line of a record that had none.
LEMMA Written ==
  ASSUME Inv, NEW line \in Lines, line.rec \notin Invalid, line.rec \notin InArchive,
         file' = AppendLine(file, line) \/ file' \in CutLine(file, line)
  PROVE  /\ file'.lines \in FileLines /\ file'.torn \in BOOLEAN /\ FileFits'
         /\ \A i \in Parsed(file'.lines) :
              \/ i \in Parsed(file.lines) /\ file'.lines[i] = file.lines[i]
              \/ file'.lines[i] = line
         /\ InWhole \subseteq InWhole'
         /\ file' = AppendLine(file, line) => ~file'.torn
         /\ file' = AppendLine(file, line) /\ ~file.torn => line.rec \in InWhole'
<1> USE Types
<1> DEFINE l == file.lines
           n == Len(file.lines)
<1>1. /\ file.torn => l # <<>>
      /\ \A i \in Parsed(l) : l[i].rec \notin Invalid
      /\ \A i, j \in Parsed(l) : l[i].rec = l[j].rec => i = j
  BY DEF Inv, FileFits
<1>2. n \in Nat /\ DOMAIN l = 1..n /\ line # Garbage
  BY DEF FileLines
<1>3. \A i \in Parsed(l) : l[i].rec # line.rec
  BY DEF InArchive
<1>4. CASE file.torn
  <2>1. PICK t \in BOOLEAN : /\ file' = [lines |-> JoinedLines(file), torn |-> t]
                             /\ file' = AppendLine(file, line) => ~t
    <3>1. CASE file' = AppendLine(file, line)
      BY <1>4, <3>1 DEF AppendLine
    <3>2. CASE file' \in CutLine(file, line)
      <4>1. file' = [lines |-> JoinedLines(file), torn |-> TRUE]
        BY <1>4, <3>2 DEF CutLine
      <4>2. file'.torn = TRUE /\ AppendLine(file, line).torn = FALSE
        BY <4>1 DEF AppendLine
      <4> QED BY <4>1, <4>2
    <3> QED BY <3>1, <3>2
  <2>2. file'.lines = JoinedLines(file) /\ file'.torn = t
    BY <2>1
  <2>3. /\ n > 0 /\ file'.lines \in FileLines /\ DOMAIN file'.lines = 1..n
        /\ Len(file'.lines) = n /\ file'.lines[n] = Garbage
        /\ \A i \in 1..n : i # n => file'.lines[i] = l[i]
    BY <1>1, <1>2, <1>4, <2>2 DEF JoinedLines, FileLines
  <2>4. \A i \in Parsed(file'.lines) : i \in Parsed(l) /\ file'.lines[i] = l[i]
    BY <1>2, <2>3 DEF Parsed
  <2>5. FileFits'
    <3>1. file' = [lines |-> file'.lines, torn |-> file'.torn] /\ file'.lines # <<>>
      BY <2>1, <2>3
    <3> QED BY <1>1, <2>4, <3>1 DEF FileFits
  <2>6. InWhole \subseteq InWhole'
    <3>1. \A i \in Whole : i \in Whole' /\ file'.lines[i] = l[i]
      BY <1>2, <1>4, <2>3 DEF Whole, Parsed
    <3> QED BY <3>1 DEF InWhole
  <2> QED BY <1>4, <2>1, <2>2, <2>3, <2>4, <2>5, <2>6
<1>5. CASE ~file.torn
  <2>1. PICK t \in BOOLEAN, x \in {line, Garbage} :
          /\ file' = [lines |-> Append(l, x), torn |-> t]
          /\ file' = AppendLine(file, line) => x = line /\ ~t
    <3>1. CASE file' = AppendLine(file, line)
      <4>1. file' = [lines |-> Append(l, line), torn |-> FALSE]
        BY <1>5, <3>1 DEF AppendLine
      <4> QED BY <4>1
    <3>2. CASE file' \in CutLine(file, line)
      <4>1. PICK x \in {line, Garbage} : file' = [lines |-> Append(l, x), torn |-> TRUE]
        BY <1>5, <3>2 DEF CutLine
      <4>2. file'.torn = TRUE /\ AppendLine(file, line).torn = FALSE
        BY <4>1 DEF AppendLine
      <4>3. file' # AppendLine(file, line)
        BY <4>2
      <4> QED BY <4>1, <4>3
    <3> QED BY <3>1, <3>2
  <2>2. file'.lines = Append(l, x) /\ file'.torn = t
    BY <2>1
  <2>3. /\ file'.lines \in FileLines /\ DOMAIN file'.lines = 1..(n + 1)
        /\ Len(file'.lines) = n + 1 /\ file'.lines[n + 1] = x
        /\ \A i \in 1..n : file'.lines[i] = l[i]
    BY <1>2, <2>1, <2>2 DEF FileLines
  <2>4. \A i \in Parsed(file'.lines) : \/ i \in Parsed(l) /\ file'.lines[i] = l[i]
                                       \/ i = n + 1 /\ file'.lines[i] = line
    BY <1>2, <2>1, <2>3 DEF Parsed
  <2>5. FileFits'
    <3>0. file'.lines # <<>>
      BY <1>2, <2>3
    <3>1. file' = [lines |-> file'.lines, torn |-> file'.torn] /\ file'.lines # <<>>
      BY <2>1, <3>0
    <3>2. \A i \in Parsed(file'.lines) : file'.lines[i].rec \notin Invalid
      BY <1>1, <2>4
    <3>3. \A i, j \in Parsed(file'.lines) : file'.lines[i].rec = file'.lines[j].rec => i = j
      BY <1>1, <1>3, <2>4
    <3> QED BY <3>1, <3>2, <3>3 DEF FileFits
  <2>6. InWhole \subseteq InWhole'
    <3>1. \A i \in Whole : i \in Whole' /\ file'.lines[i] = l[i]
      BY <1>2, <1>5, <2>3 DEF Whole, Parsed
    <3> QED BY <3>1 DEF InWhole
  <2>7. ASSUME file' = AppendLine(file, line) PROVE line.rec \in InWhole'
    <3>1. n + 1 \in Whole' /\ file'.lines[n + 1] = line
      BY <1>2, <2>1, <2>2, <2>3, <2>7 DEF Whole, Parsed
    <3>2. file'.lines[n + 1].rec \in InWhole'
      BY <3>1 DEF InWhole
    <3> QED BY <3>1, <3>2
  <2> QED BY <1>5, <2>1, <2>2, <2>3, <2>4, <2>5, <2>6, <2>7
<1> QED BY <1>4, <1>5

\* What the write may cost.
LEMMA WrittenLoss ==
  ASSUME Inv, NEW line \in Lines, line.rec \notin Invalid, line.rec \notin InArchive,
         faults' \in Nat, faults <= faults',
         \/ /\ file' = AppendLine(file, line) /\ tears' = tears
            /\ promised' \in {promised, promised \cup {line.rec}}
         \/ /\ file' \in CutLine(file, line) /\ tears' = tears + 1 /\ promised' = promised
            /\ faults' = faults + 1
  PROVE  LossFits'
<1> USE Types
<1> DEFINE lost == promised \ InWhole
<1>1. /\ IsFiniteSet(promised) /\ tears <= faults
      /\ Cardinality(lost) + (IF file.torn THEN 1 ELSE 0) <= tears
  BY DEF Inv, LossFits
<1>2. IsFiniteSet(lost) /\ Cardinality(lost) \in Nat
  <2>1. IsFiniteSet(lost)
    BY <1>1, FS_Subset
  <2> QED BY <2>1, FS_CardinalityType
<1>3. /\ InWhole \subseteq InWhole'
      /\ file' = AppendLine(file, line) => ~file'.torn
      /\ file' = AppendLine(file, line) /\ ~file.torn => line.rec \in InWhole'
  BY Written
<1>4. IsFiniteSet(promised')
  <2>1. IsFiniteSet(promised \cup {line.rec})
    BY <1>1, FS_AddElement
  <2>2. promised' = promised \/ promised' = promised \cup {line.rec}
    OBVIOUS
  <2> QED BY <1>1, <2>1, <2>2
<1>5. tears' <= faults' /\ tears \in Nat /\ faults \in Nat
  BY <1>1
<1>6. ASSUME promised' \ InWhole' \subseteq lost
      PROVE  Cardinality(promised' \ InWhole') <= Cardinality(lost)
             /\ Cardinality(promised' \ InWhole') \in Nat
  <2>1. /\ IsFiniteSet(promised' \ InWhole')
        /\ Cardinality(promised' \ InWhole') <= Cardinality(lost)
    BY <1>2, <1>6, FS_Subset
  <2> QED BY <2>1, FS_CardinalityType
<1>7. Cardinality(promised' \ InWhole') + (IF file'.torn THEN 1 ELSE 0) <= tears'
  <2>1. CASE file' = AppendLine(file, line) /\ tears' = tears
             /\ promised' \in {promised, promised \cup {line.rec}}
    <3>1. CASE ~file.torn
      <4>1. promised' \ InWhole' \subseteq lost
        BY <1>3, <2>1, <3>1
      <4>2. /\ Cardinality(promised' \ InWhole') <= Cardinality(lost)
            /\ Cardinality(promised' \ InWhole') \in Nat
        BY <1>6, <4>1
      <4>3. ~file'.torn
        BY <1>3, <2>1
      <4> QED BY <1>1, <1>2, <1>5, <2>1, <3>1, <4>2, <4>3
    <3>2. CASE file.torn
      <4>1. promised' \ InWhole' \subseteq lost \cup {line.rec}
        BY <1>3, <2>1
      <4>2. /\ IsFiniteSet(lost \cup {line.rec})
            /\ Cardinality(lost \cup {line.rec}) \in {Cardinality(lost), Cardinality(lost) + 1}
        BY <1>2, FS_AddElement
      <4>3. /\ IsFiniteSet(promised' \ InWhole')
            /\ Cardinality(promised' \ InWhole') <= Cardinality(lost \cup {line.rec})
        BY <4>1, <4>2, FS_Subset
      <4>4. Cardinality(promised' \ InWhole') \in Nat
        BY <4>3, FS_CardinalityType
      <4>5. ~file'.torn
        BY <1>3, <2>1
      <4> QED BY <1>1, <1>2, <1>5, <2>1, <3>2, <4>2, <4>3, <4>4, <4>5
    <3> QED BY <3>1, <3>2
  <2>2. CASE file' \in CutLine(file, line) /\ tears' = tears + 1 /\ promised' = promised
    <3>1. promised' \ InWhole' \subseteq lost
      BY <1>3, <2>2
    <3>2. /\ Cardinality(promised' \ InWhole') <= Cardinality(lost)
          /\ Cardinality(promised' \ InWhole') \in Nat
      BY <1>6, <3>1
    <3> QED BY <1>1, <1>2, <1>5, <2>2, <3>2
  <2> QED BY <2>1, <2>2
<1> QED BY <1>4, <1>5, <1>7 DEF LossFits

-----------------------------------------------------------------------------
(* The actions. *)

LEMMA InitInv == Init => Inv
<1> SUFFICES ASSUME Init PROVE Inv
  OBVIOUS
<1>1. file.lines = <<>> /\ file.torn = FALSE /\ <<>> \in Seq(Lines \cup {Garbage})
  BY DEF Init, EmptyFile
<1>2. file = [lines |-> file.lines, torn |-> file.torn]
  BY <1>1 DEF Init, EmptyFile
<1>3. Parsed(file.lines) = {} /\ Added = {}
  BY <1>1 DEF Parsed, Added, Init
<1>4. TypeOK
  <2>1. store \in Seq(Records \ Invalid) /\ \A i, j \in DOMAIN store : store[i] = store[j] => i = j
    BY DEF Init
  <2>2. logIndex \in [Records -> Indexes]
    BY DEF Init, NoIndexes, Indexes
  <2>3. file.lines \in Seq(Lines \cup {Garbage}) /\ file.torn \in BOOLEAN
    BY <1>1
  <2> QED BY <2>1, <2>2, <2>3 DEF Init, TypeOK
<1>5. FileFits
  BY <1>1, <1>2, <1>3 DEF FileFits
<1>6. LossFits
  <2>1. promised = {} /\ promised \ InWhole = {} /\ tears = 0 /\ faults = 0
    BY DEF Init
  <2> QED BY <1>1, <2>1, FS_EmptySet DEF LossFits
<1>7. RequestsFit /\ MemoryFits
  BY <1>3 DEF Init, RequestsFit, MemoryFits, InArchive, NoIndexes
<1> QED BY <1>4, <1>5, <1>6, <1>7 DEF Inv

\* A request is answered or sent again without a write.
LEMMA QuietStep ==
  ASSUME Inv, NEW q \in Requests, NEW s \in {"idle", "ok", "rejected"},
         req' = [req EXCEPT ![q] = s],
         faults' \in 0..MaxFaults, faults <= faults',
         UNCHANGED <<store, logIndex, file, up, tears, promised, late>>
  PROVE  Inv'
<1> USE Types
<1>1. /\ req' \in [Requests -> {"idle", "append", "ok", "rejected", "lost"}]
      /\ req'[q] # "append" /\ \A p \in Requests : p # q => req'[p] = req[p]
  OBVIOUS
<1>2. Added' = Added /\ InArchive' = InArchive /\ InWhole' = InWhole
  BY DEF Added, InArchive, InWhole, Whole
<1>3. TypeOK'
  BY <1>1 DEF Inv, TypeOK
<1>4. FileFits'
  BY DEF Inv, FileFits
<1>5. LossFits'
  BY <1>2 DEF Inv, LossFits
<1>6. RequestsFit'
  BY <1>1, <1>2 DEF Inv, RequestsFit, Appending, SameOrLate
<1>7. up' => MemoryFits'
  BY <1>2 DEF Inv, MemoryFits, SameOrLate
<1> QED BY <1>3, <1>4, <1>5, <1>6, <1>7 DEF Inv

LEMMA IngestInv ==
  ASSUME Inv, NEW q \in Requests, Ingest(q)
  PROVE  Inv'
<1> USE Types
<1> DEFINE r == RecOf[q]
<1>1. /\ up /\ up' = up /\ r \in Records /\ r \notin Invalid /\ req[q] = "idle"
      /\ store' = IF IsNew(r) THEN Append(store, r) ELSE store
      /\ logIndex' = [logIndex EXCEPT ![r] = AddIndex(r, IndexOf[q], logIndex)]
      /\ req' = [req EXCEPT ![q] = IF IsNew(r) THEN "append" ELSE "ok"]
      /\ late' = late \cup (IF ~IsNew(r) /\ logIndex[r] = NoIndex /\ IndexOf[q] # NoIndex
                            THEN {r} ELSE {})
      /\ UNCHANGED <<file, up, faults, tears, promised>>
  BY DEF Ingest
<1>2. MemoryFits /\ RequestsFit
  BY <1>1 DEF Inv
<1>3. /\ req' \in [Requests -> {"idle", "append", "ok", "rejected", "lost"}]
      /\ req'[q] = "append" <=> IsNew(r)
      /\ \A p \in Requests : p # q => req'[p] = req[p]
  BY <1>1
<1>4. /\ logIndex' \in [Records -> Indexes]
      /\ logIndex'[r] = AddIndex(r, IndexOf[q], logIndex)
      /\ \A x \in Records : x # r => logIndex'[x] = logIndex[x]
  <2>1. AddIndex(r, IndexOf[q], logIndex) \in Indexes
    BY <1>1 DEF AddIndex, Indexes
  <2> QED BY <1>1, <2>1
<1>5. \A x \in Added : \A k : SameOrLate(k, x) => SameOrLate(k, x)'
  <2>1. SUFFICES ASSUME NEW x \in Added, NEW k, SameOrLate(k, x)
                 PROVE  k = logIndex'[x] \/ (k = NoIndex /\ x \in late')
    BY DEF SameOrLate
  <2>2. k = logIndex[x] \/ (k = NoIndex /\ x \in late)
    BY <2>1 DEF SameOrLate
  <2>3. late \subseteq late' /\ x \in Records
    BY <1>1
  <2>4. CASE x = r /\ logIndex[r] = NoIndex /\ IndexOf[q] # NoIndex
    BY <1>1, <2>2, <2>4 DEF IsNew
  <2>5. CASE ~(x = r /\ logIndex[r] = NoIndex /\ IndexOf[q] # NoIndex)
    <3>1. logIndex'[x] = logIndex[x]
      BY <1>4, <2>3, <2>5 DEF AddIndex
    <3> QED BY <2>2, <2>3, <3>1
  <2> QED BY <2>4, <2>5
<1>6. /\ store' \in Seq(Records \ Invalid) /\ Added' = Added \cup {r}
      /\ \A i, j \in DOMAIN store' : store'[i] = store'[j] => i = j
  <2>1. CASE ~IsNew(r)
    <3>1. store' = store /\ r \in Added
      BY <1>1, <2>1 DEF IsNew
    <3> QED BY <3>1 DEF Added, Inv, TypeOK
  <2>2. CASE IsNew(r)
    <3>1. store' = Append(store, r) /\ r \notin Added
      BY <1>1, <2>2 DEF IsNew
    <3> DEFINE m == Len(store)
    <3>2. /\ m \in Nat /\ DOMAIN store = 1..m /\ store' \in Seq(Records \ Invalid)
          /\ DOMAIN store' = 1..(m + 1) /\ store'[m + 1] = r
          /\ \A i \in 1..m : store'[i] = store[i]
      BY <1>1, <3>1
    <3>3. \A i \in 1..m : store[i] # r
      BY <3>1, <3>2 DEF Added
    <3>4. \A i, j \in 1..m : store[i] = store[j] => i = j
      BY <3>2 DEF Inv, TypeOK
    <3>5. \A i, j \in DOMAIN store' : store'[i] = store'[j] => i = j
      <4>1. \A i \in DOMAIN store' : i = m + 1 \/ (i \in 1..m /\ i # m + 1)
        BY <3>2
      <4> QED BY <3>2, <3>3, <3>4, <4>1
    <3>6. Added' = Added \cup {r}
      <4>1. \A i \in DOMAIN store' : i = m + 1 \/ i \in 1..m
        BY <3>2
      <4>2. m + 1 \in DOMAIN store' /\ \A i \in 1..m : i \in DOMAIN store'
        BY <3>2
      <4> QED BY <3>2, <4>1, <4>2 DEF Added
    <3> QED BY <3>2, <3>5, <3>6
  <2> QED BY <2>1, <2>2
<1>7. InArchive' = InArchive /\ InWhole' = InWhole
  BY <1>1 DEF InArchive, InWhole, Whole
<1>8. TypeOK'
  BY <1>1, <1>3, <1>4, <1>6 DEF Inv, TypeOK
<1>9. FileFits' /\ LossFits'
  BY <1>1, <1>7 DEF Inv, FileFits, LossFits
<1>10. MemoryFits'
  <2>1. \A x \in Records \ Added' : logIndex'[x] = NoIndex
    BY <1>2, <1>4, <1>6 DEF MemoryFits
  <2>2. \A i \in Parsed(file.lines) : file.lines[i].rec \in Added
    BY <1>2 DEF MemoryFits, InArchive
  <2>3. \A i \in Parsed(file.lines) : SameOrLate(file.lines[i].index, file.lines[i].rec)'
    BY <1>1, <1>2, <1>5, <2>2 DEF MemoryFits, SameOrLate
  <2> QED BY <1>1, <1>2, <1>6, <1>7, <2>1, <2>3 DEF MemoryFits
<1>11. RequestsFit'
  <2>1. SUFFICES ASSUME NEW p \in Requests, req'[p] = "append" PROVE Appending(p)'
    BY <1>1 DEF RequestsFit
  <2>2. \A o \in Requests : req[o] = "append" => RecOf[o] \in Added
    BY <1>2 DEF RequestsFit, Appending
  <2>3. CASE p # q
    <3>1. req[p] = "append" /\ Appending(p)
      BY <1>2, <1>3, <2>1, <2>3 DEF RequestsFit
    <3>2. IsNew(r) => RecOf[p] # r
      BY <2>2, <3>1 DEF IsNew
    <3>3. \A o \in Requests : req'[o] = "append" /\ RecOf[o] = RecOf[p] => o = p
      BY <1>3, <3>1, <3>2 DEF Appending
    <3>4. SameOrLate(IndexOf[p], RecOf[p])'
      BY <1>5, <3>1 DEF Appending
    <3> QED BY <1>6, <1>7, <3>1, <3>3, <3>4 DEF Appending
  <2>4. CASE p = q
    <3>1. r \notin Added /\ r \notin InArchive /\ logIndex[r] = NoIndex
      BY <1>1, <1>2, <1>3, <2>1, <2>4 DEF IsNew, MemoryFits
    <3>2. SameOrLate(IndexOf[q], r)'
      BY <1>4, <3>1 DEF AddIndex, SameOrLate
    <3>3. \A o \in Requests : req'[o] = "append" /\ RecOf[o] = r => o = q
      BY <1>3, <2>2, <3>1
    <3> QED BY <1>1, <1>6, <1>7, <2>4, <3>1, <3>2, <3>3 DEF Appending
  <2> QED BY <2>3, <2>4
<1> QED BY <1>1, <1>8, <1>9, <1>10, <1>11 DEF Inv

LEMMA LineFits ==
  ASSUME Inv, NEW q \in Requests, req[q] = "append"
  PROVE  /\ up /\ Line(q) \in Lines /\ Line(q).rec = RecOf[q] /\ Line(q).index = IndexOf[q]
         /\ Line(q).rec \notin Invalid /\ Line(q).rec \notin InArchive
         /\ Appending(q)
<1>1. up /\ Appending(q)
  BY DEF Inv, RequestsFit
<1> QED BY <1>1 DEF Line, Lines, Indexes, Appending

\* The append ends with a write, whole or short; the request is answered either way.
LEMMA AppendInv ==
  ASSUME Inv, NEW q \in Requests, ArchiveAppend(q) \/ ArchiveShort(q)
  PROVE  Inv'
<1> USE Types
<1>1. /\ req[q] = "append" /\ req' = [req EXCEPT ![q] = "ok"]
      /\ UNCHANGED <<store, logIndex, up, late>>
      /\ faults' \in 0..MaxFaults /\ faults <= faults'
  BY DEF ArchiveAppend, ArchiveShort, Fault
<1>2. /\ up /\ Line(q) \in Lines /\ Line(q).rec = RecOf[q] /\ Line(q).index = IndexOf[q]
      /\ Line(q).rec \notin Invalid /\ Line(q).rec \notin InArchive
      /\ Appending(q)
  BY <1>1, LineFits
<1>3. \/ /\ file' = AppendLine(file, Line(q)) /\ tears' = tears
         /\ promised' = promised \cup {RecOf[q]}
      \/ /\ file' \in CutLine(file, Line(q)) /\ tears' = tears + 1 /\ promised' = promised
         /\ faults' = faults + 1
  BY DEF ArchiveAppend, ArchiveShort, Fault
<1>4. /\ file'.lines \in FileLines /\ file'.torn \in BOOLEAN /\ FileFits'
      /\ \A i \in Parsed(file'.lines) :
           \/ i \in Parsed(file.lines) /\ file'.lines[i] = file.lines[i]
           \/ file'.lines[i] = Line(q)
  BY <1>2, <1>3, Written
<1>5. LossFits'
  BY <1>1, <1>2, <1>3, WrittenLoss
<1>6. /\ req' \in [Requests -> {"idle", "append", "ok", "rejected", "lost"}]
      /\ req'[q] # "append" /\ \A p \in Requests : p # q => req'[p] = req[p]
  BY <1>1
<1>7. Added' = Added /\ InArchive' \subseteq InArchive \cup {RecOf[q]}
  <2>1. Added' = Added
    BY <1>1 DEF Added
  <2>2. InArchive' \subseteq InArchive \cup {RecOf[q]}
    BY <1>2, <1>4 DEF InArchive
  <2> QED BY <2>1, <2>2
<1>8. TypeOK'
  <2>1. tears' \in 0..MaxFaults
    BY <1>1, <1>3, <1>5 DEF LossFits
  <2>2. promised' \subseteq Records
    BY <1>3
  <2> QED BY <1>1, <1>4, <1>6, <2>1, <2>2 DEF Inv, TypeOK, FileLines
<1>9. RequestsFit'
  <2>1. SUFFICES ASSUME NEW p \in Requests, req'[p] = "append" PROVE up' /\ Appending(p)'
    BY DEF RequestsFit
  <2>2. p # q /\ req[p] = "append" /\ Appending(p)
    BY <1>6, <2>1 DEF Inv, RequestsFit
  <2>3. RecOf[p] # RecOf[q]
    BY <1>2, <2>2 DEF Appending
  <2>4. \A o \in Requests : req'[o] = "append" /\ RecOf[o] = RecOf[p] => o = p
    BY <1>6, <2>2 DEF Appending
  <2> QED BY <1>1, <1>2, <1>7, <2>2, <2>3, <2>4 DEF Appending, SameOrLate
<1>10. MemoryFits'
  <2>1. MemoryFits
    BY <1>2 DEF Inv
  <2>2. InArchive' \subseteq Added'
    BY <1>2, <1>7, <2>1 DEF MemoryFits, Appending
  <2>3. \A i \in Parsed(file'.lines) : SameOrLate(file'.lines[i].index, file'.lines[i].rec)
    <3>1. SameOrLate(Line(q).index, Line(q).rec)
      BY <1>2 DEF Appending
    <3> QED BY <1>4, <2>1, <3>1 DEF MemoryFits
  <2> QED BY <1>1, <1>7, <2>1, <2>2, <2>3 DEF MemoryFits, SameOrLate
<1> QED BY <1>4, <1>5, <1>8, <1>9, <1>10 DEF Inv

LEMMA CrashInv ==
  ASSUME Inv, Crash
  PROVE  Inv'
<1> USE Types
<1>1. /\ up' = FALSE /\ faults' \in 0..MaxFaults /\ faults' = faults + 1
      /\ store' = <<>> /\ logIndex' = NoIndexes /\ promised' = promised /\ late' = late
  BY DEF Crash, Fault
<1>2. /\ req' \in [Requests -> {"idle", "append", "ok", "rejected", "lost"}]
      /\ \A q \in Requests : req'[q] # "append"
  BY DEF Crash
<1>3. file'.lines \in FileLines /\ file'.torn \in BOOLEAN /\ FileFits' /\ LossFits'
      /\ tears' \in Nat
  <2>1. CASE UNCHANGED <<file, tears>>
    <3>1. InWhole' = InWhole
      BY <2>1 DEF InWhole, Whole
    <3> QED BY <1>1, <2>1, <3>1 DEF Inv, FileFits, LossFits
  <2>2. CASE \E q \in Requests : req[q] = "append"
               /\ \/ file' = AppendLine(file, Line(q)) /\ UNCHANGED tears
                  \/ file' \in CutLine(file, Line(q)) /\ tears' = tears + 1
    <3>1. PICK q \in Requests : req[q] = "append"
               /\ \/ file' = AppendLine(file, Line(q)) /\ UNCHANGED tears
                  \/ file' \in CutLine(file, Line(q)) /\ tears' = tears + 1
      BY <2>2
    <3>2. Line(q) \in Lines /\ Line(q).rec \notin Invalid /\ Line(q).rec \notin InArchive
      BY <3>1, LineFits
    <3>3. file'.lines \in FileLines /\ file'.torn \in BOOLEAN /\ FileFits'
      BY <3>1, <3>2, Written
    <3>4. LossFits'
      BY <1>1, <3>1, <3>2, WrittenLoss
    <3> QED BY <3>1, <3>3, <3>4
  <2> QED BY <2>1, <2>2 DEF Crash
<1>4. TypeOK'
  <2>1. store' \in Seq(Records \ Invalid) /\ \A i, j \in DOMAIN store' : store'[i] = store'[j] => i = j
    BY <1>1
  <2>2. logIndex' \in [Records -> Indexes]
    BY <1>1 DEF NoIndexes, Indexes
  <2>3. tears' \in 0..MaxFaults
    BY <1>1, <1>3 DEF LossFits
  <2> QED BY <1>1, <1>2, <1>3, <2>1, <2>2, <2>3 DEF TypeOK, FileLines
<1>5. RequestsFit'
  BY <1>2 DEF RequestsFit
<1> QED BY <1>1, <1>3, <1>4, <1>5 DEF Inv

LEMMA RestartInv ==
  ASSUME Inv, Restart
  PROVE  Inv'
<1> USE Types
<1> DEFINE l == file.lines
<1>1. /\ ~up /\ up' = TRUE /\ UNCHANGED <<file, req, faults, tears, promised, late>>
      /\ store' = Replayed(l) /\ logIndex' = [r \in Records |-> ReplayedIndex(r, l)]
  BY DEF Restart
<1>2. /\ \A i \in Parsed(l) : l[i].rec \notin Invalid
      /\ \A i, j \in Parsed(l) : l[i].rec = l[j].rec => i = j
      /\ \A i \in Parsed(l) : l[i] \in Lines /\ i \in Nat
  BY DEF Inv, FileFits, Parsed, FileLines
<1>3. /\ store' \in Seq(InArchive) /\ Added' = InArchive
      /\ \A i, j \in DOMAIN store' : store'[i] = store'[j] => i = j
  <2>1. /\ Replayed(l) \in Seq({l[i].rec : i \in Parsed(l)})
        /\ {Replayed(l)[n] : n \in DOMAIN Replayed(l)} = {l[i].rec : i \in Parsed(l)}
        /\ \A m, n \in DOMAIN Replayed(l) : Replayed(l)[m] = Replayed(l)[n] => m = n
    BY <1>2, ReplayFacts
  <2>2. InArchive = {l[i].rec : i \in Parsed(l)} /\ Added' = {store'[n] : n \in DOMAIN store'}
    BY DEF InArchive, Added
  <2>3. store' = Replayed(l)
    BY <1>1
  <2> HIDE DEF l
  <2>4. store' \in Seq(InArchive)
    BY <2>1, <2>2, <2>3, Zenon
  <2>5. Added' = InArchive
    <3>1. {store'[n] : n \in DOMAIN store'} = {l[i].rec : i \in Parsed(l)}
      <4>1. {Replayed(l)[n] : n \in DOMAIN Replayed(l)} = {l[i].rec : i \in Parsed(l)}
        BY <2>1
      <4> QED BY <2>3, <4>1
    <3> QED BY <2>2, <3>1
  <2>6. \A i, j \in DOMAIN store' : store'[i] = store'[j] => i = j
    BY <2>1, <2>3, Zenon
  <2> QED BY <2>4, <2>5, <2>6
<1>4. /\ InArchive \subseteq Records \ Invalid /\ InArchive' = InArchive /\ InWhole' = InWhole
  BY <1>1, <1>2 DEF InArchive, InWhole, Whole, Lines
<1>5. \A i \in Parsed(l) : ReplayedIndex(l[i].rec, l) = l[i].index
  BY <1>2, ReplayedIndexOnly
<1>6. \A r \in Records \ InArchive : ReplayedIndex(r, l) = NoIndex
  BY ReplayedIndexNone DEF InArchive
<1>7. logIndex' \in [Records -> Indexes]
  <2>1. ASSUME NEW r \in Records PROVE ReplayedIndex(r, l) \in Indexes
    <3>1. CASE r \in InArchive
      <4>1. PICK i \in Parsed(l) : r = l[i].rec
        BY <3>1 DEF InArchive
      <4> QED BY <1>2, <1>5, <4>1 DEF Lines
    <3>2. CASE r \notin InArchive
      BY <1>6, <3>2 DEF Indexes
    <3> QED BY <3>1, <3>2
  <2> QED BY <1>1, <2>1
<1>8. TypeOK'
  <2>1. store' \in Seq(Records \ Invalid)
    BY <1>3, <1>4
  <2> QED BY <1>1, <1>3, <1>7, <2>1 DEF Inv, TypeOK
<1>9. FileFits' /\ LossFits'
  BY <1>1, <1>4 DEF Inv, FileFits, LossFits
<1>10. RequestsFit'
  BY <1>1 DEF Inv, RequestsFit
<1>11. MemoryFits'
  <2>1. \A r \in Records \ Added' : logIndex'[r] = NoIndex
    BY <1>1, <1>3, <1>6
  <2>2. \A i \in Parsed(l) : logIndex'[l[i].rec] = l[i].index
    BY <1>1, <1>2, <1>5 DEF Lines
  <2> QED BY <1>1, <1>3, <1>4, <2>1, <2>2 DEF MemoryFits, SameOrLate
<1> QED BY <1>8, <1>9, <1>10, <1>11 DEF Inv

LEMMA StutterInv ==
  ASSUME Inv, UNCHANGED vars
  PROVE  Inv'
<1>1. Added' = Added /\ InArchive' = InArchive /\ InWhole' = InWhole
  BY DEF vars, Added, InArchive, InWhole, Whole
<1> QED BY <1>1 DEF vars, Inv, TypeOK, FileFits, LossFits, RequestsFit, Appending,
                   MemoryFits, SameOrLate

LEMMA NextInv == Inv /\ [Next]_vars => Inv'
<1> SUFFICES ASSUME Inv, [Next]_vars PROVE Inv'
  OBVIOUS
<1>1. ASSUME NEW q \in Requests, RejectInvalid(q) \/ Resend(q) \/ ArchiveFails(q)
      PROVE  Inv'
  <2>1. PICK s \in {"idle", "ok", "rejected"} : req' = [req EXCEPT ![q] = s]
    BY <1>1 DEF RejectInvalid, Resend, ArchiveFails
  <2>2. faults' \in 0..MaxFaults /\ faults <= faults'
    BY <1>1, Types DEF RejectInvalid, Resend, ArchiveFails, Fault
  <2>3. UNCHANGED <<store, logIndex, file, up, tears, promised, late>>
    BY <1>1 DEF RejectInvalid, Resend, ArchiveFails
  <2> QED BY <2>1, <2>2, <2>3, QuietStep
<1>2. ASSUME NEW q \in Requests, Ingest(q) \/ ArchiveAppend(q) \/ ArchiveShort(q)
      PROVE  Inv'
  BY <1>2, IngestInv, AppendInv
<1> QED BY <1>1, <1>2, CrashInv, RestartInv, StutterInv DEF Next

-----------------------------------------------------------------------------
(* Results. *)

\* Every reachable state of handleIngest, the appender and the replay satisfies the
\* inductive invariant: a record has at most one line in the file and at most one
\* append under way, and a torn end has been paid for.
THEOREM Invariance == Spec => []Inv
BY InitInv, NextInv, PTL DEF Spec

\* The state is of its type: the list of records holds no record twice, also after a
\* replay, and none that failed verification.
THEOREM TypeCorrect == Spec => []TypeOK
<1>1. Inv => TypeOK
  BY DEF Inv
<1> QED BY <1>1, Invariance, PTL

\* Records answered 200 after a whole write are lost to a restart only through short
\* writes, at most one for each of them.
THEOREM LossIsBounded == Spec => []LossBounded
<1>1. Inv => LossBounded
  <2> SUFFICES ASSUME Inv PROVE LossBounded
    OBVIOUS
  <2> USE Types
  <2>1. /\ IsFiniteSet(promised)
        /\ Cardinality(promised \ InWhole) + (IF file.torn THEN 1 ELSE 0) <= tears
    BY DEF Inv, LossFits
  <2>2. promised \ InArchive \subseteq promised \ InWhole
    BY DEF InArchive, InWhole, Whole
  <2>3. IsFiniteSet(promised \ InWhole)
    BY <2>1, FS_Subset
  <2>4. /\ IsFiniteSet(promised \ InArchive)
        /\ Cardinality(promised \ InArchive) <= Cardinality(promised \ InWhole)
    BY <2>2, <2>3, FS_Subset
  <2>5. Cardinality(promised \ InArchive) \in Nat /\ Cardinality(promised \ InWhole) \in Nat
    BY <2>3, <2>4, FS_CardinalityType
  <2> QED BY <2>1, <2>4, <2>5 DEF LossBounded
<1> QED BY <1>1, Invariance, PTL

\* A restart reads the log index that the running process has for an archived record;
\* it reads none only if the index came after the record, and never another one.
THEOREM IndexesKept == Spec => []RestartKeepsIndexes
<1>1. Inv => RestartKeepsIndexes
  <2> SUFFICES ASSUME Inv, up, NEW r \in InArchive
               PROVE  r \in Added /\ SameOrLate(ReplayedIndex(r, file.lines), r)
    BY DEF RestartKeepsIndexes
  <2> USE Types
  <2>1. MemoryFits /\ FileFits
    BY DEF Inv
  <2>2. PICK i \in Parsed(file.lines) : r = file.lines[i].rec
    BY DEF InArchive
  <2>3. i <= i
    BY DEF Parsed, FileLines
  <2>4. ReplayedIndex(r, file.lines) = file.lines[i].index
    BY <2>1, <2>2, <2>3, ReplayedIndexOnly DEF FileFits
  <2> QED BY <2>1, <2>2, <2>4 DEF MemoryFits
<1> QED BY <1>1, Invariance, PTL
=============================================================================
