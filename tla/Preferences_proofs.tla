-------------------------- MODULE Preferences_proofs --------------------------
(***************************************************************************)
(* What the preference chain promises, for any rollouts, reviewers, writes *)
(* and edits.                                                              *)
(***************************************************************************)
EXTENDS Preferences, FiniteSetTheorems, TLAPS

-----------------------------------------------------------------------------
(* What discovery compares                                                 *)

\* Two distinct actions make a comparison.
LEMMA TwoActions ==
    ASSUME NEW x, NEW y, x # y
    PROVE  Cardinality({x, y}) = 2
<1>1. IsFiniteSet({x}) /\ Cardinality({x}) = 1
  BY FS_Singleton
<1>2. {x, y} = {x} \cup {y} /\ y \notin {x}
  OBVIOUS
<1> QED  BY <1>1, <1>2, FS_AddElement

LEMMA OccurrenceTypes ==
    ASSUME NEW rows \in [Rollouts -> Reviews]
    PROVE  /\ Occurrences(rows) \subseteq Occurrence
           /\ \A o \in Occurrences(rows) :
                 o.rollout \in Trusted /\ o.review = rows[o.rollout]
<1> SUFFICES ASSUME NEW o \in Occurrences(rows)
             PROVE  o \in Occurrence /\ o.rollout \in Trusted /\ o.review = rows[o.rollout]
  OBVIOUS
<1>1. PICK r \in Trusted : o \in OccurrencesOf(r, rows[r])
  BY DEF Occurrences
<1>2. r \in Rollouts /\ rows[r] \in Reviews
  BY PreferencesAssumption
<1>3. o.rollout = r /\ o.review = rows[r]
  BY <1>1 DEF OccurrencesOf
<1>4. o \in Occurrence
  BY <1>1, <1>2 DEF Occurrence
<1> QED  BY <1>1, <1>3, <1>4

\* Everything a comparison says is found in the rollouts and their reviews.
LEMMA Discovered ==
    ASSUME NEW rows \in [Rollouts -> Reviews], NEW c \in Discover[rows]
    PROVE  \E o, p \in Occurrences(rows) :
              /\ ContextOf(o) = ContextOf(p) /\ ActionOf(o) # ActionOf(p)
              /\ c.context = ContextOf(o) /\ c.actions = {ActionOf(o), ActionOf(p)}
              /\ c.evidence = {q \in Occurrences(rows) :
                                  /\ ContextOf(q) = ContextOf(o)
                                  /\ ActionOf(q) \in {ActionOf(o), ActionOf(p)}}
              /\ c = Compare(o, p, Occurrences(rows))
<1> DEFINE all == Occurrences(rows)
<1>1. Discover[rows] = {Compare(q[1], q[2], all)
                          : q \in {r \in all \X all : Comparable(r[1], r[2])}}
  BY DEF Discover
<1>2. PICK q \in all \X all : Comparable(q[1], q[2]) /\ c = Compare(q[1], q[2], all)
  BY <1>1
<1>3. q[1] \in all /\ q[2] \in all
  OBVIOUS
<1> HIDE DEF all
<1>4. /\ ContextOf(q[1]) = ContextOf(q[2]) /\ ActionOf(q[1]) # ActionOf(q[2])
      /\ c.context = ContextOf(q[1]) /\ c.actions = {ActionOf(q[1]), ActionOf(q[2])}
      /\ c.evidence = {o \in all :
                          /\ ContextOf(o) = ContextOf(q[1])
                          /\ ActionOf(o) \in {ActionOf(q[1]), ActionOf(q[2])}}
  BY <1>2 DEF Comparable, Compare
<1> QED  BY <1>2, <1>3, <1>4 DEF all

LEMMA DiscoverType ==
    ASSUME NEW rows \in [Rollouts -> Reviews]
    PROVE  Discover[rows] \in SUBSET Comparison
<1> SUFFICES ASSUME NEW c \in Discover[rows] PROVE c \in Comparison
  OBVIOUS
<1> DEFINE all == Occurrences(rows)
<1>1. PICK o \in all, p \in all :
         /\ ActionOf(o) # ActionOf(p)
         /\ c = Compare(o, p, all)
  BY Discovered
<1>2. all \subseteq Occurrence
  BY OccurrenceTypes
<1> HIDE DEF all
<1>3. o \in Occurrence /\ p \in Occurrence
  BY <1>2
<1>4. {ActionOf(o), ActionOf(p)} \in {s \in SUBSET Actions : Cardinality(s) = 2}
  BY <1>1, <1>3, TwoActions DEF Actions
<1>5. {q \in all : /\ ContextOf(q) = ContextOf(o)
                   /\ ActionOf(q) \in {ActionOf(o), ActionOf(p)}} \in SUBSET Occurrence
  BY <1>2
<1>6. ContextOf(o) \in {ContextOf(q) : q \in Occurrence}
  BY <1>3
<1> QED  BY <1>1, <1>4, <1>5, <1>6 DEF Compare, Comparison

\* A context and two actions name one comparison.
Distinct(records) ==
    \A c, d \in records : c.context = d.context /\ c.actions = d.actions => c = d

LEMMA DiscoverDistinct ==
    ASSUME NEW rows \in [Rollouts -> Reviews]
    PROVE  Distinct(Discover[rows])
<1> SUFFICES ASSUME NEW c \in Discover[rows], NEW d \in Discover[rows],
                    c.context = d.context, c.actions = d.actions
             PROVE  c = d
  BY DEF Distinct
<1> DEFINE all == Occurrences(rows)
<1>1. PICK o \in all, p \in all :
         /\ c.context = ContextOf(o) /\ c.actions = {ActionOf(o), ActionOf(p)}
         /\ c = Compare(o, p, all)
  BY Discovered
<1>2. PICK u \in all, v \in all :
         /\ d.context = ContextOf(u) /\ d.actions = {ActionOf(u), ActionOf(v)}
         /\ d = Compare(u, v, all)
  BY Discovered
<1>3. ContextOf(o) = ContextOf(u)
      /\ {ActionOf(o), ActionOf(p)} = {ActionOf(u), ActionOf(v)}
  BY <1>1, <1>2
<1> QED  BY <1>1, <1>2, <1>3 DEF Compare

-----------------------------------------------------------------------------
(* What the commands write has its type                                    *)

\* What an artifact may be, and what a command may have read.
FileOf(a) ==
    CASE a = "candidates"   -> CandidateFile
      [] a = "comparisons"  -> ComparisonFile
      [] a = "adjudication" -> AdjudicationFile
      [] a = "pairs"        -> PairFile
      [] a = "snapshot"     -> SnapshotFile

MemoryOf(c) ==
    CASE c = "comparisons"  -> [records : SUBSET Comparison]
      [] c = "adjudication" -> [records : SUBSET Comparison]
      [] c = "pairs"        -> [comparisons : SUBSET Comparison, records : SUBSET Row]
      [] c = "snapshot"     -> [records : SUBSET Record]

LEMMA Names ==
    /\ Artifacts = {"candidates", "comparisons", "adjudication", "pairs", "snapshot"}
    /\ Commands = {"comparisons", "adjudication", "pairs", "snapshot"}
    /\ FileOf("candidates") = CandidateFile /\ FileOf("comparisons") = ComparisonFile
    /\ FileOf("adjudication") = AdjudicationFile /\ FileOf("pairs") = PairFile
    /\ FileOf("snapshot") = SnapshotFile
    /\ MemoryOf("comparisons") = [records : SUBSET Comparison]
    /\ MemoryOf("adjudication") = [records : SUBSET Comparison]
    /\ MemoryOf("pairs") = [comparisons : SUBSET Comparison, records : SUBSET Row]
    /\ MemoryOf("snapshot") = [records : SUBSET Record]
<1>1. Commands = {"comparisons", "adjudication", "pairs", "snapshot"}
  BY DEF Artifacts, Commands
<1> QED  BY <1>1 DEF Artifacts, FileOf, MemoryOf

\* The type invariant, artifact by artifact and command by command.
LEMMA Types ==
    TypeOK <=>
        /\ seen \in [Rollouts -> Reviews]
        /\ DOMAIN disk = Artifacts /\ DOMAIN jobs = Commands
        /\ \A a \in Artifacts : disk[a] \in FileOf(a) \cup {Nothing}
        /\ \A c \in Commands : jobs[c] \in MemoryOf(c) \cup {Nothing}
        /\ written \in [Artifacts -> 0..MaxWrites]
        /\ edits \in 0..MaxEdits
<1>1. (\A a \in Artifacts : disk[a] \in FileOf(a) \cup {Nothing}) <=>
        /\ disk["candidates"] \in CandidateFile \cup {Nothing}
        /\ disk["comparisons"] \in ComparisonFile \cup {Nothing}
        /\ disk["adjudication"] \in AdjudicationFile \cup {Nothing}
        /\ disk["pairs"] \in PairFile \cup {Nothing}
        /\ disk["snapshot"] \in SnapshotFile \cup {Nothing}
  BY Names
<1>2. (\A c \in Commands : jobs[c] \in MemoryOf(c) \cup {Nothing}) <=>
        /\ jobs["comparisons"] \in MemoryOf("comparisons") \cup {Nothing}
        /\ jobs["adjudication"] \in MemoryOf("adjudication") \cup {Nothing}
        /\ jobs["pairs"] \in MemoryOf("pairs") \cup {Nothing}
        /\ jobs["snapshot"] \in MemoryOf("snapshot") \cup {Nothing}
  BY Names
<1> QED  BY <1>1, <1>2, Names DEF TypeOK

LEMMA FreshType ==
    ASSUME TypeOK, NEW a \in Artifacts, written[a] < MaxWrites
    PROVE  Fresh(a) \in 1..MaxWrites
BY PreferencesAssumption DEF TypeOK, Fresh

LEMMA PutType ==
    ASSUME TypeOK, NEW a \in Artifacts, NEW file, Put(a, file),
           Fresh(a) \in 1..MaxWrites => file \in FileOf(a),
           DOMAIN jobs' = Commands, \A c \in Commands : jobs'[c] \in {jobs[c], Nothing}
    PROVE  TypeOK'
<1>1. written[a] < MaxWrites /\ Fresh(a) \in 1..MaxWrites
  BY FreshType DEF Put
<1>2. written' \in [Artifacts -> 0..MaxWrites]
  <2>1. written' = [written EXCEPT ![a] = Fresh(a)]
    BY DEF Put, Fresh
  <2> QED  BY <1>1, <2>1 DEF TypeOK
<1>3. disk' = [disk EXCEPT ![a] = file] \/ disk' = [disk EXCEPT ![a] = Nothing]
  BY DEF Put
<1>4. DOMAIN disk' = Artifacts
      /\ \A b \in Artifacts : disk'[b] = disk[b] \/ disk'[b] = Nothing
                              \/ (b = a /\ disk'[b] = file)
  BY <1>3 DEF TypeOK
<1>5. \A b \in Artifacts : disk'[b] \in FileOf(b) \cup {Nothing}
  BY <1>1, <1>4, Types
<1>6. \A c \in Commands : jobs'[c] \in MemoryOf(c) \cup {Nothing}
  BY Types
<1>7. seen' \in [Rollouts -> Reviews] /\ edits' \in 0..MaxEdits
  BY DEF Put, TypeOK
<1>8. /\ seen' \in [Rollouts -> Reviews]
      /\ DOMAIN disk' = Artifacts /\ DOMAIN jobs' = Commands
      /\ \A b \in Artifacts : disk'[b] \in FileOf(b) \cup {Nothing}
      /\ \A c \in Commands : jobs'[c] \in MemoryOf(c) \cup {Nothing}
      /\ written' \in [Artifacts -> 0..MaxWrites]
      /\ edits' \in 0..MaxEdits
  BY <1>2, <1>4, <1>5, <1>6, <1>7
<1> QED  BY <1>8, Names DEF TypeOK

LEMMA WriteType ==
    ASSUME TypeOK, NEW a \in Commands, NEW file, Write(a, file),
           Fresh(a) \in 1..MaxWrites => file \in FileOf(a)
    PROVE  TypeOK'
<1>1. a \in Artifacts /\ Put(a, file)
  BY DEF Write, Commands
<1>2. DOMAIN jobs' = Commands /\ \A c \in Commands : jobs'[c] \in {jobs[c], Nothing}
  BY DEF Write, TypeOK
<1> QED  BY <1>1, <1>2, PutType

LEMMA JobType ==
    ASSUME TypeOK, NEW c \in Commands, NEW m \in MemoryOf(c) \cup {Nothing},
           jobs' = [jobs EXCEPT ![c] = m], UNCHANGED <<seen, disk, written, edits>>
    PROVE  TypeOK'
<1>1. DOMAIN jobs' = Commands
      /\ \A b \in Commands : jobs'[b] = IF b = c THEN m ELSE jobs[b]
  BY DEF TypeOK
<1>2. \A b \in Commands : jobs'[b] \in MemoryOf(b) \cup {Nothing}
  BY <1>1, Types
<1>3. /\ jobs'["comparisons"] \in MemoryOf("comparisons") \cup {Nothing}
      /\ jobs'["adjudication"] \in MemoryOf("adjudication") \cup {Nothing}
      /\ jobs'["pairs"] \in MemoryOf("pairs") \cup {Nothing}
      /\ jobs'["snapshot"] \in MemoryOf("snapshot") \cup {Nothing}
  BY <1>2, Names
<1> QED  BY <1>1, <1>3, Names DEF TypeOK

\* The artifacts that are there, and what is remembered of them.
LEMMA Artifact ==
    ASSUME TypeOK
    PROVE  /\ Written("candidates") => disk.candidates \in CandidateFile
           /\ Written("comparisons") => disk.comparisons \in ComparisonFile
           /\ Written("adjudication") => disk.adjudication \in AdjudicationFile
           /\ Written("pairs") => disk.pairs \in PairFile
           /\ Written("snapshot") => disk.snapshot \in SnapshotFile
BY DEF TypeOK, Written

-----------------------------------------------------------------------------
(* The direction of a pair                                                 *)

IsPair(c) == \E a, b \in Actions : a # b /\ c.actions = {a, b}

Directed(row) == IsPair(row.comparison) /\ row.decision \in row.comparison.actions

LEMMA Direction ==
    ASSUME NEW row \in Row, Directed(row)
    PROVE  LET r == MaterializePair(row)
           IN  /\ r \in Record /\ r.pair = row
               /\ r.chosen = row.decision /\ r.rejected # r.chosen
               /\ row.comparison.actions = {r.chosen, r.rejected}
<1>1. PICK a \in Actions, b \in Actions :
         a # b /\ row.comparison.actions = {a, b} /\ row.decision = a
  BY DEF Directed, IsPair
<1> DEFINE other == CHOOSE x \in row.comparison.actions : x # row.decision
<1>2. \E x \in row.comparison.actions : x # row.decision
  BY <1>1
<1>3. other \in row.comparison.actions /\ other # row.decision
  BY <1>2
<1>4. other = b
  BY <1>1, <1>3
<1> HIDE DEF other
<1>5. MaterializePair(row) = [pair |-> row, chosen |-> row.decision, rejected |-> other,
                              completed |-> Fits(row.comparison.context)]
  BY DEF MaterializePair, other
<1>6. Fits(row.comparison.context) \in BOOLEAN
  BY DEF Fits
<1> QED  BY <1>1, <1>4, <1>5, <1>6 DEF Record

\* Rows that each prefer an action, one row to a context and two actions.
GoodRows(rows) ==
    /\ \A row \in rows : row \in Row /\ Directed(row)
    /\ \A r, s \in rows :
          /\ r.comparison.context = s.comparison.context
          /\ r.comparison.actions = s.comparison.actions
          => r = s

GoodRecords(records) ==
    \A r \in records : \E row \in Row : Directed(row) /\ r = MaterializePair(row)

LEMMA CurrentRows ==
    ASSUME TypeOK, CandidatesLoad
    PROVE  /\ seen \in [Rollouts -> Reviews] /\ disk.candidates.rows = seen
           /\ Discover[disk.candidates.rows] = Discover[seen]
BY DEF TypeOK, CandidatesLoad

LEMMA PreferredIsGood ==
    ASSUME TypeOK, AdjudicationValid
    PROVE  GoodRows(Preferred(disk.adjudication.rows))
<1> DEFINE rows == disk.adjudication.rows
<1>1. /\ CandidatesLoad /\ disk.comparisons.records = Discover[seen]
      /\ seen \in [Rollouts -> Reviews]
  BY CurrentRows DEF AdjudicationValid, ComparisonsLoad
<1>2. rows \subseteq Row
  BY Artifact DEF AdjudicationValid, AdjudicationFile
<1>3. \A row \in rows : row.comparison \in Discover[seen]
  BY <1>1 DEF AdjudicationValid
<1>4. Distinct(Discover[seen])
  BY <1>1, DiscoverDistinct
<1>5. ASSUME NEW row \in Preferred(rows)
      PROVE  row \in Row /\ Directed(row)
  <2>1. row \in rows /\ row.decision \in row.comparison.actions
    BY DEF Preferred
  <2>2. PICK o \in Occurrences(seen), p \in Occurrences(seen) :
           /\ ActionOf(o) # ActionOf(p)
           /\ row.comparison.actions = {ActionOf(o), ActionOf(p)}
    BY <1>1, <1>3, <2>1, Discovered
  <2>3. ActionOf(o) \in Actions /\ ActionOf(p) \in Actions
    BY <1>1, OccurrenceTypes DEF Actions
  <2>4. IsPair(row.comparison)
    BY <2>2, <2>3 DEF IsPair
  <2> QED  BY <1>2, <2>1, <2>4 DEF Directed
<1>6. ASSUME NEW r \in Preferred(rows), NEW s \in Preferred(rows),
             r.comparison.context = s.comparison.context,
             r.comparison.actions = s.comparison.actions
      PROVE  r = s
  <2>1. r \in rows /\ s \in rows
    BY DEF Preferred
  <2>2. r.comparison = s.comparison
    BY <1>3, <1>4, <1>6, <2>1 DEF Distinct
  <2> QED  BY <2>1, <2>2 DEF AdjudicationValid
<1> QED  BY <1>5, <1>6 DEF GoodRows

-----------------------------------------------------------------------------
(* The types, command by command                                           *)

LEMMA ReadTypes ==
    ASSUME TypeOK, ReadCandidates \/ ReadComparisons \/ ReadAdjudications \/ ReadPairs
    PROVE  TypeOK'
<1>1. CASE ReadCandidates
  <2>1. Discover[disk.candidates.rows] \in SUBSET Comparison
    BY <1>1, CurrentRows, DiscoverType DEF ReadCandidates
  <2>2. [records |-> Discover[disk.candidates.rows]] \in MemoryOf("comparisons")
    BY <2>1, Names
  <2> QED  BY <1>1, <2>2, JobType, Names DEF ReadCandidates, Read
<1>2. CASE ReadComparisons
  <2>1. [records |-> disk.comparisons.records] \in MemoryOf("adjudication")
    BY <1>2, Artifact, Names DEF ReadComparisons, ComparisonsLoad, ComparisonFile
  <2> QED  BY <1>2, <2>1, JobType, Names DEF ReadComparisons, Read
<1>3. CASE ReadAdjudications
  <2>1. disk.comparisons.records \in SUBSET Comparison
    BY <1>3, Artifact DEF ReadAdjudications, AdjudicationValid, ComparisonsLoad,
       ComparisonFile
  <2>2. Preferred(disk.adjudication.rows) \in SUBSET Row
    BY <1>3, Artifact DEF ReadAdjudications, AdjudicationValid, AdjudicationFile, Preferred
  <2>3. [comparisons |-> disk.comparisons.records,
         records |-> Preferred(disk.adjudication.rows)] \in MemoryOf("pairs")
    BY <2>1, <2>2, Names
  <2> QED  BY <1>3, <2>3, JobType, Names DEF ReadAdjudications, Read
<1>4. CASE ReadPairs
  <2>1. GoodRows(disk.pairs.records)
    BY <1>4, PreferredIsGood DEF ReadPairs, PairsLoad
  <2>2. {MaterializePair(p) : p \in disk.pairs.records} \in SUBSET Record
    BY <2>1, Direction DEF GoodRows
  <2>3. [records |-> {MaterializePair(p) : p \in disk.pairs.records}]
           \in MemoryOf("snapshot")
    BY <2>2, Names
  <2> QED  BY <1>4, <2>3, JobType, Names DEF ReadPairs, Read
<1> QED  BY <1>1, <1>2, <1>3, <1>4

LEMMA WriteTypes ==
    ASSUME TypeOK, ExportCandidates \/ WriteComparisons \/ WriteAdjudication
                   \/ WritePairs \/ WriteSnapshot
    PROVE  TypeOK'
<1>1. CASE ExportCandidates
  <2>1. Fresh("candidates") \in 1..MaxWrites =>
           [gen |-> Fresh("candidates"), rows |-> seen] \in FileOf("candidates")
    BY Names DEF CandidateFile, TypeOK
  <2>2. DOMAIN jobs' = Commands /\ \A c \in Commands : jobs'[c] \in {jobs[c], Nothing}
    BY <1>1 DEF ExportCandidates, TypeOK
  <2> QED  BY <1>1, <2>1, <2>2, PutType, Names DEF ExportCandidates
<1>2. CASE WriteComparisons
  <2>1. disk.candidates.gen \in 1..MaxWrites
        /\ jobs["comparisons"].records \in SUBSET Comparison
    BY <1>2, Artifact DEF WriteComparisons, CandidateFile, TypeOK
  <2>2. Fresh("comparisons") \in 1..MaxWrites =>
           [gen |-> Fresh("comparisons"), source |-> disk.candidates.gen,
            records |-> jobs["comparisons"].records] \in FileOf("comparisons")
    BY <2>1, Names DEF ComparisonFile
  <2> QED  BY <1>2, <2>2, WriteType, Names DEF WriteComparisons
<1>3. CASE WriteAdjudication
  <2> DEFINE records == jobs["adjudication"].records
             rows == {[comparison |-> c, decision |-> "not_reviewed"] : c \in records}
  <2>1. disk.comparisons.gen \in 1..MaxWrites /\ records \in SUBSET Comparison
    BY <1>3, Artifact DEF WriteAdjudication, ComparisonFile, TypeOK
  <2>2. rows \in SUBSET Row
    BY <2>1 DEF Row
  <2> HIDE DEF rows
  <2>3. Fresh("adjudication") \in 1..MaxWrites =>
           [gen |-> Fresh("adjudication"), source |-> disk.comparisons.gen,
            sourceRecords |-> records, rows |-> rows] \in FileOf("adjudication")
    BY <2>1, <2>2, Names DEF AdjudicationFile
  <2> QED  BY <1>3, <2>3, WriteType, Names DEF WriteAdjudication, rows
<1>4. CASE WritePairs
  <2>1. /\ disk.comparisons.gen \in 1..MaxWrites /\ disk.adjudication.gen \in 1..MaxWrites
        /\ disk.adjudication.rows \in SUBSET Row
        /\ jobs["pairs"].comparisons \in SUBSET Comparison
        /\ jobs["pairs"].records \in SUBSET Row
    BY <1>4, Artifact DEF WritePairs, ComparisonFile, AdjudicationFile, TypeOK
  <2>2. Fresh("pairs") \in 1..MaxWrites =>
           [gen |-> Fresh("pairs"), comparisons |-> disk.comparisons.gen,
            comparisonRecords |-> jobs["pairs"].comparisons,
            adjudication |-> disk.adjudication.gen,
            adjudicationRows |-> disk.adjudication.rows,
            records |-> jobs["pairs"].records] \in FileOf("pairs")
    BY <2>1, Names DEF PairFile
  <2> QED  BY <1>4, <2>2, WriteType, Names DEF WritePairs
<1>5. CASE WriteSnapshot
  <2>1. /\ disk.pairs.gen \in 1..MaxWrites /\ disk.pairs.records \in SUBSET Row
        /\ jobs["snapshot"].records \in SUBSET Record
    BY <1>5, Artifact DEF WriteSnapshot, PairFile, TypeOK
  <2>2. Fresh("snapshot") \in 1..MaxWrites =>
           [gen |-> Fresh("snapshot"), source |-> disk.pairs.gen,
            pairRecords |-> disk.pairs.records,
            records |-> jobs["snapshot"].records] \in FileOf("snapshot")
    BY <2>1, Names DEF SnapshotFile
  <2> QED  BY <1>5, <2>2, WriteType, Names DEF WriteSnapshot
<1> QED  BY <1>1, <1>2, <1>3, <1>4, <1>5

LEMMA ReviewTypes ==
    ASSUME TypeOK,
           \/ \E r \in Rollouts, v \in Reviews : ReviewTrajectory(r, v)
           \/ \E row \in RowsNow, d \in Verdicts \cup Actions : Adjudicate(row, d)
    PROVE  TypeOK'
<1>1. ASSUME NEW r \in Rollouts, NEW v \in Reviews, ReviewTrajectory(r, v)
      PROVE  TypeOK'
  <2>1. seen' \in [Rollouts -> Reviews] /\ edits' \in 0..MaxEdits
    BY <1>1, PreferencesAssumption DEF ReviewTrajectory, TypeOK
  <2> QED  BY <1>1, <2>1 DEF ReviewTrajectory, TypeOK
<1>2. ASSUME NEW row \in RowsNow, NEW d \in Verdicts \cup Actions, Adjudicate(row, d)
      PROVE  TypeOK'
  <2> DEFINE new == (disk.adjudication.rows \ {row}) \cup {[row EXCEPT !.decision = d]}
             file == [disk.adjudication EXCEPT !.rows = new]
  <2>1. disk.adjudication \in AdjudicationFile /\ row \in disk.adjudication.rows
    BY <1>2, Artifact DEF Adjudicate
  <2>2. row \in Row
    BY <2>1 DEF AdjudicationFile
  <2>3. [row EXCEPT !.decision = d] \in Row
    BY <2>2 DEF Row
  <2>4. new \in SUBSET Row
    BY <2>1, <2>3 DEF AdjudicationFile
  <2>5. disk' = [disk EXCEPT !["adjudication"] = file]
    BY <1>2 DEF Adjudicate
  <2> HIDE DEF new
  <2>6. file \in AdjudicationFile
    BY <2>1, <2>4 DEF AdjudicationFile
  <2> HIDE DEF file
  <2>7. edits' \in 0..MaxEdits
    BY <1>2, PreferencesAssumption DEF Adjudicate, TypeOK
  <2>8. /\ DOMAIN disk' = Artifacts /\ disk'["adjudication"] \in AdjudicationFile
        /\ \A a \in Artifacts \ {"adjudication"} : disk'[a] = disk[a]
        /\ UNCHANGED <<seen, jobs, written>>
    BY <1>2, <2>5, <2>6, Names DEF Adjudicate, TypeOK
  <2>9. /\ disk'["candidates"] = disk["candidates"]
        /\ disk'["comparisons"] = disk["comparisons"]
        /\ disk'["pairs"] = disk["pairs"] /\ disk'["snapshot"] = disk["snapshot"]
    BY <2>8, Names
  <2> QED  BY <2>7, <2>8, <2>9 DEF TypeOK
<1> QED  BY <1>1, <1>2

LEMMA InitType ==
    Init => TypeOK
<1> SUFFICES ASSUME Init PROVE TypeOK
  OBVIOUS
<1>1. written \in [Artifacts -> 0..MaxWrites] /\ edits \in 0..MaxEdits
  BY PreferencesAssumption DEF Init
<1> QED  BY <1>1, Names DEF Init, TypeOK

LEMMA StepType ==
    ASSUME TypeOK, [Next]_preferenceVars
    PROVE  TypeOK'
<1>1. CASE UNCHANGED preferenceVars
  BY <1>1 DEF preferenceVars, TypeOK
<1>2. ASSUME NEW c \in Commands, Die(c)
      PROVE  TypeOK'
  BY <1>2, JobType DEF Die
<1> QED  BY <1>1, <1>2, ReadTypes, WriteTypes, ReviewTypes DEF Next

\* Every artifact and every command's memory is what the commands write; a
\* comparison is always between two actions (preferences/schema.py).
THEOREM TypeCorrect ==
    Spec => []TypeOK
<1>1. TypeOK /\ [Next]_preferenceVars => TypeOK'
  BY StepType
<1> QED  BY <1>1, InitType, PTL DEF Spec

-----------------------------------------------------------------------------
(* The snapshot's direction.  The adjudications may change as soon as they *)
(* are read, so what the invariant keeps is that the pairs and the records *)
(* made from them each agree with themselves.                              *)

PairsTrue ==
    /\ Written("pairs") => GoodRows(disk["pairs"].records)
    /\ jobs["pairs"] # Nothing => GoodRows(jobs["pairs"].records)

RecordsTrue ==
    /\ Written("snapshot") => GoodRecords(disk["snapshot"].records)
    /\ jobs["snapshot"] # Nothing => GoodRecords(jobs["snapshot"].records)

\* What leaves the four of them alone, or only empties them.
LEMMA Quiet ==
    ASSUME PairsTrue, RecordsTrue,
           disk'["pairs"] \in {disk["pairs"], Nothing},
           disk'["snapshot"] \in {disk["snapshot"], Nothing},
           jobs'["pairs"] \in {jobs["pairs"], Nothing},
           jobs'["snapshot"] \in {jobs["snapshot"], Nothing}
    PROVE  PairsTrue' /\ RecordsTrue'
BY DEF PairsTrue, RecordsTrue, Written

LEMMA DirectionStep ==
    ASSUME TypeOK, PairsTrue, RecordsTrue, [Next]_preferenceVars
    PROVE  PairsTrue' /\ RecordsTrue'
<1>0. DOMAIN disk = Artifacts /\ DOMAIN jobs = Commands
  BY DEF TypeOK
<1>1. CASE UNCHANGED preferenceVars
  BY <1>1, Quiet DEF preferenceVars
<1>2. CASE ExportCandidates
  BY <1>0, <1>2, Names, Quiet DEF ExportCandidates, Put
<1>3. CASE ReadCandidates
  BY <1>0, <1>3, Names, Quiet DEF ReadCandidates, Read
<1>4. CASE WriteComparisons
  BY <1>0, <1>4, Names, Quiet DEF WriteComparisons, Write, Put
<1>5. CASE ReadComparisons
  BY <1>0, <1>5, Names, Quiet DEF ReadComparisons, Read
<1>6. CASE WriteAdjudication
  BY <1>0, <1>6, Names, Quiet DEF WriteAdjudication, Write, Put
<1>7. CASE ReadAdjudications
  <2>1. GoodRows(Preferred(disk.adjudication.rows))
    BY <1>7, PreferredIsGood DEF ReadAdjudications
  <2>2. /\ UNCHANGED disk /\ jobs'["snapshot"] = jobs["snapshot"]
        /\ jobs'["pairs"].records = Preferred(disk.adjudication.rows)
    BY <1>0, <1>7, Names DEF ReadAdjudications, Read
  <2> QED  BY <2>1, <2>2 DEF PairsTrue, RecordsTrue, Written
<1>8. CASE WritePairs
  <2> DEFINE file == [gen |-> Fresh("pairs"), comparisons |-> disk.comparisons.gen,
                      comparisonRecords |-> jobs["pairs"].comparisons,
                      adjudication |-> disk.adjudication.gen,
                      adjudicationRows |-> disk.adjudication.rows,
                      records |-> jobs["pairs"].records]
  <2>1. file.records = jobs["pairs"].records /\ GoodRows(jobs["pairs"].records)
    BY <1>8 DEF WritePairs, PairsTrue
  <2>2. Write("pairs", file)
    BY <1>8 DEF WritePairs
  <2> HIDE DEF file
  <2>3. /\ disk'["pairs"] = file \/ disk'["pairs"] = Nothing
        /\ disk'["snapshot"] = disk["snapshot"]
        /\ jobs'["pairs"] = Nothing /\ jobs'["snapshot"] = jobs["snapshot"]
    BY <1>0, <2>2, Names DEF Write, Put
  <2> QED  BY <2>1, <2>3 DEF PairsTrue, RecordsTrue, Written
<1>9. CASE ReadPairs
  <2>1. GoodRecords({MaterializePair(p) : p \in disk.pairs.records})
    BY <1>9 DEF ReadPairs, PairsLoad, PairsTrue, GoodRows, GoodRecords
  <2>2. /\ UNCHANGED disk /\ jobs'["pairs"] = jobs["pairs"]
        /\ jobs'["snapshot"].records = {MaterializePair(p) : p \in disk.pairs.records}
    BY <1>0, <1>9, Names DEF ReadPairs, Read
  <2> QED  BY <2>1, <2>2 DEF PairsTrue, RecordsTrue, Written
<1>10. CASE WriteSnapshot
  <2> DEFINE file == [gen |-> Fresh("snapshot"), source |-> disk.pairs.gen,
                      pairRecords |-> disk.pairs.records,
                      records |-> jobs["snapshot"].records]
  <2>1. file.records = jobs["snapshot"].records /\ GoodRecords(jobs["snapshot"].records)
    BY <1>10 DEF WriteSnapshot, RecordsTrue
  <2>2. Write("snapshot", file)
    BY <1>10 DEF WriteSnapshot
  <2> HIDE DEF file
  <2>3. /\ disk'["snapshot"] = file \/ disk'["snapshot"] = Nothing
        /\ disk'["pairs"] = disk["pairs"]
        /\ jobs'["snapshot"] = Nothing /\ jobs'["pairs"] = jobs["pairs"]
    BY <1>0, <2>2, Names DEF Write, Put
  <2> QED  BY <2>1, <2>3 DEF PairsTrue, RecordsTrue, Written
<1>11. ASSUME NEW c \in Commands, Die(c)
       PROVE  PairsTrue' /\ RecordsTrue'
  BY <1>0, <1>11, Names, Quiet DEF Die
<1>12. ASSUME NEW r \in Rollouts, NEW v \in Reviews, ReviewTrajectory(r, v)
       PROVE  PairsTrue' /\ RecordsTrue'
  BY <1>12, Quiet DEF ReviewTrajectory
<1>13. ASSUME NEW row \in RowsNow, NEW d \in Verdicts \cup Actions, Adjudicate(row, d)
       PROVE  PairsTrue' /\ RecordsTrue'
  BY <1>0, <1>13, Names, Quiet DEF Adjudicate
<1> QED
  BY <1>1, <1>2, <1>3, <1>4, <1>5, <1>6, <1>7, <1>8, <1>9, <1>10, <1>11, <1>12, <1>13
  DEF Next

\* A snapshot that loads has, for each pair its source holds, a record of it;
\* two that agree with themselves in opposite directions would be of one pair.
LEMMA DirectionHolds ==
    ASSUME PairsTrue, RecordsTrue
    PROVE  SnapshotKeepsDirection
<1> SUFFICES ASSUME SnapshotLoads, NEW r \in disk.snapshot.records
             PROVE  /\ \E p \in disk.pairs.records :
                          p.comparison = r.pair.comparison /\ p.decision = r.chosen
                    /\ \A q \in disk.snapshot.records :
                          q.pair.comparison.context = r.pair.comparison.context
                          /\ q.chosen = r.rejected => q.rejected # r.chosen
  BY DEF SnapshotKeepsDirection
<1>1. /\ GoodRows(disk.pairs.records) /\ GoodRecords(disk.snapshot.records)
      /\ {s.pair : s \in disk.snapshot.records} = disk.pairs.records
  BY DEF SnapshotLoads, PairsPinned, Covers, PairsTrue, RecordsTrue
<1>2. \A s \in disk.snapshot.records :
         /\ s.pair \in disk.pairs.records /\ s.chosen = s.pair.decision
         /\ s.rejected # s.chosen
         /\ s.pair.comparison.actions = {s.chosen, s.rejected}
  BY <1>1, Direction DEF GoodRecords
<1>3. ASSUME NEW q \in disk.snapshot.records,
             q.pair.comparison.context = r.pair.comparison.context,
             q.chosen = r.rejected, q.rejected = r.chosen
      PROVE  FALSE
  <2>1. q.pair.comparison.actions = r.pair.comparison.actions
    BY <1>2, <1>3
  <2>2. q.pair = r.pair
    BY <1>1, <1>2, <1>3, <2>1 DEF GoodRows
  <2> QED  BY <1>2, <1>3, <2>2
<1> QED  BY <1>2, <1>3

\* A snapshot that loads for training holds each comparison once, in the
\* direction the pairs it pins hold it (preferences/materialization).
THEOREM DirectionKept ==
    Spec => []SnapshotKeepsDirection
<1>1. Init => TypeOK /\ PairsTrue /\ RecordsTrue
  BY InitType, Names DEF Init, PairsTrue, RecordsTrue, Written
<1>2. TypeOK /\ PairsTrue /\ RecordsTrue /\ [Next]_preferenceVars
         => (TypeOK /\ PairsTrue /\ RecordsTrue)'
  BY StepType, DirectionStep
<1> QED  BY <1>1, <1>2, DirectionHolds, PTL DEF Spec

-----------------------------------------------------------------------------
(* What is read for materialization                                        *)

LEMMA PairsArePreferred ==
    ASSUME TypeOK, PairsLoad, NEW p \in disk.pairs.records
    PROVE  PreferredNow(MaterializePair(p))
<1> DEFINE r == MaterializePair(p)
           c == p.comparison
<1>1. /\ AdjudicationValid /\ disk.pairs.records = Preferred(disk.adjudication.rows)
      /\ GoodRows(disk.pairs.records)
  BY PreferredIsGood DEF PairsLoad
<1>2. /\ r.pair = p /\ r.chosen = p.decision /\ c.actions = {r.chosen, r.rejected}
  BY <1>1, Direction DEF GoodRows
<1>3. p \in RowsNow
  BY <1>1 DEF Preferred, RowsNow, AdjudicationValid
<1>4. /\ seen \in [Rollouts -> Reviews] /\ c \in Discover[seen]
  BY <1>1, <1>3, CurrentRows DEF AdjudicationValid, ComparisonsLoad, RowsNow
<1>5. PICK u \in Occurrences(seen), v \in Occurrences(seen) :
         /\ ContextOf(u) = ContextOf(v)
         /\ c.context = ContextOf(u) /\ c.actions = {ActionOf(u), ActionOf(v)}
         /\ c.evidence = {q \in Occurrences(seen) :
                             /\ ContextOf(q) = ContextOf(u)
                             /\ ActionOf(q) \in {ActionOf(u), ActionOf(v)}}
  BY <1>4, Discovered
<1>6. \A o \in c.evidence : o.rollout \in Trusted /\ o.review = seen[o.rollout]
  BY <1>4, <1>5, OccurrenceTypes
<1> HIDE DEF r
<1>7. \A a \in {r.chosen, r.rejected} : \E o \in c.evidence :
         ActionOf(o) = a /\ ContextOf(o) = c.context
  <2>1. u \in c.evidence /\ v \in c.evidence
    BY <1>5
  <2>2. \A a \in {r.chosen, r.rejected} : a = ActionOf(u) \/ a = ActionOf(v)
    BY <1>2, <1>5
  <2> QED  BY <1>5, <2>1, <2>2
<1>8. PreferredNow(r)
  BY <1>2, <1>3, <1>6, <1>7 DEF PreferredNow
<1> QED  BY <1>8 DEF r

\* A pair is read for materialization only in the direction its adjudicator
\* prefers at that moment, and every preferred comparison is read
\* (preferences/materialization).
THEOREM OnlyThePreferred ==
    Spec => MaterializesWhatIsPreferred
<1> DEFINE Step ==
        jobs["snapshot"] = Nothing /\ jobs'["snapshot"] # Nothing =>
          /\ \A r \in jobs'["snapshot"].records : PreferredNow(r)
          /\ \A row \in Preferred(RowsNow) :
                \E r \in jobs'["snapshot"].records : r.chosen = row.decision
                                                     /\ r.pair = row
<1>1. TypeOK /\ [Next]_preferenceVars => [Step]_preferenceVars
  <2> SUFFICES ASSUME TypeOK, Next, jobs["snapshot"] = Nothing,
                      jobs'["snapshot"] # Nothing
               PROVE  Step
    OBVIOUS
  <2>1. ReadPairs
    BY Names DEF Next, ExportCandidates, ReadCandidates, WriteComparisons,
       ReadComparisons, WriteAdjudication, ReadAdjudications, WritePairs, WriteSnapshot,
       Die, ReviewTrajectory, Adjudicate, Read, Write, TypeOK
  <2>2. /\ PairsLoad
        /\ jobs'["snapshot"].records = {MaterializePair(p) : p \in disk.pairs.records}
    BY <2>1, Names DEF ReadPairs, Read, TypeOK
  <2>3. \A r \in jobs'["snapshot"].records : PreferredNow(r)
    BY <2>2, PairsArePreferred
  <2>4. Preferred(RowsNow) = disk.pairs.records /\ GoodRows(disk.pairs.records)
    BY <2>2, PreferredIsGood DEF PairsLoad, AdjudicationValid, RowsNow
  <2>5. \A row \in disk.pairs.records :
           /\ MaterializePair(row) \in jobs'["snapshot"].records
           /\ MaterializePair(row).chosen = row.decision
           /\ MaterializePair(row).pair = row
    BY <2>2, <2>4, Direction DEF GoodRows
  <2> QED  BY <2>3, <2>4, <2>5
<1> QED  BY <1>1, TypeCorrect, PTL DEF Spec, MaterializesWhatIsPreferred
=============================================================================
