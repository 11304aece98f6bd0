----------------------------- MODULE Preferences -----------------------------
(***************************************************************************)
(* The preference data chain of src/agentenv/training/preferences: from    *)
(* the training candidates, the comparisons of actions that rollouts took  *)
(* in the same context; their adjudication; the pairs that were preferred; *)
(* and their materialization as the snapshot a DPO run trains on.          *)
(*                                                                         *)
(* A command reads its sources and checks them, works, and only then       *)
(* writes its directory, whose manifest pins the sources' manifests as     *)
(* they are at that moment.  Between the two, reviewers edit their files   *)
(* and other commands overwrite the sources.                               *)
(*                                                                         *)
(* The hash of a manifest is the generation of the directory, the hash of  *)
(* a record or of an edited file its contents.  Trajectories and their     *)
(* review's manifest are those of module Curation.                         *)
(***************************************************************************)
EXTENDS Integers, Sequences, FiniteSets

CONSTANTS
    Rollouts,       \* ids of trajectories
    Trusted,        \* those whose evidence makes them eligible
    Task,           \* [Rollouts -> task, its hashes and the harness's]
    Turns,          \* [Rollouts -> sequence of [action, result]]
    Reviews,        \* what a trajectory review may say of a rollout
    Verdicts,       \* adjudications that prefer neither action
    MaxContext,     \* turns that fit max_sequence_length
    MaxWrites,      \* bound on writing one artifact
    MaxRewrites,    \* bound on overwriting, all artifacts together
    MaxEdits,       \* bound on edits of review files, all files together
    MaxJobs         \* bound on commands under way at once

ASSUME PreferencesAssumption ==
    /\ Trusted \subseteq Rollouts
    /\ MaxWrites \in Nat /\ MaxRewrites \in Nat /\ MaxEdits \in Nat /\ MaxJobs \in Nat

VARIABLES
    seen,       \* the rows of the trajectory review
    disk,       \* the artifact directories
    jobs,       \* what the commands under way have read
    written,    \* how often each artifact has been written
    edits       \* edits of review files so far

preferenceVars == <<seen, disk, jobs, written, edits>>

Nothing == [nothing |-> TRUE]
Artifacts == {"candidates", "comparisons", "adjudication", "pairs", "snapshot"}
Commands == Artifacts \ {"candidates"}

-----------------------------------------------------------------------------
(* Discovery: distinct actions in exactly the same context                 *)

OccurrencesOf(r, review) ==
    {[rollout |-> r, at |-> i, review |-> review] : i \in DOMAIN Turns[r]}

Occurrence == UNION {OccurrencesOf(r, v) : r \in Rollouts, v \in Reviews}

Occurrences(rows) == UNION {OccurrencesOf(r, rows[r]) : r \in Trusted}

ActionOf(o) == Turns[o.rollout][o.at].action

\* The task, the messages so far, and the workspace these have led to.
ContextOf(o) ==
    [task |-> Task[o.rollout], before |-> SubSeq(Turns[o.rollout], 1, o.at - 1)]

\* Faulty: an action is compared with itself.
Comparable_SameAction(o, p) == ContextOf(o) = ContextOf(p)

Comparable(o, p) == ContextOf(o) = ContextOf(p) /\ ActionOf(o) # ActionOf(p)

\* All occurrences of the two actions there are the evidence of a comparison.
Compare(o, p, all) ==
    [context  |-> ContextOf(o),
     actions  |-> {ActionOf(o), ActionOf(p)},
     evidence |-> {q \in all : /\ ContextOf(q) = ContextOf(o)
                               /\ ActionOf(q) \in {ActionOf(o), ActionOf(p)}}]

Discover ==
    [rows \in [Rollouts -> Reviews] |->
        LET all == Occurrences(rows)
        IN  {Compare(q[1], q[2], all)
                : q \in {r \in all \X all : Comparable(r[1], r[2])}}]

Actions == {ActionOf(o) : o \in Occurrence}

Comparison == [context  : {ContextOf(o) : o \in Occurrence},
               actions  : {s \in SUBSET Actions : Cardinality(s) = 2},
               evidence : SUBSET Occurrence]

-----------------------------------------------------------------------------
(* Adjudications, pairs and materialized records                           *)

\* A decision is a verdict, or the action that is preferred.
Row == [comparison : Comparison, decision : Verdicts \cup Actions \cup {"not_reviewed"}]

Preferred(rows) == {row \in rows : row.decision \in row.comparison.actions}

Record == [pair : Row, chosen : Actions, rejected : Actions, completed : BOOLEAN]

Fits(context) == Len(context.before) <= MaxContext

\* A pair names its comparison and its adjudication by hash.  The direction is
\* resolved from the adjudication; a branch that does not fit fails the pair.
MaterializePair(pair) ==
    [pair      |-> pair,
     chosen    |-> pair.decision,
     rejected  |-> CHOOSE a \in pair.comparison.actions : a # pair.decision,
     completed |-> Fits(pair.comparison.context)]

CandidateFile == [gen : 1..MaxWrites, rows : [Rollouts -> Reviews]]
ComparisonFile == [gen : 1..MaxWrites, source : 1..MaxWrites,
                   records : SUBSET Comparison]
AdjudicationFile == [gen : 1..MaxWrites, source : 1..MaxWrites,
                     sourceRecords : SUBSET Comparison, rows : SUBSET Row]
PairFile == [gen : 1..MaxWrites, comparisons : 1..MaxWrites,
             comparisonRecords : SUBSET Comparison, adjudication : 1..MaxWrites,
             adjudicationRows : SUBSET Row, records : SUBSET Row]
SnapshotFile == [gen : 1..MaxWrites, source : 1..MaxWrites,
                 pairRecords : SUBSET Row, records : SUBSET Record]

-----------------------------------------------------------------------------
(* Loading.  Every loader but the trainer's rebuilds what it loads from    *)
(* the sources it pins.                                                    *)

Written(a) == disk[a] # Nothing

CandidatesLoad == Written("candidates") /\ disk.candidates.rows = seen

ComparisonsLoad ==
    /\ Written("comparisons")
    /\ CandidatesLoad
    /\ disk.comparisons.source = disk.candidates.gen
    /\ disk.comparisons.records = Discover[disk.candidates.rows]

AdjudicationValid ==
    /\ Written("adjudication")
    /\ ComparisonsLoad
    /\ disk.adjudication.source = disk.comparisons.gen
    /\ disk.adjudication.sourceRecords = disk.comparisons.records
    /\ {row.comparison : row \in disk.adjudication.rows} = disk.comparisons.records
    /\ \A r1, r2 \in disk.adjudication.rows :
          r1.comparison = r2.comparison => r1 = r2

\* Faulty: the pairs are not rebuilt from the adjudications.
PairsLoad_NotRebuilt ==
    /\ Written("pairs")
    /\ AdjudicationValid
    /\ disk.pairs.comparisons = disk.comparisons.gen
    /\ disk.pairs.comparisonRecords = disk.comparisons.records
    /\ disk.pairs.adjudication = disk.adjudication.gen
    /\ disk.pairs.adjudicationRows = disk.adjudication.rows

PairsLoad ==
    /\ Written("pairs")
    /\ AdjudicationValid
    /\ disk.pairs.comparisons = disk.comparisons.gen
    /\ disk.pairs.comparisonRecords = disk.comparisons.records
    /\ disk.pairs.adjudication = disk.adjudication.gen
    /\ disk.pairs.adjudicationRows = disk.adjudication.rows
    /\ disk.pairs.records = Preferred(disk.adjudication.rows)

PairsPinned ==
    /\ Written("snapshot") /\ Written("pairs")
    /\ disk.snapshot.source = disk.pairs.gen
    /\ disk.snapshot.pairRecords = disk.pairs.records

\* Faulty: only the number of records is compared.
Covers_Counts(records, pairs) == Cardinality(records) = Cardinality(pairs)

\* Every pair has one record, and no other.
Covers(records, pairs) == {r.pair : r \in records} = pairs

\* The trainer's loader looks no further than the pairs.
SnapshotLoads == PairsPinned /\ Covers(disk.snapshot.records, disk.pairs.records)

MaterializationLoads ==
    /\ SnapshotLoads
    /\ PairsLoad
    /\ disk.snapshot.records = {MaterializePair(p) : p \in disk.pairs.records}

-----------------------------------------------------------------------------
(* Commands                                                                *)

Fresh(a) == written[a] + 1
Rewrites(count) == {r \in Artifacts \X (2..MaxWrites) : r[2] <= count[r[1]]}

\* The directory is emptied, then filled, its manifest last.
Put(a, file) ==
    /\ written[a] < MaxWrites
    /\ written' = [written EXCEPT ![a] = @ + 1]
    /\ Cardinality(Rewrites(written')) <= MaxRewrites
    /\ \/ disk' = [disk EXCEPT ![a] = file]
       \/ Written(a) /\ disk' = [disk EXCEPT ![a] = Nothing]
    /\ UNCHANGED <<seen, edits>>

Read(a, memory) ==
    /\ jobs[a] = Nothing
    /\ Cardinality({c \in Commands : jobs[c] # Nothing}) < MaxJobs
    /\ jobs' = [jobs EXCEPT ![a] = memory]
    /\ UNCHANGED <<seen, disk, written, edits>>

Write(a, file) ==
    /\ Put(a, file)
    /\ jobs' = [jobs EXCEPT ![a] = Nothing]

ExportCandidates ==
    /\ Put("candidates", [gen |-> Fresh("candidates"), rows |-> seen])
    /\ UNCHANGED jobs

ReadCandidates ==
    /\ CandidatesLoad
    /\ Read("comparisons", [records |-> Discover[disk.candidates.rows]])

WriteComparisons ==
    /\ jobs["comparisons"] # Nothing /\ Written("candidates")
    /\ Write("comparisons",
             [gen |-> Fresh("comparisons"), source |-> disk.candidates.gen,
              records |-> jobs["comparisons"].records])

ReadComparisons ==
    /\ ComparisonsLoad
    /\ Read("adjudication", [records |-> disk.comparisons.records])

WriteAdjudication ==
    /\ jobs["adjudication"] # Nothing /\ Written("comparisons")
    /\ Write("adjudication",
             [gen |-> Fresh("adjudication"), source |-> disk.comparisons.gen,
              sourceRecords |-> jobs["adjudication"].records,
              rows |-> {[comparison |-> c, decision |-> "not_reviewed"]
                           : c \in jobs["adjudication"].records}])

ReadAdjudications ==
    /\ AdjudicationValid
    /\ Read("pairs", [comparisons |-> disk.comparisons.records,
                      records |-> Preferred(disk.adjudication.rows)])

\* The adjudications are hashed as they are by now.
WritePairs ==
    /\ jobs["pairs"] # Nothing
    /\ Written("comparisons") /\ Written("adjudication")
    /\ Write("pairs",
             [gen |-> Fresh("pairs"), comparisons |-> disk.comparisons.gen,
              comparisonRecords |-> jobs["pairs"].comparisons,
              adjudication |-> disk.adjudication.gen,
              adjudicationRows |-> disk.adjudication.rows,
              records |-> jobs["pairs"].records])

ReadPairs ==
    /\ PairsLoad
    /\ Read("snapshot",
            [records |-> {MaterializePair(p) : p \in disk.pairs.records}])

WriteSnapshot ==
    /\ jobs["snapshot"] # Nothing /\ Written("pairs")
    /\ Write("snapshot",
             [gen |-> Fresh("snapshot"), source |-> disk.pairs.gen,
              pairRecords |-> disk.pairs.records,
              records |-> jobs["snapshot"].records])

\* A command fails or is killed before it writes.
Die(a) ==
    /\ jobs[a] # Nothing
    /\ jobs' = [jobs EXCEPT ![a] = Nothing]
    /\ UNCHANGED <<seen, disk, written, edits>>

-----------------------------------------------------------------------------
(* Reviewers                                                               *)

ReviewTrajectory(rollout, review) ==
    /\ edits < MaxEdits /\ seen[rollout] # review
    /\ seen' = [seen EXCEPT ![rollout] = review]
    /\ edits' = edits + 1
    /\ UNCHANGED <<disk, jobs, written>>

Adjudicate(row, decision) ==
    /\ Written("adjudication") /\ row \in disk.adjudication.rows
    /\ edits < MaxEdits /\ row.decision # decision
    /\ decision \in Verdicts \cup row.comparison.actions
    /\ disk' = [disk EXCEPT !.adjudication.rows =
                   (@ \ {row}) \cup {[row EXCEPT !.decision = decision]}]
    /\ edits' = edits + 1
    /\ UNCHANGED <<seen, jobs, written>>

-----------------------------------------------------------------------------
Init ==
    /\ seen \in [Rollouts -> Reviews]
    /\ \A r, s \in Rollouts : seen[r] = seen[s]
    /\ disk = [a \in Artifacts |-> Nothing]
    /\ jobs = [c \in Commands |-> Nothing]
    /\ written = [a \in Artifacts |-> 0]
    /\ edits = 0

RowsNow == IF Written("adjudication") THEN disk.adjudication.rows ELSE {}

Next ==
    \/ ExportCandidates
    \/ ReadCandidates \/ WriteComparisons
    \/ ReadComparisons \/ WriteAdjudication
    \/ ReadAdjudications \/ WritePairs
    \/ ReadPairs \/ WriteSnapshot
    \/ \E c \in Commands : Die(c)
    \/ \E r \in Rollouts, v \in Reviews : ReviewTrajectory(r, v)
    \/ \E row \in RowsNow, d \in Verdicts \cup Actions : Adjudicate(row, d)

Spec == Init /\ [][Next]_preferenceVars

-----------------------------------------------------------------------------
(* Properties *)

\* Every artifact and every command's memory is what the commands write; in
\* particular a comparison is always between two actions.
TypeOK ==
    /\ seen \in [Rollouts -> Reviews]
    /\ DOMAIN disk = Artifacts /\ DOMAIN jobs = Commands
    /\ disk["candidates"] \in CandidateFile \cup {Nothing}
    /\ disk["comparisons"] \in ComparisonFile \cup {Nothing}
    /\ disk["adjudication"] \in AdjudicationFile \cup {Nothing}
    /\ disk["pairs"] \in PairFile \cup {Nothing}
    /\ disk["snapshot"] \in SnapshotFile \cup {Nothing}
    /\ jobs["comparisons"] \in [records : SUBSET Comparison] \cup {Nothing}
    /\ jobs["adjudication"] \in [records : SUBSET Comparison] \cup {Nothing}
    /\ jobs["pairs"] \in [comparisons : SUBSET Comparison,
                          records : SUBSET Row] \cup {Nothing}
    /\ jobs["snapshot"] \in [records : SUBSET Record] \cup {Nothing}
    /\ written \in [Artifacts -> 0..MaxWrites]
    /\ edits \in 0..MaxEdits

\* Read from the rollouts and the reviewers' files alone: an adjudicator
\* prefers this action to that one, and trusted rollouts took both in this
\* context, reviewed as the comparison says.
PreferredNow(r) ==
    LET c == r.pair.comparison IN
    /\ \E row \in RowsNow :
          /\ row.comparison.context = c.context
          /\ row.comparison.actions = {r.chosen, r.rejected}
          /\ row.decision = r.chosen
    /\ \A a \in {r.chosen, r.rejected} : \E o \in c.evidence :
          ActionOf(o) = a /\ ContextOf(o) = c.context
    /\ \A o \in c.evidence : o.rollout \in Trusted /\ o.review = seen[o.rollout]

\* A pair is read for materialization only in the direction its adjudicator
\* prefers at that moment, and every preferred comparison is read (invariants
\* 12 and 14 of training/README.md).
MaterializesWhatIsPreferred ==
    [][jobs["snapshot"] = Nothing /\ jobs'["snapshot"] # Nothing =>
          /\ \A r \in jobs'["snapshot"].records : PreferredNow(r)
          /\ \A row \in Preferred(RowsNow) :
                \E r \in jobs'["snapshot"].records : r.chosen = row.decision
                                                     /\ r.pair = row
      ]_preferenceVars

\* A snapshot that loads for training holds each comparison once, in the
\* direction the pairs it pins hold it, although they may have been exported
\* anew, from other adjudications, while its tokens were made.
SnapshotKeepsDirection ==
    SnapshotLoads =>
        \A r \in disk.snapshot.records :
            /\ \E p \in disk.pairs.records :
                  p.comparison = r.pair.comparison /\ p.decision = r.chosen
            /\ \A q \in disk.snapshot.records :
                  q.pair.comparison.context = r.pair.comparison.context
                  /\ q.chosen = r.rejected => q.rejected # r.chosen
=============================================================================
