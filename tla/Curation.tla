------------------------------ MODULE Curation ------------------------------
(***************************************************************************)
(* The positive-SFT data chain of src/agentenv/training: a trajectory      *)
(* export, its human review, the training candidates computed from both,   *)
(* the mechanical repairs and their review, the prefix review, the         *)
(* exported examples, their materialization as tokens, and the data a      *)
(* LoRA run selects from it.                                               *)
(*                                                                         *)
(* Every artifact is a directory with a manifest that pins its sources by  *)
(* hash. Exports are written once per command; the three review files are  *)
(* edited by people at any time. A hash is modelled by what it identifies: *)
(* the hash of a manifest by the generation of the directory (created_at   *)
(* makes two manifests differ), the hash of an edited JSONL file and of a  *)
(* record by their contents.                                               *)
(***************************************************************************)
EXTENDS Integers, FiniteSets

CONSTANTS
    Trajectories,   \* trajectory ids, one per task
    Profiles,       \* possible contents of an export: [Trajectories -> Fact]
    ReviewChoices,  \* what a reviewer writes in a trajectory review row
    PrefixChoices,  \* what a reviewer writes in a prefix review row
    MaxMessages,    \* assistant messages that fit max_sequence_length
    MaxWrites,      \* bound on how often one artifact is written
    MaxRewrites,    \* bound on overwriting exports, all artifacts together
    MaxEdits        \* bound on edits of review files, all files together

VARIABLES
    disk,       \* the artifact directories
    written,    \* how often each artifact has been written
    edits,      \* edits of review files so far (bounded)
    trainer     \* what a starting LoRA run has read from the chain

curationVars == <<disk, written, edits, trainer>>

Nothing == [nothing |-> TRUE]

Artifacts == {"trajExport", "trajReview", "candidates", "repairs",
              "repairReview", "sftReview", "sftExport", "materialized"}

-----------------------------------------------------------------------------
(* Records.  Assistant turns of a transcript are numbered; turn 2 of a     *)
(* trajectory with redundancy blocks is the redundant one.                 *)

Turns == 1..3
Decisions == {"not_reviewed", "accepted", "rejected"}
Judgments == {"none", "accepted", "rejected"}

Fact == [trainable  : BOOLEAN,
         finding    : {"none", "ambiguous", "confirmed"},
         redundancy : {"clean", "blocks", "stuck", "incomplete"}]

ReviewRow == [decision : Decisions,
              hack     : {"none", "not_reviewed", "cleared", "confirmed"}]

Candidate == [trajectory : Trajectories,
              decision   : Decisions,
              redundancy : {"clean", "blocks", "stuck", "incomplete"},
              positive   : BOOLEAN]

Repair == [candidate : Candidate,
           status    : {"completed", "cannot_complete", "repair_error"}]

RepairRow == [repair : Repair, decision : Decisions]

Sources == {"original", "repaired"}

Judgment == [decision   : Decisions,
             boundary   : Turns \cup {0},
             efficiency : Judgments]

SFTRow == [candidate : Candidate, source : Sources, judgment : Judgment]

Example == [row : SFTRow, messages : SUBSET Turns]

ASSUME CurationAssumption ==
    /\ Profiles \subseteq [Trajectories -> Fact]
    /\ ReviewChoices \subseteq ReviewRow /\ PrefixChoices \subseteq Judgment
    /\ MaxMessages \in Nat /\ MaxWrites \in Nat /\ MaxRewrites \in Nat
    /\ MaxEdits \in Nat

TrajExportFile == [gen : 1..MaxWrites, records : [Trajectories -> Fact]]
TrajReviewFile == [gen : 1..MaxWrites, source : 1..MaxWrites,
                   rows : [Trajectories -> ReviewRow]]
CandidateFile == [gen : 1..MaxWrites, source : 1..MaxWrites,
                  review : 1..MaxWrites,
                  reviewRows : [Trajectories -> ReviewRow],
                  records : SUBSET Candidate]
RepairFile == [gen : 1..MaxWrites, source : 1..MaxWrites,
               records : SUBSET Repair]
RepairReviewFile == [gen : 1..MaxWrites, source : 1..MaxWrites,
                     rows : SUBSET RepairRow]
SFTReviewFile == [gen : 1..MaxWrites, source : 1..MaxWrites,
                  repairs : 0..MaxWrites, repairReview : 0..MaxWrites,
                  repairRows : SUBSET RepairRow,
                  rows : SUBSET SFTRow]
SFTExportFile == [gen : 1..MaxWrites, source : 1..MaxWrites,
                  reviewRows : SUBSET SFTRow, examples : SUBSET Example]
MaterializedFile == [gen : 1..MaxWrites, source : 1..MaxWrites,
                     examples : SUBSET Example, completed : SUBSET Example,
                     authorized : BOOLEAN]

Trainer == [source : 1..MaxWrites, completed : SUBSET Example,
            treatment : {"none", "raw", "filtered"}, examples : SUBSET Example]

Written(a) == disk[a] # Nothing
RecordsOf(a) == IF Written(a) THEN disk[a].records ELSE {}

-----------------------------------------------------------------------------
(* Trajectory review: validate_trajectory_review_artifact                  *)

InitialReview(fact) ==
    [decision |-> "not_reviewed",
     hack     |-> IF fact.finding = "ambiguous" THEN "not_reviewed" ELSE "none"]

ReviewedTrajectories ==
    /\ Written("trajExport") /\ Written("trajReview")
    /\ disk.trajReview.source = disk.trajExport.gen
    /\ \A t \in Trajectories :
          disk.trajExport.records[t].finding = "ambiguous"
             => disk.trajReview.rows[t].hack # "none"

(* Candidates: content eligibility is recomputed from trajectory and review *)
PositiveEligible(fact, row) ==
    /\ row.decision = "accepted"
    /\ fact.trainable
    /\ row.hack # "confirmed"
    /\ fact.finding # "confirmed"
    /\ fact.finding = "ambiguous" => row.hack = "cleared"

BuildCandidate(t, fact, row) ==
    [trajectory |-> t, decision |-> row.decision,
     redundancy |-> fact.redundancy, positive |-> PositiveEligible(fact, row)]

BuildCandidates ==
    {BuildCandidate(t, disk.trajExport.records[t], disk.trajReview.rows[t])
        : t \in Trajectories}

CandidatesLoad ==
    /\ ReviewedTrajectories
    /\ Written("candidates")
    /\ disk.candidates.records = BuildCandidates

(* The sources pinned by the candidate manifest (source_integrity.py)      *)
PinnedTrajectories == disk.candidates.source = disk.trajExport.gen
PinnedReview ==
    /\ disk.candidates.review = disk.trajReview.gen
    /\ disk.candidates.reviewRows = disk.trajReview.rows

-----------------------------------------------------------------------------
(* Repairs: one record per candidate with redundancy blocks; the repairer  *)
(* is deterministic, its outcome recomputed when the artifact is loaded.   *)

NeedsRepair(c) == c.redundancy \in {"blocks", "stuck"}
Outcome(c) == IF c.redundancy = "blocks" THEN "completed" ELSE "cannot_complete"

RepairsLoad ==
    /\ Written("repairs")
    /\ CandidatesLoad
    /\ disk.repairs.source = disk.candidates.gen
    /\ PinnedTrajectories
    /\ \A r \in disk.repairs.records :
          /\ r.candidate \in disk.candidates.records
          /\ r.status \in {Outcome(r.candidate), "repair_error"}

RepairReviewValid ==
    /\ RepairsLoad
    /\ Written("repairReview")
    /\ disk.repairReview.source = disk.repairs.gen
    /\ {row.repair : row \in disk.repairReview.rows} = disk.repairs.records
    /\ \A r1, r2 \in disk.repairReview.rows : r1.repair = r2.repair => r1 = r2

AcceptedRepair(r) ==
    /\ r.status = "completed"
    /\ [repair |-> r, decision |-> "accepted"] \in disk.repairReview.rows
    /\ r.candidate.positive /\ NeedsRepair(r.candidate)

-----------------------------------------------------------------------------
(* Prefix review: which candidates are put to review, from which source    *)

\* The assistant turns of a source: a repair removes the redundant turn.
SourceTurns(source) == IF source = "repaired" THEN Turns \ {2} ELSE Turns

Reviewable(c) == c.positive /\ c.redundancy # "incomplete"

Selections(repairs) ==
    {<<c, "original">> : c \in {d \in disk.candidates.records :
                                  Reviewable(d) /\ ~NeedsRepair(d)}}
    \cup {<<r.candidate, "repaired">> : r \in repairs}

\* The repairs a prefix review takes as sources of its repaired rows.
SelectedRepairs(rows) ==
    {r \in disk.repairs.records :
        \E row \in rows : row.source = "repaired" /\ row.candidate = r.candidate}

RepairSourcesPinned(review) ==
    /\ RepairReviewValid
    /\ review.repairs = disk.repairs.gen
    /\ review.repairReview = disk.repairReview.gen
    /\ review.repairRows = disk.repairReview.rows

\* The state rules of PositiveSFTReviewRecord, and the boundary rule.
RowValid(row) ==
    LET j == row.judgment
    IN  IF j.decision = "accepted"
        THEN j.boundary \in SourceTurns(row.source)
        ELSE j.boundary = 0 /\ j.efficiency = "none"

Repaired(rows) == \E row \in rows : row.source = "repaired"

SFTReviewValid ==
    LET review == disk.sftReview
        chosen == IF Repaired(review.rows) THEN SelectedRepairs(review.rows)
                                           ELSE {}
    IN  /\ Written("sftReview")
        /\ CandidatesLoad
        /\ review.source = disk.candidates.gen
        /\ PinnedReview /\ PinnedTrajectories
        /\ Repaired(review.rows) <=> review.repairs # 0
        /\ Repaired(review.rows) => RepairSourcesPinned(review)
        /\ \A r \in chosen : AcceptedRepair(r)
        /\ {<<row.candidate, row.source>> : row \in review.rows}
              = Selections(chosen)
        /\ \A r1, r2 \in review.rows : r1.candidate = r2.candidate => r1 = r2
        /\ \A row \in review.rows : RowValid(row)

-----------------------------------------------------------------------------
(* Examples, materialization, and the data a LoRA run selects              *)

\* Faulty: the example takes in one turn more than was judged.
BuildExample_OneTooFar(row) ==
    [row |-> row, messages |-> 1..(row.judgment.boundary + 1)]

BuildExample(row) ==
    [row |-> row,
     messages |-> {m \in SourceTurns(row.source) : m <= row.judgment.boundary}]

BuildExamples ==
    {BuildExample(row) : row \in {r \in disk.sftReview.rows :
                                     r.judgment.decision = "accepted"}}

\* Faulty: the review the export pins is not compared.
SFTExportLoads_Unpinned ==
    /\ Written("sftExport")
    /\ SFTReviewValid
    /\ disk.sftExport.reviewRows = disk.sftReview.rows
    /\ disk.sftExport.examples = BuildExamples

SFTExportLoads ==
    /\ Written("sftExport")
    /\ SFTReviewValid
    /\ disk.sftExport.source = disk.sftReview.gen
    /\ disk.sftExport.reviewRows = disk.sftReview.rows
    /\ disk.sftExport.examples = BuildExamples

\* A transcript over max_sequence_length becomes a failed record.
Fits(x) == Cardinality(x.messages) <= MaxMessages

SnapshotLoads ==
    /\ Written("materialized")
    /\ SFTExportLoads
    /\ disk.materialized.source = disk.sftExport.gen
    /\ disk.materialized.examples = disk.sftExport.examples

TaskOf(x) == x.row.candidate.trajectory
Efficient(S) == {x \in S : x.row.judgment.efficiency = "accepted"}

\* _load_authorized_sources
SourcesLoad == SnapshotLoads /\ disk.materialized.authorized

\* Faulty: the treatment is selected from what was loaded before.
TreatmentReady_AsLoaded(records) ==
    /\ \A x \in records : x.row.judgment.efficiency # "none"
    /\ Efficient(records) # {}
    /\ {TaskOf(x) : x \in Efficient(records)} = {TaskOf(x) : x \in records}

\* _select_treatment_records: the records are those loaded before, the
\* examples and the review are read again.
TreatmentReady(records) ==
    /\ SFTExportLoads
    /\ records \subseteq disk.sftExport.examples
    /\ \A x \in records : x.row.judgment.efficiency # "none"
    /\ Efficient(records) # {}
    /\ {TaskOf(x) : x \in Efficient(records)} = {TaskOf(x) : x \in records}

-----------------------------------------------------------------------------
(* Steps.  An exporting command writes its directory anew, with a fresh    *)
(* manifest; over an existing one (--overwrite) it first removes it, and   *)
(* when it dies in between the directory is left without a manifest.       *)

Fresh(a) == written[a] + 1

Rewrites(count) == {r \in Artifacts \X (2..MaxWrites) : r[2] <= count[r[1]]}

Put(a, file) ==
    /\ written[a] < MaxWrites
    /\ written' = [written EXCEPT ![a] = @ + 1]
    /\ Cardinality(Rewrites(written')) <= MaxRewrites
    /\ \/ disk' = [disk EXCEPT ![a] = file]
       \/ Written(a) /\ disk' = [disk EXCEPT ![a] = Nothing]
    /\ UNCHANGED <<edits, trainer>>

ExportTrajectories(records) ==
    Put("trajExport", [gen |-> Fresh("trajExport"), records |-> records])

InitTrajReview ==
    /\ Written("trajExport")
    /\ Put("trajReview",
           [gen |-> Fresh("trajReview"), source |-> disk.trajExport.gen,
            rows |-> [t \in Trajectories |->
                         InitialReview(disk.trajExport.records[t])]])

ExportCandidates ==
    /\ ReviewedTrajectories
    /\ Put("candidates",
           [gen |-> Fresh("candidates"), source |-> disk.trajExport.gen,
            review |-> disk.trajReview.gen, reviewRows |-> disk.trajReview.rows,
            records |-> BuildCandidates])

\* A repaired transcript that cannot be written becomes a repair_error.
ExportRepairs(failed) ==
    LET need == {c \in RecordsOf("candidates") : NeedsRepair(c)}
    IN  /\ CandidatesLoad /\ PinnedTrajectories
        /\ failed \subseteq {c \in need : Outcome(c) = "completed"}
        /\ Put("repairs",
               [gen |-> Fresh("repairs"), source |-> disk.candidates.gen,
                records |-> {[candidate |-> c,
                              status |-> IF c \in failed THEN "repair_error"
                                                         ELSE Outcome(c)]
                                : c \in need}])

InitRepairReview ==
    /\ RepairsLoad
    /\ Put("repairReview",
           [gen |-> Fresh("repairReview"), source |-> disk.repairs.gen,
            rows |-> {[repair |-> r, decision |-> "not_reviewed"]
                         : r \in disk.repairs.records}])

Unjudged == [decision |-> "not_reviewed", boundary |-> 0, efficiency |-> "none"]

\* The operator names the repairs the review starts from.
InitSFTReview(repairs) ==
    /\ CandidatesLoad /\ PinnedReview /\ PinnedTrajectories
    /\ repairs # {} => RepairReviewValid /\ repairs \subseteq disk.repairs.records
    /\ \A r \in repairs : AcceptedRepair(r)
    /\ Put("sftReview",
           [gen |-> Fresh("sftReview"), source |-> disk.candidates.gen,
            repairs |-> IF repairs = {} THEN 0 ELSE disk.repairs.gen,
            repairReview |-> IF repairs = {} THEN 0 ELSE disk.repairReview.gen,
            repairRows |-> IF repairs = {} THEN {} ELSE disk.repairReview.rows,
            rows |-> {[candidate |-> s[1], source |-> s[2],
                       judgment |-> Unjudged] : s \in Selections(repairs)}])

ExportSFT ==
    /\ SFTReviewValid
    /\ Put("sftExport",
           [gen |-> Fresh("sftExport"), source |-> disk.sftReview.gen,
            reviewRows |-> disk.sftReview.rows, examples |-> BuildExamples])

Materialize(authorized) ==
    /\ SFTExportLoads
    /\ Put("materialized",
           [gen |-> Fresh("materialized"), source |-> disk.sftExport.gen,
            examples |-> disk.sftExport.examples,
            completed |-> {x \in disk.sftExport.examples : Fits(x)},
            authorized |-> authorized])

-----------------------------------------------------------------------------
(* Reviewers edit the JSONL of the three reviews, any rows at any time.    *)

Edit(a, file) ==
    /\ edits < MaxEdits
    /\ edits' = edits + 1
    /\ disk' = [disk EXCEPT ![a] = file]
    /\ UNCHANGED <<written, trainer>>

EditTrajReview(rows) ==
    /\ Written("trajReview")
    /\ rows # disk.trajReview.rows
    /\ Edit("trajReview", [disk.trajReview EXCEPT !.rows = rows])

EditRepairReview(repair, decision) ==
    /\ Written("repairReview")
    /\ \E row \in disk.repairReview.rows :
          /\ row.repair = repair /\ row.decision # decision
          /\ Edit("repairReview",
                  [disk.repairReview EXCEPT !.rows =
                      (@ \ {row}) \cup {[repair |-> repair,
                                         decision |-> decision]}])

EditSFTReview(judge) ==
    /\ Written("sftReview")
    /\ Edit("sftReview",
            [disk.sftReview EXCEPT !.rows =
                {[row EXCEPT !.judgment = judge[row.candidate.trajectory]]
                    : row \in @}])

-----------------------------------------------------------------------------
(* A LoRA run reads the chain in two steps.                                *)

LoadSources ==
    /\ trainer = Nothing
    /\ SourcesLoad
    /\ trainer' = [source |-> disk.materialized.gen,
                   completed |-> disk.materialized.completed,
                   treatment |-> "none", examples |-> {}]
    /\ UNCHANGED <<disk, written, edits>>

SelectTreatment(treatment) ==
    /\ trainer # Nothing /\ trainer.treatment = "none"
    /\ TreatmentReady(trainer.completed)
    /\ trainer' = [trainer EXCEPT
                     !.treatment = treatment,
                     !.examples = IF treatment = "raw" THEN trainer.completed
                                  ELSE Efficient(trainer.completed)]
    /\ UNCHANGED <<disk, written, edits>>

RefuseTreatment ==
    /\ trainer # Nothing /\ trainer.treatment = "none"
    /\ ~TreatmentReady(trainer.completed)
    /\ trainer' = Nothing
    /\ UNCHANGED <<disk, written, edits>>

-----------------------------------------------------------------------------
Init ==
    /\ disk = [a \in Artifacts |-> Nothing]
    /\ written = [a \in Artifacts |-> 0]
    /\ edits = 0
    /\ trainer = Nothing

Export ==
    \/ \E records \in Profiles : ExportTrajectories(records)
    \/ InitTrajReview
    \/ ExportCandidates
    \/ \E failed \in SUBSET RecordsOf("candidates") : ExportRepairs(failed)
    \/ InitRepairReview
    \/ \E repairs \in SUBSET RecordsOf("repairs") : InitSFTReview(repairs)
    \/ ExportSFT
    \/ \E authorized \in BOOLEAN : Materialize(authorized)

Review ==
    \/ \E rows \in [Trajectories -> ReviewChoices] : EditTrajReview(rows)
    \/ \E r \in RecordsOf("repairs"), d \in Decisions : EditRepairReview(r, d)
    \/ \E judge \in [Trajectories -> PrefixChoices] : EditSFTReview(judge)

ReadForTraining ==
    \/ LoadSources
    \/ \E treatment \in {"raw", "filtered"} : SelectTreatment(treatment)
    \/ RefuseTreatment

Next == Export \/ Review \/ ReadForTraining

Spec == Init /\ [][Next]_curationVars

-----------------------------------------------------------------------------
(* Properties *)

\* Every artifact and the trainer's reading are what the commands write.
TypeOK ==
    /\ DOMAIN disk = Artifacts
    /\ disk["trajExport"] \in TrajExportFile \cup {Nothing}
    /\ disk["trajReview"] \in TrajReviewFile \cup {Nothing}
    /\ disk["candidates"] \in CandidateFile \cup {Nothing}
    /\ disk["repairs"] \in RepairFile \cup {Nothing}
    /\ disk["repairReview"] \in RepairReviewFile \cup {Nothing}
    /\ disk["sftReview"] \in SFTReviewFile \cup {Nothing}
    /\ disk["sftExport"] \in SFTExportFile \cup {Nothing}
    /\ disk["materialized"] \in MaterializedFile \cup {Nothing}
    /\ written \in [Artifacts -> 0..MaxWrites]
    /\ edits \in 0..MaxEdits
    /\ trainer \in Trainer \cup {Nothing}

\* What the reviewers approve at this moment, read from the review files
\* alone: the trajectory, its repair when it has a redundant turn, and the
\* prefix.
Approved(x) ==
    LET t == TaskOf(x)
        fact == disk.trajExport.records[t]
        seen == disk.trajReview.rows[t]
    IN  /\ Written("trajExport") /\ Written("trajReview") /\ Written("sftReview")
        /\ fact.trainable /\ fact.finding # "confirmed"
        /\ seen.decision = "accepted" /\ seen.hack # "confirmed"
        /\ fact.finding = "ambiguous" => seen.hack = "cleared"
        /\ \E row \in disk.sftReview.rows :
              /\ row.candidate.trajectory = t
              /\ row.judgment.decision = "accepted"
              /\ row.judgment.efficiency # "none"
              /\ \A m \in x.messages : m <= row.judgment.boundary
        /\ fact.redundancy # "clean" =>
              /\ 2 \notin x.messages /\ Written("repairReview")
              /\ \E row \in disk.repairReview.rows :
                    /\ row.repair.candidate.trajectory = t
                    /\ row.repair.status = "completed"
                    /\ row.decision = "accepted"

\* A LoRA run selects only what every reviewer approves at the moment it
\* selects, whatever was approved when the artifacts in between were written
\* (docs: training/README.md, core invariants 4 and 5).
TrainsOnlyOnApproval ==
    [][\A treatment \in {"raw", "filtered"} :
          SelectTreatment(treatment) => \A x \in trainer'.examples : Approved(x)
      ]_curationVars

\* Writing an artifact anew never makes one derived from the old one load
\* again: only rewriting the derived artifact or editing a review does.
OverwriteRevivesNothing ==
    [][edits' = edits =>
          /\ written'["sftExport"] = written["sftExport"] /\ ~SFTExportLoads
                => ~SFTExportLoads'
          /\ written'["materialized"] = written["materialized"] /\ ~SnapshotLoads
                /\ written'["sftExport"] = written["sftExport"]
                => ~SnapshotLoads'
      ]_curationVars
=============================================================================
