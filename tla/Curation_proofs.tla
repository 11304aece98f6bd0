--------------------------- MODULE Curation_proofs ---------------------------
(***************************************************************************)
(* What the positive-SFT chain promises, for any number of trajectories,   *)
(* writes and edits.                                                       *)
(***************************************************************************)
EXTENDS Curation, TLAPS

-----------------------------------------------------------------------------
(* What the commands write has its type                                    *)

TrajExportType   == disk["trajExport"] \in TrajExportFile \cup {Nothing}
TrajReviewType   == disk["trajReview"] \in TrajReviewFile \cup {Nothing}
CandidatesType   == disk["candidates"] \in CandidateFile \cup {Nothing}
RepairsType      == disk["repairs"] \in RepairFile \cup {Nothing}
RepairReviewType == disk["repairReview"] \in RepairReviewFile \cup {Nothing}
SFTReviewType    == disk["sftReview"] \in SFTReviewFile \cup {Nothing}
SFTExportType    == disk["sftExport"] \in SFTExportFile \cup {Nothing}
MaterializedType == disk["materialized"] \in MaterializedFile \cup {Nothing}

\* The directory an artifact of a kind may be.
FileOf(a) ==
    CASE a = "trajExport"   -> TrajExportFile
      [] a = "trajReview"   -> TrajReviewFile
      [] a = "candidates"   -> CandidateFile
      [] a = "repairs"      -> RepairFile
      [] a = "repairReview" -> RepairReviewFile
      [] a = "sftReview"    -> SFTReviewFile
      [] a = "sftExport"    -> SFTExportFile
      [] a = "materialized" -> MaterializedFile

LEMMA ArtifactTypes ==
    ASSUME TypeOK
    PROVE  \A a \in Artifacts : disk[a] \in FileOf(a) \cup {Nothing}
BY DEF TypeOK, Artifacts, FileOf

LEMMA FileTypes ==
    /\ FileOf("trajExport") = TrajExportFile /\ FileOf("trajReview") = TrajReviewFile
    /\ FileOf("candidates") = CandidateFile /\ FileOf("repairs") = RepairFile
    /\ FileOf("repairReview") = RepairReviewFile /\ FileOf("sftReview") = SFTReviewFile
    /\ FileOf("sftExport") = SFTExportFile /\ FileOf("materialized") = MaterializedFile
BY DEF FileOf

LEMMA DiskType ==
    ASSUME TypeOK, NEW a \in Artifacts, NEW file \in FileOf(a) \cup {Nothing},
           disk' = [disk EXCEPT ![a] = file],
           written' \in [Artifacts -> 0..MaxWrites], edits' \in 0..MaxEdits,
           trainer' \in Trainer \cup {Nothing}
    PROVE  TypeOK'
<1>1. DOMAIN disk' = Artifacts
  BY DEF TypeOK
<1>2. \A b \in Artifacts : disk'[b] = IF b = a THEN file ELSE disk[b]
  BY DEF TypeOK
<1>3. \A b \in Artifacts : disk'[b] \in FileOf(b) \cup {Nothing}
  BY <1>2, ArtifactTypes
<1> QED  BY <1>1, <1>3, FileTypes DEF TypeOK, Artifacts

LEMMA FreshType ==
    ASSUME TypeOK, NEW a \in Artifacts, written[a] < MaxWrites
    PROVE  Fresh(a) \in 1..MaxWrites
BY CurationAssumption DEF TypeOK, Fresh

LEMMA PutType ==
    ASSUME TypeOK, NEW a \in Artifacts, NEW file, Put(a, file),
           Fresh(a) \in 1..MaxWrites => file \in FileOf(a)
    PROVE  TypeOK'
<1>1. written[a] < MaxWrites /\ Fresh(a) \in 1..MaxWrites
  BY FreshType DEF Put
<1>2. written' \in [Artifacts -> 0..MaxWrites]
  <2>1. written' = [written EXCEPT ![a] = Fresh(a)]
    BY DEF Put, Fresh
  <2> QED  BY <1>1, <2>1 DEF TypeOK
<1>3. disk' = [disk EXCEPT ![a] = file] \/ disk' = [disk EXCEPT ![a] = Nothing]
  BY DEF Put
<1>4. edits' \in 0..MaxEdits /\ trainer' \in Trainer \cup {Nothing}
  BY DEF Put, TypeOK
<1> QED  BY <1>1, <1>2, <1>3, <1>4, DiskType

LEMMA EditType ==
    ASSUME TypeOK, NEW a \in Artifacts, NEW file \in FileOf(a), Edit(a, file)
    PROVE  TypeOK'
<1>1. edits' \in 0..MaxEdits
  BY CurationAssumption DEF Edit, TypeOK
<1>2. written' \in [Artifacts -> 0..MaxWrites] /\ trainer' \in Trainer \cup {Nothing}
  BY DEF Edit, TypeOK
<1> QED  BY <1>1, <1>2, DiskType DEF Edit

\* The artifacts that are there, as the commands name them.
LEMMA Artifact ==
    ASSUME TypeOK
    PROVE  /\ Written("trajExport") => disk.trajExport \in TrajExportFile
           /\ Written("trajReview") => disk.trajReview \in TrajReviewFile
           /\ Written("candidates") => disk.candidates \in CandidateFile
           /\ Written("repairs") => disk.repairs \in RepairFile
           /\ Written("repairReview") => disk.repairReview \in RepairReviewFile
           /\ Written("sftReview") => disk.sftReview \in SFTReviewFile
           /\ Written("sftExport") => disk.sftExport \in SFTExportFile
           /\ Written("materialized") => disk.materialized \in MaterializedFile
<1>1. \A a \in Artifacts : Written(a) => disk[a] \in FileOf(a)
  BY ArtifactTypes DEF Written
<1> QED  BY <1>1, FileTypes DEF Artifacts

LEMMA CandidateTypes ==
    ASSUME TypeOK, ReviewedTrajectories
    PROVE  BuildCandidates \in SUBSET Candidate
<1>1. /\ disk.trajExport.records \in [Trajectories -> Fact]
      /\ disk.trajReview.rows \in [Trajectories -> ReviewRow]
  BY Artifact DEF ReviewedTrajectories, TrajExportFile, TrajReviewFile
<1>2. ASSUME NEW t \in Trajectories, NEW fact \in Fact, NEW row \in ReviewRow
      PROVE  BuildCandidate(t, fact, row) \in Candidate
  BY DEF BuildCandidate, PositiveEligible, Candidate, Fact, ReviewRow
<1> QED  BY <1>1, <1>2 DEF BuildCandidates

LEMMA ExampleTypes ==
    ASSUME TypeOK, Written("sftReview")
    PROVE  BuildExamples \in SUBSET Example
<1>1. disk.sftReview.rows \subseteq SFTRow
  BY Artifact DEF SFTReviewFile
<1>2. ASSUME NEW row \in SFTRow
      PROVE  BuildExample(row) \in Example
  <2>1. {m \in SourceTurns(row.source) : m <= row.judgment.boundary} \in SUBSET Turns
    BY DEF SourceTurns
  <2> QED  BY <2>1 DEF BuildExample, Example
<1> QED  BY <1>1, <1>2 DEF BuildExamples

LEMMA ExportType ==
    ASSUME TypeOK, Export
    PROVE  TypeOK'
<1> USE FileTypes
<1>0. Artifacts = {"trajExport", "trajReview", "candidates", "repairs",
                   "repairReview", "sftReview", "sftExport", "materialized"}
  BY DEF Artifacts
<1>1. CASE \E records \in Profiles : ExportTrajectories(records)
  <2>1. PICK records \in Profiles : ExportTrajectories(records)
    BY <1>1
  <2> DEFINE file == [gen |-> Fresh("trajExport"), records |-> records]
  <2>2. Fresh("trajExport") \in 1..MaxWrites => file \in FileOf("trajExport")
    BY CurationAssumption DEF TrajExportFile
  <2>3. Put("trajExport", file)
    BY <2>1 DEF ExportTrajectories
  <2> HIDE DEF file
  <2> QED  BY <1>0, <2>2, <2>3, PutType
<1>2. CASE InitTrajReview
  <2> DEFINE file == [gen |-> Fresh("trajReview"), source |-> disk.trajExport.gen,
                      rows |-> [t \in Trajectories |->
                                   InitialReview(disk.trajExport.records[t])]]
  <2>1. disk.trajExport \in TrajExportFile
    BY <1>2, Artifact DEF InitTrajReview
  <2>2. Fresh("trajReview") \in 1..MaxWrites => file \in FileOf("trajReview")
    BY <2>1 DEF TrajExportFile, TrajReviewFile, InitialReview, ReviewRow, Decisions
  <2>3. Put("trajReview", file)
    BY <1>2 DEF InitTrajReview
  <2> HIDE DEF file
  <2> QED  BY <1>0, <2>2, <2>3, PutType
<1>3. CASE ExportCandidates
  <2> DEFINE file == [gen |-> Fresh("candidates"), source |-> disk.trajExport.gen,
                      review |-> disk.trajReview.gen, reviewRows |-> disk.trajReview.rows,
                      records |-> BuildCandidates]
  <2>1. disk.trajExport \in TrajExportFile /\ disk.trajReview \in TrajReviewFile
        /\ BuildCandidates \in SUBSET Candidate
    BY <1>3, Artifact, CandidateTypes DEF ExportCandidates, ReviewedTrajectories
  <2>2. Fresh("candidates") \in 1..MaxWrites => file \in FileOf("candidates")
    BY <2>1 DEF TrajExportFile, TrajReviewFile, CandidateFile
  <2>3. Put("candidates", file)
    BY <1>3 DEF ExportCandidates
  <2> HIDE DEF file
  <2> QED  BY <1>0, <2>2, <2>3, PutType
<1>4. CASE \E failed \in SUBSET RecordsOf("candidates") : ExportRepairs(failed)
  <2>1. PICK failed \in SUBSET RecordsOf("candidates") : ExportRepairs(failed)
    BY <1>4
  <2> DEFINE need == {c \in RecordsOf("candidates") : NeedsRepair(c)}
             records == {[candidate |-> c, status |-> IF c \in failed THEN "repair_error"
                                                                      ELSE Outcome(c)]
                            : c \in need}
             file == [gen |-> Fresh("repairs"), source |-> disk.candidates.gen,
                      records |-> records]
  <2>2. disk.candidates \in CandidateFile
    BY <2>1, Artifact DEF ExportRepairs, CandidatesLoad
  <2>3. need \subseteq Candidate
    BY <2>2 DEF RecordsOf, CandidateFile
  <2>4. records \in SUBSET Repair
    BY <2>3 DEF Repair, Outcome
  <2>5. Put("repairs", file)
    BY <2>1 DEF ExportRepairs
  <2> HIDE DEF records
  <2>6. Fresh("repairs") \in 1..MaxWrites => file \in FileOf("repairs")
    BY <2>2, <2>4 DEF CandidateFile, RepairFile
  <2> HIDE DEF file
  <2> QED  BY <1>0, <2>5, <2>6, PutType
<1>5. CASE InitRepairReview
  <2> DEFINE rows == {[repair |-> r, decision |-> "not_reviewed"] : r \in disk.repairs.records}
             file == [gen |-> Fresh("repairReview"), source |-> disk.repairs.gen,
                      rows |-> rows]
  <2>1. disk.repairs \in RepairFile
    BY <1>5, Artifact DEF InitRepairReview, RepairsLoad
  <2>2. rows \in SUBSET RepairRow
    BY <2>1 DEF RepairFile, RepairRow, Decisions
  <2>3. Put("repairReview", file)
    BY <1>5 DEF InitRepairReview
  <2> HIDE DEF rows
  <2>4. Fresh("repairReview") \in 1..MaxWrites => file \in FileOf("repairReview")
    BY <2>1, <2>2 DEF RepairFile, RepairReviewFile
  <2> HIDE DEF file
  <2> QED  BY <1>0, <2>3, <2>4, PutType
<1>6. CASE \E repairs \in SUBSET RecordsOf("repairs") : InitSFTReview(repairs)
  <2>1. PICK repairs \in SUBSET RecordsOf("repairs") : InitSFTReview(repairs)
    BY <1>6
  <2> DEFINE rows == {[candidate |-> s[1], source |-> s[2], judgment |-> Unjudged]
                         : s \in Selections(repairs)}
             file == [gen |-> Fresh("sftReview"), source |-> disk.candidates.gen,
                      repairs |-> IF repairs = {} THEN 0 ELSE disk.repairs.gen,
                      repairReview |-> IF repairs = {} THEN 0 ELSE disk.repairReview.gen,
                      repairRows |-> IF repairs = {} THEN {} ELSE disk.repairReview.rows,
                      rows |-> rows]
  <2>2. disk.candidates \in CandidateFile
    BY <2>1, Artifact DEF InitSFTReview, CandidatesLoad
  <2>3. repairs # {} => disk.repairs \in RepairFile /\ disk.repairReview \in RepairReviewFile
    BY <2>1, Artifact DEF InitSFTReview, RepairReviewValid, RepairsLoad
  <2>4. repairs \subseteq Repair
    BY <2>3 DEF RecordsOf, RepairFile, Written
  <2>5. Selections(repairs) \subseteq Candidate \X Sources
    BY <2>2, <2>4 DEF Selections, CandidateFile, Repair, Sources
  <2>6. Unjudged \in Judgment
    BY DEF Unjudged, Judgment, Decisions, Judgments
  <2>7. rows \in SUBSET SFTRow
    BY <2>5, <2>6 DEF SFTRow
  <2>8. Put("sftReview", file)
    BY <2>1 DEF InitSFTReview
  <2> HIDE DEF rows
  <2>9. ASSUME Fresh("sftReview") \in 1..MaxWrites
        PROVE  file \in FileOf("sftReview")
    <3>1. disk.candidates.gen \in 1..MaxWrites
      BY <2>2 DEF CandidateFile
    <3>2. CASE repairs = {}
      <4>1. file = [gen |-> Fresh("sftReview"), source |-> disk.candidates.gen,
                    repairs |-> 0, repairReview |-> 0, repairRows |-> {}, rows |-> rows]
        BY <3>2
      <4>2. 0 \in 0..MaxWrites /\ {} \in SUBSET RepairRow
        BY CurationAssumption
      <4> HIDE DEF file
      <4> QED  BY <2>7, <2>9, <3>1, <4>1, <4>2 DEF SFTReviewFile
    <3>3. CASE repairs # {}
      <4>1. /\ disk.repairs.gen \in 0..MaxWrites /\ disk.repairReview.gen \in 0..MaxWrites
            /\ disk.repairReview.rows \in SUBSET RepairRow
        BY <2>3, <3>3 DEF RepairFile, RepairReviewFile
      <4> QED  BY <2>7, <2>9, <3>1, <3>3, <4>1 DEF SFTReviewFile
    <3> QED  BY <3>2, <3>3
  <2> HIDE DEF file
  <2> QED  BY <1>0, <2>8, <2>9, PutType
<1>7. CASE ExportSFT
  <2> DEFINE file == [gen |-> Fresh("sftExport"), source |-> disk.sftReview.gen,
                      reviewRows |-> disk.sftReview.rows, examples |-> BuildExamples]
  <2>1. disk.sftReview \in SFTReviewFile /\ BuildExamples \in SUBSET Example
    BY <1>7, Artifact, ExampleTypes DEF ExportSFT, SFTReviewValid
  <2>2. Fresh("sftExport") \in 1..MaxWrites => file \in FileOf("sftExport")
    BY <2>1 DEF SFTReviewFile, SFTExportFile
  <2>3. Put("sftExport", file)
    BY <1>7 DEF ExportSFT
  <2> HIDE DEF file
  <2> QED  BY <1>0, <2>2, <2>3, PutType
<1>8. CASE \E authorized \in BOOLEAN : Materialize(authorized)
  <2>1. PICK authorized \in BOOLEAN : Materialize(authorized)
    BY <1>8
  <2> DEFINE file == [gen |-> Fresh("materialized"), source |-> disk.sftExport.gen,
                      examples |-> disk.sftExport.examples,
                      completed |-> {x \in disk.sftExport.examples : Fits(x)},
                      authorized |-> authorized]
  <2>2. disk.sftExport \in SFTExportFile
    BY <2>1, Artifact DEF Materialize, SFTExportLoads
  <2>3. Fresh("materialized") \in 1..MaxWrites => file \in FileOf("materialized")
    BY <2>2 DEF SFTExportFile, MaterializedFile
  <2>4. Put("materialized", file)
    BY <2>1 DEF Materialize
  <2> HIDE DEF file
  <2> QED  BY <1>0, <2>3, <2>4, PutType
<1> QED  BY <1>1, <1>2, <1>3, <1>4, <1>5, <1>6, <1>7, <1>8 DEF Export

LEMMA ReviewType ==
    ASSUME TypeOK, Review
    PROVE  TypeOK'
<1> USE FileTypes
<1>0. {"trajReview", "repairReview", "sftReview"} \subseteq Artifacts
  BY DEF Artifacts
<1>1. CASE \E rows \in [Trajectories -> ReviewChoices] : EditTrajReview(rows)
  <2>1. PICK rows \in [Trajectories -> ReviewChoices] : EditTrajReview(rows)
    BY <1>1
  <2> DEFINE file == [disk.trajReview EXCEPT !.rows = rows]
  <2>2. disk.trajReview \in TrajReviewFile /\ rows \in [Trajectories -> ReviewRow]
    BY <2>1, Artifact, CurationAssumption DEF EditTrajReview
  <2>3. file \in FileOf("trajReview") /\ Edit("trajReview", file)
    BY <2>1, <2>2 DEF TrajReviewFile, EditTrajReview
  <2> HIDE DEF file
  <2> QED  BY <1>0, <2>3, EditType
<1>2. CASE \E r \in RecordsOf("repairs"), d \in Decisions : EditRepairReview(r, d)
  <2>1. PICK r \in RecordsOf("repairs"), d \in Decisions : EditRepairReview(r, d)
    BY <1>2
  <2>2. PICK row \in disk.repairReview.rows :
            Edit("repairReview", [disk.repairReview EXCEPT !.rows =
                     (@ \ {row}) \cup {[repair |-> r, decision |-> d]}])
    BY <2>1 DEF EditRepairReview
  <2> DEFINE rows == (disk.repairReview.rows \ {row}) \cup {[repair |-> r, decision |-> d]}
             file == [disk.repairReview EXCEPT !.rows = rows]
  <2>3. disk.repairReview \in RepairReviewFile
    BY <2>1, Artifact DEF EditRepairReview
  <2>4. r \in Repair
    BY Artifact DEF RecordsOf, RepairFile
  <2>5. rows \in SUBSET RepairRow
    BY <2>3, <2>4 DEF RepairReviewFile, RepairRow
  <2>6. Edit("repairReview", file)
    BY <2>2
  <2> HIDE DEF rows
  <2>7. file \in FileOf("repairReview")
    BY <2>3, <2>5 DEF RepairReviewFile
  <2> HIDE DEF file
  <2> QED  BY <1>0, <2>6, <2>7, EditType
<1>3. CASE \E judge \in [Trajectories -> PrefixChoices] : EditSFTReview(judge)
  <2>1. PICK judge \in [Trajectories -> PrefixChoices] : EditSFTReview(judge)
    BY <1>3
  <2> DEFINE rows == {[row EXCEPT !.judgment = judge[row.candidate.trajectory]]
                         : row \in disk.sftReview.rows}
             file == [disk.sftReview EXCEPT !.rows = rows]
  <2>2. disk.sftReview \in SFTReviewFile /\ judge \in [Trajectories -> Judgment]
    BY <2>1, Artifact, CurationAssumption DEF EditSFTReview
  <2>3. \A row \in disk.sftReview.rows :
            [row EXCEPT !.judgment = judge[row.candidate.trajectory]] \in SFTRow
    BY <2>2 DEF SFTReviewFile, SFTRow, Candidate
  <2>4. rows \in SUBSET SFTRow
    BY <2>3
  <2>5. Edit("sftReview", file)
    BY <2>1 DEF EditSFTReview
  <2> HIDE DEF rows
  <2>6. file \in FileOf("sftReview")
    BY <2>2, <2>4 DEF SFTReviewFile
  <2> HIDE DEF file
  <2> QED  BY <1>0, <2>5, <2>6, EditType
<1> QED  BY <1>1, <1>2, <1>3 DEF Review

LEMMA TrainerType ==
    ASSUME TypeOK, ReadForTraining
    PROVE  TypeOK'
<1>1. UNCHANGED <<disk, written, edits>> => (trainer' \in Trainer \cup {Nothing} => TypeOK')
  BY DEF TypeOK
<1>2. CASE LoadSources
  <2>1. disk.materialized \in MaterializedFile
    BY <1>2, Artifact DEF LoadSources, SourcesLoad, SnapshotLoads
  <2>2. trainer' \in Trainer
    BY <1>2, <2>1 DEF LoadSources, MaterializedFile, Trainer
  <2> QED  BY <1>1, <1>2, <2>2 DEF LoadSources
<1>3. CASE \E treatment \in {"raw", "filtered"} : SelectTreatment(treatment)
  <2>1. PICK treatment \in {"raw", "filtered"} : SelectTreatment(treatment)
    BY <1>3
  <2>2. trainer \in Trainer /\ Efficient(trainer.completed) \subseteq trainer.completed
    BY <2>1 DEF SelectTreatment, TypeOK, Efficient
  <2>3. trainer' \in Trainer
    BY <2>1, <2>2 DEF SelectTreatment, Trainer
  <2> QED  BY <1>1, <2>1, <2>3 DEF SelectTreatment
<1>4. CASE RefuseTreatment
  BY <1>1, <1>4 DEF RefuseTreatment
<1> QED  BY <1>2, <1>3, <1>4 DEF ReadForTraining

LEMMA InitType ==
    ASSUME Init
    PROVE  TypeOK
BY CurationAssumption DEF Init, TypeOK, Artifacts

LEMMA NextType ==
    ASSUME TypeOK, [Next]_curationVars
    PROVE  TypeOK'
<1>1. CASE UNCHANGED curationVars
  BY <1>1 DEF curationVars, TypeOK
<1> QED  BY <1>1, ExportType, ReviewType, TrainerType DEF Next

\* Every artifact, and what a LoRA run has read, is what the commands write.
THEOREM TypeCorrect == Spec => []TypeOK
BY InitType, NextType, PTL DEF Spec

-----------------------------------------------------------------------------
(* Training and approval: what is selected is checked against all reviews  *)
(* as they are, so no invariant but the types is needed.                   *)

\* A row of a valid prefix review is of a candidate that is positive, and takes
\* the repaired source exactly when the candidate needs a repair.
LEMMA ReviewedRow ==
    ASSUME TypeOK, SFTReviewValid, NEW row \in disk.sftReview.rows
    PROVE  /\ row.candidate \in BuildCandidates /\ row.candidate.positive
           /\ \/ row.source = "original" /\ row.candidate.redundancy = "clean"
              \/ /\ row.source = "repaired" /\ Written("repairReview")
                 /\ \E repair \in disk.repairs.records :
                       /\ repair.candidate = row.candidate /\ repair.status = "completed"
                       /\ [repair |-> repair, decision |-> "accepted"]
                              \in disk.repairReview.rows
<1> DEFINE review == disk.sftReview
           chosen == IF Repaired(review.rows) THEN SelectedRepairs(review.rows) ELSE {}
<1>1. /\ CandidatesLoad /\ disk.candidates.records = BuildCandidates
      /\ disk.candidates.records \subseteq Candidate
  BY Artifact DEF SFTReviewValid, CandidatesLoad, CandidateFile
<1>2. /\ Repaired(review.rows) => RepairReviewValid
      /\ \A r \in chosen : AcceptedRepair(r)
      /\ {<<r.candidate, r.source>> : r \in review.rows} = Selections(chosen)
  BY DEF SFTReviewValid, RepairSourcesPinned
<1>3. <<row.candidate, row.source>> \in Selections(chosen)
  BY <1>2
<1>4. CASE <<row.candidate, row.source>> \in
               {<<c, "original">> : c \in {d \in disk.candidates.records :
                                             Reviewable(d) /\ ~NeedsRepair(d)}}
  <2>1. PICK c \in disk.candidates.records :
            /\ Reviewable(c) /\ ~NeedsRepair(c)
            /\ <<row.candidate, row.source>> = <<c, "original">>
    BY <1>4
  <2>2. row.candidate = c /\ row.source = "original"
    BY <2>1
  <2>3. c.redundancy = "clean"
    BY <1>1, <2>1 DEF Candidate, Reviewable, NeedsRepair
  <2> QED  BY <1>1, <2>1, <2>2, <2>3 DEF Reviewable
<1>5. CASE <<row.candidate, row.source>> \in {<<r.candidate, "repaired">> : r \in chosen}
  <2>1. PICK r \in chosen : <<row.candidate, row.source>> = <<r.candidate, "repaired">>
    BY <1>5
  <2>2. row.candidate = r.candidate /\ row.source = "repaired"
    BY <2>1
  <2>3. RepairReviewValid /\ AcceptedRepair(r) /\ r \in disk.repairs.records
    BY <1>2, <2>1 DEF SelectedRepairs
  <2>4. r.candidate \in disk.candidates.records
    BY <2>3 DEF RepairReviewValid, RepairsLoad
  <2> QED  BY <1>1, <2>2, <2>3, <2>4 DEF AcceptedRepair, RepairReviewValid
<1> QED  BY <1>3, <1>4, <1>5 DEF Selections

LEMMA SelectedIsApproved ==
    ASSUME TypeOK, NEW treatment \in {"raw", "filtered"}, SelectTreatment(treatment),
           NEW x \in trainer'.examples
    PROVE  Approved(x)
<1>1. x \in trainer.completed /\ TreatmentReady(trainer.completed)
  <2>1. trainer \in Trainer
    BY DEF SelectTreatment, TypeOK
  <2>2. trainer'.examples = IF treatment = "raw" THEN trainer.completed
                            ELSE Efficient(trainer.completed)
    BY <2>1 DEF SelectTreatment, Trainer
  <2> QED  BY <2>2 DEF SelectTreatment, Efficient
<1>2. /\ x \in BuildExamples /\ x.row.judgment.efficiency # "none" /\ SFTReviewValid
  BY <1>1 DEF TreatmentReady, SFTExportLoads
<1>3. PICK row \in disk.sftReview.rows :
          row.judgment.decision = "accepted" /\ x = BuildExample(row)
  BY <1>2 DEF BuildExamples
<1>4. /\ x.row = row
      /\ x.messages = {m \in SourceTurns(row.source) : m <= row.judgment.boundary}
  BY <1>3 DEF BuildExample
<1>5. /\ Written("sftReview") /\ ReviewedTrajectories
  BY <1>2 DEF SFTReviewValid, CandidatesLoad
<1>6. PICK t \in Trajectories : row.candidate =
          BuildCandidate(t, disk.trajExport.records[t], disk.trajReview.rows[t])
  BY <1>2, ReviewedRow DEF BuildCandidates
<1>7. /\ TaskOf(x) = t /\ row.candidate.trajectory = t
      /\ row.candidate.redundancy = disk.trajExport.records[t].redundancy
      /\ PositiveEligible(disk.trajExport.records[t], disk.trajReview.rows[t])
  BY <1>2, <1>4, <1>6, ReviewedRow DEF TaskOf, BuildCandidate
<1>8. disk.trajExport.records[t].redundancy # "clean" =>
          /\ 2 \notin x.messages /\ Written("repairReview")
          /\ \E r \in disk.repairReview.rows :
                /\ r.repair.candidate.trajectory = t
                /\ r.repair.status = "completed" /\ r.decision = "accepted"
  <2> SUFFICES ASSUME disk.trajExport.records[t].redundancy # "clean"
               PROVE  /\ 2 \notin x.messages /\ Written("repairReview")
                      /\ \E r \in disk.repairReview.rows :
                            /\ r.repair.candidate.trajectory = t
                            /\ r.repair.status = "completed" /\ r.decision = "accepted"
    OBVIOUS
  <2>1. /\ row.source = "repaired" /\ Written("repairReview")
        /\ \E repair \in disk.repairs.records :
              /\ repair.candidate = row.candidate /\ repair.status = "completed"
              /\ [repair |-> repair, decision |-> "accepted"] \in disk.repairReview.rows
    BY <1>2, <1>7, ReviewedRow
  <2>2. 2 \notin x.messages
    BY <1>4, <2>1 DEF SourceTurns
  <2>3. PICK repair : /\ repair.candidate = row.candidate /\ repair.status = "completed"
                      /\ [repair |-> repair, decision |-> "accepted"]
                             \in disk.repairReview.rows
    BY <2>1
  <2> DEFINE r == [repair |-> repair, decision |-> "accepted"]
  <2>4. r.repair.candidate.trajectory = t /\ r.repair.status = "completed"
        /\ r.decision = "accepted"
    BY <1>7, <2>3
  <2> QED  BY <2>1, <2>2, <2>3, <2>4
<1>9. \E r \in disk.sftReview.rows :
          /\ r.candidate.trajectory = t /\ r.judgment.decision = "accepted"
          /\ r.judgment.efficiency # "none"
          /\ \A m \in x.messages : m <= r.judgment.boundary
  BY <1>2, <1>3, <1>4, <1>7
<1> QED  BY <1>5, <1>7, <1>8, <1>9 DEF Approved, ReviewedTrajectories, PositiveEligible

\* A LoRA run trains on nothing that is not approved when it selects.
THEOREM ApprovedTraining == Spec => TrainsOnlyOnApproval
<1>1. TypeOK /\ [Next]_curationVars =>
          [\A treatment \in {"raw", "filtered"} :
              SelectTreatment(treatment) => \A x \in trainer'.examples : Approved(x)
          ]_curationVars
  BY SelectedIsApproved
<1> QED  BY <1>1, TypeCorrect, PTL DEF Spec, TrainsOnlyOnApproval

-----------------------------------------------------------------------------
(* Overwriting: an artifact pins only what has been written                *)

PinKnown(a, file, count) ==
    /\ file.gen <= count[a]
    /\ a = "trajReview" => file.source <= count["trajExport"]
    /\ a = "candidates" =>
          file.source <= count["trajExport"] /\ file.review <= count["trajReview"]
    /\ a = "repairs" => file.source <= count["candidates"]
    /\ a = "repairReview" => file.source <= count["repairs"]
    /\ a = "sftReview" =>
          /\ file.source <= count["candidates"]
          /\ file.repairs <= count["repairs"]
          /\ file.repairReview <= count["repairReview"]
    /\ a = "sftExport" => file.source <= count["sftReview"]
    /\ a = "materialized" => file.source <= count["sftExport"]

PinsKnown == \A a \in Artifacts : Written(a) => PinKnown(a, disk[a], written)

\* The pins of an artifact and the counts are numbers.
LEMMA PinTypes ==
    ASSUME TypeOK
    PROVE  /\ written \in [Artifacts -> Nat]
           /\ \A a \in Artifacts : Written(a) =>
                /\ disk[a].gen \in Nat
                /\ a # "trajExport" => disk[a].source \in Nat
                /\ a = "candidates" => disk[a].review \in Nat
                /\ a = "sftReview" => disk[a].repairs \in Nat /\ disk[a].repairReview \in Nat
<1>1. 0..MaxWrites \subseteq Nat /\ 1..MaxWrites \subseteq Nat
  OBVIOUS
<1> USE <1>1, Artifact
<1>2. Written("trajExport") => disk["trajExport"].gen \in Nat
  BY DEF TrajExportFile
<1>3. Written("trajReview") => disk["trajReview"].gen \in Nat /\ disk["trajReview"].source \in Nat
  BY DEF TrajReviewFile
<1>4. Written("candidates") => /\ disk["candidates"].gen \in Nat
                               /\ disk["candidates"].source \in Nat
                               /\ disk["candidates"].review \in Nat
  BY DEF CandidateFile
<1>5. Written("repairs") => disk["repairs"].gen \in Nat /\ disk["repairs"].source \in Nat
  BY DEF RepairFile
<1>6. Written("repairReview") => /\ disk["repairReview"].gen \in Nat
                                 /\ disk["repairReview"].source \in Nat
  BY DEF RepairReviewFile
<1>7. Written("sftReview") => /\ disk["sftReview"].gen \in Nat
                              /\ disk["sftReview"].source \in Nat
                              /\ disk["sftReview"].repairs \in Nat
                              /\ disk["sftReview"].repairReview \in Nat
  BY DEF SFTReviewFile
<1>8. Written("sftExport") => /\ disk["sftExport"].gen \in Nat
                              /\ disk["sftExport"].source \in Nat
  BY DEF SFTExportFile
<1>9. Written("materialized") => /\ disk["materialized"].gen \in Nat
                                 /\ disk["materialized"].source \in Nat
  BY DEF MaterializedFile
<1>10. written \in [Artifacts -> Nat]
  BY DEF TypeOK
<1> QED  BY <1>2, <1>3, <1>4, <1>5, <1>6, <1>7, <1>8, <1>9, <1>10 DEF Artifacts

\* Every export is one Put of a fresh file whose pins are known.
LEMMA ExportPins ==
    ASSUME TypeOK, PinsKnown, Export
    PROVE  \E a, file :
              /\ a \in Artifacts /\ Put(a, file) /\ file.gen = Fresh(a)
              /\ \A b \in Artifacts \ {a} : written'[b] = written[b]
              /\ written'[a] = Fresh(a)
              /\ PinKnown(a, file, written')
<1>0. Artifacts = {"trajExport", "trajReview", "candidates", "repairs",
                   "repairReview", "sftReview", "sftExport", "materialized"}
  BY DEF Artifacts
<1>1. ASSUME NEW a \in Artifacts, NEW file, Put(a, file)
      PROVE  /\ written'[a] = Fresh(a) /\ Fresh(a) \in Nat
             /\ \A b \in Artifacts \ {a} : written'[b] = written[b]
  BY <1>1, PinTypes DEF Put, Fresh
<1>2. \A a \in Artifacts : Written(a) => PinKnown(a, disk[a], written)
  BY DEF PinsKnown
<1>3. CASE \E records \in Profiles : ExportTrajectories(records)
  <2>1. PICK records \in Profiles : ExportTrajectories(records)
    BY <1>3
  <2> DEFINE file == [gen |-> Fresh("trajExport"), records |-> records]
  <2>2. Put("trajExport", file)
    BY <2>1 DEF ExportTrajectories
  <2>3. PinKnown("trajExport", file, written')
    BY <1>0, <1>1, <2>2 DEF PinKnown
  <2> QED  BY <1>0, <1>1, <2>2, <2>3
<1>4. CASE InitTrajReview
  <2> DEFINE file == [gen |-> Fresh("trajReview"), source |-> disk.trajExport.gen,
                      rows |-> [t \in Trajectories |->
                                   InitialReview(disk.trajExport.records[t])]]
  <2>1. Put("trajReview", file) /\ Written("trajExport")
    BY <1>4 DEF InitTrajReview
  <2>2. file.gen = Fresh("trajReview") /\ file.source = disk["trajExport"].gen
    OBVIOUS
  <2> HIDE DEF file
  <2>3. PinKnown("trajReview", file, written')
    BY <1>0, <1>1, <1>2, <2>1, <2>2, PinTypes DEF PinKnown
  <2> QED  BY <1>0, <1>1, <2>1, <2>2, <2>3
<1>5. CASE ExportCandidates
  <2> DEFINE file == [gen |-> Fresh("candidates"), source |-> disk.trajExport.gen,
                      review |-> disk.trajReview.gen, reviewRows |-> disk.trajReview.rows,
                      records |-> BuildCandidates]
  <2>1. Put("candidates", file) /\ Written("trajExport") /\ Written("trajReview")
    BY <1>5 DEF ExportCandidates, ReviewedTrajectories
  <2>2. /\ file.gen = Fresh("candidates") /\ file.source = disk["trajExport"].gen
        /\ file.review = disk["trajReview"].gen
    OBVIOUS
  <2> HIDE DEF file
  <2>3. PinKnown("candidates", file, written')
    BY <1>0, <1>1, <1>2, <2>1, <2>2, PinTypes DEF PinKnown
  <2> QED  BY <1>0, <1>1, <2>1, <2>2, <2>3
<1>6. CASE \E failed \in SUBSET RecordsOf("candidates") : ExportRepairs(failed)
  <2>1. PICK failed \in SUBSET RecordsOf("candidates") : ExportRepairs(failed)
    BY <1>6
  <2> DEFINE need == {c \in RecordsOf("candidates") : NeedsRepair(c)}
             records == {[candidate |-> c, status |-> IF c \in failed THEN "repair_error"
                                                                      ELSE Outcome(c)]
                            : c \in need}
             file == [gen |-> Fresh("repairs"), source |-> disk.candidates.gen,
                      records |-> records]
  <2>2. Put("repairs", file) /\ Written("candidates")
    BY <2>1 DEF ExportRepairs, CandidatesLoad
  <2>3. file.gen = Fresh("repairs") /\ file.source = disk["candidates"].gen
    OBVIOUS
  <2> HIDE DEF file
  <2>4. PinKnown("repairs", file, written')
    BY <1>0, <1>1, <1>2, <2>2, <2>3, PinTypes DEF PinKnown
  <2> QED  BY <1>0, <1>1, <2>2, <2>3, <2>4
<1>7. CASE InitRepairReview
  <2> DEFINE rows == {[repair |-> r, decision |-> "not_reviewed"] : r \in disk.repairs.records}
             file == [gen |-> Fresh("repairReview"), source |-> disk.repairs.gen,
                      rows |-> rows]
  <2>1. Put("repairReview", file) /\ Written("repairs")
    BY <1>7 DEF InitRepairReview, RepairsLoad
  <2>2. file.gen = Fresh("repairReview") /\ file.source = disk["repairs"].gen
    OBVIOUS
  <2> HIDE DEF file
  <2>3. PinKnown("repairReview", file, written')
    BY <1>0, <1>1, <1>2, <2>1, <2>2, PinTypes DEF PinKnown
  <2> QED  BY <1>0, <1>1, <2>1, <2>2, <2>3
<1>8. CASE \E repairs \in SUBSET RecordsOf("repairs") : InitSFTReview(repairs)
  <2>1. PICK repairs \in SUBSET RecordsOf("repairs") : InitSFTReview(repairs)
    BY <1>8
  <2> DEFINE rows == {[candidate |-> s[1], source |-> s[2], judgment |-> Unjudged]
                         : s \in Selections(repairs)}
             file == [gen |-> Fresh("sftReview"), source |-> disk.candidates.gen,
                      repairs |-> IF repairs = {} THEN 0 ELSE disk.repairs.gen,
                      repairReview |-> IF repairs = {} THEN 0 ELSE disk.repairReview.gen,
                      repairRows |-> IF repairs = {} THEN {} ELSE disk.repairReview.rows,
                      rows |-> rows]
  <2>2. /\ Put("sftReview", file) /\ Written("candidates")
        /\ repairs # {} => Written("repairs") /\ Written("repairReview")
    BY <2>1 DEF InitSFTReview, CandidatesLoad, RepairReviewValid, RepairsLoad
  <2>3. /\ file.gen = Fresh("sftReview") /\ file.source = disk["candidates"].gen
        /\ file.repairs = IF repairs = {} THEN 0 ELSE disk["repairs"].gen
        /\ file.repairReview = IF repairs = {} THEN 0 ELSE disk["repairReview"].gen
    OBVIOUS
  <2> HIDE DEF file
  <2>4. /\ disk["candidates"].gen <= written["candidates"]
        /\ repairs # {} => /\ disk["repairs"].gen <= written["repairs"]
                           /\ disk["repairReview"].gen <= written["repairReview"]
    BY <1>0, <1>2, <2>2 DEF PinKnown
  <2>5. PinKnown("sftReview", file, written')
    BY <1>0, <1>1, <2>2, <2>3, <2>4, PinTypes DEF PinKnown
  <2> QED  BY <1>0, <1>1, <2>2, <2>3, <2>5
<1>9. CASE ExportSFT
  <2> DEFINE file == [gen |-> Fresh("sftExport"), source |-> disk.sftReview.gen,
                      reviewRows |-> disk.sftReview.rows, examples |-> BuildExamples]
  <2>1. Put("sftExport", file) /\ Written("sftReview")
    BY <1>9 DEF ExportSFT, SFTReviewValid
  <2>2. file.gen = Fresh("sftExport") /\ file.source = disk["sftReview"].gen
    OBVIOUS
  <2> HIDE DEF file
  <2>3. PinKnown("sftExport", file, written')
    BY <1>0, <1>1, <1>2, <2>1, <2>2, PinTypes DEF PinKnown
  <2> QED  BY <1>0, <1>1, <2>1, <2>2, <2>3
<1>10. CASE \E authorized \in BOOLEAN : Materialize(authorized)
  <2>1. PICK authorized \in BOOLEAN : Materialize(authorized)
    BY <1>10
  <2> DEFINE file == [gen |-> Fresh("materialized"), source |-> disk.sftExport.gen,
                      examples |-> disk.sftExport.examples,
                      completed |-> {x \in disk.sftExport.examples : Fits(x)},
                      authorized |-> authorized]
  <2>2. Put("materialized", file) /\ Written("sftExport")
    BY <2>1 DEF Materialize, SFTExportLoads
  <2>3. file.gen = Fresh("materialized") /\ file.source = disk["sftExport"].gen
    OBVIOUS
  <2> HIDE DEF file
  <2>4. PinKnown("materialized", file, written')
    BY <1>0, <1>1, <1>2, <2>2, <2>3, PinTypes DEF PinKnown
  <2> QED  BY <1>0, <1>1, <2>2, <2>3, <2>4
<1> QED
  BY <1>3, <1>4, <1>5, <1>6, <1>7, <1>8, <1>9, <1>10 DEF Export

\* An edit of a review leaves its pins alone.
LEMMA ReviewPins ==
    ASSUME TypeOK, Review
    PROVE  /\ UNCHANGED written
           /\ \A b \in Artifacts :
                 /\ Written(b)' <=> Written(b)
                 /\ Written(b) => /\ disk'[b].gen = disk[b].gen
                                  /\ b # "trajExport" => disk'[b].source = disk[b].source
                                  /\ b = "candidates" => disk'[b].review = disk[b].review
                                  /\ b = "sftReview" =>
                                        /\ disk'[b].repairs = disk[b].repairs
                                        /\ disk'[b].repairReview = disk[b].repairReview
<1> DEFINE SamePins(a, file) ==
              /\ file # Nothing /\ file.gen = disk[a].gen /\ file.source = disk[a].source
              /\ a = "sftReview" => /\ file.repairs = disk[a].repairs
                                    /\ file.repairReview = disk[a].repairReview
<1>1. ASSUME NEW a \in {"trajReview", "repairReview", "sftReview"}, NEW file,
             Edit(a, file), Written(a), SamePins(a, file)
      PROVE  /\ UNCHANGED written
             /\ \A b \in Artifacts :
                   /\ disk'[b] # Nothing <=> disk[b] # Nothing
                   /\ disk[b] # Nothing =>
                         /\ disk'[b].gen = disk[b].gen
                         /\ b # "trajExport" => disk'[b].source = disk[b].source
                         /\ b = "candidates" => disk'[b].review = disk[b].review
                         /\ b = "sftReview" =>
                               /\ disk'[b].repairs = disk[b].repairs
                               /\ disk'[b].repairReview = disk[b].repairReview
  BY <1>1 DEF Edit, Written, TypeOK
<1>2. CASE \E rows \in [Trajectories -> ReviewChoices] : EditTrajReview(rows)
  <2>1. PICK rows \in [Trajectories -> ReviewChoices] : EditTrajReview(rows)
    BY <1>2
  <2> DEFINE file == [disk.trajReview EXCEPT !.rows = rows]
  <2>2. disk.trajReview \in TrajReviewFile /\ Written("trajReview") /\ Edit("trajReview", file)
    BY <2>1, Artifact DEF EditTrajReview
  <2>3. SamePins("trajReview", file)
    BY <2>2 DEF TrajReviewFile, Nothing
  <2> HIDE DEF file, SamePins
  <2> QED  BY <1>1, <2>2, <2>3 DEF Written
<1>3. CASE \E r \in RecordsOf("repairs"), d \in Decisions : EditRepairReview(r, d)
  <2>1. PICK r \in RecordsOf("repairs"), d \in Decisions : EditRepairReview(r, d)
    BY <1>3
  <2>2. PICK row \in disk.repairReview.rows :
            Edit("repairReview", [disk.repairReview EXCEPT !.rows =
                     (@ \ {row}) \cup {[repair |-> r, decision |-> d]}])
    BY <2>1 DEF EditRepairReview
  <2> DEFINE rows == (disk.repairReview.rows \ {row}) \cup {[repair |-> r, decision |-> d]}
             file == [disk.repairReview EXCEPT !.rows = rows]
  <2>3. /\ disk.repairReview \in RepairReviewFile /\ Written("repairReview")
        /\ Edit("repairReview", file)
    BY <2>1, <2>2, Artifact DEF EditRepairReview
  <2> HIDE DEF rows
  <2>4. SamePins("repairReview", file)
    BY <2>3 DEF RepairReviewFile, Nothing
  <2> HIDE DEF file, SamePins
  <2> QED  BY <1>1, <2>3, <2>4 DEF Written
<1>4. CASE \E judge \in [Trajectories -> PrefixChoices] : EditSFTReview(judge)
  <2>1. PICK judge \in [Trajectories -> PrefixChoices] : EditSFTReview(judge)
    BY <1>4
  <2> DEFINE rows == {[row EXCEPT !.judgment = judge[row.candidate.trajectory]]
                         : row \in disk.sftReview.rows}
             file == [disk.sftReview EXCEPT !.rows = rows]
  <2>2. disk.sftReview \in SFTReviewFile /\ Written("sftReview") /\ Edit("sftReview", file)
    BY <2>1, Artifact DEF EditSFTReview
  <2> HIDE DEF rows
  <2>3. SamePins("sftReview", file)
    BY <2>2 DEF SFTReviewFile, Nothing
  <2> HIDE DEF file, SamePins
  <2> QED  BY <1>1, <2>2, <2>3 DEF Written
<1> QED  BY <1>2, <1>3, <1>4 DEF Review

LEMMA PinsStep ==
    ASSUME TypeOK, PinsKnown, [Next]_curationVars
    PROVE  PinsKnown'
<1>1. CASE Export
  <2>1. PICK a, file :
            /\ a \in Artifacts /\ Put(a, file) /\ file.gen = Fresh(a)
            /\ \A b \in Artifacts \ {a} : written'[b] = written[b]
            /\ written'[a] = Fresh(a) /\ PinKnown(a, file, written')
    BY <1>1, ExportPins
  <2>2. \A b \in Artifacts : disk'[b] \in {disk[b], file, Nothing}
                             /\ (b # a => disk'[b] = disk[b])
                             /\ (b = a => disk'[b] \in {file, Nothing})
    BY <2>1 DEF Put, TypeOK
  <2>3. \A b \in Artifacts : written[b] <= written'[b] /\ written[b] \in Nat
                             /\ written'[b] \in Nat
    BY <2>1, PinTypes DEF Fresh
  <2>4. ASSUME NEW b \in Artifacts, Written(b)'
        PROVE  PinKnown(b, disk'[b], written')
    <3>1. CASE b = a
      BY <2>1, <2>2, <2>4, <3>1 DEF Written
    <3>2. CASE b # a
      <4>1. Written(b) /\ PinKnown(b, disk[b], written) /\ disk'[b] = disk[b]
        BY <2>2, <2>4, <3>2 DEF Written, PinsKnown
      <4> QED  BY <2>3, <4>1, PinTypes DEF PinKnown, Artifacts
    <3> QED  BY <3>1, <3>2
  <2> QED  BY <2>4 DEF PinsKnown
<1>2. CASE Review
  BY <1>2, ReviewPins DEF PinsKnown, PinKnown
<1>3. CASE UNCHANGED <<disk, written>>
  BY <1>3 DEF PinsKnown, PinKnown, Written
<1>4. ReadForTraining => UNCHANGED <<disk, written>>
  BY DEF ReadForTraining, LoadSources, SelectTreatment, RefuseTreatment
<1> QED  BY <1>1, <1>2, <1>3, <1>4 DEF Next, curationVars

\* What a load reads apart from the repairs and their review.
LEMMA LoadReads ==
    ASSUME \A b \in Artifacts \ {"repairs", "repairReview", "materialized"} :
               disk'[b] = disk[b],
           Repaired(disk.sftReview.rows) =>
               \A b \in {"repairs", "repairReview"} : disk'[b] = disk[b],
           SFTExportLoads'
    PROVE  SFTExportLoads
<1>1. /\ disk'.trajExport = disk.trajExport /\ disk'.trajReview = disk.trajReview
      /\ disk'.candidates = disk.candidates /\ disk'.sftReview = disk.sftReview
      /\ disk'.sftExport = disk.sftExport
      /\ \A b \in {"trajExport", "trajReview", "candidates", "sftReview", "sftExport"} :
            Written(b)' <=> Written(b)
  BY DEF Artifacts, Written
<1>2. /\ ReviewedTrajectories' <=> ReviewedTrajectories
      /\ BuildCandidates' = BuildCandidates /\ BuildExamples' = BuildExamples
      /\ PinnedTrajectories' <=> PinnedTrajectories
      /\ PinnedReview' <=> PinnedReview
  BY <1>1 DEF ReviewedTrajectories, BuildCandidates, BuildExamples, PinnedTrajectories,
              PinnedReview
<1>3. CandidatesLoad' <=> CandidatesLoad
  BY <1>1, <1>2 DEF CandidatesLoad
<1>4. \A repairs : Selections(repairs)' = Selections(repairs)
  BY <1>1 DEF Selections
<1>5. CASE ~Repaired(disk.sftReview.rows)
  <2>1. SFTReviewValid' <=> SFTReviewValid
    BY <1>1, <1>2, <1>3, <1>4, <1>5 DEF SFTReviewValid
  <2> QED  BY <1>1, <1>2, <2>1 DEF SFTExportLoads
<1>6. CASE Repaired(disk.sftReview.rows)
  <2>1. /\ disk'.repairs = disk.repairs /\ disk'.repairReview = disk.repairReview
        /\ \A b \in {"repairs", "repairReview"} : Written(b)' <=> Written(b)
    BY <1>6 DEF Written
  <2>2. /\ RepairsLoad' <=> RepairsLoad
        /\ \A rows : SelectedRepairs(rows)' = SelectedRepairs(rows)
        /\ \A r : AcceptedRepair(r)' <=> AcceptedRepair(r)
    BY <1>1, <1>2, <1>3, <2>1 DEF RepairsLoad, SelectedRepairs, AcceptedRepair
  <2>3. RepairReviewValid' <=> RepairReviewValid
    BY <2>1, <2>2 DEF RepairReviewValid
  <2>4. \A review : RepairSourcesPinned(review)' <=> RepairSourcesPinned(review)
    BY <1>1, <2>1, <2>3 DEF RepairSourcesPinned
  <2>5. SFTReviewValid' <=> SFTReviewValid
    BY <1>1, <1>2, <1>3, <1>4, <2>2, <2>4 DEF SFTReviewValid
  <2> QED  BY <1>1, <1>2, <2>5 DEF SFTExportLoads
<1> QED  BY <1>5, <1>6

\* What was pinned before is not what was written since.
LEMMA PutRevivesNothing ==
    ASSUME TypeOK, PinsKnown, NEW a \in Artifacts \ {"sftExport"}, NEW file, Put(a, file),
           file.gen = Fresh(a), SFTExportLoads'
    PROVE  SFTExportLoads
<1>1. /\ \A b \in Artifacts \ {a} : disk'[b] = disk[b]
      /\ disk'[a] \in {file, Nothing}
  BY DEF Put, TypeOK
<1>2. written[a] \in Nat /\ file.gen > written[a]
  BY PinTypes DEF Fresh
<1>3. \A b \in Artifacts : Written(b) => PinKnown(b, disk[b], written)
  BY DEF PinsKnown
<1>4. /\ Written("sftExport")' /\ Written("sftReview")' /\ Written("candidates")'
      /\ Written("trajExport")' /\ Written("trajReview")'
      /\ disk'["sftExport"].source = disk'["sftReview"].gen
      /\ disk'["sftReview"].source = disk'["candidates"].gen
      /\ disk'["candidates"].source = disk'["trajExport"].gen
      /\ disk'["candidates"].review = disk'["trajReview"].gen
  BY DEF SFTExportLoads, SFTReviewValid, CandidatesLoad, ReviewedTrajectories,
         PinnedTrajectories, PinnedReview
<1>5. a \notin {"trajExport", "trajReview", "candidates", "sftReview"}
  <2>1. ASSUME a = "trajExport" PROVE FALSE
    <3>1. Written("candidates") /\ disk'["candidates"] = disk["candidates"] /\ disk'[a] = file
      BY <1>1, <1>4, <2>1 DEF Written, Artifacts
    <3> QED  BY <1>2, <1>3, <1>4, <2>1, <3>1, PinTypes DEF PinKnown, Artifacts
  <2>2. ASSUME a = "trajReview" PROVE FALSE
    <3>1. Written("candidates") /\ disk'["candidates"] = disk["candidates"] /\ disk'[a] = file
      BY <1>1, <1>4, <2>2 DEF Written, Artifacts
    <3> QED  BY <1>2, <1>3, <1>4, <2>2, <3>1, PinTypes DEF PinKnown, Artifacts
  <2>3. ASSUME a = "candidates" PROVE FALSE
    <3>1. Written("sftReview") /\ disk'["sftReview"] = disk["sftReview"] /\ disk'[a] = file
      BY <1>1, <1>4, <2>3 DEF Written, Artifacts
    <3> QED  BY <1>2, <1>3, <1>4, <2>3, <3>1, PinTypes DEF PinKnown, Artifacts
  <2>4. ASSUME a = "sftReview" PROVE FALSE
    <3>1. Written("sftExport") /\ disk'["sftExport"] = disk["sftExport"] /\ disk'[a] = file
      BY <1>1, <1>4, <2>4 DEF Written, Artifacts
    <3> QED  BY <1>2, <1>3, <1>4, <2>4, <3>1, PinTypes DEF PinKnown, Artifacts
  <2> QED  BY <2>1, <2>2, <2>3, <2>4
<1>6. disk'["sftReview"] = disk["sftReview"] /\ Written("sftReview")
  BY <1>1, <1>4, <1>5 DEF Artifacts, Written
<1>7. Repaired(disk.sftReview.rows) => a \notin {"repairs", "repairReview"}
  <2> SUFFICES ASSUME Repaired(disk.sftReview.rows)
               PROVE  a \notin {"repairs", "repairReview"}
    OBVIOUS
  <2>1. /\ Written("repairs")' /\ Written("repairReview")'
        /\ disk["sftReview"].repairs = disk'["repairs"].gen
        /\ disk["sftReview"].repairReview = disk'["repairReview"].gen
    BY <1>6 DEF SFTExportLoads, SFTReviewValid, RepairSourcesPinned, RepairReviewValid,
                RepairsLoad
  <2>2. disk'[a] = file \/ a \notin {"repairs", "repairReview"}
    BY <1>1, <2>1 DEF Written
  <2> QED  BY <1>2, <1>3, <1>6, <2>1, <2>2, PinTypes DEF PinKnown, Artifacts
<1> QED  BY <1>1, <1>5, <1>7, LoadReads DEF Artifacts

\* Overwriting an artifact makes nothing derived from the old one load again.
THEOREM NothingRevived == Spec => OverwriteRevivesNothing
<1> DEFINE NotRevived ==
              edits' = edits =>
                  /\ written'["sftExport"] = written["sftExport"] /\ ~SFTExportLoads
                        => ~SFTExportLoads'
                  /\ written'["materialized"] = written["materialized"] /\ ~SnapshotLoads
                        /\ written'["sftExport"] = written["sftExport"]
                        => ~SnapshotLoads'
<1>1. ASSUME TypeOK, PinsKnown, [Next]_curationVars, edits' = edits,
             written'["sftExport"] = written["sftExport"], SFTExportLoads'
      PROVE  SFTExportLoads /\ disk'["sftExport"] = disk["sftExport"]
  <2>1. CASE Export
    <3>1. PICK a, file : /\ a \in Artifacts /\ Put(a, file)
                         /\ file.gen = Fresh(a) /\ written'[a] = Fresh(a)
      BY <1>1, <2>1, ExportPins
    <3>2. a # "sftExport"
      BY <1>1, <3>1, PinTypes DEF Fresh
    <3>3. disk'["sftExport"] = disk["sftExport"]
      BY <1>1, <3>1, <3>2 DEF Put, TypeOK, Artifacts
    <3> QED  BY <1>1, <3>1, <3>2, <3>3, PutRevivesNothing
  <2>2. CASE Review
    <3>1. edits' = edits + 1 /\ edits \in Nat
      BY <1>1, <2>2 DEF Review, EditTrajReview, EditRepairReview, EditSFTReview, Edit, TypeOK
    <3> QED  BY <1>1, <3>1
  <2>3. CASE UNCHANGED disk
    BY <1>1, <2>3, LoadReads
  <2>4. ReadForTraining => UNCHANGED disk
    BY DEF ReadForTraining, LoadSources, SelectTreatment, RefuseTreatment
  <2> QED  BY <1>1, <2>1, <2>2, <2>3, <2>4 DEF Next, curationVars
<1>2. ASSUME TypeOK, PinsKnown, [Next]_curationVars, edits' = edits,
             written'["sftExport"] = written["sftExport"],
             written'["materialized"] = written["materialized"], SnapshotLoads'
      PROVE  SnapshotLoads
  <2>1. SFTExportLoads /\ disk'["sftExport"] = disk["sftExport"]
    BY <1>1, <1>2 DEF SnapshotLoads
  <2>2. disk'["materialized"] = disk["materialized"]
    <3>1. CASE Export
      <4>1. PICK a, file : a \in Artifacts /\ Put(a, file) /\ written'[a] = Fresh(a)
        BY <1>2, <3>1, ExportPins
      <4>2. a # "materialized"
        BY <1>2, <4>1, PinTypes DEF Fresh
      <4> QED  BY <1>2, <4>1, <4>2 DEF Put, TypeOK, Artifacts
    <3>2. CASE Review
      <4>1. edits' = edits + 1 /\ edits \in Nat
        BY <1>2, <3>2 DEF Review, EditTrajReview, EditRepairReview, EditSFTReview, Edit, TypeOK
      <4> QED  BY <1>2, <4>1
    <3>3. CASE UNCHANGED disk
      BY <3>3
    <3>4. ReadForTraining => UNCHANGED disk
      BY DEF ReadForTraining, LoadSources, SelectTreatment, RefuseTreatment
    <3> QED  BY <1>2, <3>1, <3>2, <3>3, <3>4 DEF Next, curationVars
  <2> QED  BY <1>2, <2>1, <2>2 DEF SnapshotLoads, Written
<1>3. TypeOK /\ PinsKnown /\ [Next]_curationVars => [NotRevived]_curationVars
  BY <1>1, <1>2
<1>4. Init => TypeOK /\ PinsKnown
  BY InitType DEF Init, PinsKnown, Written
<1>5. TypeOK /\ PinsKnown /\ [Next]_curationVars => TypeOK' /\ PinsKnown'
  BY NextType, PinsStep
<1> QED  BY <1>3, <1>4, <1>5, PTL DEF Spec, OverwriteRevivesNothing
=============================================================================
