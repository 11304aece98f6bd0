--------------------------- MODULE Release_proofs ---------------------------
(***************************************************************************)
(* What a trusted release rests on, for any number of tasks, controls,     *)
(* cases, repeats, edits and commands.                                     *)
(***************************************************************************)
EXTENDS Release, FiniteSetTheorems, TLAPS

-----------------------------------------------------------------------------
(* The inductive invariant                                                 *)

\* No hash is newer than the last edit.
WorldKnown ==
    /\ \A l \in Layers : cases[l] <= edits + 1
    /\ \A t \in Tasks : pack[t] <= edits + 1

\* While the root of a layer is the one that was hashed, so was every case; a
\* case that did what it should had its task.
LayerTrue(layer, code, root, newest) ==
    /\ layer.root <= newest
    /\ \A r \in layer.records :
          /\ r.on.code = code
          /\ layer.root = root => r.on.input = layer.root
          /\ r.outcome = "match" => r.on.task # Absent

AuditTrue ==
    audit # Nothing =>
        \A l \in Layers :
            /\ LayerTrue(audit.layers[l], audit.runtime, cases[l], edits + 1)
            /\ {r.case : r \in audit.layers[l].records} = Cases[l]

AuditJobTrue ==
    auditJob # Nothing =>
        /\ \A l \in Layers : auditJob.layers[l] # Nothing =>
               LayerTrue(auditJob.layers[l], auditJob.code, cases[l], edits + 1)
        /\ \A l \in auditJob.ended :
               auditJob.layers[l] # Nothing /\ CasesRun(l) = Cases[l]
        /\ auditJob.at = "agent" => auditJob.layers["scorer"] = Nothing
        /\ auditJob.layers["agent"] # Nothing =>
               auditJob.code = auditJob.layers["agent"].runtime

\* While a task is the one that was hashed, it was so at every step.
CalibrationTrue(m) ==
    /\ \A t \in Tasks : m.hashes[t] <= edits + 1
    /\ \A r \in m.records \cup m.calibrations :
          /\ r.on.code = m.runtime
          /\ pack[r.item.task] \in {m.hashes[r.item.task]} \ {Absent} =>
                 r.on.input = pack[r.item.task]

ControlJobTrue ==
    controlJob # Nothing =>
        /\ CalibrationTrue(controlJob.run)
        /\ controlJob.phase = "hash" =>
              controlJob.run.records \cup controlJob.run.calibrations = {}

ControlsTrue ==
    controls.manifest # Nothing =>
        CalibrationTrue(controls.manifest) /\ CalibrationValid(controls.manifest)

SamplesTrue ==
    /\ evalJob # Nothing =>
          /\ evalJob.id <= runs
          /\ \A x \in evalJob.records : x.on = [code |-> evalJob.runtime, input |-> x.hash]
    /\ source # Nothing =>
          /\ source.id <= runs
          /\ \A x \in source.records : x.on = [code |-> source.runtime, input |-> x.hash]
    /\ export # Nothing =>
          /\ export.source <= runs
          /\ evalJob # Nothing => export.source < evalJob.id
          /\ \A x \in export.records : x.on.input = x.hash
          /\ source # Nothing /\ source.id = export.source =>
                \A x \in export.records : x.on.code = source.runtime

IInv ==
    /\ TypeOK /\ WorldKnown
    /\ AuditTrue /\ AuditJobTrue
    /\ ControlsTrue /\ ControlJobTrue
    /\ SamplesTrue

-----------------------------------------------------------------------------
(* The types of the commands' steps                                        *)

LEMMA NothingIsNoRecord ==
    /\ Nothing \notin AuditJob /\ Nothing \notin AuditArtifact /\ Nothing \notin Layer
    /\ Nothing \notin ControlJob /\ Nothing \notin Calibrating
    /\ Nothing \notin Evaluation /\ Nothing \notin Trajectories
BY DEF Nothing, AuditJob, AuditArtifact, Layer, ControlJob, Calibrating, Evaluation,
       Trajectories

LEMMA FreshIsVersion ==
    ASSUME TypeOK, edits < MaxEdits
    PROVE  Fresh \in Version /\ Fresh \in Nat /\ edits \in Nat
BY ReleaseAssumption DEF TypeOK, Fresh, Version

\* A task that is there is as it was last written.
LEMMA WhatIsThere ==
    ASSUME TypeOK, NEW t \in Tasks
    PROVE  /\ There(t) \in Hash /\ pack[t] \in Hash
           /\ There(t) # Absent => There(t) = pack[t] /\ There(t) \in Version
BY DEF There, TypeOK, TaskHashes, Hash

LEMMA ObserveType ==
    ASSUME TypeOK, NEW deviations \in Nat, Observe(deviations)
    PROVE  faults' \in 0..MaxFaults
BY ReleaseAssumption DEF Observe, TypeOK

LEMMA DeviationsAreNatural ==
    /\ \A differs \in SUBSET Fields : Cardinality(differs) \in Nat
    /\ \A expected : Unless(expected) \in Nat
<1>1. IsFiniteSet(Fields)
  <2>1. IsFiniteSet({} \cup {"loop"})
    BY FS_EmptySet, FS_AddElement
  <2>2. IsFiniteSet(({} \cup {"loop"}) \cup {"score"})
    BY <2>1, FS_AddElement
  <2>3. Fields = ({} \cup {"loop"}) \cup {"score"}
    BY DEF Fields
  <2> QED  BY <2>2, <2>3
<1>2. \A differs \in SUBSET Fields : Cardinality(differs) \in Nat
  BY <1>1, FS_Subset, FS_CardinalityType
<1> QED  BY <1>2 DEF Unless

LEMMA EditType ==
    ASSUME TypeOK, EditHarness \/ EditCases \/ EditTask
    PROVE  TypeOK'
<1>0. edits < MaxEdits /\ edits' = edits + 1 /\ edits' \in 0..MaxEdits
  BY ReleaseAssumption DEF EditHarness, EditCases, EditTask, Edit, TypeOK
<1>1. Fresh \in Version
  BY <1>0, FreshIsVersion
<1>2. UNCHANGED <<audit, controls, source, export, jobs, runs, faults>>
  BY DEF EditHarness, EditCases, EditTask, Edit
<1>3. CASE EditHarness
  BY <1>0, <1>1, <1>2, <1>3 DEF EditHarness, TypeOK, jobs
<1>4. CASE EditCases
  <2>1. cases' \in [Layers -> Version]
    BY <1>1, <1>4 DEF EditCases, TypeOK
  <2> QED  BY <1>0, <1>2, <1>4, <2>1 DEF EditCases, TypeOK, jobs
<1>5. CASE EditTask
  <2>1. pack' \in TaskHashes /\ away' \subseteq Tasks
    <3>1. CASE \E t \in Tasks : RemoveTask(t)
      BY <3>1 DEF RemoveTask, TypeOK
    <3>2. CASE \E t \in Tasks, u \in Tasks : WriteTask(t, u)
      BY <1>1, <3>2 DEF WriteTask, TypeOK, TaskHashes, Hash
    <3> QED  BY <1>5, <3>1, <3>2 DEF EditTask
  <2> QED  BY <1>0, <1>2, <1>5, <2>1 DEF EditTask, TypeOK, jobs
<1> QED  BY <1>3, <1>4, <1>5

LEMMA AuditType ==
    ASSUME TypeOK, AuditJobTrue,
           StartAudit \/ StartLayer \/ RunCase \/ EndLayer \/ FinishAudit
    PROVE  TypeOK'
<1> USE NothingIsNoRecord
<1>0. Layers = {"agent", "scorer"} /\ auditJob \in AuditJob \cup {Nothing}
  BY DEF Layers, TypeOK
<1>1. CASE StartAudit
  <2>1. auditJob' \in AuditJob
    BY <1>0, <1>1 DEF StartAudit, AuditJob, Unrun, TypeOK
  <2>2. runs' \in 0..MaxRuns
    BY <1>1, ReleaseAssumption DEF StartAudit, Begin, TypeOK
  <2> QED  BY <1>1, <2>1, <2>2 DEF StartAudit, Begin, world, TypeOK
<1>2. CASE StartLayer
  <2>1. auditJob' \in AuditJob
    BY <1>0, <1>2 DEF StartLayer, AuditJob, Layer, TypeOK
  <2> QED  BY <1>2, <2>1 DEF StartLayer, AuditGoes, Going, world, TypeOK
<1>3. CASE RunCase
  <2> DEFINE l == auditJob.at
  <2>1. auditJob \in AuditJob /\ l \in Layers /\ auditJob.layers[l] \in Layer
    BY <1>0, <1>3 DEF RunCase, AuditJob
  <2>2. PICK c \in Cases[l] \ CasesRun(l), outcome \in DOMAIN CaseStatus :
            /\ Observe(Unless(outcome = Expected(l, c)))
            /\ auditJob' = [auditJob EXCEPT !.layers[l].records =
                                @ \cup {Examined(l, c, outcome)}]
    BY <1>3 DEF RunCase
  <2>3. Examined(l, c, outcome) \in CaseRecord
    <3>1. outcome \in {"match", "mismatch", "error"}
      BY DEF CaseStatus
    <3>2. auditJob.code \in Version /\ cases[l] \in Version
      BY <2>1 DEF AuditJob, TypeOK
    <3>3. c \in CaseIds
      BY <2>1 DEF CaseIds
    <3>4. CaseTask[c][cases[l]] \in Tasks
      BY <3>2, <3>3, ReleaseAssumption
    <3>5. Subject(l, c) \in Hash
      BY <3>4, WhatIsThere DEF Subject
    <3> QED  BY <3>1, <3>2, <3>3, <3>5 DEF Examined, CaseRecord, CaseOrigin, Hash
  <2>4. auditJob' \in AuditJob
    <3> DEFINE layer == [auditJob.layers[l] EXCEPT !.records =
                             auditJob.layers[l].records \cup {Examined(l, c, outcome)}]
               layers == [auditJob.layers EXCEPT ![l] = layer]
    <3>1. layer \in Layer
      BY <2>1, <2>3 DEF Layer
    <3>2. auditJob' = [auditJob EXCEPT !.layers = layers]
      BY <2>2
    <3>3. layers \in [Layers -> Layer \cup {Nothing}]
      BY <2>1, <3>1 DEF AuditJob
    <3> HIDE DEF layers
    <3> QED  BY <2>1, <3>2, <3>3 DEF AuditJob
  <2>5. faults' \in 0..MaxFaults
    BY <2>2, ObserveType, DeviationsAreNatural
  <2> QED  BY <1>3, <2>4, <2>5 DEF RunCase, AuditGoes, Going, world, TypeOK
<1>4. CASE EndLayer
  <2>1. auditJob \in AuditJob /\ auditJob.at \in Layers
    BY <1>0, <1>4 DEF EndLayer, AuditJob
  <2>2. \/ auditJob' = [auditJob EXCEPT !.ended = auditJob.ended \cup {auditJob.at},
                                        !.at = "scorer"]
        \/ auditJob' = Nothing
    BY <1>4 DEF EndLayer
  <2> DEFINE ended == auditJob.ended \cup {auditJob.at}
  <2>4. ended \in SUBSET Layers /\ "scorer" \in Layers
    BY <1>0, <2>1 DEF AuditJob
  <2>5. [auditJob EXCEPT !.ended = ended, !.at = "scorer"] \in AuditJob
    <3> HIDE DEF ended
    <3> QED  BY <2>1, <2>4 DEF AuditJob
  <2>3. auditJob' \in AuditJob \cup {Nothing}
    BY <2>2, <2>5
  <2> QED  BY <1>4, <2>3 DEF EndLayer, AuditGoes, Going, world, TypeOK
<1>5. CASE FinishAudit
  <2>1. auditJob \in AuditJob /\ auditJob.ended = Layers
    BY <1>0, <1>5 DEF FinishAudit
  <2>2. \A l \in Layers : auditJob.layers[l] \in Layer
    BY <2>1, <1>5 DEF AuditJobTrue, AuditJob, FinishAudit
  <2>3. auditJob.layers \in [Layers -> Layer] /\ auditJob.layers["agent"].runtime \in Version
    BY <1>0, <2>1, <2>2 DEF AuditJob, Layer
  <2>4. audit' \in AuditArtifact \cup {Nothing}
    BY <1>5, <2>3 DEF FinishAudit, AuditArtifact
  <2> QED  BY <1>5, <2>4 DEF FinishAudit, AuditGoes, Going, world, TypeOK
<1> QED  BY <1>1, <1>2, <1>3, <1>4, <1>5

\* One more record, or one more calibration, and one item less to do.
LEMMA StepOfControls ==
    ASSUME TypeOK, Working, NEW i \in NextItems, Runnable(i)
    PROVE  /\ controlJob \in ControlJob /\ i \in Item
           /\ Now(i) \in Origin /\ There(i.task) \in Version
           /\ There(i.task) = pack[i.task]
<1>1. controlJob \in ControlJob
  BY DEF TypeOK, Working
<1>2. i \in Item
  BY <1>1 DEF NextItems, ControlJob
<1>3. There(i.task) \in Version /\ There(i.task) = pack[i.task]
  BY <1>2, WhatIsThere DEF Item, Runnable
<1>4. controlJob.run.runtime \in Version
  BY <1>1 DEF ControlJob, Calibrating
<1> QED  BY <1>1, <1>2, <1>3, <1>4 DEF Now, Origin, Hash

LEMMA UseType ==
    ASSUME TypeOK, NEW i \in Item
    PROVE  Use(i) => controls' \in ControlDirectory
<1>1. controls.used \cup {i} \in SUBSET Item
  BY DEF TypeOK, ControlDirectory
<1> DEFINE used == controls.used \cup {i}
<1>2. [controls EXCEPT !.used = used] \in ControlDirectory
  <2> HIDE DEF used
  <2>1. used \in SUBSET Item  BY <1>1 DEF used
  <2> QED  BY <2>1 DEF TypeOK, ControlDirectory
<1> QED  BY <1>2 DEF Use

LEMMA ControlsType ==
    ASSUME TypeOK,
           \/ StartControls \/ HashTasks \/ RunControl \/ CalibrateCheck \/ RefuseItem
           \/ CheckControls \/ WriteResults \/ WriteManifest
    PROVE  TypeOK'
<1> USE NothingIsNoRecord
<1>0. controlJob # Nothing => controlJob \in ControlJob /\ controlJob.run \in Calibrating
  BY DEF TypeOK, ControlJob
<1>1. CASE StartControls
  <2> DEFINE unhashed == [t \in Tasks |-> Absent]
  <2>1. PICK repeats \in 1..MaxRepeats : controlJob' =
            [phase |-> "hash", found |-> Present, todo |-> {},
             run   |-> [id |-> runs + 1, runtime |-> runtime, hashes |-> unhashed,
                        repeats |-> repeats, records |-> {}, calibrations |-> {}]]
    BY <1>1 DEF StartControls
  <2>2. runs + 1 \in 1..MaxRuns /\ runs' \in 0..MaxRuns
    BY <1>1, ReleaseAssumption DEF StartControls, Begin, TypeOK
  <2>3. unhashed \in TaskHashes /\ Present \subseteq Tasks
    BY DEF TaskHashes, Hash, Present
  <2>4. controlJob' \in ControlJob
    <3> HIDE DEF unhashed
    <3> QED  BY <2>1, <2>2, <2>3 DEF ControlJob, Calibrating, TypeOK
  <2> QED  BY <1>1, <2>2, <2>4 DEF StartControls, Begin, world, artifacts, TypeOK
<1>8. CASE HashTasks
  <2> DEFINE found == controlJob.found
             hashes == [t \in Tasks |-> IF t \in found THEN There(t) ELSE Absent]
             run == [controlJob.run EXCEPT !.hashes = hashes]
             todo == CalibrationItems(found)
                        \cup AttemptItems(found, controlJob.run.repeats)
  <2>1. controlJob # Nothing
    BY <1>8 DEF HashTasks
  <2>2. hashes \in TaskHashes
    BY WhatIsThere DEF TaskHashes, Hash
  <2>3. run \in Calibrating
    <3> HIDE DEF hashes
    <3> QED  BY <1>0, <2>1, <2>2 DEF Calibrating
  <2>4. todo \in SUBSET Item
    BY DEF CalibrationItems, AttemptItems
  <2>5. controlJob' = [controlJob EXCEPT !.phase = "work", !.run = run, !.todo = todo]
        \/ controlJob' = Nothing
    BY <1>0, <1>8, <2>1 DEF HashTasks, ControlJob
  <2>6. controlJob' \in ControlJob \cup {Nothing}
    <3> HIDE DEF run, todo
    <3> QED  BY <1>0, <2>1, <2>3, <2>4, <2>5 DEF ControlJob
  <2> QED  BY <1>8, <2>6 DEF HashTasks, ControlsGo, Going, world, TypeOK
<1>2. CASE RunControl
  <2>1. PICK i \in NextItems, differs \in SUBSET Fields, files \in Results :
            /\ Runnable(i) /\ Use(i)
            /\ Observe(Cardinality(differs) + Unless(files = "usual"))
            /\ controlJob' = [controlJob EXCEPT !.todo = @ \ {i},
                  !.run.records = @ \cup {[item |-> i, differs |-> differs,
                                           files |-> files, on |-> Now(i)]}]
    BY <1>2 DEF RunControl
  <2>2. controlJob \in ControlJob /\ i \in Item /\ Now(i) \in Origin
    BY <1>2, <2>1, StepOfControls DEF RunControl
  <2> DEFINE record == [item |-> i, differs |-> differs, files |-> files, on |-> Now(i)]
             run == [controlJob.run EXCEPT !.records = controlJob.run.records \cup {record}]
             todo == controlJob.todo \ {i}
  <2>3. record \in ControlRecord
    BY <2>2 DEF ControlRecord
  <2>4. run \in Calibrating
    <3> HIDE DEF record
    <3> QED  BY <2>2, <2>3 DEF ControlJob, Calibrating
  <2>5. todo \in SUBSET Item
    BY <2>2 DEF ControlJob
  <2>6. controlJob' = [controlJob EXCEPT !.todo = todo, !.run = run]
    BY <2>1, <2>2 DEF ControlJob
  <2>7. controlJob' \in ControlJob
    <3> HIDE DEF todo, run
    <3> QED  BY <2>2, <2>4, <2>5, <2>6 DEF ControlJob
  <2>8. faults' \in 0..MaxFaults
    <3>1. Cardinality(differs) + Unless(files = "usual") \in Nat
      BY DeviationsAreNatural
    <3> QED  BY <2>1, <3>1, ObserveType
  <2>9. controls' \in ControlDirectory
    BY <2>1, <2>2, UseType
  <2> QED
    BY <1>2, <2>7, <2>8, <2>9 DEF RunControl, ControlsGo, Going, world, TypeOK
<1>3. CASE CalibrateCheck
  <2>1. PICK i \in NextItems, check \in CheckRuns :
            /\ Runnable(i) /\ Use(i)
            /\ Observe(Unless(IdempotencyStatus(check) = "IDEMPOTENT"))
            /\ controlJob' = [controlJob EXCEPT !.todo = @ \ {i},
                  !.run.calibrations = @ \cup {[item |-> i, hash |-> There(i.task),
                                                check |-> check, on |-> Now(i)]}]
    BY <1>3 DEF CalibrateCheck
  <2>2. controlJob \in ControlJob /\ i \in Item /\ Now(i) \in Origin /\ There(i.task) \in Version
    BY <1>3, <2>1, StepOfControls DEF CalibrateCheck
  <2> DEFINE record == [item |-> i, hash |-> There(i.task), check |-> check, on |-> Now(i)]
             run == [controlJob.run EXCEPT !.calibrations =
                         controlJob.run.calibrations \cup {record}]
             todo == controlJob.todo \ {i}
  <2>3. record \in Calibration
    BY <2>2 DEF Calibration
  <2>4. run \in Calibrating
    <3> HIDE DEF record
    <3> QED  BY <2>2, <2>3 DEF ControlJob, Calibrating
  <2>5. todo \in SUBSET Item
    BY <2>2 DEF ControlJob
  <2>6. controlJob' = [controlJob EXCEPT !.todo = todo, !.run = run]
    BY <2>1, <2>2 DEF ControlJob
  <2>7. controlJob' \in ControlJob
    <3> HIDE DEF todo, run
    <3> QED  BY <2>2, <2>4, <2>5, <2>6 DEF ControlJob
  <2>8. faults' \in 0..MaxFaults
    BY <2>1, ObserveType, DeviationsAreNatural
  <2>9. controls' \in ControlDirectory
    BY <2>1, <2>2, UseType
  <2> QED
    BY <1>3, <2>7, <2>8, <2>9 DEF CalibrateCheck, ControlsGo, Going, world, TypeOK
<1>4. CASE RefuseItem
  BY <1>4 DEF RefuseItem, ControlsGo, Going, world, TypeOK
<1>5. CASE CheckControls
  <2>1. controlJob' \in ControlJob \cup {Nothing}
    BY <1>0, <1>5 DEF CheckControls, Working, ControlJob
  <2> QED  BY <1>5, <2>1 DEF CheckControls, ControlsGo, Going, world, TypeOK
<1>6. CASE WriteResults
  <2>1. controlJob' \in ControlJob
    BY <1>0, <1>6 DEF WriteResults, ControlJob
  <2> DEFINE results == [id |-> controlJob.run.id, records |-> controlJob.run.records]
  <2>2. results \in ResultRows
    BY <1>0, <1>6 DEF WriteResults, Calibrating, ResultRows
  <2>3. controls' = [controls EXCEPT !.results = results]
    BY <1>6 DEF WriteResults
  <2>4. controls' \in ControlDirectory
    <3> HIDE DEF results
    <3> QED  BY <2>2, <2>3 DEF TypeOK, ControlDirectory
  <2> QED  BY <1>6, <2>1, <2>4 DEF WriteResults, ControlsGo, Going, world, TypeOK
<1>7. CASE WriteManifest
  <2>1. controls' \in ControlDirectory
    BY <1>0, <1>7 DEF WriteManifest, TypeOK, ControlDirectory
  <2> QED  BY <1>7, <2>1 DEF WriteManifest, ControlsGo, Going, world, TypeOK
<1> QED  BY <1>1, <1>2, <1>3, <1>4, <1>5, <1>6, <1>7, <1>8

LEMMA EvalType ==
    ASSUME TypeOK, StartEval \/ RunAttempt \/ FinishEval \/ ExportTrajectories
    PROVE  TypeOK'
<1> USE NothingIsNoRecord
<1>1. CASE StartEval
  <2>1. PICK configured \in SUBSET Present \ {{}} : evalJob' =
            [id |-> runs + 1, runtime |-> runtime, records |-> {},
             hashes |-> [t \in Tasks |-> IF t \in configured THEN There(t) ELSE Absent]]
    BY <1>1 DEF StartEval
  <2>2. runs + 1 \in 1..MaxRuns /\ runs' \in 0..MaxRuns
    BY <1>1, ReleaseAssumption DEF StartEval, Begin, TypeOK
  <2> DEFINE hashes == [t \in Tasks |-> IF t \in configured THEN There(t) ELSE Absent]
  <2>3. hashes \in TaskHashes
    BY WhatIsThere DEF TaskHashes, Hash
  <2>4. evalJob' \in Evaluation
    <3> HIDE DEF hashes
    <3>1. evalJob' = [id |-> runs + 1, runtime |-> runtime, records |-> {}, hashes |-> hashes]
      BY <2>1 DEF hashes
    <3> QED  BY <2>2, <2>3, <3>1 DEF Evaluation, TypeOK
  <2> QED  BY <1>1, <2>2, <2>4 DEF StartEval, Begin, world, artifacts, TypeOK
<1>2. CASE RunAttempt
  <2>1. PICK t \in (Selected(evalJob.hashes) \ SampledTasks) \cap Present :
            evalJob' = [evalJob EXCEPT !.records = @ \cup {[task |-> t, hash |-> There(t),
                on |-> [code |-> evalJob.runtime, input |-> There(t)]]}]
    BY <1>2 DEF RunAttempt
  <2>2. evalJob \in Evaluation
    BY <1>2 DEF RunAttempt, TypeOK
  <2>3. t \in Tasks /\ There(t) \in Version
    BY <2>1, WhatIsThere DEF Present
  <2> DEFINE sample == [task |-> t, hash |-> There(t),
                        on |-> [code |-> evalJob.runtime, input |-> There(t)]]
  <2>4. sample \in Sample
    BY <2>2, <2>3 DEF Evaluation, Sample, Origin, Hash
  <2>5. evalJob' \in Evaluation
    <3> HIDE DEF sample
    <3>1. evalJob' = [evalJob EXCEPT !.records = evalJob.records \cup {sample}]
      BY <2>1 DEF sample
    <3> QED  BY <2>2, <2>4, <3>1 DEF Evaluation
  <2> QED  BY <1>2, <2>5 DEF RunAttempt, EvalGoes, Going, world, TypeOK
<1>3. CASE FinishEval
  BY <1>3 DEF FinishEval, EvalGoes, Going, world, TypeOK
<1>4. CASE ExportTrajectories
  <2>1. export' \in Trajectories
    BY <1>4 DEF ExportTrajectories, TypeOK, Evaluation, Trajectories
  <2> QED  BY <1>4, <2>1 DEF ExportTrajectories, EvalGoes, Going, world, TypeOK
<1> QED  BY <1>1, <1>2, <1>3, <1>4

LEMMA InterruptType ==
    ASSUME TypeOK, Interrupt
    PROVE  TypeOK'
<1>1. controls' \in ControlDirectory
  <2>1. CASE Working /\ \E i \in NextItems : Use(i)
    <3>1. PICK i \in NextItems : Use(i)
      BY <2>1
    <3>2. i \in Item
      BY <2>1 DEF NextItems, Working, TypeOK, ControlJob
    <3> QED  BY <3>1, <3>2, UseType
  <2>2. CASE UNCHANGED controls
    BY <2>2 DEF TypeOK
  <2>3. CASE \/ controls' = [controls EXCEPT !.results = Nothing]
             \/ controls' = [controls EXCEPT !.manifest = Nothing]
    BY <2>3 DEF TypeOK, ControlDirectory
  <2> QED  BY <2>1, <2>2, <2>3 DEF Interrupt
<1>2. faults' \in 0..MaxFaults
  BY ObserveType DEF Interrupt
<1> QED  BY <1>1, <1>2 DEF Interrupt, Going, world, TypeOK

LEMMA InitType ==
    ASSUME Init
    PROVE  TypeOK
<1>1. 1 \in Version
  BY ReleaseAssumption DEF Version
<1>2. pack \in TaskHashes
  BY <1>1 DEF Init, TaskHashes, Hash
<1>3. controls \in ControlDirectory
  BY DEF Init, ControlDirectory
<1> QED  BY <1>1, <1>2, <1>3, ReleaseAssumption DEF Init, TypeOK

LEMMA NextType ==
    ASSUME TypeOK, AuditJobTrue, [Next]_releaseVars
    PROVE  TypeOK'
<1>1. CASE UNCHANGED releaseVars
  BY <1>1 DEF releaseVars, world, artifacts, jobs, TypeOK
<1>2. CASE DiscardSource
  BY <1>2 DEF DiscardSource, world, jobs, TypeOK
<1>3. CASE ReturnTask
  BY <1>3 DEF ReturnTask, artifacts, jobs, TypeOK
<1> QED
  BY <1>1, <1>2, <1>3, EditType, AuditType, ControlsType, EvalType, InterruptType DEF Next

-----------------------------------------------------------------------------
(* What the records say stays true                                         *)

\* No edit writes contents that were hashed before.
LEMMA WorldStep ==
    ASSUME TypeOK, WorldKnown, [Next]_releaseVars
    PROVE  /\ WorldKnown'
           /\ edits' \in Nat /\ edits \in Nat /\ edits <= edits'
           /\ \A l \in Layers : cases'[l] # cases[l] => cases'[l] > edits + 1
           /\ \A t \in Tasks : pack'[t] # pack[t] => pack'[t] > edits + 1
<1> USE DEF Version, Fresh, Absent
<1>0. /\ edits \in Nat /\ cases \in [Layers -> Nat] /\ pack \in [Tasks -> Nat]
  BY ReleaseAssumption DEF TypeOK, TaskHashes, Hash
<1>1. CASE UNCHANGED <<cases, pack>> /\ edits' \in {edits, edits + 1}
  BY <1>0, <1>1 DEF WorldKnown
<1>2. CASE EditCases
  <2>1. PICK l \in Layers : cases' = [cases EXCEPT ![l] = Fresh]
    BY <1>2 DEF EditCases
  <2>2. pack' = pack /\ edits' = edits + 1
    BY <1>2 DEF EditCases, Edit
  <2> QED  BY <1>0, <2>1, <2>2 DEF WorldKnown
<1>3. CASE EditTask
  <2>2. cases' = cases /\ edits' = edits + 1
    BY <1>3 DEF EditTask, Edit
  <2>3. \A s \in Tasks : pack'[s] \in {pack[s], Fresh}
    BY <1>0, <1>3 DEF EditTask, RemoveTask, WriteTask
  <2> QED  BY <1>0, <2>2, <2>3 DEF WorldKnown
<1>4. ASSUME ~EditCases, ~EditTask
      PROVE  UNCHANGED <<cases, pack>> /\ edits' \in {edits, edits + 1}
  <2>1. CASE EditHarness
    BY <2>1 DEF EditHarness, Edit
  <2>2. ASSUME ~EditHarness
        PROVE  UNCHANGED <<cases, pack, edits>>
    <3> USE DEF world
    <3>1. CASE StartAudit \/ StartLayer \/ RunCase \/ EndLayer \/ FinishAudit
      BY <3>1 DEF StartAudit, StartLayer, RunCase, EndLayer, FinishAudit, Begin, AuditGoes,
                  Going
    <3>2. CASE \/ StartControls \/ HashTasks \/ RunControl \/ CalibrateCheck
               \/ RefuseItem \/ CheckControls \/ WriteResults \/ WriteManifest
      BY <3>2 DEF StartControls, HashTasks, RunControl, CalibrateCheck, RefuseItem, CheckControls,
                  WriteResults, WriteManifest, Begin, ControlsGo, Going
    <3>3. CASE StartEval \/ RunAttempt \/ FinishEval \/ ExportTrajectories
      BY <3>3 DEF StartEval, RunAttempt, FinishEval, ExportTrajectories, Begin, EvalGoes,
                  Going
    <3>4. CASE ReturnTask \/ DiscardSource \/ Interrupt \/ UNCHANGED releaseVars
      BY <3>4 DEF ReturnTask, DiscardSource, Interrupt, Going, releaseVars
    <3> QED  BY <1>4, <2>2, <3>1, <3>2, <3>3, <3>4 DEF Next
  <2> QED  BY <2>1, <2>2 DEF world
<1> QED  BY <1>1, <1>2, <1>3, <1>4

LEMMA LayerStays ==
    ASSUME TypeOK, TypeOK', WorldKnown, [Next]_releaseVars,
           NEW l \in Layers, NEW layer \in Layer, NEW code, LayerTrue(layer, code, cases[l], edits + 1)
    PROVE  LayerTrue(layer, code, cases'[l], edits' + 1)
<1>1. /\ edits' \in Nat /\ edits \in Nat /\ edits <= edits'
      /\ cases'[l] # cases[l] => cases'[l] > edits + 1
  BY WorldStep
<1>2. cases'[l] \in Int /\ layer.root \in Int
  BY DEF TypeOK, Version, Layer
<1> QED  BY <1>1, <1>2 DEF LayerTrue

LEMMA CalibrationStays ==
    ASSUME TypeOK, TypeOK', WorldKnown, [Next]_releaseVars,
           NEW m \in Calibrating, CalibrationTrue(m)
    PROVE  CalibrationTrue(m)'
<1>1. /\ edits' \in Nat /\ edits \in Nat /\ edits <= edits'
      /\ \A t \in Tasks : pack'[t] # pack[t] => pack'[t] > edits + 1
  BY WorldStep
<1>2. /\ pack' \in [Tasks -> Nat] /\ m.hashes \in [Tasks -> Nat]
      /\ \A r \in m.records \cup m.calibrations : r.item.task \in Tasks
  BY ReleaseAssumption DEF TypeOK, TaskHashes, Hash, Version, Absent, Calibrating,
                           ControlRecord, Calibration, Item
<1> QED  BY <1>1, <1>2 DEF CalibrationTrue, Absent

LEMMA AuditStays ==
    ASSUME TypeOK, TypeOK', WorldKnown, [Next]_releaseVars
    PROVE  /\ AuditTrue /\ UNCHANGED audit => AuditTrue'
           /\ AuditJobTrue /\ UNCHANGED auditJob => AuditJobTrue'
<1>0. Layers = {"agent", "scorer"}
  BY DEF Layers
<1>1. ASSUME AuditTrue, UNCHANGED audit
      PROVE  AuditTrue'
  <2>1. CASE audit = Nothing
    BY <1>1, <2>1 DEF AuditTrue, Nothing
  <2>2. CASE audit # Nothing
    <3>1. \A l \in Layers : audit.layers[l] \in Layer
      BY <2>2 DEF TypeOK, AuditArtifact
    <3>2. \A l \in Layers : LayerTrue(audit.layers[l], audit.runtime, cases'[l], edits' + 1)
      BY <1>1, <2>2, <3>1, LayerStays DEF AuditTrue
    <3> QED  BY <1>1, <2>2, <3>2 DEF AuditTrue
  <2> QED  BY <2>1, <2>2
<1>2. ASSUME AuditJobTrue, UNCHANGED auditJob
      PROVE  AuditJobTrue'
  <2>1. CASE auditJob = Nothing
    BY <1>2, <2>1 DEF AuditJobTrue, Nothing
  <2>2. CASE auditJob # Nothing
    <3>1. \A l \in Layers : auditJob.layers[l] \in Layer \cup {Nothing}
      BY <2>2 DEF TypeOK, AuditJob
    <3>2. \A l \in Layers : auditJob.layers[l] # Nothing =>
              LayerTrue(auditJob.layers[l], auditJob.code, cases'[l], edits' + 1)
      BY <1>2, <2>2, <3>1, LayerStays DEF AuditJobTrue
    <3>3. \A l : CasesRun(l)' = CasesRun(l)
      BY <1>2 DEF CasesRun
    <3> QED  BY <1>2, <2>2, <3>2, <3>3 DEF AuditJobTrue
  <2> QED  BY <2>1, <2>2
<1> QED  BY <1>1, <1>2

\* What the steps of the audit add is true of them.
LEMMA AuditStep ==
    ASSUME TypeOK, TypeOK', WorldKnown, AuditTrue, AuditJobTrue, [Next]_releaseVars
    PROVE  AuditTrue' /\ AuditJobTrue'
<1> USE NothingIsNoRecord
<1>0. /\ Layers = {"agent", "scorer"}
      /\ auditJob # Nothing => auditJob \in AuditJob /\ auditJob.at \in Layers
  BY DEF Layers, TypeOK, AuditJob
<1>1. CASE StartAudit
  BY <1>0, <1>1 DEF StartAudit, AuditTrue, AuditJobTrue, Unrun
<1>2. CASE StartLayer
  <2>1. AuditTrue'
    BY <1>2, AuditStays DEF StartLayer
  <2> DEFINE l == auditJob.at
             layer == [runtime |-> runtime, root |-> cases[l], records |-> {}]
  <2>2. /\ auditJob # Nothing /\ auditJob \in AuditJob /\ l \in Layers
        /\ auditJob.layers[l] = Nothing
    BY <1>0, <1>2 DEF StartLayer
  <2>3. /\ auditJob' # Nothing
        /\ auditJob'.layers = [auditJob.layers EXCEPT ![l] = layer]
        /\ auditJob'.at = l /\ auditJob'.ended = auditJob.ended
        /\ auditJob'.code = IF l = "agent" THEN runtime ELSE auditJob.code
    BY <1>2, <2>2 DEF StartLayer, AuditJob, Nothing
  <2>4. LayerTrue(layer, auditJob'.code, cases'[l], edits' + 1)
    BY <1>2, <2>2 DEF LayerTrue, WorldKnown, StartLayer, AuditGoes, Going, world
  <2>5. \A k \in Layers : k # l /\ auditJob'.layers[k] # Nothing =>
            LayerTrue(auditJob'.layers[k], auditJob'.code, cases'[k], edits' + 1)
    <3> SUFFICES ASSUME NEW k \in Layers, k # l, auditJob'.layers[k] # Nothing
                 PROVE  LayerTrue(auditJob'.layers[k], auditJob'.code, cases'[k], edits' + 1)
      OBVIOUS
    <3>1. auditJob'.layers[k] = auditJob.layers[k] /\ auditJob.layers[k] \in Layer
      BY <2>2, <2>3 DEF AuditJob
    <3>2. l # "agent"
      BY <1>0, <2>2, <3>1 DEF AuditJobTrue
    <3>3. LayerTrue(auditJob.layers[k], auditJob.code, cases[k], edits + 1)
      BY <2>2, <3>1 DEF AuditJobTrue
    <3>4. auditJob'.code = auditJob.code
      BY <2>3, <3>2
    <3> QED  BY <3>1, <3>3, <3>4, LayerStays
  <2>6. \A k \in auditJob'.ended : auditJob'.layers[k] # Nothing /\ CasesRun(k)' = Cases[k]
    <3> SUFFICES ASSUME NEW k \in auditJob.ended
                 PROVE  auditJob'.layers[k] # Nothing /\ CasesRun(k)' = Cases[k]
      BY <2>3
    <3>1. k \in Layers /\ k # l /\ auditJob'.layers[k] = auditJob.layers[k]
      BY <2>2, <2>3 DEF AuditJob, AuditJobTrue
    <3> QED  BY <2>2, <3>1 DEF AuditJobTrue, CasesRun
  <2>7. auditJob'.layers[l] = layer /\ layer # Nothing
    BY <2>2, <2>3 DEF AuditJob, Nothing
  <2>8. auditJob'.at = "agent" => auditJob'.layers["scorer"] = Nothing
    BY <2>2, <2>3 DEF AuditJob, AuditJobTrue, Layers
  <2>9. auditJob'.layers["agent"] # Nothing =>
            auditJob'.code = auditJob'.layers["agent"].runtime
    <3>1. CASE l = "agent"
      BY <2>3, <2>7, <3>1
    <3>2. CASE l # "agent"
      BY <1>0, <2>2, <2>3, <3>2 DEF AuditJobTrue, AuditJob
    <3> QED  BY <3>1, <3>2
  <2>10. \A k \in Layers : auditJob'.layers[k] # Nothing =>
            LayerTrue(auditJob'.layers[k], auditJob'.code, cases'[k], edits' + 1)
    <3>1. LayerTrue(auditJob'.layers[l], auditJob'.code, cases'[l], edits' + 1)
      BY <2>4, <2>7, <1>2 DEF LayerTrue, StartLayer, AuditGoes, Going, world
    <3> QED  BY <2>5, <3>1
  <2> QED  BY <2>1, <2>6, <2>8, <2>9, <2>10 DEF AuditJobTrue
<1>3. CASE RunCase
  <2>1. AuditTrue'
    BY <1>3, AuditStays DEF RunCase
  <2> DEFINE l == auditJob.at
  <2>2. /\ auditJob # Nothing /\ auditJob \in AuditJob /\ l \in Layers
        /\ auditJob.layers[l] # Nothing /\ auditJob.layers[l] \in Layer
        /\ l \notin auditJob.ended
    BY <1>0, <1>3 DEF RunCase, AuditJob
  <2>3. PICK c \in Cases[l] \ CasesRun(l), outcome \in DOMAIN CaseStatus :
            /\ Expected(l, c) = "error" => outcome = "error"
            /\ auditJob' = [auditJob EXCEPT !.layers[l].records =
                                @ \cup {Examined(l, c, outcome)}]
    BY <1>3 DEF RunCase
  <2> DEFINE record == Examined(l, c, outcome)
             layer == [auditJob.layers[l] EXCEPT
                           !.records = auditJob.layers[l].records \cup {record}]
  <2>4. /\ record.on.code = auditJob.code /\ record.on.input = cases[l]
        /\ record.outcome = "match" => record.on.task # Absent
    BY <2>3 DEF Examined, Expected
  <2>5. /\ auditJob' # Nothing
        /\ auditJob'.layers = [auditJob.layers EXCEPT ![l] = layer]
        /\ auditJob'.at = l /\ auditJob'.ended = auditJob.ended
        /\ auditJob'.code = auditJob.code
    <3> HIDE DEF record
    <3> QED  BY <2>2, <2>3 DEF AuditJob, Nothing, record
  <2>6. /\ layer.root = auditJob.layers[l].root
        /\ layer.runtime = auditJob.layers[l].runtime
        /\ layer.records = auditJob.layers[l].records \cup {record}
        /\ layer # Nothing
    <3> HIDE DEF record
    <3> QED  BY <2>2 DEF Layer, Nothing
  <2> HIDE DEF record, layer
  <2>7. cases' = cases /\ edits' = edits
    BY <1>3 DEF RunCase, AuditGoes, Going, world
  <2>8. auditJob'.layers[l] = layer /\ \A k \in Layers \ {l} : auditJob'.layers[k] = auditJob.layers[k]
    BY <2>2, <2>5 DEF AuditJob
  <2>9. LayerTrue(layer, auditJob'.code, cases'[l], edits' + 1)
    BY <2>2, <2>4, <2>5, <2>6, <2>7 DEF LayerTrue, AuditJobTrue
  <2>10. \A k \in Layers : auditJob'.layers[k] # Nothing =>
            LayerTrue(auditJob'.layers[k], auditJob'.code, cases'[k], edits' + 1)
    BY <2>2, <2>5, <2>7, <2>8, <2>9 DEF AuditJobTrue
  <2>11. \A k \in auditJob'.ended : auditJob'.layers[k] # Nothing /\ CasesRun(k)' = Cases[k]
    <3> SUFFICES ASSUME NEW k \in auditJob.ended
                 PROVE  auditJob'.layers[k] # Nothing /\ CasesRun(k)' = Cases[k]
      BY <2>5
    <3>1. k \in Layers \ {l}
      BY <2>2 DEF AuditJob
    <3> QED  BY <2>2, <2>8, <3>1 DEF AuditJobTrue, CasesRun
  <2>12. /\ auditJob'.at = "agent" => auditJob'.layers["scorer"] = Nothing
         /\ auditJob'.layers["agent"] # Nothing =>
                auditJob'.code = auditJob'.layers["agent"].runtime
    BY <1>0, <2>2, <2>5, <2>6, <2>8 DEF AuditJobTrue
  <2> QED  BY <2>1, <2>10, <2>11, <2>12 DEF AuditJobTrue
<1>4. CASE EndLayer
  <2>1. AuditTrue'
    BY <1>4, AuditStays DEF EndLayer
  <2>2. CASE auditJob' = Nothing
    BY <2>1, <2>2 DEF AuditJobTrue
  <2>3. CASE auditJob' # Nothing
    <3> DEFINE l == auditJob.at
    <3>1. /\ auditJob # Nothing /\ auditJob \in AuditJob /\ l \in Layers
          /\ auditJob.layers[l] # Nothing /\ CasesRun(l) = Cases[l]
          /\ auditJob' = [auditJob EXCEPT !.ended = @ \cup {l}, !.at = "scorer"]
      BY <1>0, <1>4, <2>3 DEF EndLayer
    <3>2. /\ auditJob'.layers = auditJob.layers /\ auditJob'.code = auditJob.code
          /\ auditJob'.at = "scorer" /\ auditJob'.ended = auditJob.ended \cup {l}
      BY <3>1 DEF AuditJob
    <3>3. cases' = cases /\ edits' = edits
      BY <1>4 DEF EndLayer, AuditGoes, Going, world
    <3>4. \A k : CasesRun(k)' = CasesRun(k)
      BY <3>2 DEF CasesRun
    <3>5. AuditJobTrue'
      BY <3>1, <3>2, <3>3, <3>4 DEF AuditJobTrue
    <3> QED  BY <2>1, <3>5
  <2> QED  BY <2>2, <2>3
<1>5. CASE FinishAudit
  <2>1. AuditJobTrue'
    BY <1>5 DEF FinishAudit, AuditJobTrue
  <2>2. CASE audit' = Nothing
    BY <2>1, <2>2 DEF AuditTrue
  <2>3. CASE audit' # Nothing
    <3>1. /\ auditJob # Nothing /\ auditJob \in AuditJob /\ auditJob.ended = Layers
          /\ audit' = [runtime |-> auditJob.layers["agent"].runtime,
                       layers |-> auditJob.layers]
      BY <1>0, <1>5, <2>3 DEF FinishAudit
    <3>2. \A l \in Layers : auditJob.layers[l] # Nothing /\ CasesRun(l) = Cases[l]
      BY <3>1 DEF AuditJobTrue
    <3>3. audit'.runtime = auditJob.code /\ audit'.layers = auditJob.layers
      BY <1>0, <3>1, <3>2 DEF AuditJobTrue
    <3>4. cases' = cases /\ edits' = edits
      BY <1>5 DEF FinishAudit, AuditGoes, Going, world
    <3>5. AuditTrue'
      BY <3>1, <3>2, <3>3, <3>4 DEF AuditTrue, AuditJobTrue, CasesRun
    <3> QED  BY <2>1, <3>5
  <2> QED  BY <2>2, <2>3
<1>6. CASE Interrupt
  BY <1>6, AuditStays DEF Interrupt, AuditJobTrue
<1>7. ASSUME ~StartAudit, ~StartLayer, ~RunCase, ~EndLayer, ~FinishAudit, ~Interrupt
      PROVE  UNCHANGED <<audit, auditJob>>
  <2>1. CASE \/ EditHarness \/ EditCases \/ EditTask \/ ReturnTask \/ DiscardSource
             \/ UNCHANGED releaseVars
    BY <2>1 DEF EditHarness, EditCases, EditTask, Edit, ReturnTask, DiscardSource, jobs, releaseVars,
                artifacts
  <2>2. CASE \/ StartControls \/ HashTasks \/ RunControl \/ CalibrateCheck \/ RefuseItem
             \/ CheckControls \/ WriteResults \/ WriteManifest
    BY <2>2 DEF StartControls, HashTasks, RunControl, CalibrateCheck, RefuseItem, CheckControls,
                WriteResults, WriteManifest, ControlsGo, artifacts
  <2>3. CASE StartEval \/ RunAttempt \/ FinishEval \/ ExportTrajectories
    BY <2>3 DEF StartEval, RunAttempt, FinishEval, ExportTrajectories, EvalGoes, artifacts
  <2> QED  BY <1>7, <2>1, <2>2, <2>3 DEF Next
<1> QED  BY <1>1, <1>2, <1>3, <1>4, <1>5, <1>6, <1>7, AuditStays

LEMMA CalibrationsStay ==
    ASSUME TypeOK, TypeOK', WorldKnown, [Next]_releaseVars
    PROVE  /\ ControlsTrue /\ controls'.manifest = controls.manifest => ControlsTrue'
           /\ ControlJobTrue /\ UNCHANGED controlJob => ControlJobTrue'
<1>1. ASSUME ControlsTrue, controls'.manifest = controls.manifest
      PROVE  ControlsTrue'
  <2>1. CASE controls.manifest = Nothing
    BY <1>1, <2>1 DEF ControlsTrue, Nothing
  <2>2. CASE controls.manifest # Nothing
    <3>1. controls.manifest \in Calibrating
      BY <2>2 DEF TypeOK, ControlDirectory
    <3>2. CalibrationTrue(controls.manifest) /\ CalibrationValid(controls.manifest)
      BY <1>1, <2>2 DEF ControlsTrue
    <3>3. PICK m \in Calibrating : m = controls.manifest
      BY <3>1
    <3>4. CalibrationTrue(m)'
      BY <3>2, <3>3, CalibrationStays
    <3> QED  BY <1>1, <2>2, <3>2, <3>3, <3>4 DEF ControlsTrue
  <2> QED  BY <2>1, <2>2
<1>2. ASSUME ControlJobTrue, UNCHANGED controlJob
      PROVE  ControlJobTrue'
  <2>1. CASE controlJob = Nothing
    BY <1>2, <2>1 DEF ControlJobTrue, Nothing
  <2>2. CASE controlJob # Nothing
    <3>1. controlJob.run \in Calibrating
      BY <2>2 DEF TypeOK, ControlJob
    <3>2. CalibrationTrue(controlJob.run)
      BY <1>2, <2>2 DEF ControlJobTrue
    <3>3. PICK m \in Calibrating : m = controlJob.run
      BY <3>1
    <3>4. CalibrationTrue(m)'
      BY <3>2, <3>3, CalibrationStays
    <3> QED  BY <1>2, <2>2, <3>3, <3>4 DEF ControlJobTrue
  <2> QED  BY <2>1, <2>2
<1> QED  BY <1>1, <1>2

LEMMA ControlsStep ==
    ASSUME TypeOK, TypeOK', WorldKnown, ControlsTrue, ControlJobTrue, [Next]_releaseVars
    PROVE  ControlsTrue' /\ ControlJobTrue'
<1> USE NothingIsNoRecord
<1>0. /\ controls \in ControlDirectory
      /\ controlJob # Nothing => controlJob \in ControlJob /\ controlJob.run \in Calibrating
  BY DEF TypeOK, ControlJob
<1>a. \A i : Use(i) => controls'.manifest = controls.manifest
  BY <1>0 DEF Use, ControlDirectory
<1>1. CASE StartControls
  <2> DEFINE unhashed == [t \in Tasks |-> Absent]
  <2>1. PICK repeats \in 1..MaxRepeats : controlJob' =
            [phase |-> "hash", found |-> Present, todo |-> {},
             run   |-> [id |-> runs + 1, runtime |-> runtime, hashes |-> unhashed,
                        repeats |-> repeats, records |-> {}, calibrations |-> {}]]
    BY <1>1 DEF StartControls
  <2>2. controls' = controls /\ edits' = edits /\ edits \in Nat
    BY <1>1, ReleaseAssumption DEF StartControls, artifacts, Begin, TypeOK
  <2>3. /\ controlJob'.run.hashes = unhashed
        /\ controlJob'.run.records \cup controlJob'.run.calibrations = {}
    BY <2>1
  <2>4. ControlJobTrue'
    BY <2>2, <2>3 DEF ControlJobTrue, CalibrationTrue, Absent
  <2> QED  BY <2>2, <2>4, CalibrationsStay
<1>9. CASE HashTasks
  <2>1. controls' = controls /\ edits' = edits /\ pack' = pack
    BY <1>9 DEF HashTasks, ControlsGo, Going, world
  <2>2. CASE controlJob' = Nothing
    BY <2>1, <2>2, CalibrationsStay DEF ControlJobTrue
  <2>3. CASE controlJob' # Nothing
    <3> DEFINE hashes == [t \in Tasks |-> IF t \in controlJob.found THEN There(t) ELSE Absent]
    <3>1. /\ controlJob # Nothing /\ controlJob.phase = "hash" /\ controlJob'.phase = "work"
          /\ controlJob'.run = [controlJob.run EXCEPT !.hashes = hashes]
      BY <1>0, <1>9, <2>3 DEF HashTasks, ControlJob
    <3>2. /\ controlJob'.run.hashes = hashes
          /\ controlJob'.run.records \cup controlJob'.run.calibrations = {}
      <4> HIDE DEF hashes
      <4> QED  BY <1>0, <3>1 DEF Calibrating, ControlJobTrue
    <3>3. \A t \in Tasks : hashes[t] <= edits + 1
      BY ReleaseAssumption DEF There, WorldKnown, TypeOK, Absent
    <3>4. ControlJobTrue'
      BY <2>1, <3>1, <3>2, <3>3 DEF ControlJobTrue, CalibrationTrue
    <3> QED  BY <2>1, <3>4, CalibrationsStay
  <2> QED  BY <2>2, <2>3
<1>2. CASE RunControl
  <2>1. PICK i \in NextItems, differs \in SUBSET Fields, files \in Results :
            /\ Runnable(i) /\ Use(i)
            /\ controlJob' = [controlJob EXCEPT !.todo = @ \ {i},
                  !.run.records = @ \cup {[item |-> i, differs |-> differs,
                                           files |-> files, on |-> Now(i)]}]
    BY <1>2 DEF RunControl
  <2>2. controlJob \in ControlJob /\ controlJob # Nothing /\ controlJob.run \in Calibrating
    BY <1>0, <1>2 DEF RunControl, Working
  <2> DEFINE record == [item |-> i, differs |-> differs, files |-> files, on |-> Now(i)]
  <2>3. /\ controlJob'.run.hashes = controlJob.run.hashes
        /\ controlJob'.run.runtime = controlJob.run.runtime
        /\ controlJob.phase = "work" /\ controlJob'.phase = "work"
        /\ controlJob'.run.records = controlJob.run.records \cup {record}
        /\ controlJob'.run.calibrations = controlJob.run.calibrations
    BY <1>2, <2>1, <2>2 DEF RunControl, Working, ControlJob, Calibrating
  <2>4. /\ record.item = i /\ record.on.code = controlJob.run.runtime
        /\ record.on.input = pack[i.task]
    BY <1>2, <2>1, StepOfControls DEF RunControl, Now
  <2>5. pack' = pack /\ edits' = edits
    BY <1>2 DEF RunControl, ControlsGo, Going, world
  <2> HIDE DEF record
  <2>6. ControlJobTrue'
    BY <2>2, <2>3, <2>4, <2>5 DEF ControlJobTrue, CalibrationTrue
  <2> QED  BY <1>a, <2>1, <2>6, CalibrationsStay
<1>3. CASE CalibrateCheck
  <2>1. PICK i \in NextItems, check \in CheckRuns :
            /\ Runnable(i) /\ Use(i)
            /\ controlJob' = [controlJob EXCEPT !.todo = @ \ {i},
                  !.run.calibrations = @ \cup {[item |-> i, hash |-> There(i.task),
                                                check |-> check, on |-> Now(i)]}]
    BY <1>3 DEF CalibrateCheck
  <2>2. controlJob \in ControlJob /\ controlJob # Nothing /\ controlJob.run \in Calibrating
    BY <1>0, <1>3 DEF CalibrateCheck, Working
  <2> DEFINE record == [item |-> i, hash |-> There(i.task), check |-> check, on |-> Now(i)]
  <2>3. /\ controlJob'.run.hashes = controlJob.run.hashes
        /\ controlJob'.run.runtime = controlJob.run.runtime
        /\ controlJob.phase = "work" /\ controlJob'.phase = "work"
        /\ controlJob'.run.records = controlJob.run.records
        /\ controlJob'.run.calibrations = controlJob.run.calibrations \cup {record}
    BY <1>3, <2>1, <2>2 DEF CalibrateCheck, Working, ControlJob, Calibrating
  <2>4. /\ record.item = i /\ record.on.code = controlJob.run.runtime
        /\ record.on.input = pack[i.task]
    BY <1>3, <2>1, StepOfControls DEF CalibrateCheck, Now
  <2>5. pack' = pack /\ edits' = edits
    BY <1>3 DEF CalibrateCheck, ControlsGo, Going, world
  <2> HIDE DEF record
  <2>6. ControlJobTrue'
    BY <2>2, <2>3, <2>4, <2>5 DEF ControlJobTrue, CalibrationTrue
  <2> QED  BY <1>a, <2>1, <2>6, CalibrationsStay
<1>4. CASE RefuseItem
  BY <1>4, CalibrationsStay DEF RefuseItem, ControlJobTrue
<1>5. CASE CheckControls \/ WriteResults
  <2>1. controls'.manifest = controls.manifest
    BY <1>0, <1>5 DEF CheckControls, WriteResults, ControlDirectory
  <2>2. \/ controlJob' = Nothing
        \/ controlJob'.run = controlJob.run /\ controlJob'.phase # "hash"
    BY <1>0, <1>5 DEF CheckControls, WriteResults, Working, ControlJob
  <2>3. pack' = pack /\ edits' = edits /\ controlJob # Nothing
    BY <1>5 DEF CheckControls, WriteResults, Working, ControlsGo, Going, world
  <2>4. ControlJobTrue'
    BY <2>2, <2>3 DEF ControlJobTrue, CalibrationTrue
  <2> QED  BY <2>1, <2>4, CalibrationsStay
<1>6. CASE WriteManifest
  <2>1. ControlJobTrue'
    BY <1>6 DEF WriteManifest, ControlJobTrue
  <2>2. CASE CalibrationValid(controlJob.run)
    <3>1. controls'.manifest = controlJob.run /\ controlJob # Nothing
      BY <1>0, <1>6, <2>2 DEF WriteManifest, ControlDirectory
    <3>2. pack' = pack /\ edits' = edits
      BY <1>6 DEF WriteManifest, ControlsGo, Going, world
    <3>3. ControlsTrue'
      BY <2>2, <3>1, <3>2 DEF ControlsTrue, ControlJobTrue, CalibrationTrue
    <3> QED  BY <2>1, <3>3
  <2>3. CASE ~CalibrationValid(controlJob.run)
    BY <1>6, <2>1, <2>3, CalibrationsStay DEF WriteManifest
  <2> QED  BY <2>2, <2>3
<1>7. CASE Interrupt
  <2>1. ControlJobTrue'
    BY <1>7 DEF Interrupt, ControlJobTrue
  <2>2. controls'.manifest \in {controls.manifest, Nothing}
    BY <1>0, <1>7, <1>a DEF Interrupt, ControlDirectory
  <2>3. CASE controls'.manifest = Nothing
    BY <2>1, <2>3 DEF ControlsTrue, Nothing
  <2> QED  BY <2>1, <2>2, <2>3, CalibrationsStay
<1>8. ASSUME ~StartControls, ~HashTasks, ~RunControl, ~CalibrateCheck, ~RefuseItem, ~CheckControls,
             ~WriteResults, ~WriteManifest, ~Interrupt
      PROVE  UNCHANGED <<controls, controlJob>>
  <2>1. CASE \/ EditHarness \/ EditCases \/ EditTask \/ ReturnTask \/ DiscardSource
             \/ UNCHANGED releaseVars
    BY <2>1 DEF EditHarness, EditCases, EditTask, Edit, ReturnTask, DiscardSource, jobs, releaseVars,
                artifacts
  <2>2. CASE StartAudit \/ StartLayer \/ RunCase \/ EndLayer \/ FinishAudit
    BY <2>2 DEF StartAudit, StartLayer, RunCase, EndLayer, FinishAudit, AuditGoes
  <2>3. CASE StartEval \/ RunAttempt \/ FinishEval \/ ExportTrajectories
    BY <2>3 DEF StartEval, RunAttempt, FinishEval, ExportTrajectories, EvalGoes, artifacts
  <2> QED  BY <1>8, <2>1, <2>2, <2>3 DEF Next
<1> QED
  BY <1>1, <1>2, <1>3, <1>4, <1>5, <1>6, <1>7, <1>8, <1>9, CalibrationsStay

LEMMA SamplesStep ==
    ASSUME TypeOK, TypeOK', SamplesTrue, [Next]_releaseVars
    PROVE  SamplesTrue'
<1> USE NothingIsNoRecord
<1>0. /\ runs \in Nat
      /\ evalJob # Nothing => evalJob \in Evaluation
      /\ source # Nothing => source \in Evaluation
      /\ export # Nothing => export \in Trajectories
  BY ReleaseAssumption DEF TypeOK
<1>1. CASE StartEval
  <2>1. /\ evalJob'.id = runs + 1 /\ evalJob'.records = {}
        /\ runs' = runs + 1 /\ source' = source /\ export' = export
    BY <1>1 DEF StartEval, Begin, artifacts
  <2>2. export # Nothing => export.source \in Nat
    BY <1>0 DEF Trajectories
  <2>3. source # Nothing => source.id \in Nat
    BY <1>0 DEF Evaluation
  <2> QED  BY <1>0, <2>1, <2>2, <2>3 DEF SamplesTrue, Nothing
<1>2. CASE RunAttempt
  <2>1. PICK t \in (Selected(evalJob.hashes) \ SampledTasks) \cap Present :
            evalJob' = [evalJob EXCEPT !.records = @ \cup {[task |-> t, hash |-> There(t),
                on |-> [code |-> evalJob.runtime, input |-> There(t)]]}]
    BY <1>2 DEF RunAttempt
  <2> DEFINE sample == [task |-> t, hash |-> There(t),
                        on |-> [code |-> evalJob.runtime, input |-> There(t)]]
  <2>2. /\ evalJob'.id = evalJob.id /\ evalJob'.runtime = evalJob.runtime
        /\ evalJob'.records = evalJob.records \cup {sample}
        /\ evalJob # Nothing
    BY <1>0, <1>2, <2>1 DEF RunAttempt, Evaluation
  <2>3. sample.on = [code |-> evalJob.runtime, input |-> sample.hash]
    OBVIOUS
  <2>4. UNCHANGED <<source, export, runs>>
    BY <1>2 DEF RunAttempt, EvalGoes, Going
  <2> HIDE DEF sample
  <2> QED  BY <2>2, <2>3, <2>4 DEF SamplesTrue, Nothing
<1>3. CASE FinishEval
  <2>1. UNCHANGED <<export, runs>> /\ evalJob' = Nothing /\ source' \in {source, evalJob}
        /\ evalJob # Nothing
    BY <1>3 DEF FinishEval, EvalGoes, Going
  <2>2. CASE source' = source
    BY <2>1, <2>2 DEF SamplesTrue, Nothing
  <2>3. CASE source' = evalJob
    <3>1. export # Nothing => export.source < evalJob.id /\ export.source \in Int
                              /\ evalJob.id \in Int
      BY <1>0, <2>1 DEF SamplesTrue, Trajectories, Evaluation
    <3> QED  BY <2>1, <2>3, <3>1 DEF SamplesTrue, Nothing
  <2> QED  BY <2>1, <2>2, <2>3
<1>4. CASE ExportTrajectories
  <2>1. UNCHANGED <<source, runs, evalJob>> /\ evalJob = Nothing /\ source # Nothing
        /\ export' = [source |-> source.id, records |-> source.records]
    BY <1>4 DEF ExportTrajectories, EvalGoes, Going, Idle
  <2>2. source.id <= runs /\ \A x \in source.records :
            x.on.code = source.runtime /\ x.on.input = x.hash
    <3>1. /\ source.id <= runs
          /\ \A x \in source.records : x.on = [code |-> source.runtime, input |-> x.hash]
      BY <2>1 DEF SamplesTrue
    <3>2. ASSUME NEW x \in source.records
          PROVE  x.on.code = source.runtime /\ x.on.input = x.hash
      <4>1. x.on = [code |-> source.runtime, input |-> x.hash]
        BY <3>1
      <4> QED  BY <4>1
    <3> QED  BY <3>1, <3>2
  <2>3. export'.source = source.id /\ export'.records = source.records
    BY <2>1
  <2> QED  BY <2>1, <2>2, <2>3 DEF SamplesTrue, Nothing
<1>5. CASE Interrupt
  <2>1. UNCHANGED <<export, runs, source>> /\ evalJob' = Nothing
    BY <1>5 DEF Interrupt, Going
  <2> QED  BY <2>1 DEF SamplesTrue, Nothing
<1>6. CASE DiscardSource
  <2>1. UNCHANGED <<export, runs, evalJob>> /\ source' = Nothing
    BY <1>6 DEF DiscardSource, jobs
  <2> QED  BY <2>1 DEF SamplesTrue, Nothing
<1>7. ASSUME ~StartEval, ~RunAttempt, ~FinishEval, ~ExportTrajectories, ~Interrupt,
             ~DiscardSource
      PROVE  UNCHANGED <<source, export, evalJob>> /\ runs' \in {runs, runs + 1}
  <2>1. CASE EditHarness \/ EditCases \/ EditTask \/ ReturnTask \/ UNCHANGED releaseVars
    BY <2>1 DEF EditHarness, EditCases, EditTask, Edit, ReturnTask, jobs, releaseVars, artifacts
  <2>2. CASE StartAudit \/ StartLayer \/ RunCase \/ EndLayer \/ FinishAudit
    BY <2>2 DEF StartAudit, StartLayer, RunCase, EndLayer, FinishAudit, AuditGoes, Begin,
                Going
  <2>3. CASE \/ StartControls \/ HashTasks \/ RunControl \/ CalibrateCheck \/ RefuseItem
             \/ CheckControls \/ WriteResults \/ WriteManifest
    BY <2>3 DEF StartControls, HashTasks, RunControl, CalibrateCheck, RefuseItem, CheckControls,
                WriteResults, WriteManifest, ControlsGo, Begin, Going, artifacts
  <2> QED  BY <1>7, <2>1, <2>2, <2>3 DEF Next
<1>8. CASE UNCHANGED <<source, export, evalJob>> /\ runs' \in {runs, runs + 1}
  <2>1. /\ evalJob # Nothing => evalJob.id \in Nat
        /\ source # Nothing => source.id \in Nat
        /\ export # Nothing => export.source \in Nat
    BY <1>0 DEF Evaluation, Trajectories
  <2> QED  BY <1>0, <1>8, <2>1 DEF SamplesTrue, Nothing
<1> QED  BY <1>1, <1>2, <1>3, <1>4, <1>5, <1>6, <1>7, <1>8

-----------------------------------------------------------------------------
(* What the invariant says of a release that is trusted                    *)

\* Worst is PASS of statuses that all are.
LEMMA WorstPasses ==
    ASSUME NEW statuses, Worst(statuses) = "PASS", NEW s \in statuses
    PROVE  s \notin {"FAIL", "INCONCLUSIVE"}
BY DEF Worst

LEMMA TrustedAudit ==
    ASSUME TypeOK, AuditTrue, Trusted
    PROVE  AuditHolds
<1>1. /\ audit # Nothing /\ audit \in AuditArtifact
      /\ HarnessStatus(audit.layers) = "PASS" /\ audit.runtime = runtime
      /\ \A l \in Layers : audit.layers[l].root = cases[l]
  BY DEF Trusted, AuditPasses, RuntimesAgree, CasesCurrent, TypeOK
<1> SUFFICES ASSUME NEW l \in Layers, NEW c \in Cases[l]
             PROVE  \E r \in audit.layers[l].records :
                        /\ r.case = c /\ r.outcome = "match"
                        /\ r.on.code = runtime /\ r.on.input = cases[l]
                        /\ r.on.task # Absent
  BY DEF AuditHolds
<1> DEFINE records == audit.layers[l].records
<1>2. records \subseteq CaseRecord /\ {r.case : r \in records} = Cases[l]
  BY <1>1 DEF AuditArtifact, Layer, AuditTrue
<1>3. PICK r \in records : r.case = c
  BY <1>2
<1>4. LayerStatus(records) \notin {"FAIL", "INCONCLUSIVE"}
  <2>1. LayerStatus(records) \in {LayerStatus(audit.layers[k].records) : k \in Layers}
    OBVIOUS
  <2> QED  BY <1>1, <2>1, WorstPasses DEF HarnessStatus
<1>5. LayerStatus(records) = "PASS"
  BY <1>4 DEF LayerStatus, Worst
<1>6. CaseStatus[r.outcome] \notin {"FAIL", "INCONCLUSIVE"}
  <2>1. CaseStatus[r.outcome] \in {CaseStatus[q.outcome] : q \in records}
    BY <1>3
  <2> QED  BY <1>5, <2>1, WorstPasses DEF LayerStatus
<1>7. r.outcome = "match"
  BY <1>2, <1>3, <1>6 DEF CaseRecord, CaseStatus
<1>8. r.on.code = runtime /\ r.on.input = cases[l] /\ r.on.task # Absent
  BY <1>1, <1>3, <1>7 DEF AuditTrue, LayerTrue
<1> QED  BY <1>3, <1>7, <1>8

LEMMA TrustedSamples ==
    ASSUME TypeOK, SamplesTrue, Trusted
    PROVE  SamplesAreCurrent
<1>1. /\ export # Nothing /\ export \in Trajectories /\ source # Nothing
      /\ export.source = source.id /\ source.runtime = runtime
  BY DEF Trusted, SourcePinned, RuntimesAgree, TypeOK
<1> SUFFICES ASSUME NEW x \in export.records
             PROVE  x.on = [code |-> runtime, input |-> There(x.task)]
  BY DEF SamplesAreCurrent
<1>2. x.on.code = runtime /\ x.on.input = x.hash
  BY <1>1 DEF SamplesTrue
<1>3. x.hash = There(x.task)
  BY DEF Trusted, TasksMatch
<1>4. x.on \in Origin
  BY <1>1 DEF Trajectories, Sample
<1> QED  BY <1>2, <1>3, <1>4 DEF Origin

\* Each control of a selected task has a first and a second repeat, and what
\* they left is alike.
LEMMA TrustedControls ==
    ASSUME TypeOK, ControlsTrue, Trusted,
           NEW t \in Selected(controls.manifest.hashes)
    PROVE  CalibrationIsCurrent(t)
<1> DEFINE m == controls.manifest
           now == [code |-> runtime, input |-> There(t)]
<1>1. m # Nothing /\ m \in Calibrating /\ CalibrationTrue(m) /\ CalibrationValid(m)
  BY DEF Trusted, ControlsPass, TypeOK, ControlDirectory, ControlsTrue
<1>2. /\ m.repeats >= 2 /\ OverallMatch(m.records, m.calibrations, m.repeats)
      /\ m.runtime = runtime /\ There(t) = m.hashes[t] /\ There(t) # Absent /\ t \in Tasks
      /\ {c.item : c \in m.calibrations} = CalibrationItems(Selected(m.hashes))
      /\ \A c \in m.calibrations : IdempotencyStatus(c.check) = "IDEMPOTENT"
  BY DEF Trusted, ControlsPass, RuntimesAgree, TasksMatch, ChecksCovered, Selected,
         MINIMUM_TRAINING_CONTROL_REPEATS
<1>3. \A r \in m.records \cup m.calibrations : r.item.task = t => r.on = now
  <2> SUFFICES ASSUME NEW r \in m.records \cup m.calibrations, r.item.task = t
               PROVE  r.on = now
    OBVIOUS
  <2>1. There(t) = pack[t]
    BY <1>2, WhatIsThere
  <2>3. r.on.code = runtime /\ r.on.input = There(t)
    BY <1>1, <1>2, <2>1 DEF CalibrationTrue
  <2>2. r.on \in Origin
    BY <1>1 DEF Calibrating, ControlRecord, Calibration
  <2> QED  BY <2>2, <2>3 DEF Origin
<1>4. ASSUME NEW k \in Controls
      PROVE  \E r, s \in m.records :
                /\ r.item.task = t /\ r.item.part = k /\ SameControl(r, s)
                /\ r.item.repeat # s.item.repeat
                /\ Match(r) /\ Match(s) /\ r.files = s.files
                /\ r.on = now /\ s.on = now
  <2> DEFINE item(n) == [task |-> t, part |-> k, repeat |-> n]
  <2>1. m.repeats \in Nat /\ m.repeats <= MaxRepeats
    BY <1>1, ReleaseAssumption DEF Calibrating
  <2>2. \A n \in {1, 2} : item(n) \in AttemptItems(Selected(m.hashes), m.repeats)
    BY <1>2, <2>1, ReleaseAssumption DEF AttemptItems, Item
  <2>3. {r.item : r \in m.records} = AttemptItems(Selected(m.hashes), m.repeats)
    BY <1>1 DEF CalibrationValid
  <2>4. PICK r \in m.records : r.item = item(1)
    BY <2>2, <2>3
  <2>5. PICK s \in m.records : s.item = item(2)
    BY <2>2, <2>3
  <2>6. SameControl(r, s) /\ SameControl(s, r)
    BY <2>4, <2>5 DEF SameControl
  <2>7. Match(r) /\ Match(s) /\ FlakeStatus(m.records, m.calibrations, m.repeats) = "stable"
    BY <1>2 DEF OverallMatch
  <2>8. DriftedRepeats(m.records) = {}
    BY <2>7 DEF FlakeStatus
  <2>9. r.files = s.files
    BY <2>4, <2>6, <2>8 DEF DriftedRepeats
  <2>10. r.on = now /\ s.on = now
    BY <1>3, <2>4, <2>5
  <2> QED  BY <2>4, <2>5, <2>6, <2>7, <2>9, <2>10
<1>5. ASSUME NEW k \in Checks[t]
      PROVE  \E c \in m.calibrations :
                /\ c.item.task = t /\ c.item.part = k
                /\ IdempotencyStatus(c.check) = "IDEMPOTENT" /\ c.on = now
  <2> DEFINE item == [task |-> t, part |-> k, repeat |-> 0]
  <2>1. k \in CheckNames
    BY <1>2 DEF CheckNames
  <2>2. item \in Item
    BY <1>2, <2>1, ReleaseAssumption DEF Item
  <2>3. item \in CalibrationItems(Selected(m.hashes))
    BY <2>2 DEF CalibrationItems
  <2>4. PICK c \in m.calibrations : c.item = item
    BY <1>2, <2>3
  <2> QED  BY <1>2, <1>3, <2>4
<1>6. Rows = m.records
  BY <1>1 DEF Trusted, ControlsPass, Rows, Nothing
<1> QED  BY <1>4, <1>5, <1>6 DEF CalibrationIsCurrent

LEMMA IInvImpliesTrustedIsCurrent ==
    ASSUME IInv
    PROVE  TrustedIsCurrent
<1> SUFFICES ASSUME Trusted
             PROVE  /\ AuditHolds /\ SamplesAreCurrent
                    /\ \A x \in export.records : CalibrationIsCurrent(x.task)
  BY DEF TrustedIsCurrent
<1>1. \A x \in export.records : x.task \in Selected(controls.manifest.hashes)
  BY DEF Trusted, TasksMatch
<1> QED  BY <1>1, TrustedAudit, TrustedSamples, TrustedControls DEF IInv

-----------------------------------------------------------------------------
(* The theorems                                                            *)

LEMMA InitIInv ==
    ASSUME Init
    PROVE  IInv
<1>1. edits = 0 /\ \A l \in Layers : cases[l] = 1
  BY DEF Init
<1>2. \A t \in Tasks : pack[t] \in {0, 1}
  BY DEF Init, Absent
<1>3. WorldKnown
  BY <1>1, <1>2 DEF WorldKnown
<1>4. /\ audit = Nothing /\ source = Nothing /\ export = Nothing
      /\ controls.manifest = Nothing
      /\ auditJob = Nothing /\ controlJob = Nothing /\ evalJob = Nothing
  BY DEF Init
<1>5. AuditTrue /\ AuditJobTrue /\ ControlsTrue /\ ControlJobTrue /\ SamplesTrue
  BY <1>4 DEF AuditTrue, AuditJobTrue, ControlsTrue, ControlJobTrue, SamplesTrue
<1> QED  BY <1>3, <1>5, InitType DEF IInv

LEMMA NextIInv ==
    ASSUME IInv, [Next]_releaseVars
    PROVE  IInv'
<1>1. TypeOK'
  BY NextType DEF IInv
<1> QED  BY <1>1, WorldStep, AuditStep, ControlsStep, SamplesStep DEF IInv

\* Every variable keeps its type.
THEOREM TypeCorrect == Spec => []TypeOK
<1>1. Init => IInv
  BY InitIInv
<1>2. IInv /\ [Next]_releaseVars => IInv'
  BY NextIInv
<1>3. IInv => TypeOK
  BY DEF IInv
<1> QED  BY <1>1, <1>2, <1>3, PTL DEF Spec

\* Whatever is edited, interrupted or run again between the commands, a release
\* that validates rests on trajectories and controls of the harness and the tasks
\* as they are, and on audit cases as they are, run by that harness.  The task a
\* case ran on was there then; nothing compares it again (validate_training_release_trust).
THEOREM TrustRests == Spec => []TrustedIsCurrent
<1>1. Init => IInv
  BY InitIInv
<1>2. IInv /\ [Next]_releaseVars => IInv'
  BY NextIInv
<1>3. IInv => TrustedIsCurrent
  BY IInvImpliesTrustedIsCurrent
<1> QED  BY <1>1, <1>2, <1>3, PTL DEF Spec
=============================================================================
