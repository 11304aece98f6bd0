------------------------------- MODULE Release -------------------------------
(***************************************************************************)
(* The evidence a release of training data rests on, and its validation:   *)
(* the harness audit (src/agentenv/audits), the control calibration        *)
(* (src/agentenv/controls), the evaluation the trajectories come from, and *)
(* validate_training_release_trust (src/agentenv/training/release).        *)
(*                                                                         *)
(* Each command hashes its inputs, works through them for a long time and  *)
(* writes its manifest at the end, while harness, cases and tasks are      *)
(* edited.  A hash is the number of the edit that made the contents.  What *)
(* is edited is not restored while a command works on it, which no hash    *)
(* could tell; a task that is moved away may be put back as it was.  A     *)
(* process runs the code that was there when it took its first hash.       *)
(* What a record says of the inputs it was really obtained on, its field   *)
(* "on", is no part of the artifacts; no action reads it.                  *)
(***************************************************************************)
EXTENDS Integers, FiniteSets

CONSTANTS
    Tasks,          \* ids the tasks of the pack may have
    FirstTasks,     \* those it has at first
    Cases,          \* [Layers -> ids of the audit cases]
    CaseTask,       \* [ids -> [Version -> the task its case.yaml names then]]
    ScorerControls, \* names of the submissions every task has as controls
    AgentControls,  \* names of the model scripts it has
    Checks,         \* [Tasks -> public checks declared idempotent]
    CheckRuns,      \* sequences of runs a calibration may see
    Rank,           \* [Item -> the place in the order run_controls works in]
    MaxRepeats,     \* bound on the repeats of a control
    MaxEdits,       \* bound on edits of harness, cases, tasks and source
    MaxRuns,        \* bound on commands started
    MaxFaults       \* bound on deaths and on deviations from what is expected

VARIABLES
    runtime,    \* the harness on disk: source, dependencies, interpreter
    cases,      \* [Layers -> the case root on disk]
    pack,       \* [Tasks -> the task as last written, Absent if it never was]
    away,       \* the tasks whose directory is not in the pack now
    audit,      \* the harness audit artifact
    controls,   \* the control calibration directory
    source,     \* the evaluation's manifest and attempts
    export,     \* the trajectories exported from it
    auditJob, controlJob, evalJob,  \* the commands under way
    edits, runs, faults

world     == <<runtime, cases, pack, away>>
artifacts == <<audit, controls, source, export>>
jobs      == <<auditJob, controlJob, evalJob>>
releaseVars == <<world, artifacts, jobs, edits, runs, faults>>

Nothing == [nothing |-> TRUE]
Absent  == 0
Layers  == {"agent", "scorer"}
Results == {"usual", "unusual"}  \* what the artifacts of an attempt may be
MINIMUM_TRAINING_CONTROL_REPEATS == 2

Version == 1..(MaxEdits + 1)
Hash    == Version \cup {Absent}
Origin  == [code : Version, input : Hash]
Fresh   == edits + 2

CaseIds == UNION {Cases[l] : l \in Layers}

ASSUME ReleaseAssumption ==
    /\ MaxRepeats \in Nat \ {0} /\ MaxEdits \in Nat
    /\ MaxRuns \in Nat /\ MaxFaults \in Nat
    /\ FirstTasks \subseteq Tasks
    /\ CaseTask \in [CaseIds -> [Version -> Tasks]]

\* The task on disk.
There(t) == IF t \in away THEN Absent ELSE pack[t]
Present  == {t \in Tasks : There(t) # Absent}

-----------------------------------------------------------------------------
(* Public-check idempotency: a check is run again and again in one copy of *)
(* the workspace                                                           *)

Completed(check) == {i \in DOMAIN check : ~check[i].failed}

NonIdempotencyReasons(check) ==
    {reason \in {"WORKSPACE_STATE_DRIFT", "NORMALIZED_RESULT_DRIFT"} :
        \E i, j \in DOMAIN check :
            \/ /\ reason = "WORKSPACE_STATE_DRIFT"
               /\ {check[i].before, check[i].after} # {check[j].before}
            \/ /\ reason = "NORMALIZED_RESULT_DRIFT"
               /\ {i, j} \subseteq Completed(check)
               /\ check[i].result # check[j].result}

IdempotencyStatus(check) ==
    CASE NonIdempotencyReasons(check) # {}   -> "NON_IDEMPOTENT"
      [] /\ NonIdempotencyReasons(check) = {}
         /\ Completed(check) # DOMAIN check  -> "INCONCLUSIVE"
      [] OTHER                               -> "IDEMPOTENT"

-----------------------------------------------------------------------------
(* Control calibration                                                     *)

Controls == ScorerControls \cup AgentControls
CheckNames == UNION {Checks[t] : t \in Tasks}
Item == [task : Tasks, part : Controls \cup CheckNames, repeat : 0..MaxRepeats]

\* The directories run_controls fills: one for each declared check and one for
\* each repeat of each control.
CalibrationItems(ts) ==
    {i \in Item : i.task \in ts /\ i.part \in Checks[i.task] /\ i.repeat = 0}

AttemptItems(ts, repeats) ==
    {i \in Item : i.task \in ts /\ i.part \in Controls /\ i.repeat \in 1..repeats}

\* Where an attempt differs from what is expected of the control: in how the
\* prompt loop and its tools ended, or in the scorer's statuses.
Fields == {"loop", "score"}

\* files is the hash of an attempt's artifacts without what always varies.
ControlRecord == [item : Item, differs : SUBSET Fields, files : Results, on : Origin]
Calibration   == [item : Item, hash : Version, check : CheckRuns, on : Origin]

ScorerMatch(r) == "score" \notin r.differs

\* How the attempt of a script was scored is recorded, and not compared.
AgentMatch(r) == "loop" \notin r.differs

Match(r) == IF r.item.part \in ScorerControls THEN ScorerMatch(r) ELSE AgentMatch(r)

SameControl(r, s) == r.item.task = s.item.task /\ r.item.part = s.item.part

\* Repeat 1 is the reference of its group.
DriftedRepeats(records) ==
    {r \in records : \E s \in records :
        SameControl(r, s) /\ s.item.repeat = 1 /\ r.files # s.files}

FlakeStatus(records, calibrations, repeats) ==
    LET statuses == {IdempotencyStatus(c.check) : c \in calibrations}
    IN  CASE DriftedRepeats(records) # {} \/ "NON_IDEMPOTENT" \in statuses -> "drifted"
          [] /\ DriftedRepeats(records) = {} /\ "NON_IDEMPOTENT" \notin statuses
             /\ repeats < 2 \/ "INCONCLUSIVE" \in statuses -> "inconclusive"
          [] OTHER -> "stable"

OverallMatch(records, calibrations, repeats) ==
    /\ \A r \in records : Match(r)
    /\ FlakeStatus(records, calibrations, repeats) = "stable"

Selected(hashes) == {t \in Tasks : hashes[t] # Absent}

\* What the manifest's validator demands of it: every selected task has every
\* repeat of its controls, and a calibration is of the hashed task.
CalibrationValid(m) ==
    /\ {r.item : r \in m.records} = AttemptItems(Selected(m.hashes), m.repeats)
    /\ m.records # {}
    /\ \A c \in m.calibrations :
          /\ c.item.task \in Selected(m.hashes)
          /\ c.hash = m.hashes[c.item.task]

-----------------------------------------------------------------------------
(* Harness audit                                                           *)

\* The task a case was run on is one of its inputs; its hash is in the record.
CaseOrigin == [code : Version, input : Hash, task : Hash]
CaseRecord == [case : CaseIds, outcome : {"match", "mismatch", "error"}, on : CaseOrigin]

Worst(statuses) ==
    CASE "FAIL" \in statuses -> "FAIL"
      [] "FAIL" \notin statuses /\ "INCONCLUSIVE" \in statuses -> "INCONCLUSIVE"
      [] OTHER -> "PASS"

CaseStatus == [match |-> "PASS", mismatch |-> "FAIL", error |-> "INCONCLUSIVE"]

\* Faulty: a case that could not be run counts as one that was not there.
LayerStatus_ErrorsPass(records) ==
    Worst({CaseStatus[r.outcome] : r \in {q \in records : q.outcome # "error"}})

LayerStatus(records) == Worst({CaseStatus[r.outcome] : r \in records})

HarnessStatus(layers) == Worst({LayerStatus(layers[l].records) : l \in Layers})

-----------------------------------------------------------------------------
(* Types                                                                   *)

TaskHashes == [Tasks -> Hash]

Layer == [runtime : Version, root : Version, records : SUBSET CaseRecord]

AuditJob == [code : Version, at : Layers, ended : SUBSET Layers,
             layers : [Layers -> Layer \cup {Nothing}]]
AuditArtifact == [runtime : Version, layers : [Layers -> Layer]]

Calibrating == [id : 1..MaxRuns, runtime : Version, hashes : TaskHashes,
                repeats : 1..MaxRepeats, records : SUBSET ControlRecord,
                calibrations : SUBSET Calibration]
ControlJob == [phase : {"hash", "work", "results", "manifest"}, found : SUBSET Tasks,
               run : Calibrating, todo : SUBSET Item]
ResultRows == [id : 1..MaxRuns, records : SUBSET ControlRecord]
ControlDirectory == [used : SUBSET Item, results : ResultRows \cup {Nothing},
                     manifest : Calibrating \cup {Nothing}]

Sample == [task : Tasks, hash : Version, on : Origin]
Evaluation == [id : 1..MaxRuns, runtime : Version, hashes : TaskHashes,
               records : SUBSET Sample]
Trajectories == [source : 1..MaxRuns, records : SUBSET Sample]

\* Every variable has its type.
TypeOK ==
    /\ runtime \in Version
    /\ cases \in [Layers -> Version]
    /\ pack \in TaskHashes /\ away \subseteq Tasks
    /\ audit \in AuditArtifact \cup {Nothing}
    /\ controls \in ControlDirectory
    /\ source \in Evaluation \cup {Nothing}
    /\ export \in Trajectories \cup {Nothing}
    /\ auditJob \in AuditJob \cup {Nothing}
    /\ controlJob \in ControlJob \cup {Nothing}
    /\ evalJob \in Evaluation \cup {Nothing}
    /\ edits \in 0..MaxEdits /\ runs \in 0..MaxRuns /\ faults \in 0..MaxFaults

-----------------------------------------------------------------------------
(* Edits                                                                   *)

Edit ==
    /\ edits < MaxEdits
    /\ edits' = edits + 1
    /\ UNCHANGED <<audit, controls, export, jobs, runs, faults>>

EditHarness == Edit /\ runtime' = Fresh /\ UNCHANGED <<cases, pack, away, source>>

EditCases ==
    /\ Edit
    /\ \E l \in Layers : cases' = [cases EXCEPT ![l] = Fresh]
    /\ UNCHANGED <<runtime, pack, away, source>>

\* A task is written, or takes the place of another, or is removed.
WriteTask(t, u) ==
    /\ t \in Present \cup {u}
    /\ pack' = [pack EXCEPT ![u] = Fresh]
    /\ away' = (away \cup ({t} \cap Present)) \ {u}

RemoveTask(t) == t \in Present /\ away' = away \cup {t} /\ UNCHANGED pack

EditTask ==
    /\ Edit
    /\ \E t \in Tasks : RemoveTask(t) \/ \E u \in Tasks : WriteTask(t, u)
    /\ UNCHANGED <<runtime, cases, source>>

\* A task that was moved away is put back as it was.
ReturnTask ==
    /\ \E t \in away : away' = away \ {t}
    /\ UNCHANGED <<runtime, cases, pack, artifacts, jobs, edits, runs, faults>>

\* The evaluation's directory is removed, to run another one there.
DiscardSource ==
    /\ source # Nothing /\ source' = Nothing
    /\ UNCHANGED <<world, audit, controls, export, jobs, edits, runs, faults>>

-----------------------------------------------------------------------------
(* Commands.  They share nothing but what they read, so one at a time is   *)
(* as good as any number; edits come between any two of their steps.       *)

Idle == auditJob = Nothing /\ controlJob = Nothing /\ evalJob = Nothing

Begin ==
    /\ Idle /\ runs < MaxRuns
    /\ runs' = runs + 1
    /\ UNCHANGED <<world, edits, faults>>

Going == UNCHANGED <<world, edits, runs>>

\* What is seen deviates from what is expected in so many ways.
Observe(deviations) ==
    /\ faults + deviations <= MaxFaults
    /\ faults' = faults + deviations

Unless(expected) == IF expected THEN 0 ELSE 1

(* run_harness_audit *)

AuditGoes == Going /\ UNCHANGED <<controls, source, export, controlJob, evalJob>>

Unrun == [l \in Layers |-> Nothing]

\* The directory is emptied; the first layer has not begun.
StartAudit ==
    /\ Begin
    /\ audit' = Nothing
    /\ auditJob' = [code |-> runtime, at |-> "agent", ended |-> {}, layers |-> Unrun]
    /\ UNCHANGED <<controls, source, export, controlJob, evalJob>>

StartLayer ==
    /\ AuditGoes /\ auditJob # Nothing
    /\ LET l == auditJob.at
       IN  /\ auditJob.layers[l] = Nothing
           /\ auditJob' = [auditJob EXCEPT
                  !.layers[l] = [runtime |-> runtime, root |-> cases[l], records |-> {}],
                  !.code = IF l = "agent" THEN runtime ELSE @]
    /\ UNCHANGED <<audit, faults>>

CasesRun(l) == {r.case : r \in auditJob.layers[l].records}

\* The task the case names as it is now, Absent if it is gone.
Subject(l, c) == There(CaseTask[c][cases[l]])

\* The record of a case: all it declares was met, something was not, or its
\* preparation, its execution or its comparison raised.
Examined(l, c, outcome) ==
    [case |-> c, outcome |-> outcome,
     on |-> [code |-> auditJob.code, input |-> cases[l], task |-> Subject(l, c)]]

\* The preparation raises if the task is not there.
Expected(l, c) == IF Subject(l, c) = Absent THEN "error" ELSE "match"

RunCase ==
    /\ AuditGoes /\ auditJob # Nothing
    /\ LET l == auditJob.at
       IN  /\ auditJob.layers[l] # Nothing /\ l \notin auditJob.ended
           /\ \E c \in Cases[l] \ CasesRun(l), outcome \in DOMAIN CaseStatus :
                /\ Expected(l, c) = "error" => outcome = "error"
                /\ Observe(Unless(outcome = Expected(l, c)))
                /\ auditJob' = [auditJob EXCEPT !.layers[l].records =
                                    @ \cup {Examined(l, c, outcome)}]
    /\ UNCHANGED audit

EndLayer ==
    /\ AuditGoes /\ auditJob # Nothing
    /\ LET l == auditJob.at
       IN  /\ auditJob.layers[l] # Nothing /\ l \notin auditJob.ended
           /\ CasesRun(l) = Cases[l]
           /\ IF runtime = auditJob.layers[l].runtime
              THEN auditJob' = [auditJob EXCEPT !.ended = @ \cup {l}, !.at = "scorer"]
              ELSE auditJob' = Nothing
    /\ UNCHANGED <<audit, faults>>

FinishAudit ==
    /\ AuditGoes /\ auditJob # Nothing /\ auditJob.ended = Layers
    /\ LET seen == auditJob.layers["agent"].runtime
       IN  audit' = IF auditJob.layers["scorer"].runtime = seen /\ runtime = seen
                    THEN [runtime |-> seen, layers |-> auditJob.layers]
                    ELSE Nothing
    /\ auditJob' = Nothing
    /\ UNCHANGED faults

(* run_controls *)

ControlsGo == Going /\ UNCHANGED <<audit, source, export, auditJob, evalJob>>

\* The runtime is captured and the tasks are found; then these are hashed.
StartControls ==
    /\ Begin /\ Present # {}
    /\ \E repeats \in 1..MaxRepeats :
          controlJob' =
              [phase |-> "hash", found |-> Present, todo |-> {},
               run   |-> [id |-> runs + 1, runtime |-> runtime,
                          hashes |-> [t \in Tasks |-> Absent],
                          repeats |-> repeats, records |-> {}, calibrations |-> {}]]
    /\ UNCHANGED <<artifacts, auditJob, evalJob>>

HashTasks ==
    /\ ControlsGo /\ controlJob # Nothing /\ controlJob.phase = "hash"
    /\ LET found == controlJob.found
       IN  controlJob' = IF found \subseteq Present
                         THEN [controlJob EXCEPT
                                 !.phase = "work",
                                 !.run.hashes = [t \in Tasks |->
                                    IF t \in found THEN There(t) ELSE Absent],
                                 !.todo = CalibrationItems(found)
                                    \cup AttemptItems(found, controlJob.run.repeats)]
                         ELSE Nothing
    /\ UNCHANGED <<controls, faults>>

Working == controlJob # Nothing /\ controlJob.phase = "work"

\* What is worked on next, none once all is done.
NextItems == {i \in controlJob.todo : \A j \in controlJob.todo : Rank[i] <= Rank[j]}

\* Faulty: a task that is gone is worked on.
Runnable_TaskGone(i) == i \notin controls.used

Runnable(i) == i \notin controls.used /\ There(i.task) # Absent

Now(i) == [code |-> controlJob.run.runtime, input |-> There(i.task)]

Use(i) == controls' = [controls EXCEPT !.used = @ \cup {i}]

RunControl ==
    /\ ControlsGo /\ Working
    /\ \E i \in NextItems, differs \in SUBSET Fields, files \in Results :
          /\ i.part \in Controls /\ Runnable(i) /\ Use(i)
          /\ i.part \in ScorerControls => "loop" \notin differs
          /\ Observe(Cardinality(differs) + Unless(files = "usual"))
          /\ controlJob' = [controlJob EXCEPT !.todo = @ \ {i},
                !.run.records = @ \cup {[item |-> i, differs |-> differs,
                                         files |-> files, on |-> Now(i)]}]

CalibrateCheck ==
    /\ ControlsGo /\ Working
    /\ \E i \in NextItems, check \in CheckRuns :
          /\ i.part \in CheckNames /\ Runnable(i) /\ Use(i)
          /\ Observe(Unless(IdempotencyStatus(check) = "IDEMPOTENT"))
          /\ controlJob' = [controlJob EXCEPT !.todo = @ \ {i},
                !.run.calibrations = @ \cup {[item |-> i, hash |-> There(i.task),
                                              check |-> check, on |-> Now(i)]}]

\* A directory that is there already, or a task that is not, is an exception.
RefuseItem ==
    /\ ControlsGo /\ Working
    /\ \E i \in NextItems : ~Runnable(i)
    /\ controlJob' = Nothing
    /\ UNCHANGED <<controls, faults>>

\* The runtime and the hashes of the tasks that were selected, once more.
CheckControls ==
    /\ ControlsGo /\ Working /\ controlJob.todo = {}
    /\ LET m == controlJob.run
       IN  controlJob' = IF /\ runtime = m.runtime
                            /\ \A t \in Selected(m.hashes) : There(t) = m.hashes[t]
                         THEN [controlJob EXCEPT !.phase = "results"]
                         ELSE Nothing
    /\ UNCHANGED <<controls, faults>>

WriteResults ==
    /\ ControlsGo /\ controlJob # Nothing /\ controlJob.phase = "results"
    /\ controls' = [controls EXCEPT !.results =
           [id |-> controlJob.run.id, records |-> controlJob.run.records]]
    /\ controlJob' = [controlJob EXCEPT !.phase = "manifest"]
    /\ UNCHANGED faults

WriteManifest ==
    /\ ControlsGo /\ controlJob # Nothing /\ controlJob.phase = "manifest"
    /\ controls' = IF CalibrationValid(controlJob.run)
                   THEN [controls EXCEPT !.manifest = controlJob.run]
                   ELSE controls
    /\ controlJob' = Nothing
    /\ UNCHANGED faults

(* The evaluation, of which EvalSuite is the detail, and the export *)

EvalGoes == Going /\ UNCHANGED <<audit, controls, auditJob, controlJob, faults>>

StartEval ==
    /\ Begin /\ source = Nothing
    /\ \E configured \in SUBSET Present \ {{}} :
          evalJob' = [id |-> runs + 1, runtime |-> runtime, records |-> {},
              hashes |-> [t \in Tasks |-> IF t \in configured THEN There(t) ELSE Absent]]
    /\ UNCHANGED <<artifacts, auditJob, controlJob>>

SampledTasks == {x.task : x \in evalJob.records}

RunAttempt ==
    /\ EvalGoes /\ evalJob # Nothing
    /\ \E t \in (Selected(evalJob.hashes) \ SampledTasks) \cap Present :
          evalJob' = [evalJob EXCEPT !.records = @ \cup {[task |-> t, hash |-> There(t),
              on |-> [code |-> evalJob.runtime, input |-> There(t)]]}]
    /\ UNCHANGED <<source, export>>

FinishEval ==
    /\ EvalGoes /\ evalJob # Nothing
    /\ source' = IF /\ SampledTasks = Selected(evalJob.hashes)
                    /\ runtime = evalJob.runtime
                    /\ \A t \in SampledTasks : There(t) = evalJob.hashes[t]
                 THEN evalJob ELSE source
    /\ evalJob' = Nothing
    /\ UNCHANGED export

ExportTrajectories ==
    /\ EvalGoes /\ Idle /\ source # Nothing
    /\ export' = [source |-> source.id, records |-> source.records]
    /\ UNCHANGED <<source, evalJob>>

(* A process dies.  What it was writing is torn. *)

Interrupt ==
    /\ Going /\ ~Idle /\ Observe(1)
    /\ auditJob' = Nothing /\ controlJob' = Nothing /\ evalJob' = Nothing
    /\ \/ UNCHANGED controls
       \/ Working /\ \E i \in NextItems : Use(i)
       \/ /\ controlJob # Nothing /\ controlJob.phase = "results"
          /\ controls' = [controls EXCEPT !.results = Nothing]
       \/ /\ controlJob # Nothing /\ controlJob.phase = "manifest"
          /\ controls' = [controls EXCEPT !.manifest = Nothing]
    /\ UNCHANGED <<audit, source, export>>

-----------------------------------------------------------------------------
Init ==
    /\ runtime = 1
    /\ cases = [l \in Layers |-> 1]
    /\ pack = [t \in Tasks |-> IF t \in FirstTasks THEN 1 ELSE Absent] /\ away = {}
    /\ audit = Nothing /\ source = Nothing /\ export = Nothing
    /\ controls = [used |-> {}, results |-> Nothing, manifest |-> Nothing]
    /\ auditJob = Nothing /\ controlJob = Nothing /\ evalJob = Nothing
    /\ edits = 0 /\ runs = 0 /\ faults = 0

Next ==
    \/ EditHarness \/ EditCases \/ EditTask \/ ReturnTask \/ DiscardSource
    \/ StartAudit \/ StartLayer \/ RunCase \/ EndLayer \/ FinishAudit
    \/ StartControls \/ HashTasks \/ RunControl \/ CalibrateCheck \/ RefuseItem
    \/ CheckControls \/ WriteResults \/ WriteManifest
    \/ StartEval \/ RunAttempt \/ FinishEval \/ ExportTrajectories
    \/ Interrupt

Spec == Init /\ [][Next]_releaseVars

-----------------------------------------------------------------------------
(* validate_training_release_trust, asked in any state                     *)

AuditPasses == audit # Nothing /\ HarnessStatus(audit.layers) = "PASS"

\* Faulty: the file of the results is not compared with the manifest.
ControlsPass_ManifestOnly ==
    /\ controls.manifest # Nothing
    /\ LET m == controls.manifest
       IN  /\ m.repeats >= MINIMUM_TRAINING_CONTROL_REPEATS
           /\ OverallMatch(m.records, m.calibrations, m.repeats)

ControlsPass ==
    /\ controls.manifest # Nothing
    /\ LET m == controls.manifest
       IN  /\ m.repeats >= MINIMUM_TRAINING_CONTROL_REPEATS
           /\ OverallMatch(m.records, m.calibrations, m.repeats)
           /\ controls.results = [id |-> m.id, records |-> m.records]

RuntimesAgree ==
    /\ audit.runtime = runtime
    /\ controls.manifest.runtime = runtime
    /\ source.runtime = runtime

CasesCurrent == \A l \in Layers : audit.layers[l].root = cases[l]

SourcePinned == export # Nothing /\ source # Nothing /\ export.source = source.id

\* The trajectories' tasks are those of the source and of the controls, which
\* are those of the pack now.
TasksMatch ==
    LET calibrated == controls.manifest.hashes
    IN  /\ \A x \in export.records :
              /\ x.task \in Selected(source.hashes) \cap Selected(calibrated)
              /\ source.hashes[x.task] = calibrated[x.task]
              /\ x.hash = source.hashes[x.task]
        /\ \A t \in Selected(calibrated) : There(t) = calibrated[t]

ChecksCovered ==
    LET m == controls.manifest
    IN  /\ {c.item : c \in m.calibrations} = CalibrationItems(Selected(m.hashes))
        /\ \A c \in m.calibrations :
              IdempotencyStatus(c.check) = "IDEMPOTENT" /\ c.hash = There(c.item.task)

Trusted ==
    /\ AuditPasses /\ ControlsPass /\ SourcePinned
    /\ RuntimesAgree /\ CasesCurrent /\ TasksMatch /\ ChecksCovered

-----------------------------------------------------------------------------
(* Properties                                                              *)

AuditHolds ==
    \A l \in Layers : \A c \in Cases[l] : \E r \in audit.layers[l].records :
        /\ r.case = c /\ r.outcome = "match"
        /\ r.on.code = runtime /\ r.on.input = cases[l] /\ r.on.task # Absent

SamplesAreCurrent ==
    \A x \in export.records : x.on = [code |-> runtime, input |-> There(x.task)]

\* The rows of the results' file.
Rows == IF controls.results = Nothing THEN {} ELSE controls.results.records

CalibrationIsCurrent(t) ==
    LET now == [code |-> runtime, input |-> There(t)]
    IN  /\ \A k \in Controls : \E r, s \in Rows :
              /\ r.item.task = t /\ r.item.part = k /\ SameControl(r, s)
              /\ r.item.repeat # s.item.repeat
              /\ Match(r) /\ Match(s) /\ r.files = s.files
              /\ r.on = now /\ s.on = now
        /\ \A k \in Checks[t] : \E c \in controls.manifest.calibrations :
              /\ c.item.task = t /\ c.item.part = k
              /\ IdempotencyStatus(c.check) = "IDEMPOTENT" /\ c.on = now

\* A release that is trusted rests on what really happened, whatever was edited,
\* interrupted or run again meanwhile: every audit case of both layers was run as
\* it is now, by the harness as it is now, on a task that was there, and did what
\* it should; every trajectory was sampled on its task as it is now; and for each
\* of these tasks the rows of the results show every control run twice on it as it
\* is now, matched both times and with the same artifacts, and every check that is
\* declared idempotent was seen to be (trust.py, audits/runner.py, controls_run.py).
TrustedIsCurrent ==
    Trusted => /\ AuditHolds
               /\ SamplesAreCurrent
               /\ \A x \in export.records : CalibrationIsCurrent(x.task)

\* "Changing the harness source, task inputs, audit cases, dependency lock, or
\* relevant runtime identity invalidates that inference and requires
\* recalibration" (notes/weekly/week_09/learnings.md, of a harness audit that
\* passed once): the tasks the cases of a trusted audit ran on are as they were.
AuditedTasksUnchanged ==
    Trusted => \A l \in Layers : \A r \in audit.layers[l].records :
                  r.on.task = Subject(l, r.case)
=============================================================================
