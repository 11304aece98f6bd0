# Verification of agentenv

TLA+ models of the evaluation harness in `src/src/agentenv`, TLC configurations that check them on
small instances, and TLAPS proofs of theorems that hold for every instance. Paths are relative to
`src/src/agentenv` unless they start with `src/`.

## 1. The system

agentenv runs coding tasks against policies (stored patches, scripted controls, language models),
scores the patches they produce and keeps everything as files: a suite directory holds a declaration,
a directory for each policy and for each attempt, replays, and the manifests that name and hash the
rest. Training data is later built from those files alone. Almost nothing runs concurrently inside one
process; what is hard is that processes die between any two writes and others continue from the files,
that agents' code runs in the workspaces that are being judged, and that results are paired with what
produced them long afterwards.

### Components

| component | state it keeps | operations | called by, calls, shares | hard behaviour | what makes it correct |
|---|---|---|---|---|---|
| eval suite (`orchestrators/eval_run.py`, `evals/suite_declaration.py`) | declaration, policy manifests and traces, suite manifest | declare, run a policy, seal it, replay, complete | attempts; replay; task hashes; shares the directory with resume | crash between any two writes; manifests written in place; inputs edited meanwhile | parents after children; one outcome for each attempt; no mixed inputs |
| resume (`runners/resume.py`) | none of its own: the directory | inventory; run, finish, reuse, reject; rebuild policies; complete | the eval suite's writers; agent task run | acts on an inventory taken earlier; damaged evidence | published evidence is final; rejection stays local; it settles |
| agent task run (`orchestrators/agent_task_run.py`, `agent_generation.py`) | generation, result, attempt directory | generate, publish, score, persist, finish from a generation | prompt loop, scorer attempt; called by suite and resume | exceptions in every phase; death between writes | what is scored is what the agent left; the model is asked once |
| prompt loop (`agents/loop.py`, `tool_messages.py`) | messages, results, turn count | a turn: generate, parse, guard, call a tool | model client, tools | exits in the middle of a turn; turn limit | ids, messages and results stay linked; status explains the end |
| tools (`tools/local_tools.py`) | the workspace | list, read, write, run tests | prompt loop | a check runs the agent's code, can hang and write | hashes account for every change |
| scorer attempt (`orchestrators/attempt.py`, `runners/`, `scorers/`) | scoring workspace, command log | refuse, apply, diff, check, validate | agent task run, scorer policies, controls | timeouts and exceptions in every phase | every exit is a legal result the log bears out |
| redundancy detection and repair (`training/repairs/redundancy_*.py`) | none: pure over a transcript | assess, delete, assess again | repair review | broken linkage; blocks that meet; flaky checks | one deletion suffices; the rest could have happened |
| repair review and export (`training/repairs/review.py`, `export.py`) | repair directory, review file | export, review | redundancy, candidates, prefix review | a review of something that changed since | only reviewed repairs are exported |
| replay (`replay/runner.py`) | replay directory | rescore stored patches, compare | eval suite, reproduction | partial directory; tool drift | a match means the same status and diff |
| suite validation (`evals/suite_validation.py`, `artifacts/manifests.py`) | none | bind children to parents | completion, all consumers | a child swapped for another | every planned attempt bound once |
| control calibration (`controls/`) | calibration directory, results, manifest | run controls, compare to expectations, idempotency of checks | release trust, redundancy detection | checks that change between runs; tasks edited meanwhile; a directory used before | declared idempotent means observed so, on the task as it is |
| task packs (`tasks/`, `evals/task_hash_compare.py`) | none | hash, split, compare | suite declaration | levels of change | drift is classified, not missed |
| harness audits (`audits/`) | audit record | run cases of two layers, combine verdicts | agent task run, scorer, release trust | a case that fails; harness or cases edited under way | a failing case is never absorbed |
| rewards (`rewards/`) | none | detect exploits in an attempt | trajectories | error statuses; evidence that is not there | a success is not an exploit's |
| trajectories (`trajectories/`) | trajectory export, review file | build, export, review | attempts, rewards, candidates | one attempt that cannot be built stops a whole export; stale review | every outcome is a trajectory; success is earned |
| training candidates and release trust (`training/candidates/`, `training/release/`) | candidates | build, reload from sources, validate trust | trajectories, reviews, audits, controls | source changes after review or after an audit | candidates follow the review; trust rests on current evidence |
| positive SFT data (`training/positive_sft/`) | review file, export, materialization | review, export, materialize, load | candidates, repairs, tokenization | directories written anew in place; reviews edited at any time | what is trained on is approved |
| preference data (`training/preferences/`) | comparisons, adjudications, pairs, materialization | discover, adjudicate, export, materialize | candidates | a command reads long before it writes | no pair against its adjudication, none twice |
| LoRA and DPO training (`training/positive_sft/lora`, `training/preferences/dpo`, `training/lora`) | run directory, adapter | train, save, publish, load; admit an evaluation | materialized data, a parent run | failures and kills in a run; sources and parent replaced under way | a manifest describes the whole run; lineage; tasks held out where a scope is declared |
| tokenization (`training/tokenization.py`) | none | spans and mask | SFT, DPO | boundaries of spans | only assistant spans supervised |
| policy selection and reports (`reporting/`) | report | rank, render | suites | ties, missing metrics | deterministic choice |
| reproduction (`reproduction/`) | report | verify stored evidence, run a suite, compare | replay, suites | one level failing | every check is in the verdict |
| model clients (`models/`) | none | HTTP call | prompt loop | errors | external: any response or exception |
| local model setup (`local_model_setup/`) | server state | check, pull, create | ollama | half-done setup | idempotent |
| sandbox, workspaces, security, artifacts, tracing, command line | | copies, patterns, schemas, rendering | everything | | see `PROJECT.json` |

`PROJECT.json` lists every component with its sources and status, and every hazard found in this code
at its line, with the properties aimed at it.

## 2. Plan

In the order of importance of what the system promises:

1. **`EvalSuite`, `SuiteLedger`** (done): the directory of a suite under live runs, crashes and
   resumes, and the abstract ledger it implements.
2. **`Workspace` → `PromptLoop`, `PatchAttempt` → `AgentTask` → `Trajectory`** (done): one attempt
   from the seed to its manifest, and what is made of it. `AgentTask` composes the loop and the scorer
   attempt, which have disjoint variables.
3. **`Redundancy`** (done): detection and repair over all transcripts of `PromptLoop`.
4. **`Curation`** (done): the positive-SFT chain from a trajectory export to what a LoRA run selects.
5. **`Preferences`** (done): the preference chain from candidates to a DPO snapshot.
6. **`Training`** (done): both trainers, their directories and the admission of evaluations.
7. **`Release`** (done): audits, control calibration, evaluation and the trust validation over them.
8. Replay comparison, suite validation field by field, supervision masks, policy selection, task hash
   comparison, reproduction, local model setup (not done): pure functions over one input, without
   state or interaction; see section 6.

Each of these has a module of proofs: `EvalSuite_proofs` (with the refinement of `SuiteLedger`),
`PromptLoop_proofs`, `AgentTask_proofs` (also about `PatchAttempt` and `Trajectory`, with a refinement too),
`Redundancy_proofs`, `Curation_proofs`, `Preferences_proofs`, `Training_proofs` and `Release_proofs`. No
module declares a `RECURSIVE` operator.

## 3. The modules

### EvalSuite

The state is the suite directory plus the process that owns it. A planned attempt is a slot
`<<policy, attempt>>`; for each slot `dir`, `gen` and `fin` say what is at its path, and what its
generation manifest and its terminal `manifest.json` are (absent, torn, valid, damaged). `genDraw` and
`finDraw` are history: the run of the attempt that content comes from. `trace`, `polMan`, `replay` and
`suiteMan` are the parents. `pc`, `pol`, `att` follow the loops of `run_eval_config_all_policies` and
`resume_eval_suite`, one action for each write (`Declare`, `PublishGeneration`,
`BeginAttemptManifest`/`EndAttemptManifest`, `WritePolicyTrace`, ...). A file that is written in place
takes two actions, so a crash between them leaves it torn; temp-file-and-rename takes one.
`Classify` is `_classify_attempt`; `ChecksHold` gathers, for each stage, the condition the code tests
before it goes on; `Refuse` is the exception it raises otherwise. `Crash` kills the process anywhere,
`GenerationIncomplete` is a generation that ends in an exception, `Damage` spoils a stored file and
`EditInput` changes a pinned input or puts it back.

Assumptions. One process writes a suite directory at a time (stated in
`src/notes/weekly/week_11/implementation_notes.md:757`; the code takes no lock). Damage happens
between processes and never deletes a manifest: a deleted terminal manifest looks like an interruption,
which those notes accept. Equal hashes mean equal contents. An exception of a replay ends no run. The
`overwrite` option of output directories is not modelled.

### SuiteLedger

What a suite promises, without process or file: an entry's outcome is drawn once, recorded once, never
repaired when spoilt, and the suite completes only over entries all recorded and none spoilt. Two
modules implement it, each through a refinement mapping and a property `ImplementsLedger`. In `EvalSuite`
the entries are the slots and an outcome is the number of the run it comes from. In `AgentTask` the one
entry is the attempt and its outcome is all its generation says: transcript, workspace, status, parts
and patch. That joins the two models of a model attempt, which share no variable: what the suite takes
for one write (`PublishGeneration`), or for a manifest it must reject (`Spoilt`), is what the detailed
attempt does over many.

### Workspace

A workspace maps paths to whole contents. `CanonicalHash` is what `hash_directory` hashes,
`RenderDiff` what `render_directory_diff` puts in a patch, `Applies`/`Patched` what `git apply` makes
of it (all or nothing). The details of those functions that properties depend on are kept:

* an absent and an empty file have the same lines;
* `uv.lock` is in the diff only if the seed has it;
* a `.pyc` or `.pyo` file outside a cache directory is hashed and not diffed (`BytecodeFile`), a file
  of a build directory is diffed and not hashed (`BuildFile`);
* `read_text` turns CR LF into LF (`Unix`): two contents with different hashes can have the same lines,
  and then make no hunk;
* what git makes of a file that is to have other lines is a constant, `Git`. It may refuse, as it does
  when the hunk quotes a line that ends in CR LF or in a character only `splitlines` takes for an end (a
  form feed). Otherwise the file has the lines it is to have; those a hunk does not touch keep their
  ends (`LineEnds` is all that is assumed of it). Which hunks quote such a line depends on the texts, so
  an instance gives the table: in `MCAgentTask` every change of `crlf` does, and every change of
  `ragged` but one, whose hunk is elsewhere in the file.

The hunks of one file are one record; that git could find a hunk elsewhere than where it was cut does
not arise, since a patch is applied to a copy of the seed it was made from. The matching of private
markers is a set of texts.

### PromptLoop

`run_prompt_loop` with the tools: one step is one turn, since a turn runs to its end without
interleaving. The model may answer anything: raise, answer what ends the loop, or make any call of
`Call`. `Refusal` keeps the order in which `_execute_tool_call` turns calls down, `Outcomes` what a
call may observe and leave. `run_tests` runs the agent's code: it passes, fails, times out or cannot be
started, and may have written a file of `CheckWrites` by then. A tool result holds the hashes before
and after. An unknown tool cannot be allowed by a task schema, so there is no such exit.

### Redundancy

`Detect` is `_detect_redundant_blocks` as a recursive function over the position in the results, its
body `ScanFrom` one turn of the loop; `TestRunVerdict` says what may be compared of a repeated test run.
`EvidenceAligned` is `_load_executed_tool_calls`: as many tool messages as results, ids that are distinct
and known, and for each result the call it is of; the text of a tool message is not modelled. What a
comprehension of the code filters out of a list is `At(s, P)`, the elements at a set of positions in
order. The repair operators follow `repair_prompt_loop_mechanical_redundancy`: pair checks, deletion,
linkage check, second assessment.

### PatchAttempt

`run_patch_attempt` phase by phase. `batch` are the return codes of the phase that is running; they
reach `log` together when it ends, as in the code, so a timeout loses them. `TimesOut` and `Raises`
are the two except branches.

### AgentTask

The attempt as `run_and_persist_agent_task_attempt_to_dir` runs it and as
`finish_and_persist_agent_task_attempt_from_generation` takes it up. `stage` is the position between
writes, `has` and `broken` what the generation holds, `files`, `published`, `manifest` the attempt
directory. `declaredModel` is chosen at the start: a declared model attempt publishes its generation,
any other does not. `Crash` can come at any stage; `RunAgain` stands for the suite, which clears a
directory without a generation and starts over (that side is in `EvalSuite`). Individual payload files
of one batch are written in one step: a crash among them is followed by clearing them unread.

### Trajectory

What is made of an attempt once its manifest stands, as functions of the state `AgentTask` leaves: the
summary in the eval run's record, the artifact references, the statuses (`StatusesOf`, with every
consistency check of `trajectories/schema.py` in `StatusesAccepted`), the exploit checks of
`rewards/detection.py` (`Applicable`, `Detects`, `Evidence`) and the scan for leaked references. The
builder raises at the first artifact that does not fit another, and a suite with one such attempt
cannot be exported; so the question asked of it is whether an attempt can be left in a state it does
not take. A scorer attempt that raised or timed out is graded like one that failed, as in the code.
Left out: errors inside the detector, and the comparison of task and pack hashes in the builder.

### Curation

The artifact directories of the positive-SFT chain: `trajExport`, `trajReview`, `candidates`,
`repairs`, `repairReview`, `sftReview`, `sftExport`, `materialized`, each with the generation of its
directory (the hash of its manifest; `created_at` makes two writes differ) and the pins of its sources.
Edited files and records are hashed by content. One action writes one artifact (`Put`, which also may
stop after emptying the directory, the manifest being written last); a reviewer's edit of a review file
is an action of its own and can come at any time. `...Loads` are the loaders, which rebuild what they
load from what it was made of: that chain of rebuilding is what an approval is carried by. The trainer
takes two steps, as `lora/workflow.py` does: it loads all sources, later selects by treatment, and in
between people go on editing (`TreatmentReady` is the second look). A text is the set of its assistant
turns; turn 2 of a trajectory with redundancy is the redundant one.

### Preferences

The chain from candidates through comparisons, adjudications and pairs to the snapshot a DPO run
loads. A command is two actions, `Read...` and `Write...`, because it reads and checks its sources,
works, and pins the manifests as they are when it writes; edits, overwrites and other commands come
between. `Discover` compares distinct actions in the same context; `MaterializationLoads` is the full
loader, `SnapshotLoads` the trainer's, which looks no further than the pairs. An adjudication that is
withdrawn after the pairs were exported is not seen by the trainer, which is documented. An export
validates its own directory after writing the manifest; when that raises, the directory stays and the
trainer's loader still takes it, so the property is about what loads, not about what was reported as a
success. Left out: the copy of the rubric and the leakage scan of a pair.

### Training

`SFTRun`, `DPORun` and `AnyRun(k)` are the stages of the two workflows, one action for each stretch
between two writes; `dir[k]` is the run directory: steps, adapter (`incomplete`, `canonical`,
`failed`), result and manifest, in the order in which they come. The two differ and the model keeps
it: SFT validates before it takes its directory, appends each step to the file, publishes its adapter
by a rename and records a failure; DPO empties its directory first, keeps its steps until the end and
leaves no record of a failure. `Die` is a kill, or an exception nobody records, at any stage.
Meanwhile `Rematerialize` and `EditConfig` replace the inputs. `SFTLoads` and `DPOLoads` are the
loaders, `Admitted` is `validate_eval_config_paths` for the policies of a configuration that have
adapters: it loads their tasks and compares them only if `adapter_training_task_scope` is declared (the
default is none), so a configuration without one is admitted with any adapter and any tasks, and
`HeldOut` is about the others. An adapter is the set of examples it saw, its parent's included.
Assumption: the id of an example determines its task
(`TrainingAssumption`: ids are content hashes, `training/preferences/hashing.py:128`,
`training/positive_sft/identity.py:4`).

### Release

The world is the harness (`runtime`), the audit cases (`cases`) and the task pack (`pack`, less the
directories that are `away`), each with the number of the edit that made it: what is edited is not
restored, which no hash could tell, but a task that was moved away can be put back as it was
(`ReturnTask`).
`audit`, `controls`, `source` and `export` are the artifacts; `auditJob`, `controlJob` and `evalJob`
the commands. Each step of a command (a layer, a case, a control, a check, each write) is an action,
and edits come between any two. `Trusted` is `validate_training_release_trust` asked in any state.
Every record carries a field `on` that says what it was really obtained on; no action reads it, only
the property does. An audit case is run on a task of the pack (`CaseTask`: the one its `case.yaml`
names at the time; `Subject` is what is there of it), and the record says which contents that task had;
if it is gone the case ends in an error. The calibration takes its runtime hash and finds the tasks in
one step and hashes these in the next (`HashTasks`), between which a task can go. One command runs at a time: commands share nothing but their inputs, so any
interleaving of two has the same effect as one after the other with the edits in between. Abstracted:
the short window between the import of the harness and its first hash; cases changed between their
discovery and the hash of their root; edits between the hashes of two tasks; the trust validation
itself is one instant. Only tests call that validation: it is a promise to an operator, not a gate in the code.

## 4. Runs

| run | module, cfg | bounds | shows |
|---|---|---|---|
| `suite_crash` | `MCEvalSuite`, `SuiteCrash.cfg` | 2 policies (control, model) × 2 attempts, 2 faults, 1 damage | all safety of the suite but drift, the refinement, and under fairness that a declared suite settles |
| `suite_drift` | `MCEvalSuite`, `SuiteDrift.cfg` | model and scorer, 1 fault, 1 edit | an input that drifts and stays drifted never gets into a completed suite |
| `suite_restore` | `MCEvalSuite`, `SuiteRestore.cfg` | 1 × 1, 2 edits | violation: an edit undone between two checks does |
| `transcripts` | `MCRedundancy`, `Transcripts.cfg` | 3 turns, a module and a cache file, 2 checks | transcript linkage, hash chain, exits, repairs |
| `agent_task` | `MCAgentTask`, `AgentTask.cfg` | 2 turns, 3 files, 4 texts, seeds with LF, CR LF and ragged line ends, 2 public checks, 1 validator, 2 processes | results explained, scoring faithful, generation final, an entry of a ledger; every outcome a trajectory, success earned |
| `agent_diff` | `MCAgentTask`, `AgentDiff.cfg` | as `agent_task`, LF seed, one check and one process | violation: an empty new file is not scored |
| `curation` | `MCCuration`, `Curation.cfg` | 2 trajectories in 2 evaluations, 4 edits, 1 overwrite | what is selected for training is approved at that moment; nothing stale loads again |
| `preferences` | `MCPreferences`, `Preferences.cfg` | 3 rollouts of one task (2 trusted), 3 edits, 1 overwrite, 2 commands at once | a materialization reads what is preferred; a snapshot that loads has one direction |
| `training` | `MCTraining`, `Training.cfg` | 3 runs, 2 policies, snapshots of 1 or 2 examples, each materialized twice, 1 revision of the SFT config | manifests are whole, lineage exact, evaluation tasks held out where a scope is declared |
| `training_pins` | `MCTraining`, `TrainingPins.cfg` | as `training`, one snapshot tokenized in two ways | violation: the manifest pins a snapshot the run did not train on |
| `release` | `MCRelease`, `Release.cfg` | 2 task ids, 1 case per layer, 2 controls, 1 check, 2 repeats, 4 commands, 1 edit, 1 unexpected outcome or interruption | trust rests on current evidence |
| `release_audit` | `MCRelease`, `ReleaseAudit.cfg` | 1 task, 3 commands, 1 edit | violation: a task the audit ran on is edited and the release is still trusted |

Why the bounds are enough. Two policies of different type and two attempts give every boundary of the
loops (first and last attempt, last attempt of the first policy, policy that follows a rejected one);
two faults let a resume be interrupted and resumed. Three turns give a call, its repetition and a
repetition of that or a break after it; the transcripts were also checked once with four turns over a
smaller set of calls. Two turns of an attempt are a change and an answer (or a change by a check), and
two processes are the one that dies and the one that finishes; the directory does not tell a third from
the second. Three files are a source file, a public test and a file the seed lacks. In the curation run
one trajectory needs a human clearance and one a repair, and in the second evaluation one cannot be
trained on and the other cannot be repaired, so that every branch of eligibility and both sources of an
example occur; four edits are one of each review and one taken back, and one overwrite is what makes an
artifact older than its source. In the preferences run two commands at once are a reader and the one
that overwrites what it read. Three training runs are a parent, the parent again, and its child; two
examples and one or two steps give an incomplete pass and a wrap. In the release run the four commands
are one of each kind and one repeated; an edit may come between any two steps, and one unexpected
outcome, or one death, is enough to spoil evidence. The proofs below lift all of these bounds for the properties they
cover. Deadlock is not checked: a loop that has ended, an attempt that is done, a suite that is settled
and a chain whose bounds on edits and writes are used up stop.

Each property is paired with a mutant of the code model (operators marked "Faulty") that breaks it
under the same configuration.

### Fairness

Only `suite_crash` assumes any, for `SuiteSettles`: `WF(Process)`, a running process goes on (the loops are sequential
and every command has a timeout); `WF(StartLive)`, somebody starts the run; `WF(StartResume)`, an
operator resumes an interrupted suite for as long as a resume is not refused. Faults and damage are
bounded, which is the "once interruptions stop" of the claim; with edits of inputs a suite can stay
refused for ever, so that run has none.

### What the violations say

* `agent_diff` / `ScoredWorkspaceIsAgents`: `runners/diff_runner.py:24` reads an absent file as one
  without lines, so a file that is new and empty makes no hunk, and the workspace that is scored lacks
  it. `src/docs/model_interface.md:159` says the candidate is derived from the mutated agent workspace,
  and `src/notes/weekly/week_09/implementation_notes.md:337` gives exactly such files as significant.
  What does hold is `ScoringIsFaithful`: the same lines in every file the diff looks at. TLC's shortest
  trace creates the file by a write that failed after opening it; a successful write of an empty text
  does the same. `WhatThePatchLoses` (section 5) says exactly when the hashes differ.
* `suite_restore` / `NoMixedSemantics`: inputs are compared at boundaries, and no attempt records the
  bytes it read; a change made and undone between two checks leaves no trace. The notes claim that no
  stale work is combined with changed semantics
  (`src/notes/weekly/week_11/implementation_notes.md:786`).
* `training_pins` / `PinsWhatItTrainedOn`: the SFT manifest hashes its sources when the run ends
  (`training/positive_sft/lora/workflow.py:594`), not when it read them. A snapshot materialized anew
  while the run trains is pinned in place of the one it trained on, and the run loads, since the
  loader compares files with pins only. `src/src/agentenv/training/README.md:248` says that the run
  pins every exact materialization manifest and token file. The DPO manifest takes the hash of the
  examples from what it loaded, so this does not happen there (`DPOPinsWhatItTrainedOn`), and of SFT
  the claim holds if its snapshot is left alone during a run (`SFTPinsIfSnapshotKept`).

* `release_audit` / `AuditedTasksUnchanged`: an audit case is run on a task of the pack
  (`audits/agent_task.py:381`, `audits/scorer.py:338`), and `training/release/trust.py:192` compares the
  runtimes and the case roots of an audit with those of now, never that task; the control calibration
  compares its own tasks, with what they were when it ran. A task edited after an audit and before the
  calibration leaves the audit trusted. `src/notes/weekly/week_09/learnings.md` says that a change of
  task inputs invalidates what an audit allows to infer. What does hold of the task is that it was there
  (`AuditHolds`).

## 5. Proofs

The theorems hold for every value of the constants that satisfies the assumption named with them. A
proof goes by the actions of the next-state relation; what an action needs to know of the others is
the inductive invariant described here.

**`EvalSuite_proofs`**, from `SuiteAssumption`, for every number of policies, attempts, faults, damages
and edits:

* `TypeCorrect`; `Inductive`: `Spec => []IInv`. `CommittedDraw` is not inductive: that the outcome just
  stored is the last run's needs to know that an attempt is launched only where nothing is published,
  which needs what the process knows about the attempts ahead of it to be current (`PlanIsCurrent`),
  which needs to know where the process is and how it got there. `IInv` is the conjunction: a suite
  that was never started has an empty directory (`NotStarted`), the mode fits the stage
  (`ModeMatchesStage`), a live run has not touched later policies (`LaterPoliciesUntouched`), what is
  on disk for the attempt in hand fits the stage (`AttemptInHand`), `PlanIsCurrent`, `CommittedDraw`.
  From it `OneOutcomePerAttempt`, `InventoryStaysCurrent`, `NothingPublishedIsRunAgain`
  (`NoSecondDraw`) and `EvidenceIsKept` (`KeepsEvidence`).
* `ParentsAreLast` (`ParentsLast`) and `CompletedIsFinal` (`CompletedSuiteIsFinal`). That the attempts
  are all there when a policy is sealed is a fact about where the process has been; `PInv` reads it off
  the disk: the loops start at their beginning (`CursorStarts`), the attempts and the policies behind
  the cursor are done (`AttemptsDone`, `PoliciesDone`), and under a suite manifest nobody works
  (`AtRest`).
* `NothingIsLeftOpen` (`ResumeResolves`) and `RejectionStaysLocal` (`RejectionIsLocal`): what is behind
  a resume's cursor is settled (`BehindSettled`), so that its second inventory rejects exactly the
  spoilt attempts (`RejectedAreSpoilt`); a generation precedes the terminal manifest made from it
  (`GenerationsOwned`).
* `SuiteIsALedger`: `Spec => ImplementsLedger`. Initial states map to initial states and every step to
  a step of `SuiteLedger` or a stutter. The ledger bounds its draws, so the proof also needs that each
  run of an attempt but one is paid for by a fault (`DrawsPaid`).
* `EveryRerunIsPaidFor` (`RerunsArePaidFor`): there are no more runs of attempts beyond the first of each
  than there were faults. `OwedPaid` counts, over all attempts, the runs they have had beyond the first
  and the one an interrupted attempt has coming (`Owed`): a fault adds one to it, and launching an
  attempt only turns the one that was coming into one that was had.
* `OnlyPutBackInputsMix`: for any number of edits, `NoMixedSemantics` holds of every behaviour in which no
  edit puts back an input that the current run of some attempt has read drifted (`PutBackUnread`). The
  hypothesis is what `suite_restore` violates: without it the statement is false. `NothingMixed`, for
  `MaxEdits <= 1`, is a corollary: an edit that is alone puts nothing back.

**`PromptLoop_proofs`**, from `LoopAssumption` and `WorkspaceAssumption`, for every task, turn limit, set
of files and checks: `LoopTypeCorrect`; `HashesAccountForChanges` (`HashChain`); `StatusExplainsEnd`
(`ExitExplained`, through `ExitInv`, which relates the counts of turns, responses and results in each
group of statuses); `TranscriptsPairUp` (`TranscriptLinked`, inductive by itself once the types are).

**`Redundancy_proofs`**, from the same assumptions and `RedundancyAssumption`, for transcripts of any
length. The model computes over data here, so the proofs need induction: every step of that kind is an
argument about a least or greatest counterexample (`LeastNat`, `GreatestNat`), which the
well-foundedness of the naturals gives in first-order form.

* `DetectFinds`: `Detect` equals `Found`, which says without any scan what it should find: if some call
  breaks the evidence (a repetition of a test run that may not be compared, or that saw something else),
  the assessment is incomplete; otherwise the blocks are all the longest runs of calls that each repeat
  the one before (`Run`). The scan compares with the first call of a block, `Run` compares neighbours;
  they agree because a stable repetition can stand in for what it repeats (`StandsIn`, `AlongRun`).
* `OneDeletionIsEnough` (`RepairConverges`): what is kept has no two neighbours of which one repeats the
  other (`KeptIsFree`), because all that was deleted between two of them repeats the first. The invariant
  `MessagesInv` says what messages a loop has: call and result by turns, the k-th pair with id k and of
  the k-th result, and at most one more; a deletion keeps that form (`LeftMessages`), and the linkage of
  such messages is complete unless the last one is a call (`PairedEvidence`).
* `RepairsAreReplayable` (`RepairReplayable`): with the hash chain of the loop, a call that is kept starts
  where the last call before it that was kept ended, since what lies between left the workspace alone.

**`AgentTask_proofs`** (about `PatchAttempt`, `AgentTask` and `Trajectory`), from the assumptions of those
modules and of the ones they compose, for every task, any number of checks, validators and processes:

* The phases of a scorer attempt are logged in order and whole (`LogTrue`), so the length of the log tells
  how far the attempt came and its entries what succeeded (`AttemptInvStep`).
* `GenerationInvariant`: a process at a stage where it could still ask the model or write what a
  generation owns has published nothing, and what is published is terminal. `PublishedIsFinal`
  (`GenerationIsFinal`) and `DeclaredOverGeneration` (`TerminalOverGeneration`, a part of `RunExplained`)
  follow.
* `ArtifactInvariant` adds which files stand at which stage (`DirectoryTrue`) and what the result says
  (`ResultTrue`); `ResultsAreExplained` (`RunExplained`) and `NamesAreFree` (`NothingInTheWay`) follow.
* `TaskInvariant` adds the invariants of the loop and of the scorer attempt, which keep theirs because
  they share no variable; `TaskTypeCorrect` and `AttemptsAreExplained` (`AttemptExplained`) follow.
* `WhatIsScored` (`ScoringIsFaithful`): the scoring workspace is the seed with the candidate applied
  until a check runs (`Faithful`), and patching with a rendered diff restores every line of every file
  the diff looks at (`PatchedLines`).
* `AttemptIsALedger`: `Spec => ImplementsLedger`. Publishing is the step that commits, `EndManifest` the
  one that closes (or both at once where nothing is published), a death while the manifest is written
  the one that spoils; every other step is a stutter, since what is published stays as it is and
  `SigningTrue` says at which stages the manifest is torn or whole.
* `WhatThePatchLoses` makes the violation of `agent_diff` exact: when scoring starts, the canonical
  hashes of the scoring workspace and of the agent's are equal if and only if the agent left the bytecode
  files as they were, made no lock file, removed no hashed file, made none that is empty and changed no
  line ends (`PatchTellsAll`; file by file in `PatchedFile`). The seed's diffed files have LF line ends
  there: of others `LineEnds` does not say which ends the patched file has.
* `OutcomesAreTrajectories` and `SolvedIsEarned`, through `EarnedInv`: a result keeps agreeing with the
  generation it was set from, a call that names something private ends the loop, and a patch that gets
  as far as a check was looked at.

**`Curation_proofs`**, from `CurationAssumption`: `TypeCorrect`; `ApprovedTraining`
(`TrainsOnlyOnApproval`), which follows from the types alone, since the selection looks at the whole
chain again and every loader rebuilds; `NothingRevived` (`OverwriteRevivesNothing`), which needs that
no artifact pins a generation that has not been written yet (`PinsKnown`).

**`Training_proofs`**, from `TrainingAssumption`: `TypeCorrect`; `WholeManifests` (`ManifestIsWhole`) by
what a directory holds at each stage of its process (`DirsTrue`); `ExactLineage` (`LineageIsExact`):
run numbers are never used twice, so a parent pinned by its number is the parent that was read
(`LineageTrue`); `HeldOutTasks` (`HeldOut`, for a declared scope): the ids in the stored results resolve to the
tasks of the examples really trained on, because ids determine tasks.
`DPOPinsWhatItTrainedOn`: a DPO run that loads selected the very examples its manifest pins, and its
steps are of examples its snapshot still has, without any hypothesis. `SFTPinsIfSnapshotKept`: in every
behaviour in which the SFT snapshot stays as it is while an SFT run is under way (`SnapshotKept`),
`PinsWhatItTrainedOn` holds (`SFTPinsTrue`). `training_pins` shows that the hypothesis is needed.

**`Preferences_proofs`**, from `PreferencesAssumption`: `TypeCorrect`; `OnlyThePreferred`
(`MaterializesWhatIsPreferred`); `DirectionKept` (`SnapshotKeepsDirection`). Adjudications may change as
soon as they are read, so the invariant only says that the pairs, and the records made from them, each
agree with themselves (`PairsTrue`, `RecordsTrue`), in the files as in the commands' memory.

**`Release_proofs`**, from `ReleaseAssumption`: `TypeCorrect`; `TrustRests` (`TrustedIsCurrent`). No hash
is newer than the last edit (`WorldKnown`); as long as a root or a task is still the one that was
hashed, it was so at every step in between (`AuditTrue`, `ControlsTrue`, `SamplesTrue` and the same of
the commands under way); so evidence whose hashes match now was obtained on what is there now. Of the task an audit case ran on
no hash is compared, so of it the theorem says no more than that it was there.

Only model-checked: `SuiteSettles` (liveness is out of the prover's reach, as is `ENABLED`), and that the
four runs of section 4 do find their violations. Every safety property that a passing run checks is
proved; of the four properties that are violated, what is proved of three is under which hypothesis
they hold: `OnlyPutBackInputsMix`, `WhatThePatchLoses` (there the hypothesis is necessary too) and
`SFTPinsIfSnapshotKept`.

## 6. Not modelled

Wording, token counts, durations, rendering and redaction of text; the numerics of training and the
state of an optimizer; HTTP to a model server (any answer or exception); regular expressions (their
verdicts are inputs); file modes, symbolic links and directories that stand where a file is written;
concurrency of two executors on one suite directory (excluded by the notes), and two processes in one
training directory.

Of whole components: the comparison of two scores in a replay, the field-by-field bindings of suite
validation, the classification of differences between task hashes, policy selection, the supervision
mask, the reproduction levels and the audit of the exploit detector are pure functions of one input
without state or interaction, and a model of them would restate their code. Model clients, the setup of
a local model, the sandbox probe, the command line and the reports are input and output around the
rest. `PROJECT.json` lists each with its status.
