----------------------------- MODULE AgentTask -----------------------------
(***************************************************************************)
(* One agent attempt (orchestrators/agent_task_run.py): the prompt loop in *)
(* the agent's workspace, the candidate patch made of what it left there,  *)
(* the generation published before anything is scored                      *)
(* (orchestrators/agent_generation.py), the scorer attempt over that       *)
(* patch, and the artifacts of the attempt, written one after the other    *)
(* with its manifest last.                                                 *)
(*                                                                         *)
(* The process can die between two writes.  An attempt that has published  *)
(* its generation is finished from there; any other starts again in an     *)
(* empty directory (what the eval suite does with it is in EvalSuite).     *)
(***************************************************************************)
EXTENDS PromptLoop, PatchAttempt

CONSTANT MaxRuns    \* bound: how many processes work on the attempt

ASSUME TaskAssumption == MaxRuns \in Nat \ {0}

VARIABLES
    declaredModel,  \* a declared model attempt: it publishes its generation
    stage,          \* where the process is
    broken,         \* the generation has error_details
    has,            \* the parts of it there are
    candidate,      \* its candidate patch
    files,          \* the artifacts in the attempt directory
    published,      \* agent_generation_manifest.json is there
    manifest,       \* manifest.json
    run,            \* the AgentTaskRunResult
    runs            \* the processes that have worked on it

generation == <<broken, has, candidate>>
directory == <<files, published, manifest>>
taskVars == <<declaredModel, stage, generation, directory, run, runs>>
vars == <<loopVars, attemptVars, taskVars>>

Stages == {"setup", "loop", "generated", "publish", "finish", "score",
           "record", "payloads", "attempt", "attempting", "manifest", "signing",
           "done", "interrupted"}

\* What a generation comes to have, in this order.
GenerationParts == {"view", "prompt_loop_result", "candidate_patch"}
Artifacts == GenerationParts \cup {"config", "agent_task_run", "error", "attempt"}

NoRun == [status |-> "none", promptStatus |-> "none", candidate |-> FALSE,
          scored |-> FALSE, failed |-> FALSE]

NoFiles == [a \in Artifacts |-> "absent"]
Written(names) == [a \in Artifacts |-> IF a \in names THEN "whole" ELSE files[a]]

\* The type invariant.
TypeOK ==
    /\ LoopTypeOK
    /\ phase \in Phases \cup {"none", "over"}
    /\ sws \in Workspaces
    /\ \A i \in DOMAIN batch : batch[i] \in BOOLEAN
    /\ attempt.status \in AttemptStatuses \cup {"none"}
    /\ attempt.public \in CheckStatuses \cup {"none"}
    /\ declaredModel \in BOOLEAN
    /\ stage \in Stages
    /\ broken \in BOOLEAN
    /\ has \subseteq GenerationParts
    /\ DOMAIN candidate \subseteq File
    /\ files \in [Artifacts -> {"absent", "partial", "whole"}]
    /\ published \in BOOLEAN
    /\ manifest \in {"absent", "torn", "whole"}
    /\ run.status \in {"none", "scored", "agent_loop_failed", "orchestrator_error"}
    /\ runs \in 1..MaxRuns

Init ==
    /\ LoopInit /\ AttemptInit
    /\ declaredModel \in BOOLEAN
    /\ stage = "setup"
    /\ broken = FALSE /\ has = {} /\ candidate = NoPatch
    /\ files = NoFiles /\ published = FALSE /\ manifest = "absent"
    /\ run = NoRun /\ runs = 1

Go(from, to) == stage = from /\ stage' = to

-----------------------------------------------------------------------------
(***************************************************************************)
(* The generation.                                                         *)
(***************************************************************************)
\* The workspace is the seed, copied; then there is an agent task view.
SetupWorkspace ==
    /\ Go("setup", "loop")
    /\ has' = {"view"}
    /\ UNCHANGED <<loopVars, attemptVars, declaredModel, broken, candidate, directory,
                   run, runs>>

LoopStep ==
    /\ stage = "loop" /\ status = "running"
    /\ Turn
    /\ UNCHANGED <<attemptVars, taskVars>>

WithCandidate ==
    /\ candidate' = RenderDiff(seed, ws)
    /\ has' = has \cup {"prompt_loop_result", "candidate_patch"}
WithoutCandidate == has' = has \cup {"prompt_loop_result"} /\ UNCHANGED candidate

\* Only a completed loop leaves a candidate.
DeriveCandidate ==
    /\ stage = "loop" /\ status # "running"
    /\ stage' = "generated"
    /\ IF status = "completed" THEN WithCandidate ELSE WithoutCandidate
    /\ UNCHANGED <<loopVars, attemptVars, declaredModel, broken, directory, run, runs>>

\* An exception ends the generation with what it has so far: nothing of the loop
\* when the setup or the loop raises; no candidate when the diff cannot be made;
\* a candidate when only its file cannot be written, the path being set first.
GenerationRaises ==
    /\ stage' = "generated" /\ broken' = TRUE
    /\ \/ /\ stage = "setup" \/ (stage = "loop" /\ status = "running")
          /\ UNCHANGED <<has, candidate>>
       \/ /\ stage = "loop" /\ status = "completed"
          /\ WithCandidate \/ WithoutCandidate
    /\ UNCHANGED <<loopVars, attemptVars, declaredModel, directory, run, runs>>

\* _is_terminal_generation
TerminalGeneration ==
    /\ ~broken /\ "prompt_loop_result" \in has
    /\ status = "completed" => "candidate_patch" \in has

\* What a published generation owns.
Owned == has \cup {"config"}

\* Faulty: a declared model attempt goes on without a terminal generation.
AfterGeneration_AnyGeneration ==
    /\ stage = "generated"
    /\ stage' = IF declaredModel /\ TerminalGeneration THEN "publish" ELSE "finish"
    /\ UNCHANGED <<loopVars, attemptVars, declaredModel, generation, directory, run, runs>>

\* A declared model attempt without a terminal generation raises and leaves no
\* terminal evidence at all.
AfterGeneration ==
    /\ stage = "generated"
    /\ stage' = IF ~declaredModel THEN "finish"
                ELSE IF TerminalGeneration THEN "publish" ELSE "interrupted"
    /\ UNCHANGED <<loopVars, attemptVars, declaredModel, generation, directory, run, runs>>

\* The owned payloads first, one after the other and under names that must be
\* free; then the manifest, by a rename.  What a process that dies among the
\* payloads has written of them is cleared unread, as it is after the last one.
WriteOwned ==
    /\ stage = "publish"
    /\ \A a \in Owned : files[a] = "absent"
    /\ files' = Written(Owned)
    /\ UNCHANGED <<loopVars, attemptVars, declaredModel, stage, generation, published,
                   manifest, run, runs>>

PublishGeneration ==
    /\ Go("publish", "finish")
    /\ \A a \in Owned : files[a] = "whole"
    /\ published' = TRUE
    /\ UNCHANGED <<loopVars, attemptVars, declaredModel, generation, files, manifest,
                   run, runs>>

-----------------------------------------------------------------------------
(***************************************************************************)
(* Scoring.                                                                *)
(***************************************************************************)
Result(runStatus, scored) ==
    [status |-> runStatus,
     promptStatus |-> IF "prompt_loop_result" \in has THEN status ELSE "none",
     candidate |-> "candidate_patch" \in has, scored |-> scored, failed |-> runStatus # "scored"]

\* A generation that broke off or did not complete is not scored.
FinishUnscored ==
    /\ Go("finish", "record")
    /\ broken \/ status # "completed"
    /\ run' = Result(IF broken \/ status = "orchestrator_error" THEN "orchestrator_error"
                     ELSE "agent_loop_failed", FALSE)
    /\ UNCHANGED <<loopVars, attemptVars, declaredModel, generation, directory, runs>>

StartScoring ==
    /\ Go("finish", "score")
    /\ ~broken /\ status = "completed"
    /\ BeginAttempt(seed, candidate)
    /\ UNCHANGED <<loopVars, declaredModel, generation, directory, run, runs>>

\* Faulty: scoring that raises keeps the status of a scored run.
ScoringRaises_Scored ==
    /\ Go("score", "record")
    /\ phase = "setup"
    /\ run' = Result("scored", FALSE)
    /\ UNCHANGED <<loopVars, attemptVars, declaredModel, generation, directory, runs>>

\* The patch cannot be read back, or the task's manifest cannot be loaded.
ScoringRaises ==
    /\ Go("score", "record")
    /\ phase = "setup"
    /\ run' = Result("orchestrator_error", FALSE)
    /\ UNCHANGED <<loopVars, attemptVars, declaredModel, generation, directory, runs>>

ScoringStep ==
    /\ stage = "score"
    /\ AttemptStep
    /\ UNCHANGED <<loopVars, taskVars>>

\* The attempt's own error statuses are a score like any other.
EndScoring ==
    /\ Go("score", "record")
    /\ phase = "over"
    /\ run' = Result("scored", TRUE)
    /\ UNCHANGED <<loopVars, attemptVars, declaredModel, generation, directory, runs>>

-----------------------------------------------------------------------------
(***************************************************************************)
(* The artifacts.                                                          *)
(***************************************************************************)
WriteRecord ==
    /\ Go("record", "payloads")
    /\ files' = Written({"agent_task_run"})
    /\ UNCHANGED <<loopVars, attemptVars, declaredModel, generation, published, manifest,
                   run, runs>>

\* The payloads, unless a published generation owns them.
RunPayloads == IF published THEN {"error"} ELSE Owned \cup {"error"}

WritePayloads ==
    /\ stage = "payloads"
    /\ stage' = IF run.scored THEN "attempt" ELSE "manifest"
    /\ files' = Written(RunPayloads)
    /\ UNCHANGED <<loopVars, attemptVars, declaredModel, generation, published, manifest,
                   run, runs>>

\* The scorer attempt's directory must be empty: with anything in it the writer
\* raises.
BeginAttemptDir ==
    /\ Go("attempt", "attempting")
    /\ files["attempt"] = "absent"
    /\ files' = [files EXCEPT !["attempt"] = "partial"]
    /\ UNCHANGED <<loopVars, attemptVars, declaredModel, generation, published, manifest,
                   run, runs>>

EndAttemptDir ==
    /\ Go("attempting", "manifest")
    /\ files' = Written({"attempt"})
    /\ UNCHANGED <<loopVars, attemptVars, declaredModel, generation, published, manifest,
                   run, runs>>

BeginManifest ==
    /\ Go("manifest", "signing")
    /\ manifest' = "torn"
    /\ UNCHANGED <<loopVars, attemptVars, declaredModel, generation, files, published,
                   run, runs>>

EndManifest ==
    /\ Go("signing", "done")
    /\ manifest' = "whole"
    /\ UNCHANGED <<loopVars, attemptVars, declaredModel, generation, files, published,
                   run, runs>>

-----------------------------------------------------------------------------
(***************************************************************************)
(* Interruption and resume.                                                *)
(***************************************************************************)
Crash ==
    /\ stage \notin {"done", "interrupted"}
    /\ stage' = "interrupted"
    /\ UNCHANGED <<loopVars, attemptVars, declaredModel, generation, directory, run, runs>>

\* Faulty: the directory of the scorer attempt is left where it is.
ClearDownstream_KeepsAttempt ==
    files' = [a \in Artifacts |-> IF a \in Owned \cup {"attempt"} THEN files[a] ELSE "absent"]

\* _clear_incomplete_downstream_artifacts
ClearDownstream ==
    files' = [a \in Artifacts |-> IF a \in Owned THEN files[a] ELSE "absent"]

\* Faulty: a published generation does not keep the model from being asked again.
FinishFromGeneration_AsksAgain ==
    /\ Go("interrupted", "setup")
    /\ published /\ manifest = "absent" /\ runs < MaxRuns
    /\ ClearDownstream
    /\ run' = NoRun /\ runs' = runs + 1
    /\ status' = "running"
    /\ UNCHANGED <<seed, ws, turns, messages, responses, results, attemptVars,
                   declaredModel, generation, published, manifest>>

\* Faulty: a manifest that was cut short does not stop the next process.
FinishFromGeneration_OverTorn ==
    /\ Go("interrupted", "finish")
    /\ published /\ runs < MaxRuns
    /\ ClearDownstream
    /\ ForgetAttempt /\ run' = NoRun /\ runs' = runs + 1
    /\ UNCHANGED <<loopVars, declaredModel, generation, published, manifest>>

\* What the published generation holds is all that is left of the first
\* process: it finishes from there, without asking the model.
FinishFromGeneration ==
    /\ Go("interrupted", "finish")
    /\ published /\ manifest = "absent" /\ runs < MaxRuns
    /\ ClearDownstream
    /\ ForgetAttempt /\ run' = NoRun /\ runs' = runs + 1
    /\ UNCHANGED <<loopVars, declaredModel, generation, published, manifest>>

\* Nothing terminal was published: the suite clears the directory and runs the
\* attempt from the start.
RunAgain ==
    /\ Go("interrupted", "setup")
    /\ ~published /\ manifest = "absent" /\ runs < MaxRuns
    /\ seed' = seed /\ ws' = seed
    /\ turns' = 0 /\ messages' = <<>> /\ responses' = 0 /\ results' = <<>>
    /\ status' = "running"
    /\ broken' = FALSE /\ has' = {} /\ candidate' = NoPatch
    /\ ForgetAttempt
    /\ files' = NoFiles /\ run' = NoRun /\ runs' = runs + 1
    /\ UNCHANGED <<declaredModel, published, manifest>>

Generation ==
    \/ SetupWorkspace \/ LoopStep \/ DeriveCandidate \/ GenerationRaises
    \/ AfterGeneration \/ WriteOwned \/ PublishGeneration
Scoring == FinishUnscored \/ StartScoring \/ ScoringRaises \/ ScoringStep \/ EndScoring
Persisting ==
    \/ WriteRecord \/ WritePayloads \/ BeginAttemptDir \/ EndAttemptDir
    \/ BeginManifest \/ EndManifest
Next == Generation \/ Scoring \/ Persisting \/ Crash \/ FinishFromGeneration \/ RunAgain

Spec == Init /\ [][Next]_vars

-----------------------------------------------------------------------------
(***************************************************************************)
(* Safety.                                                                 *)
(***************************************************************************)
ScoringStarts == stage = "score" /\ phase = "public_check" /\ batch = <<>>

\* What is scored is what the agent left: the loop's workspace, the candidate and
\* the scoring workspace hold the same lines in every file the diff looks at,
\* also when another process scores; the final diff is the candidate again; and
\* the public tests that judge it are those of the seed.
ScoringIsFaithful ==
    ScoringStarts =>
        /\ \A f \in DiffedFiles(seed) : Lines(sws[f]) = Lines(ws[f])
        /\ diffHash.diff = candidate
        /\ \A f \in TestFile : sws[f] = seed[f]

\* A declared model attempt is scored, recorded and signed only over a published,
\* terminal generation.
TerminalOverGeneration ==
    declaredModel /\ stage \in {"finish", "score", "record", "payloads", "attempt",
                                "attempting", "manifest", "signing", "done"} =>
        published /\ TerminalGeneration

\* Every way an attempt ends is a result AgentTaskRunResult accepts, made of the
\* generation it has to be made of, and its manifest finds every artifact it names
\* whole and no other: no half-written scorer directory and no score of an earlier
\* process stays behind.
RunExplained ==
    /\ TerminalOverGeneration
    /\ run.status = "scored" =>
            run.promptStatus = "completed" /\ run.candidate /\ run.scored /\ phase = "over"
    /\ run.status = "agent_loop_failed" =>
            run.promptStatus \notin {"none", "completed"} /\ ~run.candidate
    /\ run.status # "scored" => ~run.scored
    /\ manifest # "absent" =>
            /\ {a \in Artifacts : files[a] = "whole"} =
                    Owned \cup {"agent_task_run", "error"}
                        \cup (IF run.status = "scored" THEN {"attempt"} ELSE {})
            /\ {a \in Artifacts : files[a] = "partial"} = {}

\* A resumed attempt is never turned away by what an interrupted process left:
\* the names it is about to write are free.
NothingInTheWay ==
    /\ stage = "attempt" => files["attempt"] = "absent"
    /\ stage = "publish" =>
            (\A a \in Owned : files[a] = "absent") \/ (\A a \in Owned : files[a] = "whole")

\* Once the generation is published the model is not asked again, and no file it
\* owns is written or removed, whatever dies and whoever finishes.
GenerationIsFinal ==
    [][published =>
        /\ UNCHANGED <<loopVars, generation, published>>
        /\ \A a \in Owned : files'[a] = files[a]]_vars

\* "If the loop completes, the harness derives a candidate patch from the mutated
\* agent workspace and scores it" (docs/model_interface.md): the workspace that
\* is scored is the one the agent left, by the canonical hash of workspaces.
ScoredWorkspaceIsAgents == ScoringStarts => CanonicalHash(sws) = CanonicalHash(ws)

-----------------------------------------------------------------------------
(***************************************************************************)
(* Refinement.                                                             *)
(***************************************************************************)
\* What an attempt has drawn: all its generation says.
Outcome == [transcript |-> messages, status |-> status, workspace |-> ws, parts |-> has,
            patch |-> IF "candidate_patch" \in has THEN candidate ELSE NoPatch]

Hunk == [from : Content, to : Content]
Generations == [transcript : Seq(Message), status : Statuses \cup {"running"},
                workspace : Workspaces, parts : SUBSET GenerationParts,
                patch : UNION {[fs -> Hunk] : fs \in SUBSET File}]

\* The attempt is the one entry of a ledger.  A published generation is its
\* outcome, and where none is published what the manifest stands over (in a set of
\* its own, which is empty where there is no outcome).
Ledger == INSTANCE SuiteLedger WITH
    Entry <- {"attempt"},
    Draw <- (SUBSET Generations) \ {{}},
    NoDraw <- {},
    outcome <- [e \in {"attempt"} |->
        IF published \/ manifest = "whole" THEN {Outcome} ELSE {}],
    closed <- IF manifest = "whole" THEN {"attempt"} ELSE {},
    spoilt <- IF manifest = "torn" /\ stage # "signing" THEN {"attempt"} ELSE {},
    complete <- FALSE

\* Whatever dies and whoever goes on, the attempt has one outcome, which is drawn
\* once and is the one that is recorded, and a manifest that was cut short is
\* never repaired: in all its detail an attempt is what the suite takes it for.
ImplementsLedger == Ledger!Spec
=============================================================================
