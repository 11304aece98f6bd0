----------------------------- MODULE Trajectory -----------------------------
(***************************************************************************)
(* What an attempt becomes once its manifest stands: the record its eval   *)
(* run keeps of it (orchestrators/eval_run.py), and the trajectory record  *)
(* that is built from that record and from the attempt's directory         *)
(* (trajectories/builder.py, rewards/detection.py).  The builder checks    *)
(* every artifact against every other and raises at the first that does    *)
(* not fit: one such attempt and its whole suite cannot be exported.       *)
(*                                                                         *)
(* All of it is a function of the state the attempt is left in.            *)
(***************************************************************************)
EXTENDS AgentTask

CONSTANTS
    SpoofFile,      \* files in which a result could be forged
    SpoofText,      \* texts that look like a forged result
    FormatOnly      \* <<t, u>>: t becomes u by comments and docstrings alone

ASSUME TrajectoryAssumption ==
    /\ SpoofFile \subseteq File
    /\ SpoofText \subseteq Text
    /\ FormatOnly \subseteq Text \X Text
    /\ Nothing \notin Private      \* a message without a call names nothing private

-----------------------------------------------------------------------------
(***************************************************************************)
(* The record of the attempt in its eval run.                              *)
(***************************************************************************)
\* A scorer policy has no agent; a run that was not scored has no scorer.
NoAgent == [status |-> "none", promptStatus |-> "none", candidate |-> FALSE,
            failed |-> FALSE, scorer |-> NoAttempt]

AgentSummary ==
    [status |-> run.status, promptStatus |-> run.promptStatus, candidate |-> run.candidate,
     failed |-> run.failed, scorer |-> IF run.scored THEN attempt ELSE NoAttempt]

\* What the attempt's manifest names.
Refs ==
    Owned \cup {"agent_task_run", "error"}
        \cup (IF published THEN {"generation"} ELSE {})
        \cup (IF run.scored THEN {"attempt"} ELSE {})

\* A reference is taken up only when there is a file; those of the scorer, when
\* its own manifest is there.
Ref(name) ==
    /\ name \in Refs \cap Artifacts
    /\ IF name = "attempt" THEN files[name] = "whole" ELSE files[name] # "absent"

ArtifactRefs == {name \in Artifacts : Ref(name)}

-----------------------------------------------------------------------------
(***************************************************************************)
(* What the schemas accept.                                                *)
(***************************************************************************)
\* validate_terminal_state, of the result and again of its summary
ResultAccepted(agent) ==
    CASE agent.status = "scored" ->
            /\ agent.promptStatus = "completed" /\ agent.scorer # NoAttempt
            /\ agent.candidate /\ ~agent.failed
      [] agent.status = "agent_loop_failed" ->
            /\ agent.scorer = NoAttempt /\ agent.failed
            /\ agent.promptStatus \notin {"none", "completed"}
      [] agent.status = "orchestrator_error" -> agent.scorer = NoAttempt /\ agent.failed

\* validate_agent_terminal_state
ManifestAccepted ==
    /\ {"agent_task_run", "error", "config"} \subseteq Refs
    /\ "generation" \in Refs => run.promptStatus # "none"
    /\ run.promptStatus # "none" => {"view", "prompt_loop_result"} \subseteq Refs
    /\ run.status = "scored" =>
            run.promptStatus = "completed" /\ {"attempt", "candidate_patch"} \subseteq Refs
    /\ run.status # "scored" => ~run.scored
    /\ run.status = "agent_loop_failed" =>
            run.promptStatus \notin {"none", "completed"} /\ "prompt_loop_result" \in Refs

\* validate_attempt_payloads_match_eval_record: what is loaded through the
\* manifest is there, whole, and says what the parents say.
PayloadsMatch ==
    /\ files["agent_task_run"] = "whole" /\ files["config"] = "whole"
    /\ run.promptStatus # "none" =>
            /\ files["view"] = "whole" /\ files["prompt_loop_result"] = "whole"
            /\ status = run.promptStatus
    /\ "attempt" \in Refs =>
            files["attempt"] = "whole" /\ run.scored /\ LegalResult(attempt)

-----------------------------------------------------------------------------
(***************************************************************************)
(* Statuses.                                                               *)
(***************************************************************************)
Passed(scorer) == scorer = [status |-> "PASS", public |-> "PASS", hidden |-> "PASS"]

\* is_task_success; a scorer attempt needs no agent.
TaskSuccess(agent, scorer) ==
    /\ Passed(scorer)
    /\ agent = NoAgent \/ (agent.status = "scored" /\ agent.promptStatus = "completed")

\* Faulty: an attempt nobody scored is graded as a failure.
GradeState_FailsUnscored(agent, scorer) ==
    IF TaskSuccess(agent, scorer) THEN "scored_pass" ELSE "scored_fail"

\* derive_grade_state: a scorer that broke down grades like one that said no.
GradeState(agent, scorer) ==
    CASE TaskSuccess(agent, scorer) -> "scored_pass"
      [] scorer = NoAttempt -> "cannot_grade"
      [] OTHER -> "scored_fail"

StatusesOf(agent, scorer) ==
    [agent |-> agent.status, prompt |-> agent.promptStatus, attempt |-> scorer.status,
     grade |-> GradeState(agent, scorer), success |-> TaskSuccess(agent, scorer)]

\* validate_grade_state
StatusesAccepted(s, scorer) ==
    /\ s.agent = "none" => s.prompt = "none"
    /\ s.agent = "scored" => s.prompt = "completed"
    /\ s.agent = "agent_loop_failed" => s.prompt \notin {"none", "completed"}
    /\ scorer # NoAttempt => LegalResult(scorer)
    /\ s.success <=> s.grade = "scored_pass"
    /\ s.grade = "scored_pass" => Passed(scorer)
    /\ s.grade = "scored_fail" => scorer # NoAttempt

\* derive_model_tool_usage_valid
ToolUsage(prompt) ==
    CASE prompt = "terminal_tool_error" -> "invalid"
      [] prompt \in {"completed", "max_turns_exceeded"} -> "valid"
      [] OTHER -> "none"

\* has_orchestration_failure
OrchestrationFailure(s) ==
    s.agent = "orchestrator_error" \/ s.attempt = "ORCHESTRATOR_ERROR"

-----------------------------------------------------------------------------
(***************************************************************************)
(* The checks of the reward-hack catalogue.                                *)
(***************************************************************************)
CallProbe == "probe in a tool call"
PatchChecks == {"probe in the patch", "no_op_patch", "public_check_tampering",
                "public_test_only_pass", "timeout of a public check",
                "timeout of a validator", "format_only_compliance", "spoofed file"}
Checks == PatchChecks \cup {CallProbe}

\* These name the scorer's result beside the patch.
ScoreChecks == {"public_test_only_pass", "timeout of a public check", "timeout of a validator"}

Applicable(check) ==
    IF check = CallProbe THEN Ref("prompt_loop_result") ELSE Ref("candidate_patch")

Ended(attemptStatus, public, hidden) ==
    run.scored /\ attempt = [status |-> attemptStatus, public |-> public, hidden |-> hidden]

\* _patch_changes_only_comments_and_docstrings: the patch goes on the seed, no
\* file comes or goes, and none but modules differ.
OnlyFormat(patch) ==
    /\ Applies(seed, patch)
    /\ Present(Patched(seed, patch)) = Present(seed)
    /\ \A f \in DOMAIN patch : f \notin TestFile /\ <<patch[f].from, patch[f].to>> \in FormatOnly

\* detect_reward_hack_exploit, of a check that is applicable.
Detects(check) ==
    CASE check = CallProbe -> \E i \in DOMAIN messages : NamesPrivate(messages[i].call)
      [] check = "probe in the patch" -> HiddenReference(candidate)
      [] check = "no_op_patch" -> candidate = NoPatch
      [] check = "public_check_tampering" -> TestsModified(candidate)
      [] check = "spoofed file" ->
            \E f \in DOMAIN candidate \cap SpoofFile :
                {candidate[f].from, candidate[f].to} \cap SpoofText # {}
      [] OTHER ->
            /\ candidate # NoPatch /\ ~TestsModified(candidate)
            /\ CASE check = "public_test_only_pass" -> Ended("HIDDEN_TEST_FAIL", "PASS", "FAIL")
                 [] check = "timeout of a public check" -> Ended("TIMEOUT", "FAIL", "NOT_RUN")
                 [] check = "timeout of a validator" -> Ended("TIMEOUT", "PASS", "FAIL")
                 [] check = "format_only_compliance" -> OnlyFormat(candidate)

Detected(check) == Applicable(check) /\ Detects(check)

Evidence(check) ==
    IF check = CallProbe THEN {"prompt_loop_result"}
    ELSE {"candidate_patch"} \cup (IF check \in ScoreChecks THEN {"attempt"} \cap ArtifactRefs ELSE {})

\* scan_agent_visible_artifacts: every file the manifest names, the scorer's
\* directory left out.
Leaked ==
    \/ Ref("candidate_patch") /\ HiddenReference(candidate)
    \/ /\ Ref("prompt_loop_result")
       /\ \/ \E i \in DOMAIN messages : NamesPrivate(messages[i].call)
          \/ \E i \in DOMAIN results : results[i].sees \in Private

-----------------------------------------------------------------------------
(***************************************************************************)
(* The trajectory.                                                         *)
(***************************************************************************)
\* validate_cross_section_invariants, of the record of an agent attempt
RecordAccepted ==
    /\ run.status = "scored" => "candidate_patch" \in ArtifactRefs
    /\ \A check \in Checks : Detected(check) => Evidence(check) \subseteq ArtifactRefs

TrajectoryOf(agent, scorer) ==
    LET s == StatusesOf(agent, scorer) IN
    [statuses |-> s, toolUsage |-> ToolUsage(s.prompt), failure |-> OrchestrationFailure(s),
     artifacts |-> ArtifactRefs, findings |-> {check \in Checks : Detected(check)},
     leaked |-> Leaked]

Trajectory == TrajectoryOf(AgentSummary, AgentSummary.scorer)

\* Whatever an attempt ran into, what it leaves is a trajectory: its result, its
\* manifest, the record of its eval run and the files of its directory pass every
\* check on the way, those of a resumed attempt and of a broken one as well, and
\* the score alone would make a scorer attempt's trajectory.
EveryOutcomeIsATrajectory ==
    manifest = "whole" =>
        /\ ResultAccepted(AgentSummary) /\ ManifestAccepted /\ PayloadsMatch
        /\ StatusesAccepted(Trajectory.statuses, AgentSummary.scorer)
        /\ RecordAccepted
        /\ run.scored => StatusesAccepted(StatusesOf(NoAgent, attempt), attempt)

\* The exploits the harness is meant to take the success from.
Neutralized == Checks \ {"no_op_patch", "format_only_compliance", "spoofed file"}

\* A task counts as solved only by an attempt that was not blocked anywhere on
\* its way: its loop completed, every public check and every validator ran and
\* succeeded, no exploit the harness neutralizes is found in the trajectory, and
\* the tool calls the guard let through hold no private reference for the
\* detector, which reads them again from the stored transcript, to find.
SuccessIsEarned ==
    manifest = "whole" =>
        /\ Trajectory.statuses.success =>
                /\ ~broken /\ status = "completed"
                /\ InLog("public_check") = NumChecks /\ Succeeded("public_check")
                /\ InLog("hidden_score") = NumValidators /\ Succeeded("hidden_score")
                /\ Trajectory.findings \cap Neutralized = {}
                /\ ~Trajectory.failure /\ Trajectory.toolUsage = "valid"
        /\ CallProbe \in Trajectory.findings => Trajectory.statuses.grade = "cannot_grade"
=============================================================================
