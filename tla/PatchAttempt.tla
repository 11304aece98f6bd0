---------------------------- MODULE PatchAttempt ----------------------------
(***************************************************************************)
(* One scorer attempt (orchestrators/attempt.py): a submitted patch is put *)
(* on a fresh workspace, the public checks and then the hidden validators  *)
(* run there, and everything that can end it (a refusal, a failed command, *)
(* a timeout, an exception) ends in one AttemptResult.                     *)
(*                                                                         *)
(* The variables of the attempt are separate from those of whoever asked   *)
(* for it; BeginAttempt is the call.                                       *)
(***************************************************************************)
EXTENDS Workspace

CONSTANTS
    NumChecks,      \* public checks of the task
    NumValidators,  \* hidden validators of the task
    ScoringWrites   \* bound: files that running checks may write

ASSUME AttemptAssumption ==
    /\ NumChecks \in Nat \ {0}
    /\ NumValidators \in Nat \ {0}
    /\ ScoringWrites \subseteq File

VARIABLES
    phase,          \* execution_phase, and "none" or "over" around it
    taskSeed,       \* the task's seed workspace
    submission,     \* the submitted patch
    sws,            \* the scoring workspace
    batch,          \* return codes of the checks of the phase so far
    log,            \* commands: <<phase, the command succeeded>>
    diffHash,       \* final_diff_hash
    attempt         \* the AttemptResult

attemptVars == <<phase, taskSeed, submission, sws, batch, log, diffHash, attempt>>

NoPatch == [f \in {} |-> Empty]
NoAttempt == [status |-> "none", public |-> "none", hidden |-> "none"]

AttemptStatuses == {"PASS", "PATCH_APPLY_ERROR", "PUBLIC_TEST_FAIL", "HIDDEN_TEST_FAIL",
                    "INVALID_SHORTCUT", "HIDDEN_VALIDATOR_ACCESS_ATTEMPT",
                    "ORCHESTRATOR_ERROR", "TIMEOUT"}
CheckStatuses == {"PASS", "FAIL", "NOT_RUN"}
Phases == {"setup", "patch_apply", "public_check", "hidden_score"}

Size(p) == IF p = "public_check" THEN NumChecks ELSE NumValidators

NoWorkspace == [f \in File |-> Absent]
NoDiff == [known |-> FALSE, diff |-> NoPatch]

AttemptInit ==
    /\ phase = "none" /\ taskSeed = NoWorkspace /\ submission = NoPatch
    /\ sws = NoWorkspace /\ batch = <<>> /\ log = <<>>
    /\ diffHash = NoDiff /\ attempt = NoAttempt

\* The process ends, and what it had of an attempt with it.
ForgetAttempt ==
    /\ phase' = "none" /\ taskSeed' = NoWorkspace /\ submission' = NoPatch
    /\ sws' = NoWorkspace /\ batch' = <<>> /\ log' = <<>>
    /\ diffHash' = NoDiff /\ attempt' = NoAttempt

-----------------------------------------------------------------------------
\* _finish_attempt
Finish(status, public, hidden) ==
    /\ phase' = "over"
    /\ attempt' = [status |-> status, public |-> public, hidden |-> hidden]

BeginAttempt(from, patch) ==
    /\ phase' = "setup" /\ taskSeed' = from /\ submission' = patch
    /\ sws' = from /\ batch' = <<>> /\ log' = <<>>
    /\ diffHash' = NoDiff /\ attempt' = NoAttempt

\* Faulty: a patch that touches the public tests is let through.
Setup_AllowsTestEdits ==
    /\ phase = "setup"
    /\ IF HiddenReference(submission)
       THEN Finish("HIDDEN_VALIDATOR_ACCESS_ATTEMPT", "NOT_RUN", "NOT_RUN")
       ELSE phase' = "patch_apply" /\ UNCHANGED attempt
    /\ UNCHANGED <<taskSeed, submission, sws, batch, log, diffHash>>

\* The text of the submission is looked at before any of it is applied.
Setup ==
    /\ phase = "setup"
    /\ IF HiddenReference(submission)
       THEN Finish("HIDDEN_VALIDATOR_ACCESS_ATTEMPT", "NOT_RUN", "NOT_RUN")
       ELSE IF TestsModified(submission) THEN Finish("INVALID_SHORTCUT", "NOT_RUN", "NOT_RUN")
       ELSE phase' = "patch_apply" /\ UNCHANGED attempt
    /\ UNCHANGED <<taskSeed, submission, sws, batch, log, diffHash>>

\* A patch without hunks succeeds and does not run git.  The final diff is what
\* the patch made of the seed, before anything runs in the workspace.
ApplyPatch ==
    /\ phase = "patch_apply" /\ log = <<>>
    /\ log' = <<<<"patch_apply", Applies(sws, submission)>>>>
    /\ sws' = IF Applies(sws, submission) THEN Patched(sws, submission) ELSE sws
    /\ diffHash' = [known |-> TRUE, diff |-> RenderDiff(taskSeed, sws')]
    /\ IF Applies(sws, submission)
       THEN phase' = "public_check" /\ UNCHANGED attempt
       ELSE Finish("PATCH_APPLY_ERROR", "NOT_RUN", "NOT_RUN")
    /\ UNCHANGED <<taskSeed, submission, batch>>

\* The diff cannot be rendered: the command is logged and there is no diff.
DiffFails ==
    /\ phase = "patch_apply" /\ log = <<>>
    /\ log' = <<<<"patch_apply", Applies(sws, submission)>>>>
    /\ sws' = IF Applies(sws, submission) THEN Patched(sws, submission) ELSE sws
    /\ Finish("ORCHESTRATOR_ERROR", "NOT_RUN", "NOT_RUN")
    /\ UNCHANGED <<taskSeed, submission, batch, diffHash>>

CommandDue == phase \in {"public_check", "hidden_score"} /\ Len(batch) < Size(phase)

\* A public check or a hidden validator runs, the agent's code with it: it may
\* end either way and may write files.
RunCommand ==
    /\ CommandDue
    /\ \E ok \in BOOLEAN : batch' = Append(batch, ok)
    /\ \/ sws' = sws
       \/ \E f \in ScoringWrites, t \in Text : sws' = [sws EXCEPT ![f] = t]
    /\ UNCHANGED <<phase, taskSeed, submission, log, diffHash, attempt>>

AllPassed == \A i \in DOMAIN batch : batch[i]
Logged == log \o [i \in DOMAIN batch |-> <<phase, batch[i]>>]

\* Faulty: a failed public check does not keep the hidden validators from running.
EndPublicChecks_GoesOn ==
    /\ phase = "public_check" /\ Len(batch) = NumChecks
    /\ log' = Logged /\ batch' = <<>>
    /\ phase' = "hidden_score" /\ UNCHANGED attempt
    /\ UNCHANGED <<taskSeed, submission, sws, diffHash>>

\* All checks run, whichever fail, and are logged together.
EndPublicChecks ==
    /\ phase = "public_check" /\ Len(batch) = NumChecks
    /\ log' = Logged /\ batch' = <<>>
    /\ IF AllPassed THEN phase' = "hidden_score" /\ UNCHANGED attempt
       ELSE Finish("PUBLIC_TEST_FAIL", "FAIL", "NOT_RUN")
    /\ UNCHANGED <<taskSeed, submission, sws, diffHash>>

EndHiddenScore ==
    /\ phase = "hidden_score" /\ Len(batch) = NumValidators
    /\ log' = Logged /\ batch' = <<>>
    /\ IF AllPassed THEN Finish("PASS", "PASS", "PASS")
       ELSE Finish("HIDDEN_TEST_FAIL", "PASS", "FAIL")
    /\ UNCHANGED <<taskSeed, submission, sws, diffHash>>

\* _timeout_status
TimeoutStatus(p) ==
    CASE p = "patch_apply" -> <<"NOT_RUN", "NOT_RUN">>
      [] p = "public_check" -> <<"FAIL", "NOT_RUN">>
      [] p = "hidden_score" -> <<"PASS", "FAIL">>

\* A command runs out of time: git, unless there is nothing to apply, a check
\* or a validator.  What the phase has run so far is not logged.
TimesOut ==
    /\ \/ phase = "patch_apply" /\ submission # NoPatch
       \/ CommandDue
    /\ Finish("TIMEOUT", TimeoutStatus(phase)[1], TimeoutStatus(phase)[2])
    /\ UNCHANGED <<taskSeed, submission, sws, batch, log, diffHash>>

\* Anything else is raised, by the copy of the seed, by reading the submission,
\* or by starting a command.
Raises ==
    /\ phase \in {"setup", "patch_apply"} \/ CommandDue
    /\ Finish("ORCHESTRATOR_ERROR", "NOT_RUN", "NOT_RUN")
    /\ UNCHANGED <<taskSeed, submission, sws, batch, log, diffHash>>

AttemptStep ==
    \/ Setup \/ ApplyPatch \/ DiffFails \/ RunCommand
    \/ EndPublicChecks \/ EndHiddenScore \/ TimesOut \/ Raises

-----------------------------------------------------------------------------
(***************************************************************************)
(* Safety.                                                                 *)
(***************************************************************************)
\* What validate_attempt_check_statuses lets an AttemptResult say.
LegalResult(result) ==
    <<result.status, result.public, result.hidden>> \in
        {<<"PASS", "PASS", "PASS">>,
         <<"PUBLIC_TEST_FAIL", "FAIL", "NOT_RUN">>, <<"HIDDEN_TEST_FAIL", "PASS", "FAIL">>,
         <<"TIMEOUT", "NOT_RUN", "NOT_RUN">>, <<"TIMEOUT", "FAIL", "NOT_RUN">>,
         <<"TIMEOUT", "PASS", "FAIL">>}
        \cup {<<s, "NOT_RUN", "NOT_RUN">> :
                s \in {"PATCH_APPLY_ERROR", "INVALID_SHORTCUT",
                       "HIDDEN_VALIDATOR_ACCESS_ATTEMPT", "ORCHESTRATOR_ERROR"}}

\* How often a command of phase p is in the log, and whether all succeeded.
InLog(p) == Cardinality({i \in DOMAIN log : log[i][1] = p})
Succeeded(p) == \A i \in DOMAIN log : log[i][1] = p => log[i][2]

\* Every way out of an attempt is a result its own schema accepts (the except
\* branches build it outside the try), and the command log bears it out: a check
\* status says PASS only over a complete phase without a failure, a phase is
\* logged whole or not at all, and no validator ran after a public check failed.
AttemptExplained ==
    phase = "over" =>
        /\ LegalResult(attempt)
        /\ attempt.status = "PASS" => diffHash.known
        /\ attempt.public = "PASS" => InLog("public_check") = NumChecks /\ Succeeded("public_check")
        /\ attempt.hidden = "PASS" => InLog("hidden_score") = NumValidators /\ Succeeded("hidden_score")
        /\ attempt.public = "FAIL" => InLog("hidden_score") = 0
        /\ InLog("public_check") \in {0, NumChecks}
        /\ InLog("hidden_score") # 0 => Succeeded("public_check") /\ Succeeded("patch_apply")
=============================================================================
