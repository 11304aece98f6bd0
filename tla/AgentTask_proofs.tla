-------------------------- MODULE AgentTask_proofs --------------------------
(***************************************************************************)
(* Theorems about AgentTask and Trajectory: a published generation is      *)
(* final, what a declared model attempt writes afterwards stands over one, *)
(* what is scored is what the agent left, and what an attempt leaves is a  *)
(* trajectory whose success was earned.                                    *)
(***************************************************************************)
EXTENDS Trajectory, PromptLoop_proofs, SequenceTheorems

(***************************************************************************)
(* The attempt: its types, and what its command log says, for any number   *)
(* of public checks and hidden validators.                                 *)
(***************************************************************************)
\* What can be in the log, and what a patch puts into a file.
Entry == Phases \X BOOLEAN
IsPatch(patch) == \A f \in DOMAIN patch : patch[f].to \in Content

\* The types, beyond those of the type invariant.
AttemptTypes ==
    /\ phase \in Phases \cup {"none", "over"}
    /\ taskSeed \in Workspaces /\ sws \in Workspaces
    /\ IsPatch(submission)
    /\ batch \in Seq(BOOLEAN) /\ log \in Seq(Entry)
    /\ diffHash.known \in BOOLEAN
    /\ attempt.status \in AttemptStatuses \cup {"none"}
    /\ attempt.public \in CheckStatuses \cup {"none"}

\* The phases come in order and are logged whole: the command that applies the
\* patch, then the public checks, then the validators.
Checked == NumChecks + 1
Validated == NumChecks + NumValidators + 1
PhaseAt(i) == IF i = 1 THEN "patch_apply"
              ELSE IF i <= Checked THEN "public_check" ELSE "hidden_score"
PassedUpTo(n) == \A i \in 1..n : log[i][2]

\* How far the log is in each phase, and what it says once the attempt is over.
LogTrue ==
    /\ Len(log) \in {0, 1, Checked, Validated}
    /\ \A i \in 1..Len(log) : log[i][1] = PhaseAt(i)
    /\ phase \in {"none", "setup", "patch_apply"} => Len(log) = 0 /\ Len(batch) = 0
    /\ phase = "public_check" =>
            Len(log) = 1 /\ PassedUpTo(1) /\ Len(batch) <= NumChecks /\ diffHash.known
    /\ phase = "hidden_score" =>
            Len(log) = Checked /\ PassedUpTo(Checked) /\ Len(batch) <= NumValidators
                /\ diffHash.known

OverTrue ==
    phase = "over" =>
        /\ LegalResult(attempt)
        /\ attempt.status = "PASS" => diffHash.known
        /\ attempt.public = "PASS" => Len(log) \in {Checked, Validated} /\ PassedUpTo(Checked)
        /\ attempt.hidden = "PASS" => Len(log) = Validated /\ PassedUpTo(Validated)
        /\ attempt.public = "FAIL" => Len(log) # Validated
        /\ Len(log) = Validated => PassedUpTo(Checked)

AttemptInv == AttemptTypes /\ LogTrue /\ OverTrue

\* A log is complete after one command, after the checks or after the validators,
\* and these differ.
LEMMA Lengths ==
    /\ Checked \in Nat /\ Validated \in Nat
    /\ 1 < Checked /\ Checked < Validated
    /\ Validated \notin {0, 1, Checked} /\ Checked \notin {0, 1}
BY AttemptAssumption DEF Checked, Validated

\* A scoring workspace stays one, whatever is written to it.
LEMMA PatchedType ==
    ASSUME NEW w \in Workspaces, NEW patch, IsPatch(patch), Applies(w, patch)
    PROVE  Patched(w, patch) \in Workspaces
<1>1. ASSUME NEW f \in File \cap DOMAIN patch
      PROVE  Git[w[f]][patch[f].to] \in Content
  <2>1. w[f] \in Content /\ patch[f].to \in Content
    BY DEF Workspaces, IsPatch
  <2>2. Git[w[f]][patch[f].to] \in Content \cup {Refused}
    BY <2>1, WorkspaceAssumption DEF LineEnds
  <2>3. QED
    BY <2>2 DEF Applies
<1>2. QED
  BY <1>1 DEF Patched, Workspaces

\* What is read of a file is contents again, with LF for every line end.
LEMMA LinesType ==
    ASSUME NEW c \in Content
    PROVE  Lines(c) \in Content \ {Absent} /\ Lines(Lines(c)) = Lines(c)
BY WorkspaceAssumption DEF LineEnds, Lines, Content, Empty, Absent

LEMMA ScoredWrite ==
    ASSUME NEW w \in Workspaces, NEW f, NEW t \in Text
    PROVE  [w EXCEPT ![f] = t] \in Workspaces
BY DEF Workspaces, Content

\* No attempt yet, or none any more.
LEMMA NoAttemptInv ==
    /\ AttemptInit => AttemptInv
    /\ ForgetAttempt => AttemptInv'
<1> USE AttemptAssumption DEF AttemptInv, AttemptTypes, LogTrue, OverTrue, NoAttempt, NoDiff, IsPatch,
        NoPatch
<1>1. NoWorkspace \in Workspaces
  BY DEF NoWorkspace, Workspaces, Content
<1>2. AttemptInit => AttemptInv
  BY <1>1 DEF AttemptInit
<1>3. ForgetAttempt => AttemptInv'
  BY <1>1 DEF ForgetAttempt
<1>4. QED
  BY <1>2, <1>3

\* An attempt begins with nothing logged.
LEMMA BeginAttemptInv ==
    ASSUME NEW from \in Workspaces, NEW patch, IsPatch(patch), BeginAttempt(from, patch)
    PROVE  AttemptInv'
BY AttemptAssumption DEF BeginAttempt, AttemptInv, AttemptTypes, LogTrue, OverTrue, NoAttempt, NoDiff,
   Phases, IsPatch

\* The log after a phase: what was there, and a command for each return code.
LEMMA LoggedIs ==
    ASSUME AttemptTypes, phase \in Phases
    PROVE  /\ Logged \in Seq(Entry)
           /\ Len(Logged) = Len(log) + Len(batch)
           /\ \A i \in 1..Len(log) : Logged[i] = log[i]
           /\ \A i \in 1..Len(batch) : Logged[Len(log) + i] = <<phase, batch[i]>>
<1> DEFINE phaseLog == [i \in DOMAIN batch |-> <<phase, batch[i]>>]
<1>1. /\ batch \in Seq(BOOLEAN) /\ log \in Seq(Entry) /\ DOMAIN batch = 1..Len(batch)
      /\ Len(batch) \in Nat /\ Len(log) \in Nat
  BY DEF AttemptTypes
<1>2. phaseLog \in [1..Len(batch) -> Entry]
  BY <1>1 DEF Entry
<1>3. phaseLog \in Seq(Entry) /\ Len(phaseLog) = Len(batch)
  BY <1>1, <1>2
<1>4. \A i \in 1..Len(batch) : phaseLog[i] = <<phase, batch[i]>>
  BY <1>1
<1>5. Logged = log \o phaseLog
  BY DEF Logged
<1> HIDE DEF phaseLog
<1>6. /\ log \o phaseLog \in Seq(Entry)
      /\ Len(log \o phaseLog) = Len(log) + Len(phaseLog)
      /\ \A i \in 1..Len(log) + Len(phaseLog) :
            (log \o phaseLog)[i] = IF i <= Len(log) THEN log[i] ELSE phaseLog[i - Len(log)]
  BY <1>1, <1>3, ConcatProperties
<1>7. QED
  BY <1>1, <1>3, <1>4, <1>5, <1>6

\* An attempt that ends with what is logged so far: the result is one the schema
\* accepts, and says no more than the log does.
LEMMA EndsUnlogged ==
    ASSUME AttemptInv, UNCHANGED <<taskSeed, submission, sws, batch, log, diffHash>>,
           phase \in Phases, phase' = "over", LegalResult(attempt'),
           attempt'.status # "PASS", attempt'.hidden # "PASS",
           attempt'.public = "PASS" => phase = "hidden_score",
           attempt'.public \in CheckStatuses, attempt'.status \in AttemptStatuses
    PROVE  AttemptInv'
<1> USE AttemptAssumption DEF AttemptInv
<1>1. AttemptTypes'
  BY DEF AttemptTypes
<1>2. Len(log) \in {0, 1, Checked} /\ (phase = "hidden_score" => Len(log) = Checked /\ PassedUpTo(Checked))
  BY DEF LogTrue, Phases
<1>3. Len(log) # Validated
  BY <1>2, Lengths
<1>4. LogTrue'
  BY DEF LogTrue, Phases
<1>5. OverTrue'
  BY <1>2, <1>3 DEF OverTrue, PassedUpTo
<1>6. QED
  BY <1>1, <1>4, <1>5

\* The refusals before a patch is applied.
LEMMA SetupInv ==
    ASSUME AttemptInv, Setup
    PROVE  AttemptInv'
<1>1. UNCHANGED <<taskSeed, submission, sws, batch, log, diffHash>> /\ phase = "setup"
  BY DEF Setup
<1>2. CASE phase' = "patch_apply" /\ UNCHANGED attempt
  BY <1>1, <1>2, AttemptAssumption
     DEF AttemptInv, AttemptTypes, LogTrue, OverTrue, Phases, PassedUpTo
<1>3. CASE \/ Finish("HIDDEN_VALIDATOR_ACCESS_ATTEMPT", "NOT_RUN", "NOT_RUN")
           \/ Finish("INVALID_SHORTCUT", "NOT_RUN", "NOT_RUN")
  BY <1>1, <1>3, EndsUnlogged DEF Finish, LegalResult, Phases, CheckStatuses, AttemptStatuses
<1>4. QED
  BY <1>2, <1>3 DEF Setup

\* A timeout and an exception lose what the phase has run.
LEMMA BreaksOffInv ==
    ASSUME AttemptInv, TimesOut \/ Raises
    PROVE  AttemptInv'
<1>1. /\ UNCHANGED <<taskSeed, submission, sws, batch, log, diffHash>>
      /\ phase \in Phases /\ phase' = "over"
  BY DEF TimesOut, Raises, CommandDue, Phases, Finish
<1>2. CASE TimesOut
  <2>1. \/ phase = "patch_apply" /\ attempt' = [status |-> "TIMEOUT", public |-> "NOT_RUN", hidden |-> "NOT_RUN"]
        \/ phase = "public_check" /\ attempt' = [status |-> "TIMEOUT", public |-> "FAIL", hidden |-> "NOT_RUN"]
        \/ phase = "hidden_score" /\ attempt' = [status |-> "TIMEOUT", public |-> "PASS", hidden |-> "FAIL"]
    BY <1>2 DEF TimesOut, CommandDue, Finish, TimeoutStatus
  <2>2. QED
    BY <1>1, <2>1, EndsUnlogged DEF LegalResult, CheckStatuses, AttemptStatuses
<1>3. CASE Raises
  BY <1>1, <1>3, EndsUnlogged DEF Raises, Finish, LegalResult, CheckStatuses, AttemptStatuses
<1>4. QED
  BY <1>2, <1>3

\* The patch is applied, or not, and that is the first command of the log.
LEMMA ApplyInv ==
    ASSUME AttemptInv, ApplyPatch \/ DiffFails
    PROVE  AttemptInv'
<1> USE AttemptAssumption DEF AttemptInv
<1> DEFINE ok == Applies(sws, submission)
<1>1. /\ phase = "patch_apply" /\ log' = <<<<"patch_apply", ok>>>>
      /\ sws' = IF ok THEN Patched(sws, submission) ELSE sws
      /\ UNCHANGED <<taskSeed, submission, batch>>
  BY DEF ApplyPatch, DiffFails
<1>2. ok \in BOOLEAN /\ (ok => Patched(sws, submission) \in Workspaces)
  BY PatchedType DEF Applies, AttemptTypes
<1> HIDE DEF ok
<1>3. /\ log' \in Seq(Entry) /\ Len(log') = 1 /\ log'[1] = <<"patch_apply", ok>>
  BY <1>1, <1>2 DEF Entry, Phases
<1>4. diffHash'.known \in BOOLEAN /\ (ApplyPatch => diffHash'.known)
  <2>1. CASE ApplyPatch
    <3>1. \E d : diffHash' = [known |-> TRUE, diff |-> d]
      BY <2>1 DEF ApplyPatch
    <3>2. QED
      BY <3>1
  <2>2. CASE DiffFails /\ ~ApplyPatch
    BY <2>2 DEF DiffFails, AttemptTypes
  <2>3. QED
    BY <2>1, <2>2
<1>5. \/ /\ ok /\ phase' = "public_check" /\ UNCHANGED attempt /\ ApplyPatch
      \/ Finish("PATCH_APPLY_ERROR", "NOT_RUN", "NOT_RUN")
      \/ Finish("ORCHESTRATOR_ERROR", "NOT_RUN", "NOT_RUN")
  BY DEF ApplyPatch, DiffFails, ok
<1>6. AttemptTypes'
  BY <1>1, <1>2, <1>3, <1>4, <1>5
     DEF AttemptTypes, Finish, Phases, CheckStatuses, AttemptStatuses
<1>7. \A i \in 1..Len(log') : log'[i][1] = PhaseAt(i)
  BY <1>3 DEF PhaseAt
<1>8. Len(batch') = 0 /\ 1 # Validated
  BY <1>1, Lengths DEF LogTrue
<1>9. LogTrue'
  BY <1>3, <1>4, <1>5, <1>7, <1>8 DEF LogTrue, Finish, PassedUpTo
<1>10. OverTrue'
  BY <1>3, <1>5, <1>8 DEF OverTrue, Finish, LegalResult
<1>11. QED
  BY <1>6, <1>9, <1>10

\* A command of a phase that is not over.
LEMMA RunCommandInv ==
    ASSUME AttemptInv, RunCommand
    PROVE  AttemptInv'
<1> USE AttemptAssumption DEF AttemptInv
<1>1. PICK ok \in BOOLEAN : batch' = Append(batch, ok)
  BY DEF RunCommand
<1>2. batch' \in Seq(BOOLEAN) /\ Len(batch') = Len(batch) + 1 /\ Len(batch) \in Nat
  BY <1>1 DEF AttemptTypes
<1>3. UNCHANGED <<phase, taskSeed, submission, log, diffHash, attempt>> /\ CommandDue
  BY DEF RunCommand
<1>4. sws' \in Workspaces
  <2>1. CASE sws' = sws
    BY <2>1 DEF AttemptTypes
  <2>2. CASE \E f \in ScoringWrites, t \in Text : sws' = [sws EXCEPT ![f] = t]
    <3>1. PICK f \in ScoringWrites, t \in Text : sws' = [sws EXCEPT ![f] = t]
      BY <2>2
    <3>2. QED
      BY <3>1, ScoredWrite DEF AttemptTypes
  <2>3. QED
    BY <2>1, <2>2 DEF RunCommand
<1>5. AttemptTypes'
  BY <1>2, <1>3, <1>4 DEF AttemptTypes
<1>6. LogTrue'
  BY <1>2, <1>3 DEF LogTrue, CommandDue, Size, PassedUpTo
<1>7. OverTrue'
  BY <1>3 DEF OverTrue, CommandDue
<1>8. QED
  BY <1>5, <1>6, <1>7

\* A phase that ends: what its commands add to the log, all at once.
LEMMA EndChecksInv ==
    ASSUME AttemptInv, EndPublicChecks
    PROVE  AttemptInv'
<1> USE AttemptAssumption DEF AttemptInv
<1>1. /\ phase = "public_check" /\ Len(batch) = NumChecks /\ log' = Logged /\ batch' = <<>>
      /\ UNCHANGED <<taskSeed, submission, sws, diffHash>>
  BY DEF EndPublicChecks
<1>2. Len(log) = 1 /\ PassedUpTo(1) /\ diffHash.known
  BY <1>1 DEF LogTrue
<1>3. /\ log' \in Seq(Entry) /\ Len(log') = Checked /\ log'[1] = log[1]
      /\ \A i \in 1..NumChecks : log'[1 + i] = <<"public_check", batch[i]>>
  <2>1. /\ Logged \in Seq(Entry) /\ Len(Logged) = Len(log) + Len(batch)
        /\ \A i \in 1..Len(log) : Logged[i] = log[i]
        /\ \A i \in 1..Len(batch) : Logged[Len(log) + i] = <<phase, batch[i]>>
    BY <1>1, LoggedIs DEF Phases
  <2>2. log' \in Seq(Entry) /\ Len(log') = Checked /\ log'[1] = log[1]
    BY <1>1, <1>2, <2>1 DEF Checked
  <2>3. ASSUME NEW i \in 1..NumChecks PROVE log'[1 + i] = <<"public_check", batch[i]>>
    <3>1. i \in 1..Len(batch) /\ Len(log) + i = 1 + i
      BY <1>1, <1>2
    <3>2. Logged[Len(log) + i] = <<phase, batch[i]>>
      BY <2>1, <3>1
    <3>3. QED
      BY <1>1, <3>1, <3>2
  <2>4. QED
    BY <2>2, <2>3
<1>4. \A i \in 1..Len(log') : log'[i][1] = PhaseAt(i)
  <2>1. log'[1][1] = PhaseAt(1)
    BY <1>2, <1>3 DEF LogTrue
  <2>2. ASSUME NEW i \in 1..Checked, i # 1 PROVE log'[i][1] = PhaseAt(i)
    <3>1. i - 1 \in 1..NumChecks /\ 1 + (i - 1) = i
      BY <2>2 DEF Checked
    <3>2. log'[i] = <<"public_check", batch[i - 1]>>
      BY <1>3, <3>1
    <3>3. QED
      BY <2>2, <3>2 DEF PhaseAt
  <2>3. QED
    BY <1>3, <2>1, <2>2
<1>5. AllPassed => \A i \in 1..Checked : log'[i][2]
  <2>1. ASSUME AllPassed, NEW i \in 1..Checked, i # 1 PROVE log'[i][2]
    <3>1. i - 1 \in 1..NumChecks /\ 1 + (i - 1) = i
      BY <2>1 DEF Checked
    <3>2. log'[i] = <<"public_check", batch[i - 1]>>
      BY <1>3, <3>1
    <3>3. batch[i - 1]
      BY <1>1, <2>1, <3>1 DEF AllPassed, AttemptTypes
    <3>4. QED
      BY <3>2, <3>3
  <2>2. log'[1][2]
    BY <1>2, <1>3 DEF PassedUpTo
  <2>3. QED
    BY <2>1, <2>2
<1>6. \/ AllPassed /\ phase' = "hidden_score" /\ UNCHANGED attempt
      \/ Finish("PUBLIC_TEST_FAIL", "FAIL", "NOT_RUN")
  BY DEF EndPublicChecks
<1>7. AttemptTypes'
  BY <1>1, <1>3, <1>6 DEF AttemptTypes, Finish, Phases, CheckStatuses, AttemptStatuses
<1>8. LogTrue'
  BY <1>1, <1>2, <1>3, <1>4, <1>5, <1>6, Lengths DEF LogTrue, Finish, PassedUpTo
<1>9. OverTrue'
  BY <1>3, <1>6, Lengths DEF OverTrue, Finish, LegalResult
<1>10. QED
  BY <1>7, <1>8, <1>9

LEMMA EndScoreInv ==
    ASSUME AttemptInv, EndHiddenScore
    PROVE  AttemptInv'
<1> USE AttemptAssumption DEF AttemptInv
<1>1. /\ phase = "hidden_score" /\ Len(batch) = NumValidators /\ log' = Logged
      /\ batch' = <<>> /\ UNCHANGED <<taskSeed, submission, sws, diffHash>>
  BY DEF EndHiddenScore
<1>2. Len(log) = Checked /\ PassedUpTo(Checked) /\ diffHash.known
  BY <1>1 DEF LogTrue
<1>3. /\ log' \in Seq(Entry) /\ Len(log') = Validated
      /\ \A i \in 1..Checked : log'[i] = log[i]
      /\ \A i \in 1..NumValidators : log'[Checked + i] = <<"hidden_score", batch[i]>>
  <2>1. /\ Logged \in Seq(Entry) /\ Len(Logged) = Len(log) + Len(batch)
        /\ \A i \in 1..Len(log) : Logged[i] = log[i]
        /\ \A i \in 1..Len(batch) : Logged[Len(log) + i] = <<phase, batch[i]>>
    BY <1>1, LoggedIs DEF Phases
  <2>2. log' \in Seq(Entry) /\ Len(log') = Validated
    BY <1>1, <1>2, <2>1 DEF Checked, Validated
  <2>3. \A i \in 1..Checked : log'[i] = log[i]
    BY <1>1, <1>2, <2>1
  <2>4. ASSUME NEW i \in 1..NumValidators PROVE log'[Checked + i] = <<"hidden_score", batch[i]>>
    <3>1. i \in 1..Len(batch) /\ Len(log) + i = Checked + i
      BY <1>1, <1>2
    <3>2. Logged[Len(log) + i] = <<phase, batch[i]>>
      BY <2>1, <3>1
    <3>3. QED
      BY <1>1, <3>1, <3>2
  <2>5. QED
    BY <2>2, <2>3, <2>4
<1>4. \A i \in 1..Len(log') : log'[i][1] = PhaseAt(i)
  <2>1. ASSUME NEW i \in 1..Checked PROVE log'[i][1] = PhaseAt(i)
    BY <1>2, <1>3, <2>1 DEF LogTrue
  <2>2. ASSUME NEW i \in 1..Validated, i > Checked PROVE log'[i][1] = PhaseAt(i)
    <3>1. i - Checked \in 1..NumValidators /\ Checked + (i - Checked) = i
      BY <2>2 DEF Checked, Validated
    <3>2. log'[i] = <<"hidden_score", batch[i - Checked]>>
      BY <1>3, <3>1
    <3>3. i # 1 /\ ~(i <= Checked)
      BY <2>2, Lengths
    <3>4. QED
      BY <3>2, <3>3 DEF PhaseAt
  <2>3. QED
    BY <1>3, <2>1, <2>2, Lengths
<1>5. \A i \in 1..Checked : log'[i][2]
  BY <1>2, <1>3 DEF PassedUpTo
<1>6. AllPassed => \A i \in 1..Validated : log'[i][2]
  <2>1. ASSUME AllPassed, NEW i \in 1..Validated, i > Checked PROVE log'[i][2]
    <3>1. i - Checked \in 1..NumValidators /\ Checked + (i - Checked) = i
      BY <2>1 DEF Checked, Validated
    <3>2. log'[i] = <<"hidden_score", batch[i - Checked]>>
      BY <1>3, <3>1
    <3>3. batch[i - Checked]
      BY <1>1, <2>1, <3>1 DEF AllPassed, AttemptTypes
    <3>4. QED
      BY <3>2, <3>3
  <2>2. QED
    BY <1>5, <2>1, Lengths
<1>7. \/ AllPassed /\ Finish("PASS", "PASS", "PASS")
      \/ Finish("HIDDEN_TEST_FAIL", "PASS", "FAIL")
  BY DEF EndHiddenScore
<1>8. AttemptTypes'
  BY <1>1, <1>3, <1>7 DEF AttemptTypes, Finish, Phases, CheckStatuses, AttemptStatuses
<1>9. LogTrue'
  BY <1>3, <1>4, <1>7, Lengths DEF LogTrue, Finish
<1>10. OverTrue'
  BY <1>1, <1>2, <1>3, <1>5, <1>6, <1>7 DEF OverTrue, Finish, LegalResult, PassedUpTo
<1>11. QED
  BY <1>8, <1>9, <1>10

\* Every step of an attempt keeps the invariant, and so does doing nothing.
LEMMA AttemptInvStep ==
    ASSUME AttemptInv, AttemptStep \/ UNCHANGED attemptVars
    PROVE  AttemptInv'
<1>1. CASE UNCHANGED attemptVars
  BY <1>1 DEF attemptVars, AttemptInv, AttemptTypes, LogTrue, OverTrue, PassedUpTo
<1>2. QED
  BY <1>1, SetupInv, ApplyInv, RunCommandInv, EndChecksInv, EndScoreInv, BreaksOffInv
     DEF AttemptStep

-----------------------------------------------------------------------------
\* The commands of a phase are an interval of the log.
LEMMA CountInLog ==
    ASSUME AttemptInv
    PROVE  /\ InLog("public_check") = IF Len(log) \in {0, 1} THEN 0 ELSE NumChecks
           /\ InLog("hidden_score") = IF Len(log) = Validated THEN NumValidators ELSE 0
<1> USE AttemptAssumption DEF AttemptInv
<1>1. Len(log) \in {0, 1, Checked, Validated} /\ DOMAIN log = 1..Len(log)
      /\ \A i \in 1..Len(log) : log[i][1] = PhaseAt(i)
  BY DEF LogTrue, AttemptTypes
<1> DEFINE at(p) == {i \in DOMAIN log : log[i][1] = p}
<1>2. Len(log) \in {0, 1} => at("public_check") = {} /\ at("hidden_score") = {}
  BY <1>1 DEF PhaseAt
<1>3. Len(log) \in {Checked, Validated} => at("public_check") = 2..Checked
  <2>1. ASSUME Len(log) \in {Checked, Validated}, NEW i
        PROVE  i \in at("public_check") <=> i \in 2..Checked
    <3>1. i \in at("public_check") <=> i \in 1..Len(log) /\ PhaseAt(i) = "public_check"
      BY <1>1
    <3>2. \A j \in 1..Len(log) : PhaseAt(j) = "public_check" <=> j # 1 /\ j <= Checked
      BY DEF PhaseAt
    <3>3. QED
      BY <2>1, <3>1, <3>2, Lengths
  <2>2. QED
    BY <2>1
<1>4. Len(log) = Checked => at("hidden_score") = {}
  BY <1>1, Lengths DEF PhaseAt
<1>5. Len(log) = Validated => at("hidden_score") = Checked + 1..Validated
  BY <1>1, Lengths DEF PhaseAt
<1>6. Cardinality(2..Checked) = NumChecks
  BY FS_Interval DEF Checked
<1>7. Cardinality(Checked + 1..Validated) = NumValidators
  BY FS_Interval DEF Checked, Validated
<1>8. Cardinality({}) = 0
  BY FS_EmptySet
<1>9. InLog("public_check") = Cardinality(at("public_check"))
      /\ InLog("hidden_score") = Cardinality(at("hidden_score"))
  BY DEF InLog
<1> HIDE DEF at
<1>10. QED
  BY <1>1, <1>2, <1>3, <1>4, <1>5, <1>6, <1>7, <1>8, <1>9, Lengths

\* What a result says of the checks and the validators is what the log says.
LEMMA InvExplains ==
    ASSUME AttemptInv
    PROVE  AttemptExplained
<1> SUFFICES ASSUME phase = "over"
             PROVE  /\ LegalResult(attempt)
                    /\ attempt.status = "PASS" => diffHash.known
                    /\ attempt.public = "PASS" =>
                            InLog("public_check") = NumChecks /\ Succeeded("public_check")
                    /\ attempt.hidden = "PASS" =>
                            InLog("hidden_score") = NumValidators /\ Succeeded("hidden_score")
                    /\ attempt.public = "FAIL" => InLog("hidden_score") = 0
                    /\ InLog("public_check") \in {0, NumChecks}
                    /\ InLog("hidden_score") # 0 =>
                            Succeeded("public_check") /\ Succeeded("patch_apply")
  BY DEF AttemptExplained
<1> USE AttemptAssumption DEF AttemptInv
<1>1. DOMAIN log = 1..Len(log) /\ Len(log) \in {0, 1, Checked, Validated}
      /\ \A i \in 1..Len(log) : log[i][1] = PhaseAt(i)
  BY DEF LogTrue, AttemptTypes
<1>2. PassedUpTo(Checked) => Succeeded("public_check") /\ Succeeded("patch_apply")
  <2>1. ASSUME PassedUpTo(Checked), NEW i \in 1..Len(log), log[i][1] # "hidden_score"
        PROVE  log[i][2]
    <3>0. PhaseAt(i) # "hidden_score" /\ i \in Nat /\ i >= 1
      BY <1>1, <2>1 DEF AttemptTypes
    <3>1. i \in 1..Checked
      BY <3>0, Lengths DEF PhaseAt
    <3>2. QED
      BY <2>1, <3>1 DEF PassedUpTo
  <2>2. QED
    BY <1>1, <2>1 DEF Succeeded
<1>3. Len(log) = Validated /\ PassedUpTo(Validated) => Succeeded("hidden_score")
  BY <1>1 DEF PassedUpTo, Succeeded
<1>4. OverTrue
  OBVIOUS
<1>5. /\ LegalResult(attempt)
      /\ attempt.status = "PASS" => diffHash.known
      /\ attempt.public = "PASS" => Len(log) \in {Checked, Validated} /\ PassedUpTo(Checked)
      /\ attempt.hidden = "PASS" => Len(log) = Validated /\ PassedUpTo(Validated)
      /\ attempt.public = "FAIL" => Len(log) # Validated
      /\ Len(log) = Validated => PassedUpTo(Checked)
  BY <1>4 DEF OverTrue
<1>6. attempt.public = "PASS" => InLog("public_check") = NumChecks
  BY <1>5, CountInLog, Lengths
<1>7. attempt.hidden = "PASS" => InLog("hidden_score") = NumValidators
  BY <1>5, CountInLog
<1>8. attempt.public = "FAIL" => InLog("hidden_score") = 0
  BY <1>5, CountInLog
<1>9. InLog("public_check") \in {0, NumChecks}
  BY CountInLog
<1>10. InLog("hidden_score") # 0 => Len(log) = Validated
  BY CountInLog
<1>11. QED
  BY <1>2, <1>3, <1>5, <1>6, <1>7, <1>8, <1>9, <1>10

-----------------------------------------------------------------------------
(***************************************************************************)
(* The generation is final.                                                *)
(***************************************************************************)
\* The stages before a generation can be published, and those that only a
\* published one lets a declared model attempt reach.
Early == {"setup", "loop", "generated", "publish"}
Late == {"finish", "score", "record", "payloads", "attempt", "attempting", "manifest",
         "signing", "done"}

\* The inductive invariant.  GenerationIsFinal needs that a process which can
\* still ask the model, or write what a generation owns, has published nothing;
\* TerminalOverGeneration that what is being published is terminal.
GInv ==
    /\ stage \in Early \cup Late \cup {"interrupted"}
    /\ published \in BOOLEAN
    /\ has \subseteq GenerationParts
    /\ files \in [Artifacts -> {"absent", "partial", "whole"}]
    /\ stage \in Early => ~published
    /\ stage = "publish" => TerminalGeneration
    /\ published => TerminalGeneration
    /\ declaredModel /\ stage \in Late => published

\* Writing artifacts keeps the directory a directory, and only they change.
LEMMA WrittenArtifacts ==
    ASSUME files \in [Artifacts -> {"absent", "partial", "whole"}],
           NEW names, files' = Written(names)
    PROVE  /\ files' \in [Artifacts -> {"absent", "partial", "whole"}]
           /\ \A a \in Artifacts \ names : files'[a] = files[a]
BY DEF Written

\* A generation owns none of the artifacts that are written after it.
LEMMA OwnedArtifacts ==
    ASSUME has \subseteq GenerationParts
    PROVE  /\ Owned \subseteq Artifacts
           /\ Owned \cap {"agent_task_run", "error", "attempt"} = {}
BY DEF Owned, Artifacts, GenerationParts

\* Nothing is published at the start.
LEMMA InitGInv == Init => GInv
BY DEF Init, GInv, NoFiles, Early, Late

\* The steps of a generation: all are early.
LEMMA GenerationSteps ==
    ASSUME GInv, Generation
    PROVE  GInv' /\ ~published
<1> USE DEF GInv, Early, Late, GenerationParts, directory, generation
<1>1. CASE SetupWorkspace
  BY <1>1 DEF SetupWorkspace, Go
<1>2. CASE LoopStep
  BY <1>2 DEF LoopStep, taskVars
<1>3. CASE DeriveCandidate
  BY <1>3 DEF DeriveCandidate, WithCandidate, WithoutCandidate
<1>4. CASE GenerationRaises
  BY <1>4 DEF GenerationRaises, WithCandidate, WithoutCandidate
<1>5. CASE AfterGeneration
  BY <1>5 DEF AfterGeneration, TerminalGeneration, loopVars
<1>6. CASE WriteOwned
  <2>1. files' \in [Artifacts -> {"absent", "partial", "whole"}]
    BY <1>6, WrittenArtifacts DEF WriteOwned
  <2>2. QED
    BY <1>6, <2>1 DEF WriteOwned, TerminalGeneration, loopVars
<1>7. CASE PublishGeneration
  BY <1>7 DEF PublishGeneration, Go, TerminalGeneration, loopVars
<1>8. QED
  BY <1>1, <1>2, <1>3, <1>4, <1>5, <1>6, <1>7 DEF Generation

\* What a step after the generation leaves alone.
Kept ==
    /\ UNCHANGED <<loopVars, generation, published>>
    /\ files' \in [Artifacts -> {"absent", "partial", "whole"}]
    /\ \A a \in Owned : files'[a] = files[a]

\* Scoring leaves the directory alone.
LEMMA ScoringSteps ==
    ASSUME GInv, Scoring
    PROVE  GInv' /\ Kept
<1> USE DEF GInv, Early, Late, Go, directory, generation
<1>1. UNCHANGED <<loopVars, declaredModel, generation, directory>>
  BY DEF Scoring, FinishUnscored, StartScoring, ScoringRaises, ScoringStep, EndScoring,
         taskVars
<1>2. stage \in Late /\ stage' \in Late
  BY DEF Scoring, FinishUnscored, StartScoring, ScoringRaises, ScoringStep, EndScoring,
         taskVars
<1>3. TerminalGeneration' = TerminalGeneration
  BY <1>1 DEF TerminalGeneration, loopVars
<1>4. QED
  BY <1>1, <1>2, <1>3 DEF Kept

\* The artifacts written after scoring are none a generation owns.
LEMMA PersistingSteps ==
    ASSUME GInv, Persisting
    PROVE  GInv' /\ (published => Kept)
<1> USE DEF GInv, Early, Late, Go, generation, Persisting
<1>1. UNCHANGED <<loopVars, declaredModel, generation, published>>
  BY DEF WriteRecord, WritePayloads, BeginAttemptDir, EndAttemptDir, BeginManifest,
         EndManifest
<1>2. stage \in Late /\ stage' \in Late
  BY DEF WriteRecord, WritePayloads, BeginAttemptDir, EndAttemptDir, BeginManifest,
         EndManifest
<1>3. /\ files' \in [Artifacts -> {"absent", "partial", "whole"}]
      /\ published => \A a \in Owned : files'[a] = files[a]
  <2>1. CASE WriteRecord
    BY <2>1, WrittenArtifacts, OwnedArtifacts DEF WriteRecord
  <2>2. CASE WritePayloads
    BY <2>2, WrittenArtifacts, OwnedArtifacts DEF WritePayloads, RunPayloads
  <2>3. CASE BeginAttemptDir
    BY <2>3, OwnedArtifacts DEF BeginAttemptDir
  <2>4. CASE EndAttemptDir
    BY <2>4, WrittenArtifacts, OwnedArtifacts DEF EndAttemptDir
  <2>5. CASE BeginManifest \/ EndManifest
    BY <2>5 DEF BeginManifest, EndManifest
  <2>6. QED
    BY <2>1, <2>2, <2>3, <2>4, <2>5
<1>4. TerminalGeneration' = TerminalGeneration
  BY <1>1 DEF TerminalGeneration, loopVars
<1>5. QED
  BY <1>1, <1>2, <1>3, <1>4 DEF Kept

\* A process that dies keeps the directory; one that finishes the attempt clears
\* only what the generation does not own; one that starts it again found nothing
\* published.
LEMMA RecoverySteps ==
    ASSUME GInv, Crash \/ FinishFromGeneration \/ RunAgain
    PROVE  GInv' /\ (published => Kept)
<1> USE DEF GInv, Early, Late, Go, generation, directory
<1>1. CASE Crash
  <2>1. TerminalGeneration' = TerminalGeneration
    BY <1>1 DEF Crash, TerminalGeneration, loopVars
  <2>2. QED
    BY <1>1, <2>1 DEF Crash, Kept
<1>2. CASE FinishFromGeneration
  <2>1. UNCHANGED <<loopVars, declaredModel, generation, published>>
    BY <1>2 DEF FinishFromGeneration
  <2>2. TerminalGeneration' = TerminalGeneration
    BY <2>1 DEF TerminalGeneration, loopVars
  <2>3. /\ files' \in [Artifacts -> {"absent", "partial", "whole"}]
        /\ \A a \in Owned : files'[a] = files[a]
    BY <1>2, OwnedArtifacts DEF FinishFromGeneration, ClearDownstream
  <2>4. QED
    BY <1>2, <2>1, <2>2, <2>3 DEF FinishFromGeneration, Kept
<1>3. CASE RunAgain
  BY <1>3 DEF RunAgain, NoFiles
<1>4. QED
  BY <1>1, <1>2, <1>3

\* All steps together.
LEMMA StepGInv ==
    ASSUME GInv, [Next]_vars
    PROVE  GInv' /\ (published => Kept)
<1>1. CASE UNCHANGED vars
  <2>1. UNCHANGED <<loopVars, declaredModel, stage, generation, files, published>>
    BY <1>1 DEF vars, taskVars, directory
  <2>2. TerminalGeneration' = TerminalGeneration
    BY <2>1 DEF TerminalGeneration, loopVars, generation
  <2>3. QED
    BY <2>1, <2>2 DEF GInv, Kept, generation
<1>2. CASE Next
  BY <1>2, GenerationSteps, ScoringSteps, PersistingSteps, RecoverySteps DEF Next
<1>3. QED
  BY <1>1, <1>2

-----------------------------------------------------------------------------
\* The invariant holds in every state: nothing is published by a process that can
\* still ask the model, and everything published is terminal.
THEOREM GenerationInvariant == Spec => []GInv
<1>1. GInv /\ [Next]_vars => GInv'
  BY StepGInv
<1>2. QED
  BY InitGInv, <1>1, PTL DEF Spec

LEMMA GenerationTerminal == GInv => TerminalOverGeneration
BY DEF GInv, TerminalOverGeneration, Late

\* A declared model attempt is scored, recorded and signed only over a published
\* generation that is terminal (run_and_persist_agent_task_attempt_to_dir).
THEOREM DeclaredOverGeneration == Spec => []TerminalOverGeneration
BY GenerationInvariant, GenerationTerminal, PTL

\* Once it is published, no step of any process asks the model again or writes
\* or removes a file the generation owns, whatever the task and its limits.
THEOREM PublishedIsFinal == Spec => GenerationIsFinal
<1> DEFINE Final == published =>
        /\ UNCHANGED <<loopVars, generation, published>>
        /\ \A a \in Owned : files'[a] = files[a]
<1>1. GInv /\ [Next]_vars => [Final]_vars
  BY StepGInv DEF Kept
<1>2. QED
  BY GenerationInvariant, <1>1, PTL DEF Spec, GenerationIsFinal

-----------------------------------------------------------------------------
(***************************************************************************)
(* The result and the artifacts.                                           *)
(***************************************************************************)
\* What the parts of a generation say of how its loop ended.
GenerationTrue ==
    /\ "candidate_patch" \in has => status = "completed" /\ "prompt_loop_result" \in has
    /\ ~broken => TerminalGeneration

\* What the result of a run says of its generation, and of the scorer attempt.
ResultTrue ==
    /\ run.status = "scored" =>
            run.promptStatus = "completed" /\ run.candidate /\ run.scored /\ phase = "over"
    /\ run.status = "agent_loop_failed" =>
            run.promptStatus \notin {"none", "completed"} /\ ~run.candidate
    /\ run.status # "scored" => ~run.scored

\* Where the artifacts are: the parts the generation owns, and the three that
\* are written after it.
FilesAre(owned, record, error, attemptDir) ==
    /\ \A a \in Owned : files[a] = owned
    /\ \A a \in GenerationParts \ has : files[a] = "absent"
    /\ files["agent_task_run"] = record
    /\ files["error"] = error
    /\ files["attempt"] = attemptDir

PublishedFile == IF published THEN "whole" ELSE "absent"
ScoredFile == IF run.scored THEN "whole" ELSE "absent"
Complete == FilesAre("whole", "whole", "whole", ScoredFile)

\* The invariant behind RunExplained and NothingInTheWay: at every stage, how
\* far the generation, the result and the directory are.
StageTrue ==
    /\ status \in Statuses \cup {"running"}
    /\ stage \in {"setup", "loop"} => "candidate_patch" \notin has
    /\ stage \notin {"setup", "loop", "interrupted"} \/ published => GenerationTrue
    /\ stage \in Early \cup {"finish", "score"} => run.status = "none"
    /\ stage = "score" => ~broken /\ status = "completed"

DirectoryTrue ==
    /\ stage \in {"setup", "loop", "generated"} =>
            FilesAre("absent", "absent", "absent", "absent")
    /\ stage = "publish" =>
            \E owned \in {"absent", "whole"} : FilesAre(owned, "absent", "absent", "absent")
    /\ stage \in {"finish", "score", "record"} =>
            FilesAre(PublishedFile, "absent", "absent", "absent")
    /\ stage = "payloads" => FilesAre(PublishedFile, "whole", "absent", "absent")
    /\ stage = "attempt" => run.scored /\ FilesAre("whole", "whole", "whole", "absent")
    /\ stage = "attempting" => run.scored /\ FilesAre("whole", "whole", "whole", "partial")
    /\ stage \in {"manifest", "signing", "done"} => Complete
    /\ manifest # "absent" => stage \in {"signing", "done", "interrupted"} /\ Complete
    /\ published => \A a \in Owned : files[a] = "whole"

AInv == GInv /\ StageTrue /\ ResultTrue /\ DirectoryTrue

\* The two groups of artifacts, and no name in both.
LEMMA FileNames ==
    ASSUME has \subseteq GenerationParts
    PROVE  /\ Artifacts = Owned \cup (GenerationParts \ has)
                            \cup {"agent_task_run", "error", "attempt"}
           /\ Owned \cap (GenerationParts \ has) = {}
           /\ Owned \cap {"agent_task_run", "error", "attempt"} = {}
           /\ GenerationParts \cap {"agent_task_run", "error", "attempt"} = {}
BY DEF Owned, Artifacts, GenerationParts

\* A directory with nothing in it is one at the first stages.
LEMMA NothingThere ==
    ASSUME GInv
    PROVE  FilesAre("absent", "absent", "absent", "absent")
                <=> \A a \in Artifacts : files[a] = "absent"
BY FileNames DEF FilesAre, GInv

\* It begins with an empty directory and a loop that runs.
LEMMA InitAInv == Init => AInv
<1> SUFFICES ASSUME Init PROVE AInv
  OBVIOUS
<1>1. GInv
  BY InitGInv
<1>2. \A a \in Artifacts : files[a] = "absent"
  BY DEF Init, NoFiles
<1>3. FilesAre("absent", "absent", "absent", "absent")
  BY <1>1, <1>2, NothingThere
<1>4. DirectoryTrue
  BY <1>3 DEF Init, DirectoryTrue
<1>5. StageTrue /\ ResultTrue
  BY DEF Init, LoopInit, NoRun, StageTrue, ResultTrue
<1>6. QED
  BY <1>1, <1>4, <1>5 DEF AInv

\* A turn ends in a status of the loop.
LEMMA TurnStatus ==
    ASSUME Turn
    PROVE  status' \in Statuses \cup {"running"}
BY DEF Turn, GenerateRaises, AnswerEndsLoop, PrivateCall, HashFails, RunTool, NextStatus,
       Statuses

\* The generation's steps leave the directory empty until it is published, so
\* that it is still one for whatever parts there are by then.
LEMMA GenerationDirectory ==
    ASSUME AInv, SetupWorkspace \/ LoopStep \/ DeriveCandidate \/ GenerationRaises
    PROVE  DirectoryTrue'
<1>1. GInv' /\ ~published
  BY GenerationSteps DEF AInv, Generation
<1>2. stage \in {"setup", "loop"} /\ stage' \in {"setup", "loop", "generated"}
      /\ UNCHANGED directory
  BY DEF SetupWorkspace, LoopStep, DeriveCandidate, GenerationRaises, Go, taskVars
<1>3. \A a \in Artifacts : files[a] = "absent"
  BY <1>2, NothingThere DEF AInv, DirectoryTrue
<1>4. FilesAre("absent", "absent", "absent", "absent")'
  <2>1. (\A a \in Artifacts : files[a] = "absent")'
    BY <1>2, <1>3 DEF directory
  <2>2. (FilesAre("absent", "absent", "absent", "absent")
            <=> \A a \in Artifacts : files[a] = "absent")'
    BY <1>1, FileNames DEF FilesAre, GInv, Artifacts, GenerationParts, Owned
  <2>3. QED
    BY <2>1, <2>2
<1>5. manifest' = "absent" /\ ~published'
  BY <1>1, <1>2 DEF AInv, DirectoryTrue, directory
<1>6. QED
  BY <1>2, <1>4, <1>5 DEF DirectoryTrue

\* While the generation goes on there is no result, and what it has fits the
\* end of its loop.
LEMMA GenerationStages ==
    ASSUME AInv, Generation
    PROVE  StageTrue' /\ ResultTrue'
<1> USE DEF AInv, GInv, StageTrue, ResultTrue, GenerationTrue, Early, generation, directory
<1>1. CASE SetupWorkspace
  BY <1>1 DEF SetupWorkspace, Go, loopVars, attemptVars
<1>2. CASE LoopStep
  BY <1>2, TurnStatus DEF LoopStep, taskVars, attemptVars
<1>3. CASE DeriveCandidate
  BY <1>3 DEF DeriveCandidate, WithCandidate, WithoutCandidate, loopVars, attemptVars,
              TerminalGeneration
<1>4. CASE GenerationRaises
  BY <1>4 DEF GenerationRaises, WithCandidate, WithoutCandidate, loopVars, attemptVars
<1>5. CASE AfterGeneration
  BY <1>5 DEF AfterGeneration, TerminalGeneration, loopVars, attemptVars
<1>6. CASE WriteOwned
  BY <1>6 DEF WriteOwned, TerminalGeneration, loopVars, attemptVars
<1>7. CASE PublishGeneration
  BY <1>7 DEF PublishGeneration, Go, TerminalGeneration, loopVars, attemptVars
<1>8. QED
  BY <1>1, <1>2, <1>3, <1>4, <1>5, <1>6, <1>7 DEF Generation

\* The three steps after the loop: the generation is whole when it is published.
LEMMA PublicationDirectory ==
    ASSUME AInv, AfterGeneration \/ WriteOwned \/ PublishGeneration
    PROVE  DirectoryTrue'
<1> USE DEF AInv, GInv, Early, generation, directory
<1>1. CASE AfterGeneration
  <2>1. UNCHANGED <<has, files, published, manifest>> /\ stage = "generated" /\ ~published
        /\ stage' \in {"publish", "finish", "interrupted"}
    BY <1>1 DEF AfterGeneration
  <2>2. FilesAre("absent", "absent", "absent", "absent")' /\ manifest' = "absent"
    BY <2>1 DEF DirectoryTrue, FilesAre, Owned
  <2>3. PublishedFile' = "absent" /\ ~published'
    BY <2>1 DEF PublishedFile
  <2>4. QED
    BY <2>1, <2>2, <2>3 DEF DirectoryTrue
<1>2. CASE WriteOwned
  <2>1. UNCHANGED <<has, stage, published, manifest>> /\ stage = "publish" /\ ~published
    BY <1>2 DEF WriteOwned
  <2>2. FilesAre("whole", "absent", "absent", "absent")'
    <3>1. \A a \in Artifacts :
              files'[a] = IF a \in Owned THEN "whole" ELSE files[a]
      BY <1>2 DEF WriteOwned, Written
    <3>2. QED
      BY <2>1, <3>1, FileNames DEF DirectoryTrue, FilesAre, Owned
  <2>3. manifest' = "absent"
    BY <2>1 DEF DirectoryTrue
  <2>4. QED
    BY <2>1, <2>2, <2>3 DEF DirectoryTrue
<1>3. CASE PublishGeneration
  <2>1. UNCHANGED <<has, files, manifest>> /\ stage = "publish" /\ stage' = "finish"
        /\ published' /\ \A a \in Owned : files[a] = "whole"
    BY <1>3 DEF PublishGeneration, Go
  <2>2. FilesAre("whole", "absent", "absent", "absent")' /\ manifest' = "absent"
    BY <2>1 DEF DirectoryTrue, FilesAre, Owned
  <2>3. PublishedFile' = "whole" /\ \A a \in Owned' : files'[a] = "whole"
    BY <2>1 DEF PublishedFile, Owned
  <2>4. QED
    BY <2>1, <2>2, <2>3 DEF DirectoryTrue
<1>4. QED
  BY <1>1, <1>2, <1>3

\* Scoring ends in a result that fits the generation and the scorer attempt, and
\* leaves the directory alone.
LEMMA ScoringResult ==
    ASSUME AInv, Scoring
    PROVE  StageTrue' /\ ResultTrue' /\ DirectoryTrue'
<1> USE DEF AInv, GInv, Early, Late, generation, directory
<1>1. /\ UNCHANGED <<loopVars, broken, has, candidate, files, published, manifest>>
      /\ stage \in {"finish", "score"} /\ stage' \in {"finish", "score", "record"}
  BY DEF Scoring, FinishUnscored, StartScoring, ScoringRaises, ScoringStep, EndScoring, Go,
         taskVars
<1>2. GenerationTrue /\ GenerationTrue'
  BY <1>1 DEF StageTrue, GenerationTrue, TerminalGeneration, loopVars
<1>3. StageTrue' /\ ResultTrue'
  <2>1. CASE FinishUnscored
    BY <1>1, <1>2, <2>1 DEF FinishUnscored, Go, Result, StageTrue, ResultTrue,
       GenerationTrue, TerminalGeneration, Statuses, loopVars
  <2>2. CASE StartScoring
    BY <1>1, <1>2, <2>2 DEF StartScoring, Go, StageTrue, ResultTrue, loopVars
  <2>3. CASE ScoringRaises
    BY <1>1, <1>2, <2>3 DEF ScoringRaises, Go, Result, StageTrue, ResultTrue, loopVars
  <2>4. CASE ScoringStep
    BY <1>1, <1>2, <2>4 DEF ScoringStep, StageTrue, ResultTrue, loopVars, taskVars
  <2>5. CASE EndScoring
    BY <1>1, <1>2, <2>5 DEF EndScoring, Go, Result, StageTrue, ResultTrue, GenerationTrue,
       TerminalGeneration, loopVars, attemptVars
  <2>6. QED
    BY <2>1, <2>2, <2>3, <2>4, <2>5 DEF Scoring
<1>4. FilesAre(PublishedFile, "absent", "absent", "absent")' /\ manifest' = "absent"
  BY <1>1 DEF DirectoryTrue, FilesAre, PublishedFile, Owned
<1>5. published' => \A a \in Owned' : files'[a] = "whole"
  BY <1>1 DEF DirectoryTrue, Owned
<1>6. QED
  BY <1>1, <1>3, <1>4, <1>5 DEF DirectoryTrue

\* Each write adds what comes next, up to a directory that is complete.
LEMMA PersistingArtifacts ==
    ASSUME AInv, Persisting
    PROVE  StageTrue' /\ ResultTrue' /\ DirectoryTrue'
<1> USE DEF AInv, GInv, Early, Late, generation
<1>1. /\ UNCHANGED <<loopVars, attemptVars, broken, has, candidate, published, run>>
      /\ stage \in {"record", "payloads", "attempt", "attempting", "manifest", "signing"}
      /\ stage' \in {"payloads", "attempt", "attempting", "manifest", "signing", "done"}
  BY DEF Persisting, WriteRecord, WritePayloads, BeginAttemptDir, EndAttemptDir,
         BeginManifest, EndManifest, Go
<1>2. StageTrue' /\ ResultTrue'
  BY <1>1 DEF StageTrue, ResultTrue, GenerationTrue, TerminalGeneration, loopVars, attemptVars
<1>3. ScoredFile' = ScoredFile /\ PublishedFile' = PublishedFile /\ Owned' = Owned
  BY <1>1 DEF ScoredFile, PublishedFile, Owned
<1>4. DirectoryTrue'
  <2>1. CASE WriteRecord
    <3>1. FilesAre(PublishedFile, "absent", "absent", "absent") /\ manifest = "absent"
      BY <2>1 DEF WriteRecord, Go, DirectoryTrue
    <3>2. \A a \in Artifacts : files'[a] = IF a = "agent_task_run" THEN "whole" ELSE files[a]
      BY <2>1 DEF WriteRecord, Written
    <3>3. FilesAre(PublishedFile, "whole", "absent", "absent")'
      BY <1>1, <1>3, <3>1, <3>2, FileNames DEF FilesAre
    <3>4. QED
      BY <1>1, <1>3, <2>1, <3>3, <3>1 DEF WriteRecord, Go, DirectoryTrue, FilesAre, PublishedFile
  <2>2. CASE WritePayloads
    <3>1. FilesAre(PublishedFile, "whole", "absent", "absent") /\ manifest = "absent"
      BY <2>2 DEF WritePayloads, DirectoryTrue
    <3>2. \A a \in Artifacts : files'[a] = IF a \in RunPayloads THEN "whole" ELSE files[a]
      BY <2>2 DEF WritePayloads, Written
    <3>3. FilesAre("whole", "whole", "whole", "absent")'
      BY <1>1, <1>3, <3>1, <3>2, FileNames DEF FilesAre, RunPayloads, PublishedFile
    <3>4. stage' = (IF run.scored THEN "attempt" ELSE "manifest") /\ manifest' = "absent"
      BY <2>2, <3>1 DEF WritePayloads
    <3>5. QED
      BY <1>1, <1>3, <3>3, <3>4 DEF DirectoryTrue, FilesAre, ScoredFile, Complete
  <2>3. CASE BeginAttemptDir
    <3>1. run.scored /\ FilesAre("whole", "whole", "whole", "absent") /\ manifest = "absent"
      BY <2>3 DEF BeginAttemptDir, Go, DirectoryTrue
    <3>2. \A a \in Artifacts : files'[a] = IF a = "attempt" THEN "partial" ELSE files[a]
      BY <2>3 DEF BeginAttemptDir
    <3>3. FilesAre("whole", "whole", "whole", "partial")'
      BY <1>1, <1>3, <3>1, <3>2, FileNames DEF FilesAre
    <3>4. QED
      BY <1>1, <1>3, <2>3, <3>1, <3>3 DEF BeginAttemptDir, Go, DirectoryTrue, FilesAre
  <2>4. CASE EndAttemptDir
    <3>1. run.scored /\ FilesAre("whole", "whole", "whole", "partial") /\ manifest = "absent"
      BY <2>4 DEF EndAttemptDir, Go, DirectoryTrue
    <3>2. \A a \in Artifacts : files'[a] = IF a = "attempt" THEN "whole" ELSE files[a]
      BY <2>4 DEF EndAttemptDir, Written
    <3>3. FilesAre("whole", "whole", "whole", "whole")'
      BY <1>1, <1>3, <3>1, <3>2, FileNames DEF FilesAre
    <3>4. Complete' /\ stage' = "manifest" /\ manifest' = "absent"
      BY <1>1, <1>3, <2>4, <3>1, <3>3 DEF EndAttemptDir, Go, Complete, ScoredFile
    <3>5. QED
      BY <1>1, <1>3, <3>3, <3>4 DEF DirectoryTrue, FilesAre
  <2>5. CASE BeginManifest \/ EndManifest
    <3>1. Complete /\ files' = files /\ stage' \in {"signing", "done"}
      BY <2>5 DEF BeginManifest, EndManifest, Go, DirectoryTrue
    <3>2. Complete'
      BY <1>1, <1>3, <3>1 DEF Complete, FilesAre
    <3>3. \A a \in Owned' : files'[a] = "whole"
      BY <1>3, <3>1 DEF Complete, FilesAre
    <3>4. QED
      BY <3>1, <3>2, <3>3 DEF DirectoryTrue
  <2>6. QED
    BY <2>1, <2>2, <2>3, <2>4, <2>5 DEF Persisting
<1>5. QED
  BY <1>2, <1>4

\* A process that finishes an attempt finds what the generation owns and nothing
\* else; one that starts it again finds nothing.
LEMMA RecoveryArtifacts ==
    ASSUME AInv, Crash \/ FinishFromGeneration \/ RunAgain
    PROVE  StageTrue' /\ ResultTrue' /\ DirectoryTrue'
<1> USE DEF AInv, GInv, Early, Late, generation, directory
<1>1. CASE Crash
  <2>1. /\ UNCHANGED <<loopVars, attemptVars, broken, has, candidate, files, published,
                       manifest, run>>
        /\ stage' = "interrupted"
    BY <1>1 DEF Crash
  <2>2. StageTrue' /\ ResultTrue'
    BY <2>1 DEF StageTrue, ResultTrue, GenerationTrue, TerminalGeneration, loopVars,
                attemptVars
  <2>3. Complete' = Complete /\ Owned' = Owned
    BY <2>1 DEF Complete, FilesAre, ScoredFile, Owned
  <2>4. QED
    BY <2>1, <2>2, <2>3 DEF DirectoryTrue
<1>2. CASE FinishFromGeneration
  <2>1. /\ UNCHANGED <<loopVars, broken, has, candidate, published>>
        /\ published /\ stage' = "finish" /\ manifest' = "absent" /\ run' = NoRun
    BY <1>2 DEF FinishFromGeneration, Go
  <2>2. StageTrue' /\ ResultTrue'
    BY <2>1 DEF StageTrue, ResultTrue, GenerationTrue, TerminalGeneration, loopVars, NoRun
  <2>3. PublishedFile' = "whole" /\ Owned' = Owned
    BY <2>1 DEF PublishedFile, Owned
  <2>4. \A a \in Artifacts : files'[a] = IF a \in Owned THEN files[a] ELSE "absent"
    BY <1>2 DEF FinishFromGeneration, ClearDownstream
  <2>5. \A a \in Owned : files[a] = "whole"
    BY <2>1 DEF DirectoryTrue
  <2>6. FilesAre("whole", "absent", "absent", "absent")'
    BY <2>1, <2>3, <2>4, <2>5, FileNames DEF FilesAre
  <2>7. QED
    BY <2>1, <2>2, <2>3, <2>6 DEF DirectoryTrue, FilesAre
<1>3. CASE RunAgain
  <2>1. GInv' /\ ~published'
    BY <1>3, RecoverySteps DEF RunAgain
  <2>2. /\ stage' = "setup" /\ has' = {} /\ run' = NoRun /\ status' = "running"
        /\ manifest' = "absent" /\ files' = NoFiles
    BY <1>3 DEF RunAgain, Go
  <2>3. StageTrue' /\ ResultTrue'
    BY <2>1, <2>2 DEF StageTrue, ResultTrue, NoRun
  <2>4. FilesAre("absent", "absent", "absent", "absent")'
    BY <2>2 DEF FilesAre, NoFiles, Owned, Artifacts, GenerationParts
  <2>5. QED
    BY <2>1, <2>2, <2>3, <2>4 DEF DirectoryTrue
<1>4. QED
  BY <1>1, <1>2, <1>3

\* All steps together.
LEMMA StepAInv ==
    ASSUME AInv, [Next]_vars
    PROVE  AInv'
<1>1. GInv'
  BY StepGInv DEF AInv
<1>2. CASE UNCHANGED vars
  <2>1. UNCHANGED <<loopVars, phase, stage, broken, has, files, published, manifest, run>>
    BY <1>2 DEF vars, taskVars, directory, generation, attemptVars
  <2>2. StageTrue' /\ ResultTrue'
    BY <2>1 DEF AInv, StageTrue, ResultTrue, GenerationTrue, TerminalGeneration, loopVars
  <2>3. DirectoryTrue'
    BY <2>1 DEF AInv, DirectoryTrue, Complete, FilesAre, ScoredFile, PublishedFile, Owned
  <2>4. QED
    BY <1>1, <2>2, <2>3 DEF AInv
<1>3. CASE Generation
  BY <1>1, <1>3, GenerationStages, GenerationDirectory, PublicationDirectory
     DEF AInv, Generation
<1>4. CASE Scoring
  BY <1>1, <1>4, ScoringResult DEF AInv
<1>5. CASE Persisting
  BY <1>1, <1>5, PersistingArtifacts DEF AInv
<1>6. CASE Crash \/ FinishFromGeneration \/ RunAgain
  BY <1>1, <1>6, RecoveryArtifacts DEF AInv
<1>7. QED
  BY <1>2, <1>3, <1>4, <1>5, <1>6 DEF Next

\* Where the directory is complete, the artifacts that are whole are those a
\* manifest names.
LEMMA CompleteIsNamed ==
    ASSUME AInv, Complete
    PROVE  /\ {a \in Artifacts : files[a] = "whole"} =
                    Owned \cup {"agent_task_run", "error"}
                        \cup (IF run.status = "scored" THEN {"attempt"} ELSE {})
           /\ {a \in Artifacts : files[a] = "partial"} = {}
<1>1. run.scored <=> run.status = "scored"
  BY DEF AInv, ResultTrue
<1>2. \A a \in Artifacts : files[a] = IF a \in Owned \cup {"agent_task_run", "error"}
                                      THEN "whole"
                                      ELSE IF a = "attempt" THEN ScoredFile ELSE "absent"
  BY FileNames DEF AInv, GInv, Complete, FilesAre
<1>3. Owned \cup {"agent_task_run", "error", "attempt"} \subseteq Artifacts
      /\ "attempt" \notin Owned \cup {"agent_task_run", "error"}
  BY FileNames DEF AInv, GInv
<1>4. QED
  BY <1>1, <1>2, <1>3 DEF ScoredFile

\* The inductive invariant behind the next two theorems.
THEOREM ArtifactInvariant == Spec => []AInv
<1>1. AInv /\ [Next]_vars => AInv'
  BY StepAInv
<1>2. QED
  BY InitAInv, <1>1, PTL DEF Spec

\* Every way an attempt ends, whichever process ends it, is a result that
\* AgentTaskRunResult accepts, over a directory that holds what its manifest
\* names, whole, and nothing else.
THEOREM ResultsAreExplained == Spec => []RunExplained
<1>1. AInv => RunExplained
  BY CompleteIsNamed, GenerationTerminal DEF AInv, ResultTrue, DirectoryTrue, RunExplained
<1>2. QED
  BY ArtifactInvariant, <1>1, PTL

\* A process that takes up an attempt finds the names it is about to write free
\* (ensure_empty_dir of the scorer attempt, the payloads of a generation).
THEOREM NamesAreFree == Spec => []NothingInTheWay
<1>1. AInv => NothingInTheWay
  BY DEF AInv, DirectoryTrue, FilesAre, NothingInTheWay
<1>2. QED
  BY ArtifactInvariant, <1>1, PTL

-----------------------------------------------------------------------------
(***************************************************************************)
(* Types, the loop and the scorer attempt within an attempt.               *)
(***************************************************************************)
\* The parts keep their invariants, and the rest its types.
PartsTrue ==
    /\ LoopInv /\ AttemptInv
    /\ DOMAIN candidate \subseteq File /\ IsPatch(candidate)
    /\ declaredModel \in BOOLEAN /\ broken \in BOOLEAN
    /\ manifest \in {"absent", "torn", "whole"}
    /\ run.status \in {"none", "scored", "agent_loop_failed", "orchestrator_error"}
    /\ runs \in 1..MaxRuns

\* What a diff of two workspaces is.
LEMMA DiffIsPatch ==
    ASSUME NEW before \in Workspaces, NEW after \in Workspaces
    PROVE  DOMAIN RenderDiff(before, after) \subseteq File /\ IsPatch(RenderDiff(before, after))
BY LinesType DEF RenderDiff, DiffedFiles, IsPatch, Workspaces

LEMMA SeedsAreWorkspaces == LoopInv => seed \in Workspaces /\ ws \in Workspaces
BY LoopAssumption DEF LoopInv, LoopTypeOK

LEMMA InitParts == Init => PartsTrue
<1> SUFFICES ASSUME Init PROVE PartsTrue
  OBVIOUS
<1>1. LoopInv /\ AttemptInv
  BY LoopInvInit, NoAttemptInv DEF Init
<1>2. DOMAIN candidate \subseteq File /\ IsPatch(candidate)
  BY DEF Init, NoPatch, IsPatch
<1>3. runs \in 1..MaxRuns
  BY TaskAssumption DEF Init
<1>4. QED
  BY <1>1, <1>2, <1>3 DEF Init, PartsTrue, NoRun

\* A candidate, wherever one is made, is a patch of files.
LEMMA CandidateStep ==
    ASSUME PartsTrue, WithCandidate \/ WithoutCandidate \/ candidate' = candidate
    PROVE  DOMAIN candidate' \subseteq File /\ IsPatch(candidate')
<1>1. CASE candidate' = candidate
  BY <1>1 DEF PartsTrue
<1>2. CASE candidate' = RenderDiff(seed, ws)
  BY <1>2, DiffIsPatch, SeedsAreWorkspaces DEF PartsTrue
<1>3. QED
  BY <1>1, <1>2 DEF WithCandidate, WithoutCandidate

\* Only a turn, or a process that starts again, changes the loop.
LEMMA LoopParts ==
    ASSUME PartsTrue, [Next]_vars
    PROVE  LoopInv'
<1>1. CASE LoopStep
  BY <1>1, LoopInvTurn DEF LoopStep, PartsTrue
<1>2. CASE RunAgain
  <2>1. seed' \in Seeds /\ ws' \in Workspaces
    BY <1>2, SeedsAreWorkspaces DEF RunAgain, PartsTrue, LoopInv, LoopTypeOK
  <2>2. messages' \in Seq(Message) /\ results' \in Seq({}) /\ DOMAIN results' = {}
    BY <1>2 DEF RunAgain
  <2>3. QED
    BY <1>2, <2>1, <2>2, LoopAssumption DEF RunAgain, LoopInv, LoopTypeOK
<1>3. CASE UNCHANGED loopVars
  BY <1>3, LoopInvStep DEF PartsTrue
<1>4. UNCHANGED loopVars \/ LoopStep \/ RunAgain
  BY DEF vars, Next, Generation, Scoring, Persisting, SetupWorkspace, DeriveCandidate,
     GenerationRaises, AfterGeneration, WriteOwned, PublishGeneration, FinishUnscored,
     StartScoring, ScoringRaises, ScoringStep, EndScoring, WriteRecord, WritePayloads,
     BeginAttemptDir, EndAttemptDir, BeginManifest, EndManifest, Crash,
     FinishFromGeneration
<1>5. QED
  BY <1>1, <1>2, <1>3, <1>4

\* Only scoring, or a process that ends, changes the scorer attempt.
LEMMA AttemptParts ==
    ASSUME PartsTrue, [Next]_vars
    PROVE  AttemptInv'
<1>1. CASE UNCHANGED attemptVars \/ AttemptStep
  BY <1>1, AttemptInvStep DEF PartsTrue
<1>2. CASE ForgetAttempt
  BY <1>2, NoAttemptInv
<1>3. CASE BeginAttempt(seed, candidate)
  BY <1>3, BeginAttemptInv, SeedsAreWorkspaces DEF PartsTrue
<1>4. UNCHANGED attemptVars \/ AttemptStep \/ ForgetAttempt \/ BeginAttempt(seed, candidate)
  BY DEF vars, Next, Generation, Scoring, Persisting, SetupWorkspace, LoopStep, DeriveCandidate,
     GenerationRaises, AfterGeneration, WriteOwned, PublishGeneration, FinishUnscored,
     StartScoring, ScoringRaises, ScoringStep, EndScoring, WriteRecord, WritePayloads,
     BeginAttemptDir, EndAttemptDir, BeginManifest, EndManifest, Crash,
     FinishFromGeneration, RunAgain
<1>5. QED
  BY <1>1, <1>2, <1>3, <1>4

LEMMA PartsStep ==
    ASSUME PartsTrue, [Next]_vars
    PROVE  PartsTrue'
<1>1. LoopInv' /\ AttemptInv'
  BY LoopParts, AttemptParts
<1>2. DOMAIN candidate' \subseteq File /\ IsPatch(candidate')
  <2>1. CASE RunAgain
    BY <2>1 DEF RunAgain, NoPatch, IsPatch
  <2>2. CASE WithCandidate \/ WithoutCandidate \/ candidate' = candidate
    BY <2>2, CandidateStep
  <2>3. QED
    BY <2>1, <2>2 DEF vars, Next, Generation, Scoring, Persisting, SetupWorkspace, LoopStep,
       DeriveCandidate, GenerationRaises, AfterGeneration, WriteOwned, PublishGeneration,
       FinishUnscored, StartScoring, ScoringRaises, ScoringStep, EndScoring, WriteRecord,
       WritePayloads, BeginAttemptDir, EndAttemptDir, BeginManifest, EndManifest, Crash,
       FinishFromGeneration, taskVars, generation
<1>3. /\ declaredModel' \in BOOLEAN /\ broken' \in BOOLEAN
      /\ manifest' \in {"absent", "torn", "whole"}
      /\ run'.status \in {"none", "scored", "agent_loop_failed", "orchestrator_error"}
      /\ runs' \in 1..MaxRuns
  <2> USE TaskAssumption DEF PartsTrue, generation, directory, taskVars
  <2>stays. CASE UNCHANGED vars
    BY <2>stays DEF vars
  <2>generating. CASE Generation
    BY <2>generating DEF Generation, SetupWorkspace, LoopStep, DeriveCandidate, GenerationRaises,
       AfterGeneration, WriteOwned, PublishGeneration
  <2>scoring. CASE Scoring
    BY <2>scoring DEF Scoring, FinishUnscored, StartScoring, ScoringRaises, ScoringStep,
       EndScoring, Result
  <2>persisting. CASE Persisting
    BY <2>persisting DEF Persisting, WriteRecord, WritePayloads, BeginAttemptDir, EndAttemptDir,
       BeginManifest, EndManifest
  <2>recovering. CASE Crash \/ FinishFromGeneration \/ RunAgain
    <3>1. runs' \in 1..MaxRuns
      BY <2>recovering DEF Crash, FinishFromGeneration, RunAgain
    <3>2. UNCHANGED run \/ run'.status = "none"
      BY <2>recovering DEF Crash, FinishFromGeneration, RunAgain, NoRun
    <3>3. UNCHANGED <<declaredModel, manifest>> /\ (broken' = broken \/ broken' = FALSE)
      BY <2>recovering DEF Crash, FinishFromGeneration, RunAgain
    <3>4. QED
      BY <3>1, <3>2, <3>3
  <2> QED
    BY <2>stays, <2>generating, <2>scoring, <2>persisting, <2>recovering DEF Next
<1>4. QED
  BY <1>1, <1>2, <1>3 DEF PartsTrue

\* The inductive invariant of everything above.
TInv == AInv /\ PartsTrue

\* All together are inductive.
THEOREM TaskInvariant == Spec => []TInv
<1>1. Init => TInv
  BY InitAInv, InitParts DEF TInv
<1>2. TInv /\ [Next]_vars => TInv'
  BY StepAInv, PartsStep DEF TInv
<1>3. QED
  BY <1>1, <1>2, PTL DEF Spec

\* Every variable of an attempt keeps its type, those of the loop and of the
\* scorer attempt included.
THEOREM TaskTypeCorrect == Spec => []TypeOK
<1>1. TInv => TypeOK
  <2> SUFFICES ASSUME TInv PROVE TypeOK
    OBVIOUS
  <2>1. LoopTypeOK /\ stage \in Stages /\ has \subseteq GenerationParts
        /\ files \in [Artifacts -> {"absent", "partial", "whole"}] /\ published \in BOOLEAN
    BY DEF TInv, AInv, GInv, PartsTrue, LoopInv, Early, Late, Stages
  <2>2. /\ phase \in Phases \cup {"none", "over"} /\ sws \in Workspaces
        /\ \A i \in DOMAIN batch : batch[i] \in BOOLEAN
        /\ attempt.status \in AttemptStatuses \cup {"none"}
        /\ attempt.public \in CheckStatuses \cup {"none"}
    BY DEF TInv, PartsTrue, AttemptInv, AttemptTypes
  <2>3. QED
    BY <2>1, <2>2 DEF TInv, PartsTrue, TypeOK
<1>2. QED
  BY TaskInvariant, <1>1, PTL

\* Every way out of a scorer attempt is a result its schema accepts and the
\* command log bears out, for any number of checks and validators.
THEOREM AttemptsAreExplained == Spec => []AttemptExplained
<1>1. TInv => AttemptExplained
  BY InvExplains DEF TInv, PartsTrue
<1>2. QED
  BY TaskInvariant, <1>1, PTL

-----------------------------------------------------------------------------
(***************************************************************************)
(* What is scored.                                                         *)
(***************************************************************************)
\* The candidate is the diff of what the loop left, and until the first check
\* runs the scoring workspace is the seed with or without it.
Faithful ==
    /\ "candidate_patch" \in has => candidate = RenderDiff(seed, ws)
    /\ stage = "score" =>
        /\ taskSeed = seed /\ submission = candidate
        /\ phase \in {"setup", "patch_apply"} => sws = seed
        /\ phase = "patch_apply" => ~TestsModified(candidate)
        /\ phase = "public_check" /\ batch = <<>> =>
                /\ Applies(seed, candidate) /\ sws = Patched(seed, candidate)
                /\ ~TestsModified(candidate)
                /\ diffHash.diff = RenderDiff(seed, sws)

\* The diff is made when the loop is over, and nothing changes the loop or the
\* candidate after that but starting again.
LEMMA CandidateFaithful ==
    ASSUME TInv, Faithful, [Next]_vars
    PROVE  ("candidate_patch" \in has => candidate = RenderDiff(seed, ws))'
<1> USE DEF TInv, Faithful, generation
<1>1. CASE SetupWorkspace
  BY <1>1 DEF SetupWorkspace
<1>2. CASE LoopStep
  BY <1>2 DEF LoopStep, taskVars, AInv, StageTrue
<1>3. CASE DeriveCandidate \/ GenerationRaises
  BY <1>3 DEF DeriveCandidate, GenerationRaises, WithCandidate, WithoutCandidate, loopVars,
     AInv, StageTrue
<1>4. CASE RunAgain
  BY <1>4 DEF RunAgain
<1>5. CASE UNCHANGED <<loopVars, generation>>
  BY <1>5 DEF loopVars
<1>6. QED
  BY <1>1, <1>2, <1>3, <1>4, <1>5 DEF vars, Next, Generation, Scoring, Persisting,
     AfterGeneration, WriteOwned, PublishGeneration, FinishUnscored, StartScoring,
     ScoringRaises, ScoringStep, EndScoring, WriteRecord, WritePayloads, BeginAttemptDir,
     EndAttemptDir, BeginManifest, EndManifest, Crash, FinishFromGeneration, taskVars

\* The scorer attempt starts from the seed, refuses a patch of the public tests
\* and applies any other, before anything runs.
LEMMA ScoringFaithful ==
    ASSUME TInv, Faithful, ScoringStep
    PROVE  Faithful'
<1> USE DEF Faithful
<1>1. UNCHANGED <<loopVars, taskVars>> /\ stage = "score" /\ AttemptStep
  BY DEF ScoringStep
<1>2. UNCHANGED <<seed, ws, has, candidate, stage>>
  BY <1>1 DEF loopVars, taskVars, generation
<1>3. UNCHANGED <<taskSeed, submission>>
  BY <1>1 DEF AttemptStep, Setup, ApplyPatch, DiffFails, RunCommand, EndPublicChecks,
     EndHiddenScore, TimesOut, Raises
<1>4. CASE Setup
  BY <1>1, <1>2, <1>3, <1>4 DEF Setup, Finish
<1>5. CASE ApplyPatch
  <2>1. CASE Applies(sws, submission)
    <3>1. /\ Applies(seed, candidate) /\ sws' = Patched(seed, candidate)
          /\ phase' = "public_check"
      BY <1>1, <1>5, <2>1 DEF ApplyPatch
    <3>2. \E d : diffHash' = [known |-> TRUE, diff |-> d] /\ d = RenderDiff(taskSeed, sws)'
      BY <1>3, <1>5 DEF ApplyPatch
    <3>3. diffHash'.diff = RenderDiff(seed, sws)'
      BY <1>1, <1>2, <1>3, <3>2
    <3>4. ~TestsModified(candidate)
      BY <1>1, <1>5 DEF ApplyPatch
    <3>5. QED
      BY <1>1, <1>2, <1>3, <3>1, <3>3, <3>4
  <2>2. CASE ~Applies(sws, submission)
    BY <1>1, <1>2, <1>3, <1>5, <2>2 DEF ApplyPatch, Finish
  <2>3. QED
    BY <2>1, <2>2
<1>6. CASE RunCommand
  <2>1. batch' # <<>> /\ phase' \notin {"setup", "patch_apply"}
    BY <1>6 DEF RunCommand, CommandDue, TInv, PartsTrue, AttemptInv, AttemptTypes
  <2>2. QED
    BY <1>1, <1>2, <1>3, <2>1
<1>7. CASE DiffFails \/ EndPublicChecks \/ EndHiddenScore \/ TimesOut \/ Raises
  <2>1. phase' \in {"hidden_score", "over"}
    BY <1>7 DEF DiffFails, EndPublicChecks, EndHiddenScore, TimesOut, Raises, Finish
  <2>2. QED
    BY <1>1, <1>2, <1>3, <2>1
<1>8. QED
  BY <1>1, <1>4, <1>5, <1>6, <1>7 DEF AttemptStep

\* Every step keeps it.
LEMMA FaithfulStep ==
    ASSUME TInv, Faithful, [Next]_vars
    PROVE  Faithful'
<1>1. CASE ScoringStep
  BY <1>1, ScoringFaithful
<1>2. CASE StartScoring
  BY <1>2, CandidateFaithful
     DEF Faithful, StartScoring, BeginAttempt, Go, loopVars, generation
<1>3. CASE UNCHANGED vars
  BY <1>3 DEF Faithful, vars, loopVars, attemptVars, taskVars, generation
<1>4. CASE stage' # "score"
  BY <1>4, CandidateFaithful DEF Faithful
<1>5. stage' # "score" \/ StartScoring \/ ScoringStep \/ UNCHANGED vars
  BY DEF Next, Generation, Scoring, Persisting, SetupWorkspace, LoopStep, DeriveCandidate,
     GenerationRaises, AfterGeneration, WriteOwned, PublishGeneration, FinishUnscored,
     ScoringRaises, EndScoring, WriteRecord, WritePayloads, BeginAttemptDir,
     EndAttemptDir, BeginManifest, EndManifest, Crash, FinishFromGeneration, RunAgain,
     Go, taskVars
<1>6. QED
  BY <1>1, <1>2, <1>3, <1>4, <1>5

\* A patch made of two workspaces gives every file the diff looks at the lines
\* of the second, when it is applied to the first.
LEMMA PatchedLines ==
    ASSUME NEW before \in Workspaces, NEW after \in Workspaces,
           Applies(before, RenderDiff(before, after))
    PROVE  LET patch == RenderDiff(before, after)
               patched == Patched(before, patch)
           IN  /\ \A f \in DiffedFiles(before) : Lines(patched[f]) = Lines(after[f])
               /\ RenderDiff(before, patched) = patch
<1> DEFINE patch == RenderDiff(before, after)
           patched == Patched(before, patch)
<1>1. ASSUME NEW f \in DiffedFiles(before)
      PROVE  Lines(patched[f]) = Lines(after[f])
  <2>1. f \in File /\ before[f] \in Content /\ after[f] \in Content
    BY DEF DiffedFiles, Workspaces
  <2>2. CASE f \in DOMAIN patch
    <3>1. patch[f].to = Lines(after[f])
      BY <2>2 DEF RenderDiff
    <3>2. Git[before[f]][patch[f].to] # Refused
      BY <2>2 DEF Applies
    <3>3. Lines(Git[before[f]][patch[f].to]) = Lines(Lines(after[f]))
      BY <2>1, <3>1, <3>2, LinesType, WorkspaceAssumption DEF LineEnds
    <3>4. patched[f] = Git[before[f]][patch[f].to]
      BY <2>1, <2>2 DEF Patched
    <3>5. QED
      BY <2>1, <3>3, <3>4, LinesType
  <2>3. CASE f \notin DOMAIN patch
    <3>1. Lines(before[f]) = Lines(after[f])
      BY <2>3 DEF RenderDiff
    <3>2. patched[f] = before[f]
      BY <2>1, <2>3 DEF Patched
    <3>3. QED
      BY <3>1, <3>2
  <2>4. QED
    BY <2>2, <2>3
<1> HIDE DEF patched
<1>2. {g \in DiffedFiles(before) : Lines(before[g]) # Lines(patched[g])}
        = {g \in DiffedFiles(before) : Lines(before[g]) # Lines(after[g])}
  BY <1>1
<1>3. RenderDiff(before, patched) = patch
  BY <1>1, <1>2 DEF RenderDiff
<1>4. QED
  BY <1>1, <1>3 DEF patched

\* What is scored is what the agent left, for every task, every model and
\* whichever process scores it: the same lines in every file the diff looks at,
\* the candidate as the final diff, and the public tests of the seed
\* (run_agent_task_attempt, run_patch_attempt).
THEOREM WhatIsScored == Spec => []ScoringIsFaithful
<1>1. Init => Faithful
  BY DEF Init, Faithful
<1>2. TInv /\ Faithful /\ [Next]_vars => Faithful'
  BY FaithfulStep
<1>3. TInv /\ Faithful => ScoringIsFaithful
  <2> SUFFICES ASSUME TInv, Faithful, ScoringStarts
               PROVE  /\ \A f \in DiffedFiles(seed) : Lines(sws[f]) = Lines(ws[f])
                      /\ diffHash.diff = candidate
                      /\ \A f \in TestFile : sws[f] = seed[f]
    BY DEF ScoringIsFaithful
  <2>1. seed \in Workspaces /\ ws \in Workspaces
    BY SeedsAreWorkspaces DEF TInv, PartsTrue
  <2>2. candidate = RenderDiff(seed, ws)
    BY DEF TInv, AInv, StageTrue, GenerationTrue, TerminalGeneration, Faithful, ScoringStarts
  <2>3. /\ Applies(seed, candidate)
        /\ sws = Patched(seed, candidate) /\ ~TestsModified(candidate)
        /\ diffHash.diff = RenderDiff(seed, sws)
    BY DEF Faithful, ScoringStarts
  <2>4. \A f \in TestFile : sws[f] = seed[f]
    BY <2>3, WorkspaceAssumption DEF TestsModified, Patched
  <2>5. QED
    BY <2>1, <2>2, <2>3, <2>4, PatchedLines
<1>4. QED
  BY TaskInvariant, <1>1, <1>2, <1>3, PTL DEF Spec

\* Two workspaces between which a patch tells every hashed file: no bytecode
\* differs and no lock file is made, no file differs in its line ends alone or in
\* being there without contents, and any other that differs is there with LF.
PatchTellsAll(before, after) ==
    \A f \in File \ (CacheFile \cup BuildFile) :
        /\ f \in BytecodeFile \/ (before[f] = Absent /\ f \in LockFile) => after[f] = before[f]
        /\ Lines(after[f]) = Lines(before[f]) => after[f] = before[f]
        /\ after[f] \in {before[f], Lines(after[f])}

\* What becomes of one file.
LEMMA PatchedFile ==
    ASSUME NEW before \in Workspaces, NEW after \in Workspaces, NEW f \in File \ CacheFile,
           Applies(before, RenderDiff(before, after)),
           f \in DiffedFiles(before) => LF(before[f])
    PROVE  Patched(before, RenderDiff(before, after))[f] = after[f]
              <=> /\ f \in BytecodeFile \/ (before[f] = Absent /\ f \in LockFile)
                        => after[f] = before[f]
                  /\ Lines(after[f]) = Lines(before[f]) => after[f] = before[f]
                  /\ after[f] \in {before[f], Lines(after[f])}
<1> DEFINE patch == RenderDiff(before, after)
           patched == Patched(before, patch)
<1>1. before[f] \in Content /\ after[f] \in Content
  BY DEF Workspaces
<1>2. f \in DiffedFiles(before)
         <=> ~(f \in BytecodeFile \/ (before[f] = Absent /\ f \in LockFile))
  BY DEF DiffedFiles
<1>3. f \in DOMAIN patch <=> f \in DiffedFiles(before) /\ Lines(before[f]) # Lines(after[f])
  BY DEF RenderDiff
<1>4. patched[f] = IF f \in DOMAIN patch THEN Lines(after[f]) ELSE before[f]
  <2>1. CASE f \in DOMAIN patch
    <3>1. patch[f].to = Lines(after[f]) /\ Git[before[f]][patch[f].to] # Refused
      BY <2>1 DEF RenderDiff, Applies
    <3>2. LF(before[f]) /\ LF(Lines(after[f]))
      BY <1>1, <1>3, <2>1, LinesType DEF LF
    <3>3. Git[before[f]][Lines(after[f])] = Lines(Lines(after[f]))
      BY <1>1, <3>1, <3>2, LinesType, WorkspaceAssumption DEF LineEnds
    <3>4. patched[f] = Git[before[f]][Lines(after[f])]
      BY <2>1, <3>1 DEF Patched
    <3>5. QED
      BY <1>1, <2>1, <3>3, <3>4, LinesType
  <2>2. CASE f \notin DOMAIN patch
    BY <2>2 DEF Patched
  <2>3. QED
    BY <2>1, <2>2
<1> HIDE DEF patch, patched
<1>5. patched[f] = after[f]
         <=> /\ f \in BytecodeFile \/ (before[f] = Absent /\ f \in LockFile)
                   => after[f] = before[f]
             /\ Lines(after[f]) = Lines(before[f]) => after[f] = before[f]
             /\ after[f] \in {before[f], Lines(after[f])}
  BY <1>2, <1>3, <1>4
<1>6. QED
  BY <1>5 DEF patch, patched

\* Hashes are equal when every hashed file is the same, present or not.
LEMMA SameHash ==
    ASSUME NEW one, NEW two
    PROVE  CanonicalHash(one) = CanonicalHash(two)
              <=> \A f \in File \ (CacheFile \cup BuildFile) : one[f] = two[f]
<1> DEFINE Hashed == File \ (CacheFile \cup BuildFile)
           h(w) == CanonicalHash(w)
<1>1. \A w : /\ DOMAIN h(w) = {f \in Hashed : w[f] # Absent}
             /\ \A f \in DOMAIN h(w) : h(w)[f] = w[f]
  BY DEF CanonicalHash, Present
<1>2. ASSUME h(one) = h(two), NEW f \in Hashed
      PROVE  one[f] = two[f]
  <2>1. CASE f \in DOMAIN h(one)
    BY <1>1, <1>2, <2>1
  <2>2. CASE f \notin DOMAIN h(one)
    BY <1>1, <1>2, <2>2
  <2>3. QED
    BY <2>1, <2>2
<1>3. ASSUME \A f \in Hashed : one[f] = two[f]
      PROVE  h(one) = h(two)
  BY <1>3 DEF CanonicalHash, Present
<1>4. QED
  BY <1>2, <1>3

\* What "derives a candidate patch from the mutated agent workspace and scores it"
\* (docs/model_interface.md) loses, exactly, of a seed whose lines end in LF: the
\* scored workspace has the hash of the agent's if and only if the agent left the
\* bytecode as it was and made no lock file, removed no file and neither made an
\* empty one nor changed line ends (render_directory_diff, git apply).
THEOREM WhatThePatchLoses ==
    Spec => [](ScoringStarts /\ (\A f \in DiffedFiles(seed) : LF(seed[f])) =>
                 (CanonicalHash(sws) = CanonicalHash(ws) <=> PatchTellsAll(seed, ws)))
<1> DEFINE UnixSeed == \A f \in DiffedFiles(seed) : LF(seed[f])
           Exactly == CanonicalHash(sws) = CanonicalHash(ws) <=> PatchTellsAll(seed, ws)
<1>1. Init => Faithful
  BY DEF Init, Faithful
<1>2. TInv /\ Faithful /\ [Next]_vars => Faithful'
  BY FaithfulStep
<1>3. TInv /\ Faithful => (ScoringStarts /\ UnixSeed => Exactly)
  <2> SUFFICES ASSUME TInv, Faithful, ScoringStarts, UnixSeed
               PROVE  Exactly
    OBVIOUS
  <2>1. seed \in Workspaces /\ ws \in Workspaces
    BY SeedsAreWorkspaces DEF TInv, PartsTrue
  <2>2. candidate = RenderDiff(seed, ws)
    BY DEF TInv, AInv, StageTrue, GenerationTrue, TerminalGeneration, Faithful, ScoringStarts
  <2>3. /\ Applies(seed, RenderDiff(seed, ws))
        /\ sws = Patched(seed, RenderDiff(seed, ws))
    BY <2>2 DEF Faithful, ScoringStarts
  <2>4. ASSUME NEW f \in File \ (CacheFile \cup BuildFile)
        PROVE  sws[f] = ws[f] <=>
                  /\ f \in BytecodeFile \/ (seed[f] = Absent /\ f \in LockFile)
                        => ws[f] = seed[f]
                  /\ Lines(ws[f]) = Lines(seed[f]) => ws[f] = seed[f]
                  /\ ws[f] \in {seed[f], Lines(ws[f])}
    BY <2>1, <2>3, PatchedFile
  <2>5. CanonicalHash(sws) = CanonicalHash(ws)
           <=> \A f \in File \ (CacheFile \cup BuildFile) : sws[f] = ws[f]
    BY SameHash
  <2>6. QED
    BY <2>4, <2>5 DEF PatchTellsAll
<1>4. QED
  BY TaskInvariant, <1>1, <1>2, <1>3, PTL DEF Spec

-----------------------------------------------------------------------------
(***************************************************************************)
(* The refinement.  Every step of an attempt is a step of SuiteLedger on   *)
(* its one entry, or leaves that entry as it is.                           *)
(***************************************************************************)
\* Where the manifest stands.
SigningTrue ==
    /\ stage = "signing" => manifest = "torn"
    /\ stage = "done" <=> manifest = "whole"
    /\ manifest = "torn" => stage \in {"signing", "interrupted"}

\* A step over the manifest is one of signing, or by a process that finds none.
LEMMA SigningStep ==
    ASSUME SigningTrue, [Next]_vars
    PROVE  SigningTrue'
<1> USE DEF SigningTrue, Go, directory
<1>1. CASE UNCHANGED vars
  BY <1>1 DEF vars, taskVars
<1>2. CASE Generation
  BY <1>2 DEF Generation, SetupWorkspace, LoopStep, DeriveCandidate, GenerationRaises,
     AfterGeneration, WriteOwned, PublishGeneration, taskVars
<1>3. CASE Scoring
  BY <1>3 DEF Scoring, FinishUnscored, StartScoring, ScoringRaises, ScoringStep, EndScoring,
     taskVars
<1>4. CASE Persisting
  BY <1>4 DEF Persisting, WriteRecord, WritePayloads, BeginAttemptDir, EndAttemptDir,
     BeginManifest, EndManifest
<1>5. CASE Crash \/ FinishFromGeneration \/ RunAgain
  BY <1>5 DEF Crash, FinishFromGeneration, RunAgain
<1>6. QED
  BY <1>1, <1>2, <1>3, <1>4, <1>5 DEF Next

LInv == TInv /\ Faithful /\ SigningTrue

LEMMA LedgerInvariant == Spec => []LInv
<1>1. Init => Faithful /\ SigningTrue
  BY DEF Init, Faithful, SigningTrue
<1>2. TInv /\ Faithful /\ SigningTrue /\ [Next]_vars => Faithful' /\ SigningTrue'
  BY FaithfulStep, SigningStep
<1>3. QED
  BY TaskInvariant, <1>1, <1>2, PTL DEF Spec, LInv

\* What an attempt draws is an outcome of a ledger.
LEMMA OutcomeIsDraw ==
    ASSUME LInv
    PROVE  {Outcome} \in (SUBSET Generations) \ {{}}
<1> DEFINE patch == IF "candidate_patch" \in has THEN candidate ELSE NoPatch
           Patches == UNION {[fs -> Hunk] : fs \in SUBSET File}
<1>1. /\ messages \in Seq(Message) /\ status \in Statuses \cup {"running"}
      /\ ws \in Workspaces /\ seed \in Workspaces /\ has \in SUBSET GenerationParts
  BY SeedsAreWorkspaces DEF LInv, TInv, PartsTrue, LoopInv, LoopTypeOK, AInv, GInv
<1>2. \A before, after \in Workspaces : RenderDiff(before, after) \in Patches
  <2> SUFFICES ASSUME NEW before \in Workspaces, NEW after \in Workspaces
               PROVE  RenderDiff(before, after) \in Patches
    OBVIOUS
  <2> DEFINE fs == {g \in DiffedFiles(before) : Lines(before[g]) # Lines(after[g])}
  <2>1. fs \in SUBSET File
    BY DEF DiffedFiles
  <2>2. \A f \in fs : [from |-> Lines(before[f]), to |-> Lines(after[f])] \in Hunk
    BY <2>1, LinesType DEF Hunk, Workspaces
  <2>3. RenderDiff(before, after) \in [fs -> Hunk]
    BY <2>2 DEF RenderDiff
  <2>4. QED
    BY <2>1, <2>3
<1>3. NoPatch \in Patches
  <2>1. NoPatch \in [{} -> Hunk]
    BY DEF NoPatch
  <2>2. QED
    BY <2>1
<1>4. patch \in Patches
  BY <1>1, <1>2, <1>3 DEF LInv, Faithful
<1> HIDE DEF patch, Patches
<1>5. Outcome = [transcript |-> messages, status |-> status, workspace |-> ws,
                 parts |-> has, patch |-> patch]
  BY DEF Outcome, patch
<1>6. Generations = [transcript : Seq(Message), status : Statuses \cup {"running"},
                     workspace : Workspaces, parts : SUBSET GenerationParts, patch : Patches]
  BY DEF Generations, Patches
<1>7. Outcome \in Generations
  BY <1>1, <1>4, <1>5, <1>6
<1>8. QED
  BY <1>7

\* What the ledger has of the attempt.
Drawn == IF published \/ manifest = "whole" THEN {Outcome} ELSE {}
CutShort == manifest = "torn" /\ stage # "signing"

\* A step that changes nothing of it is a stutter of the ledger.
LEMMA EntryStays ==
    ASSUME Drawn' = Drawn, (manifest = "whole")' <=> manifest = "whole", CutShort' <=> CutShort
    PROVE  UNCHANGED Ledger!vars
<1>1. ([e \in {"attempt"} |-> Drawn])' = [e \in {"attempt"} |-> Drawn]
  OBVIOUS
<1>2. QED
  BY <1>1 DEF Ledger!vars, Drawn, CutShort

LEMMA OutcomeStays ==
    ASSUME UNCHANGED <<loopVars, generation>>
    PROVE  Outcome' = Outcome
BY DEF Outcome, loopVars, generation

\* What a step that neither publishes, signs nor dies while signing leaves alone.
LEMMA OtherSteps ==
    ASSUME LInv, Next, ~PublishGeneration, ~EndManifest, ~(Crash /\ stage = "signing")
    PROVE  /\ published' = published
           /\ manifest' # manifest => manifest = "absent" /\ manifest' = "torn" /\ stage' = "signing"
           /\ CutShort' <=> CutShort
           /\ manifest # "whole"
<1> USE DEF SigningTrue, Go, directory, CutShort
<1>1. SigningTrue
  BY DEF LInv
<1>2. CASE Generation
  BY <1>1, <1>2 DEF Generation, SetupWorkspace, LoopStep, DeriveCandidate, GenerationRaises,
     AfterGeneration, WriteOwned, taskVars
<1>3. CASE Scoring
  BY <1>1, <1>3 DEF Scoring, FinishUnscored, StartScoring, ScoringRaises, ScoringStep,
     EndScoring, taskVars
<1>4. CASE BeginManifest
  <2>1. manifest = "absent"
    BY <1>1, <1>4 DEF BeginManifest, LInv, TInv, PartsTrue
  <2>2. QED
    BY <1>1, <1>4, <2>1 DEF BeginManifest
<1>5. CASE Persisting /\ ~BeginManifest
  BY <1>1, <1>5 DEF Persisting, WriteRecord, WritePayloads, BeginAttemptDir, EndAttemptDir
<1>6. CASE Crash \/ FinishFromGeneration \/ RunAgain
  BY <1>1, <1>6 DEF Crash, FinishFromGeneration, RunAgain
<1>7. QED
  BY <1>2, <1>3, <1>4, <1>5, <1>6 DEF Next

\* An attempt, in all its detail, is the one entry of a ledger of outcomes: it draws
\* once, records what it drew, and never repairs a manifest that was cut short
\* (agent_generation.py, agent_task_run.py).
THEOREM AttemptIsALedger == Spec => ImplementsLedger
<1>1. Init => Ledger!Init
  BY DEF Init, Ledger!Init
<1>2. LInv /\ LInv' /\ [Next]_vars => [Ledger!Next]_Ledger!vars
  <2> SUFFICES ASSUME LInv, LInv', [Next]_vars
               PROVE  Ledger!Next \/ UNCHANGED Ledger!vars
    OBVIOUS
  <2>1. CASE UNCHANGED vars
    <3>1. UNCHANGED <<loopVars, generation, published, manifest, stage>>
      BY <2>1 DEF vars, taskVars, directory
    <3>2. QED
      BY <3>1, OutcomeStays, EntryStays DEF Drawn, CutShort
  <2>2. CASE PublishGeneration
    <3>1. /\ UNCHANGED <<loopVars, generation, manifest>> /\ ~published /\ published'
          /\ manifest # "whole" /\ manifest # "torn"
      BY <2>2 DEF PublishGeneration, Go, LInv, SigningTrue, TInv, AInv, GInv, Early
    <3>2. Outcome' = Outcome
      BY <3>1, OutcomeStays
    <3>3. Drawn = {} /\ Drawn' = {Outcome} /\ ~CutShort /\ ~CutShort'
      BY <3>1, <3>2 DEF Drawn, CutShort
    <3>4. Drawn' \in (SUBSET Generations) \ {{}}
      BY <3>3, OutcomeIsDraw
    <3>5. Ledger!DrawOutcome("attempt")
      BY <3>1, <3>3, <3>4 DEF Ledger!DrawOutcome, Drawn, CutShort
    <3>6. Ledger!Commit("attempt")
      BY <3>1, <3>3, <3>5 DEF Ledger!Commit, CutShort
    <3>7. QED
      BY <3>6 DEF Ledger!Next
  <2>3. CASE EndManifest
    <3>1. /\ UNCHANGED <<loopVars, generation, published>>
          /\ stage = "signing" /\ manifest # "whole" /\ manifest' = "whole"
      BY <2>3 DEF EndManifest, Go, LInv, SigningTrue
    <3>2. Outcome' = Outcome
      BY <3>1, OutcomeStays
    <3>3. Drawn' = {Outcome} /\ ~CutShort /\ ~CutShort'
      BY <3>1, <3>2 DEF Drawn, CutShort
    <3>4. CASE published
      <4>1. Drawn = {Outcome} /\ {Outcome} # {}
        BY <3>4 DEF Drawn
      <4>2. Ledger!Close("attempt")
        BY <3>1, <3>3, <4>1 DEF Ledger!Close, Drawn, CutShort
      <4>3. QED
        BY <4>2 DEF Ledger!Next
    <3>5. CASE ~published
      <4>1. Drawn = {} /\ Drawn' \in (SUBSET Generations) \ {{}}
        BY <3>1, <3>3, <3>5, OutcomeIsDraw DEF Drawn
      <4>2. Ledger!DrawOutcome("attempt")
        BY <3>1, <3>3, <4>1 DEF Ledger!DrawOutcome, Drawn, CutShort
      <4>3. Ledger!CommitAndClose("attempt")
        BY <3>1, <3>3, <4>2 DEF Ledger!CommitAndClose, CutShort
      <4>4. QED
        BY <4>3 DEF Ledger!Next
    <3>6. QED
      BY <3>4, <3>5
  <2>4. CASE Crash /\ stage = "signing"
    <3>1. /\ UNCHANGED <<loopVars, generation, published, manifest>>
          /\ manifest = "torn" /\ stage' = "interrupted"
      BY <2>4 DEF Crash, directory, LInv, SigningTrue
    <3>2. Drawn' = Drawn /\ ~CutShort /\ CutShort'
      BY <2>4, <3>1, OutcomeStays DEF Drawn, CutShort
    <3>3. Ledger!Spoil("attempt")
      BY <3>1, <3>2 DEF Ledger!Spoil, Drawn, CutShort
    <3>4. QED
      BY <3>3 DEF Ledger!Next
  <2>5. CASE Next /\ ~PublishGeneration /\ ~EndManifest /\ ~(Crash /\ stage = "signing")
    <3>1. /\ published' = published /\ manifest # "whole" /\ manifest' # "whole"
          /\ CutShort' <=> CutShort
      BY <2>5, OtherSteps
    <3>2. published => UNCHANGED <<loopVars, generation>>
      BY StepGInv DEF LInv, TInv, AInv, Kept
    <3>3. Drawn' = Drawn
      BY <3>1, <3>2, OutcomeStays DEF Drawn
    <3>4. QED
      BY <3>1, <3>3, EntryStays
  <2>6. QED
    BY <2>1, <2>2, <2>3, <2>4, <2>5
<1>3. QED
  BY LedgerInvariant, <1>1, <1>2, PTL DEF Spec, ImplementsLedger, Ledger!Spec

-----------------------------------------------------------------------------
(***************************************************************************)
(* What an attempt leaves.  The result is set from the generation once and *)
(* the generation stays as it is under it; a call that names something     *)
(* private ends the loop; a patch that is run was looked at.               *)
(***************************************************************************)
Recorded == {"record", "payloads", "attempt", "attempting", "manifest", "signing", "done"}

ResultIsOfGeneration ==
    /\ stage = "loop" \/ "prompt_loop_result" \in has => "view" \in has
    /\ stage \in Recorded \/ manifest # "absent" => run.status # "none"
    /\ run.status # "none" =>
        /\ run.failed <=> run.status # "scored"
        /\ run.promptStatus = IF "prompt_loop_result" \in has THEN status ELSE "none"
        /\ run.candidate <=> "candidate_patch" \in has
    /\ run.status = "scored" => ~broken /\ submission = candidate

PrivateEndsLoop ==
    \A i \in DOMAIN messages :
        NamesPrivate(messages[i].call) => status = "invalid_shortcut_attempted"

LookedAt ==
    phase \in {"patch_apply", "public_check", "hidden_score"}
            \/ (phase = "over" /\ attempt.status = "PASS") =>
        ~HiddenReference(submission) /\ ~TestsModified(submission)

EarnedInv == ResultIsOfGeneration /\ PrivateEndsLoop /\ LookedAt

\* The guard looks at every call before it is run, and the loop ends at the first
\* that names something private.
LEMMA PrivateEndsLoopTurn ==
    ASSUME LoopInv, PrivateEndsLoop, Turn
    PROVE  PrivateEndsLoop'
<1>1. messages \in Seq(Message) /\ Len(messages) \in Nat /\ status = "running"
  BY DEF LoopInv, LoopTypeOK, Turn, GenerateRaises, AnswerEndsLoop, PrivateCall, HashFails,
     RunTool, StartTurn
<1>2. \A i \in DOMAIN messages : ~NamesPrivate(messages[i].call)
  BY <1>1 DEF PrivateEndsLoop
<1>3. ~NamesPrivate(NoCall)
  BY TrajectoryAssumption DEF NamesPrivate, NoCall
<1>4. CASE GenerateRaises
  BY <1>2, <1>4 DEF GenerateRaises, PrivateEndsLoop
<1>5. CASE PrivateCall
  BY <1>5 DEF PrivateCall, PrivateEndsLoop
<1>6. CASE AnswerEndsLoop
  BY <1>1, <1>2, <1>3, <1>6 DEF AnswerEndsLoop, PrivateEndsLoop, Says
<1>7. CASE HashFails
  BY <1>1, <1>2, <1>7 DEF HashFails, PrivateEndsLoop, Says
<1>8. CASE RunTool
  <2>1. PICK call \in Call : ~NamesPrivate(call) /\ \E outcome \in Outcomes(call, ws) :
            RunsInto(call, outcome)
    BY <1>8, RunToolTakesCall
  <2>2. messages' = messages \o <<Says(call, ToolCallId), Observes(ToolCallId)>>
    BY <2>1 DEF RunsInto
  <2>3. \A i \in DOMAIN messages' : \/ i \in DOMAIN messages /\ messages'[i] = messages[i]
                                    \/ messages'[i].call \in {call, NoCall}
    <3>1. Len(<<Says(call, ToolCallId), Observes(ToolCallId)>>) = 2
      OBVIOUS
    <3>2. ToolCallId \in Nat
      BY DEF ToolCallId, LoopInv
    <3>3. Says(call, ToolCallId) \in Message /\ Observes(ToolCallId) \in Message
      BY <3>2, MessageType
    <3>4. /\ DOMAIN messages = 1..Len(messages)
          /\ DOMAIN messages' = 1..(Len(messages) + 2)
          /\ \A i \in 1..Len(messages) : messages'[i] = messages[i]
          /\ messages'[Len(messages) + 1] = Says(call, ToolCallId)
          /\ messages'[Len(messages) + 2] = Observes(ToolCallId)
      BY <1>1, <2>2, <3>3
    <3>5. Says(call, ToolCallId).call = call /\ Observes(ToolCallId).call = NoCall
      BY DEF Says, Observes
    <3>6. QED
      BY <1>1, <3>4, <3>5
  <2>4. QED
    BY <1>2, <1>3, <2>1, <2>3 DEF PrivateEndsLoop
<1>9. QED
  BY <1>4, <1>5, <1>6, <1>7, <1>8 DEF Turn

\* A patch is looked at before anything of it runs.
LEMMA LookedAtStep ==
    ASSUME LookedAt, AttemptStep
    PROVE  LookedAt'
<1> USE DEF LookedAt, Finish
<1>1. UNCHANGED submission
  BY DEF AttemptStep, Setup, ApplyPatch, DiffFails, RunCommand, EndPublicChecks,
     EndHiddenScore, TimesOut, Raises
<1>2. CASE Setup
  BY <1>1, <1>2 DEF Setup
<1>3. CASE ApplyPatch \/ EndPublicChecks \/ EndHiddenScore
  BY <1>1, <1>3 DEF ApplyPatch, EndPublicChecks, EndHiddenScore
<1>4. CASE DiffFails \/ TimesOut \/ Raises
  BY <1>4 DEF DiffFails, TimesOut, Raises
<1>5. CASE RunCommand
  BY <1>1, <1>5 DEF RunCommand, CommandDue
<1>6. QED
  BY <1>2, <1>3, <1>4, <1>5 DEF AttemptStep

\* The result of a run is set once, from the generation it is a result of.
LEMMA ResultIsOfGenerationStep ==
    ASSUME TInv, Faithful, ResultIsOfGeneration, [Next]_vars
    PROVE  ResultIsOfGeneration'
<1> USE DEF ResultIsOfGeneration, Recorded
<1>1. CASE Generation
  <2>1. stage \in Early /\ stage' \notin Recorded /\ run.status = "none"
        /\ UNCHANGED <<run, manifest>>
    BY <1>1 DEF Generation, SetupWorkspace, LoopStep, DeriveCandidate, GenerationRaises,
       AfterGeneration, WriteOwned, PublishGeneration, Go, Early, directory, taskVars,
       TInv, AInv, StageTrue
  <2>2. stage' = "loop" \/ "prompt_loop_result" \in has' => "view" \in has'
    BY <1>1 DEF Generation, SetupWorkspace, LoopStep, DeriveCandidate, GenerationRaises,
       AfterGeneration, WriteOwned, PublishGeneration, WithCandidate, WithoutCandidate,
       Go, taskVars, generation
  <2>3. QED
    BY <2>1, <2>2
<1>2. CASE StartScoring \/ ScoringStep
  <2>1. UNCHANGED <<has, run, manifest>> /\ stage' = "score" /\ run.status = "none"
    BY <1>2 DEF StartScoring, ScoringStep, Go, taskVars, generation, directory, TInv, AInv,
       StageTrue
  <2>2. QED
    BY <2>1
<1>3. CASE FinishUnscored \/ ScoringRaises
  <2>1. PICK how \in {"orchestrator_error", "agent_loop_failed"} : run' = Result(how, FALSE)
    BY <1>3 DEF FinishUnscored, ScoringRaises
  <2>2. UNCHANGED <<has, status>> /\ stage' = "record"
    BY <1>3 DEF FinishUnscored, ScoringRaises, Go, generation, loopVars
  <2>3. QED
    BY <2>1, <2>2 DEF Result
<1>4. CASE EndScoring
  <2>1. run' = Result("scored", TRUE) /\ stage = "score" /\ stage' = "record"
        /\ UNCHANGED <<has, status, broken, candidate, submission>>
    BY <1>4 DEF EndScoring, Go, generation, loopVars, attemptVars
  <2>2. ~broken /\ submission = candidate
    BY <2>1 DEF TInv, AInv, StageTrue, Faithful
  <2>3. QED
    BY <2>1, <2>2 DEF Result
<1>5. CASE Persisting
  <2>1. /\ UNCHANGED <<has, run, status, broken, candidate, submission>>
        /\ stage \in Recorded /\ stage' \in Recorded
    BY <1>5 DEF Persisting, WriteRecord, WritePayloads, BeginAttemptDir, EndAttemptDir,
       BeginManifest, EndManifest, Go, loopVars, attemptVars, generation
  <2>2. QED
    BY <2>1
<1>6. CASE Crash
  BY <1>6 DEF Crash, loopVars, attemptVars, generation, directory
<1>7. CASE FinishFromGeneration \/ RunAgain
  BY <1>7 DEF FinishFromGeneration, RunAgain, NoRun, Go, generation
<1>8. CASE UNCHANGED vars
  BY <1>8 DEF vars, loopVars, attemptVars, taskVars, generation, directory
<1>9. QED
  BY <1>1, <1>2, <1>3, <1>4, <1>5, <1>6, <1>7, <1>8 DEF Next, Scoring

LEMMA EarnedStep ==
    ASSUME TInv, Faithful, EarnedInv, [Next]_vars
    PROVE  EarnedInv'
<1> USE DEF EarnedInv
<1>1. ResultIsOfGeneration'
  BY ResultIsOfGenerationStep
<1>2. PrivateEndsLoop'
  <2>1. CASE LoopStep
    BY <2>1, PrivateEndsLoopTurn DEF LoopStep, TInv, PartsTrue
  <2>2. CASE RunAgain
    BY <2>2 DEF RunAgain, PrivateEndsLoop
  <2>3. CASE UNCHANGED loopVars
    BY <2>3 DEF loopVars, PrivateEndsLoop
  <2>4. QED
    BY <2>1, <2>2, <2>3 DEF vars, Next, Generation, Scoring, Persisting, SetupWorkspace,
       DeriveCandidate, GenerationRaises, AfterGeneration, WriteOwned, PublishGeneration,
       FinishUnscored, StartScoring, ScoringRaises, ScoringStep, EndScoring, WriteRecord,
       WritePayloads, BeginAttemptDir, EndAttemptDir, BeginManifest, EndManifest, Crash,
       FinishFromGeneration
<1>3. LookedAt'
  <2>1. CASE AttemptStep
    BY <2>1, LookedAtStep
  <2>2. CASE ForgetAttempt \/ BeginAttempt(seed, candidate)
    BY <2>2 DEF ForgetAttempt, BeginAttempt, LookedAt
  <2>3. CASE UNCHANGED attemptVars
    BY <2>3 DEF attemptVars, LookedAt
  <2>4. QED
    BY <2>1, <2>2, <2>3 DEF vars, Next, Generation, Scoring, Persisting, SetupWorkspace,
       LoopStep, DeriveCandidate, GenerationRaises, AfterGeneration, WriteOwned,
       PublishGeneration, FinishUnscored, StartScoring, ScoringRaises, ScoringStep,
       EndScoring, WriteRecord, WritePayloads, BeginAttemptDir, EndAttemptDir,
       BeginManifest, EndManifest, Crash, FinishFromGeneration, RunAgain
<1>4. QED
  BY <1>1, <1>2, <1>3

LEMMA EarnedInductive == Spec => [](TInv /\ EarnedInv)
<1>1. Init => Faithful /\ EarnedInv
  BY DEF Init, Faithful, EarnedInv, ResultIsOfGeneration, Recorded, PrivateEndsLoop, LookedAt,
     LoopInit, AttemptInit, NoRun
<1>2. TInv /\ Faithful /\ EarnedInv /\ [Next]_vars => Faithful' /\ EarnedInv'
  BY FaithfulStep, EarnedStep
<1>3. QED
  BY TaskInvariant, <1>1, <1>2, PTL DEF Spec

\* What stands under a manifest that was written to its end.
LEMMA UnderManifest ==
    ASSUME TInv, EarnedInv, manifest = "whole"
    PROVE  /\ run.status \in {"scored", "agent_loop_failed", "orchestrator_error"}
           /\ Complete /\ files["config"] = "whole"
           /\ run.scored <=> run.status = "scored"
           /\ run.scored => LegalResult(attempt) /\ attempt # NoAttempt
           /\ \A a \in has : files[a] = "whole"
<1>1. AInv /\ ResultIsOfGeneration /\ AttemptInv
  BY DEF TInv, EarnedInv, PartsTrue
<1>2. run.status \in {"scored", "agent_loop_failed", "orchestrator_error"} /\ Complete
  BY <1>1 DEF TInv, PartsTrue, ResultIsOfGeneration, AInv, DirectoryTrue
<1>3. run.scored <=> run.status = "scored"
  BY <1>1 DEF AInv, ResultTrue
<1>4. run.scored => LegalResult(attempt)
  BY <1>1, <1>3 DEF AInv, ResultTrue, AttemptInv, OverTrue
<1>5. ~LegalResult(NoAttempt)
  BY DEF LegalResult, NoAttempt
<1>6. \A a \in Owned : files[a] = "whole"
  BY <1>2 DEF Complete, FilesAre
<1>7. QED
  BY <1>2, <1>3, <1>4, <1>5, <1>6 DEF Owned

\* The statuses the record derives are ones it accepts.
LEMMA DerivedStatusesAccepted ==
    ASSUME NEW agent, NEW scorer,
           agent.status = "none" => agent.promptStatus = "none",
           agent.status = "scored" => agent.promptStatus = "completed",
           agent.status = "agent_loop_failed" =>
                agent.promptStatus \notin {"none", "completed"},
           scorer # NoAttempt => LegalResult(scorer)
    PROVE  StatusesAccepted(StatusesOf(agent, scorer), scorer)
<1> DEFINE s == StatusesOf(agent, scorer)
<1>1. /\ s.agent = agent.status /\ s.prompt = agent.promptStatus
      /\ s.grade = GradeState(agent, scorer) /\ (s.success <=> TaskSuccess(agent, scorer))
  BY DEF StatusesOf
<1>2. ~Passed(NoAttempt)
  BY DEF Passed, NoAttempt
<1>3. /\ TaskSuccess(agent, scorer) <=> GradeState(agent, scorer) = "scored_pass"
      /\ GradeState(agent, scorer) = "scored_fail" => scorer # NoAttempt
      /\ TaskSuccess(agent, scorer) => Passed(scorer)
  BY <1>2 DEF GradeState, TaskSuccess
<1> HIDE DEF s
<1>4. StatusesAccepted(s, scorer)
  BY <1>1, <1>3 DEF StatusesAccepted
<1>5. QED
  BY <1>4 DEF s

\* Whatever an attempt ran into, what it leaves passes every check between its
\* manifest and its trajectory (AgentTaskRunResult, AttemptManifest,
\* validate_attempt_payloads_match_eval_record, TrajectoryRecord).
THEOREM OutcomesAreTrajectories == Spec => []EveryOutcomeIsATrajectory
<1>1. ASSUME TInv, EarnedInv, manifest = "whole"
      PROVE  /\ ResultAccepted(AgentSummary) /\ ManifestAccepted /\ PayloadsMatch
             /\ StatusesAccepted(Trajectory.statuses, AgentSummary.scorer)
             /\ RecordAccepted
             /\ run.scored => StatusesAccepted(StatusesOf(NoAgent, attempt), attempt)
  <2> DEFINE agent == AgentSummary
  <2>1. /\ agent.status = run.status /\ agent.promptStatus = run.promptStatus
        /\ (agent.candidate <=> run.candidate) /\ (agent.failed <=> run.failed)
        /\ agent.scorer = IF run.scored THEN attempt ELSE NoAttempt
    BY DEF AgentSummary
  <2>2. ResultIsOfGeneration /\ ResultTrue /\ GInv
    BY <1>1 DEF EarnedInv, TInv, AInv
  <2>3. /\ run.status \in {"scored", "agent_loop_failed", "orchestrator_error"}
        /\ Complete /\ files["config"] = "whole"
        /\ run.scored <=> run.status = "scored"
        /\ run.scored => LegalResult(attempt) /\ attempt # NoAttempt
        /\ \A a \in has : files[a] = "whole"
    BY <1>1, UnderManifest
  <2>4. status \in Statuses \cup {"running"}
    BY <1>1 DEF TInv, AInv, StageTrue
  <2>5. /\ "prompt_loop_result" \in has => "view" \in has
        /\ run.failed <=> run.status # "scored"
        /\ run.promptStatus = IF "prompt_loop_result" \in has THEN status ELSE "none"
        /\ run.candidate <=> "candidate_patch" \in has
    BY <2>2, <2>3 DEF ResultIsOfGeneration
  <2>6. /\ run.promptStatus # "none" => {"view", "prompt_loop_result"} \subseteq has
                                        /\ run.promptStatus = status
        /\ "prompt_loop_result" \in has => run.promptStatus # "none"
    BY <2>4, <2>5 DEF Statuses
  <2>7. /\ run.status = "scored" => run.promptStatus = "completed" /\ run.candidate
        /\ run.status = "agent_loop_failed" => run.promptStatus \notin {"none", "completed"}
    BY <2>2 DEF ResultTrue
  <2>8. ResultAccepted(agent)
    BY <2>1, <2>3, <2>5, <2>7 DEF ResultAccepted
  <2>9. ManifestAccepted
    <3>1. published => "prompt_loop_result" \in has
      BY <2>2 DEF GInv, TerminalGeneration
    <3>2. has \subseteq Refs /\ {"agent_task_run", "error", "config"} \subseteq Refs
          /\ ("generation" \in Refs => published) /\ (run.scored => "attempt" \in Refs)
      BY <2>2 DEF Refs, Owned, GInv, GenerationParts
    <3>3. QED
      BY <2>3, <2>5, <2>6, <2>7, <3>1, <3>2 DEF ManifestAccepted
  <2>10. PayloadsMatch
    <3>1. "attempt" \in Refs => run.scored
      BY <2>2 DEF Refs, Owned, GInv, GenerationParts
    <3>2. run.scored => files["attempt"] = "whole"
      BY <2>3 DEF Complete, FilesAre, ScoredFile
    <3>3. files["agent_task_run"] = "whole"
      BY <2>3 DEF Complete, FilesAre
    <3>4. QED
      BY <2>3, <2>6, <3>1, <3>2, <3>3 DEF PayloadsMatch
  <2>11. StatusesAccepted(Trajectory.statuses, agent.scorer)
    <3>1. Trajectory.statuses = StatusesOf(agent, agent.scorer)
      BY DEF Trajectory, TrajectoryOf
    <3>2. StatusesAccepted(StatusesOf(agent, agent.scorer), agent.scorer)
      BY <2>1, <2>3, <2>7, DerivedStatusesAccepted
    <3>3. QED
      BY <3>1, <3>2
  <2>12. RecordAccepted
    <3>1. "candidate_patch" \in has => "candidate_patch" \in ArtifactRefs
      BY <2>3 DEF ArtifactRefs, Ref, Refs, Owned, Artifacts, GenerationParts
    <3>2. \A check \in Checks : Detected(check) => Evidence(check) \subseteq ArtifactRefs
      BY DEF Detected, Applicable, Evidence, ArtifactRefs, Ref
    <3>3. QED
      BY <2>5, <2>7, <3>1, <3>2 DEF RecordAccepted
  <2>13. run.scored => StatusesAccepted(StatusesOf(NoAgent, attempt), attempt)
    BY <2>3, DerivedStatusesAccepted DEF NoAgent
  <2>14. QED
    BY <2>8, <2>9, <2>10, <2>11, <2>12, <2>13
<1>2. TInv /\ EarnedInv => EveryOutcomeIsATrajectory
  BY <1>1 DEF EveryOutcomeIsATrajectory
<1>3. QED
  BY EarnedInductive, <1>2, PTL

\* A task counts as solved only by an attempt that completed its loop, passed
\* every check and validator, and in whose trajectory no exploit the harness
\* neutralizes is found (is_task_success, derive_grade_state,
\* detect_reward_hack_exploit).
THEOREM SolvedIsEarned == Spec => []SuccessIsEarned
<1>1. ASSUME TInv, EarnedInv, manifest = "whole"
      PROVE  /\ run.scored <=> run.status = "scored"
             /\ run.status = "scored" =>
                    /\ ~broken /\ status = "completed" /\ submission = candidate
                    /\ run.promptStatus = "completed" /\ phase = "over"
             /\ "prompt_loop_result" \in has => run.promptStatus = status
  BY <1>1, UnderManifest
     DEF TInv, AInv, ResultTrue, EarnedInv, ResultIsOfGeneration
<1>2. ASSUME TInv, EarnedInv, manifest = "whole", Trajectory.statuses.success
      PROVE  /\ run.status = "scored" /\ run.scored
             /\ attempt = [status |-> "PASS", public |-> "PASS", hidden |-> "PASS"]
             /\ ~broken /\ status = "completed" /\ submission = candidate
             /\ run.promptStatus = "completed" /\ phase = "over"
  <2>1. TaskSuccess(AgentSummary, AgentSummary.scorer)
    BY <1>2 DEF Trajectory, TrajectoryOf, StatusesOf
  <2>2. Passed(AgentSummary.scorer)
    BY <2>1 DEF TaskSuccess
  <2>3. AgentSummary.scorer = IF run.scored THEN attempt ELSE NoAttempt
    BY DEF AgentSummary
  <2>4. ~Passed(NoAttempt)
    BY DEF Passed, NoAttempt
  <2>5. run.scored /\ Passed(attempt)
    BY <2>2, <2>3, <2>4
  <2>6. QED
    BY <1>1, <1>2, <2>5 DEF Passed
<1>3. ASSUME TInv, EarnedInv, manifest = "whole", Trajectory.statuses.success
      PROVE  /\ InLog("public_check") = NumChecks /\ Succeeded("public_check")
             /\ InLog("hidden_score") = NumValidators /\ Succeeded("hidden_score")
  <2>1. AttemptExplained
    BY <1>3, InvExplains DEF TInv, PartsTrue
  <2>2. phase = "over" /\ attempt.public = "PASS" /\ attempt.hidden = "PASS"
    BY <1>2, <1>3
  <2>3. QED
    BY <2>1, <2>2 DEF AttemptExplained
<1>4. ASSUME TInv, EarnedInv, manifest = "whole", Trajectory.statuses.success
      PROVE  Trajectory.findings \cap Neutralized = {}
  <2>1. /\ attempt.status = "PASS" /\ phase = "over" /\ submission = candidate
        /\ status = "completed"
    BY <1>2, <1>4
  <2>2. ~HiddenReference(candidate) /\ ~TestsModified(candidate)
    BY <1>4, <2>1 DEF EarnedInv, LookedAt
  <2>3. \A i \in DOMAIN messages : ~NamesPrivate(messages[i].call)
    BY <1>4, <2>1 DEF EarnedInv, PrivateEndsLoop
  <2>4. \A public, hidden : /\ ~Ended("HIDDEN_TEST_FAIL", public, hidden)
                            /\ ~Ended("TIMEOUT", public, hidden)
    BY <2>1 DEF Ended
  <2>5. \A check \in Neutralized : ~Detects(check)
    BY <2>2, <2>3, <2>4 DEF Neutralized, Checks, PatchChecks, CallProbe, Detects
  <2>6. Trajectory.findings = {check \in Checks : Detected(check)}
    BY DEF Trajectory, TrajectoryOf
  <2>7. QED
    BY <2>5, <2>6 DEF Detected
<1>5. ASSUME TInv, EarnedInv, manifest = "whole", Trajectory.statuses.success
      PROVE  ~Trajectory.failure /\ Trajectory.toolUsage = "valid"
  <2>1. /\ AgentSummary.status = "scored" /\ AgentSummary.promptStatus = "completed"
        /\ AgentSummary.scorer.status = "PASS"
    BY <1>2, <1>5 DEF AgentSummary
  <2>2. /\ Trajectory.failure <=> OrchestrationFailure(StatusesOf(AgentSummary,
                                                                  AgentSummary.scorer))
        /\ Trajectory.toolUsage = ToolUsage(AgentSummary.promptStatus)
    BY DEF Trajectory, TrajectoryOf, StatusesOf
  <2>3. QED
    BY <2>1, <2>2 DEF OrchestrationFailure, StatusesOf, ToolUsage
<1>6. ASSUME TInv, EarnedInv, manifest = "whole", CallProbe \in Trajectory.findings
      PROVE  Trajectory.statuses.grade = "cannot_grade"
  <2>1. Detected(CallProbe)
    BY <1>6 DEF Trajectory, TrajectoryOf
  <2>2. \E i \in DOMAIN messages : NamesPrivate(messages[i].call)
    BY <2>1 DEF Detected, Detects, CallProbe
  <2>3. status = "invalid_shortcut_attempted"
    BY <1>6, <2>2 DEF EarnedInv, PrivateEndsLoop
  <2>4. ~run.scored
    BY <1>1, <1>6, <2>3
  <2>5. AgentSummary.scorer = NoAttempt
    BY <2>4 DEF AgentSummary
  <2>6. GradeState(AgentSummary, NoAttempt) = "cannot_grade"
    BY DEF GradeState, TaskSuccess, Passed, NoAttempt
  <2>7. QED
    BY <2>5, <2>6 DEF Trajectory, TrajectoryOf, StatusesOf
<1>7. TInv /\ EarnedInv => SuccessIsEarned
  BY <1>2, <1>3, <1>4, <1>5, <1>6 DEF SuccessIsEarned
<1>8. QED
  BY EarnedInductive, <1>7, PTL
=============================================================================
