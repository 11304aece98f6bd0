----------------------------- MODULE EvalSuite -----------------------------
(***************************************************************************)
(* One declared eval suite: the live run that writes it                    *)
(* (orchestrators/eval_run.py), the resume executor that continues it      *)
(* after an interruption (runners/resume.py), and the directory on disk    *)
(* that is the only thing the two share.                                   *)
(*                                                                         *)
(* A planned attempt is a slot <<p, a>>: attempt a of the policy p, both   *)
(* numbered in declaration order.  Attempts run one after the other, and   *)
(* one process at a time owns the directory.  A process can die between    *)
(* any two writes, and inside every write that is not temp-file-and-rename *)
(* (a file so caught is "torn").                                           *)
(***************************************************************************)
EXTENDS Integers, FiniteSets

CONSTANTS
    NumPolicies,    \* policies of the declaration
    NumAttempts,    \* planned attempts of each policy (tasks x repeats)
    Kind,           \* the type of each policy
    Replayed,       \* the policies configured with a replay
    MaxFaults,      \* bound: crashes and generations that end in an exception
    MaxDamages,     \* bound: stored files damaged between two processes
    MaxEdits        \* bound: changes of an input, each a drift or its repair

Policies == 1..NumPolicies
Attempts == 1..NumAttempts
Slot == Policies \X Attempts
Kinds == {"scorer", "control", "model"}

\* What the declaration pins: config and task bytes, the harness runtime, and
\* the model, decoding and protocol files.
Inputs == {"tasks", "runtime", "model"}

ASSUME SuiteAssumption ==
    /\ NumPolicies \in Nat \ {0}
    /\ NumAttempts \in Nat \ {0}
    /\ Kind \in [Policies -> Kinds]
    /\ Replayed \subseteq Policies
    /\ MaxFaults \in Nat
    /\ MaxDamages \in Nat
    /\ MaxEdits \in Nat

VARIABLES
    \* --- the suite directory ---
    declared,   \* eval_suite_declaration.json is published
    dir,        \* what is at the attempt's path
    gen,        \* the attempt's generation manifest and the files it owns
    genDraw,    \* the run of the attempt whose generation that manifest holds
    fin,        \* the attempt's terminal manifest.json and what it refers to
    finDraw,    \* the run of the attempt whose outcome that manifest holds
    trace,      \* the policy's trace is written
    polMan,     \* the policy's manifest.json
    replay,     \* the policy's replay directory
    suiteMan,   \* the suite's manifest.json
    \* --- the process that owns the directory ---
    pc, mode, pol, att,
    plan,       \* the inventory it last took
    result,     \* how the last process ended
    \* --- the environment ---
    drift,      \* the inputs that now differ from the declared ones
    faults, damages, edits,
    \* --- history ---
    drawn,      \* how often each attempt was started
    taint       \* the drifted inputs the attempt's current run has read

disk == <<declared, dir, gen, genDraw, fin, finDraw, trace, polMan, replay, suiteMan>>
evidence == <<dir, gen, genDraw, fin, finDraw>>
process == <<pc, mode, pol, att, plan, result>>
env == <<drift, faults, damages, edits>>
history == <<drawn, taint>>
vars == <<disk, process, env, history>>

Stages == {"idle", "declare", "policy", "attempt", "launch", "generate", "score",
           "publish", "reclassify", "seal", "trace", "stamp", "stamping",
           "replay", "replaying", "complete", "completing"}
Decisions == {"none", "run", "finish", "reuse", "reject"}
Results == {"none", "running", "completed", "rejected", "refused", "interrupted"}

\* The type invariant.
TypeOK ==
    /\ declared \in BOOLEAN
    /\ dir \in [Slot -> {"absent", "dir", "notdir"}]
    /\ gen \in [Slot -> {"none", "ok", "bad"}]
    /\ genDraw \in [Slot -> Nat]
    /\ fin \in [Slot -> {"none", "torn", "ok", "bad"}]
    /\ finDraw \in [Slot -> Nat]
    /\ trace \in [Policies -> BOOLEAN]
    /\ polMan \in [Policies -> {"none", "torn", "ok"}]
    /\ replay \in [Policies -> {"none", "partial", "done"}]
    /\ suiteMan \in {"none", "torn", "ok"}
    /\ pc \in Stages
    /\ mode \in {"none", "live", "resume"}
    /\ pol \in Policies
    /\ att \in Attempts
    /\ plan \in [Slot -> Decisions]
    /\ result \in Results
    /\ drift \in SUBSET Inputs
    /\ faults \in Nat /\ damages \in Nat /\ edits \in Nat
    /\ drawn \in [Slot -> Nat]
    /\ taint \in [Slot -> SUBSET Inputs]

NoPlan == [s \in Slot |-> "none"]

Init ==
    /\ declared = FALSE
    /\ dir = [s \in Slot |-> "absent"]
    /\ gen = [s \in Slot |-> "none"] /\ genDraw = [s \in Slot |-> 0]
    /\ fin = [s \in Slot |-> "none"] /\ finDraw = [s \in Slot |-> 0]
    /\ trace = [p \in Policies |-> FALSE]
    /\ polMan = [p \in Policies |-> "none"]
    /\ replay = [p \in Policies |-> "none"]
    /\ suiteMan = "none"
    /\ pc = "idle" /\ mode = "none" /\ pol = 1 /\ att = 1
    /\ plan = NoPlan /\ result = "none"
    /\ drift = {} /\ faults = 0 /\ damages = 0 /\ edits = 0
    /\ drawn = [s \in Slot |-> 0]
    /\ taint = [s \in Slot |-> {}]

-----------------------------------------------------------------------------
(***************************************************************************)
(* What the code reads off the disk.                                       *)
(***************************************************************************)
here == <<pol, att>>
IsModel(s) == Kind[s[1]] = "model"

\* Every file the generation owns is there with its recorded hash.
GenerationValid(s) == gen[s] = "ok"

\* The generation is the one the terminal attempt was made from: same agent
\* attempt, same candidate, same prompt-loop status.
GenerationBound(s) == GenerationValid(s) /\ genDraw[s] = finDraw[s]

\* The terminal manifest and every artifact it refers to load and agree.
EvidenceValid(s) == fin[s] = "ok"

\* A terminal attempt validates: for a model policy the terminal generation it
\* refers to must validate too, and be the one it was made from.
CompletedAttemptValid(s) == EvidenceValid(s) /\ (IsModel(s) => GenerationBound(s))

\* Faulty: a directory without a terminal manifest is taken for damage.
Classify_RejectsPartial(s) ==
    IF dir[s] = "absent" THEN "run"
    ELSE IF fin[s] # "none" /\ CompletedAttemptValid(s) THEN "reuse"
    ELSE IF IsModel(s) /\ GenerationValid(s) THEN "finish" ELSE "reject"

\* A bad terminal manifest never falls back to a valid generation.
Classify(s) ==
    IF dir[s] = "absent" THEN "run"
    ELSE IF dir[s] = "notdir" THEN "reject"
    ELSE IF fin[s] # "none" THEN IF CompletedAttemptValid(s) THEN "reuse" ELSE "reject"
    ELSE IF gen[s] = "none" THEN "run"
    ELSE IF IsModel(s) /\ GenerationValid(s) THEN "finish" ELSE "reject"

Inventory == [s \in Slot |-> Classify(s)]
PolicyRejected(p) == \E a \in Attempts : plan[<<p, a>>] = "reject"
PolicyRuns(p) == \E a \in Attempts : plan[<<p, a>>] = "run"
SuiteRejected == \E p \in Policies : PolicyRejected(p)

\* Faulty: the hashes of the tasks are not taken again.
DeclarationCurrent_IgnoresTasks == drift \subseteq {"tasks"}

\* validate_current_eval_suite_declaration compares every pinned input.
DeclarationCurrent == drift = {}

\* _require_unchanged_eval_runtime.
RuntimeUnchanged == "runtime" \notin drift

\* The checks before a policy's attempts.  The live run compares everything but
\* the model files of a policy that has none.  The resume executor hands the
\* declaration's own config and task hashes to the comparison, so only the
\* runtime and the model files are compared, and nothing is for a model policy
\* with no attempt to run.
PolicyInputsUnchanged(p) ==
    IF mode = "live"
    THEN drift \subseteq (IF Kind[p] = "model" THEN {} ELSE {"model"})
    ELSE \/ Kind[p] = "model" /\ ~PolicyRuns(p)
         \/ drift \subseteq (IF Kind[p] = "model" THEN {"tasks"} ELSE {"tasks", "model"})

\* Every child of the suite is bound to its planned attempt, and every model
\* attempt to its terminal generation.
ManifestsBound == \A s \in Slot : fin[s] = "ok"
GenerationsBound == \A s \in Slot : IsModel(s) => GenerationBound(s)
AttemptsBound == ManifestsBound /\ GenerationsBound

\* Every attempt the executor inventories after it ran is complete or rejected.
NothingUnresolved == \A s \in Slot : Classify(s) \in {"reuse", "reject"}

\* The condition the code tests before it goes on from the stage pc; when it
\* fails the process ends with an exception.
ChecksHold ==
    CASE pc = "declare" -> DeclarationCurrent
      [] pc = "reclassify" -> DeclarationCurrent /\ NothingUnresolved
      [] pc = "policy" -> PolicyInputsUnchanged(pol)
      [] pc = "attempt" /\ plan[here] = "run" -> fin[here] = "none" /\ gen[here] = "none"
      [] pc = "attempt" /\ plan[here] = "finish" -> fin[here] = "none" /\ GenerationValid(here)
      [] pc = "stamp" -> RuntimeUnchanged
      [] pc = "complete" /\ ~SuiteRejected -> DeclarationCurrent /\ AttemptsBound
      [] OTHER -> TRUE

-----------------------------------------------------------------------------
(***************************************************************************)
(* How a process moves through its loops.                                  *)
(***************************************************************************)
Exit(how) ==
    /\ pc' = "idle" /\ mode' = "none" /\ pol' = 1 /\ att' = 1
    /\ plan' = NoPlan /\ result' = how

Goto(stage) == pc' = stage /\ UNCHANGED <<mode, pol, att, plan, result>>

GotoPolicy(stage, p) ==
    pc' = stage /\ pol' = p /\ att' = 1 /\ UNCHANGED <<mode, plan, result>>

FirstStageOfAttempt == IF mode = "live" THEN "launch" ELSE "attempt"

\* Faulty: the last attempt of a policy is left out.
AfterAttempt_LeavesOutLast ==
    IF att + 1 < NumAttempts
    THEN /\ pc' = FirstStageOfAttempt /\ att' = att + 1
         /\ UNCHANGED <<mode, pol, plan, result>>
    ELSE IF mode = "live" THEN Goto("trace")
    ELSE IF pol < NumPolicies THEN GotoPolicy("policy", pol + 1)
    ELSE GotoPolicy("reclassify", 1)

\* Faulty: the loop runs one attempt too far.
AfterAttempt_OneTooFar ==
    IF att <= NumAttempts
    THEN /\ pc' = FirstStageOfAttempt /\ att' = att + 1
         /\ UNCHANGED <<mode, pol, plan, result>>
    ELSE Goto("trace")

\* After an attempt: the next one of the policy; then the live run seals the
\* policy, while the resume executor first works through all the policies.
AfterAttempt ==
    IF att < NumAttempts
    THEN /\ pc' = FirstStageOfAttempt /\ att' = att + 1
         /\ UNCHANGED <<mode, pol, plan, result>>
    ELSE IF mode = "live" THEN Goto("trace")
    ELSE IF pol < NumPolicies THEN GotoPolicy("policy", pol + 1)
    ELSE GotoPolicy("reclassify", 1)

\* After a policy is sealed, or left unsealed because it is rejected.
AfterSeal ==
    IF pol = NumPolicies THEN GotoPolicy("replay", 1)
    ELSE GotoPolicy(IF mode = "live" THEN "policy" ELSE "seal", pol + 1)

AfterReplay ==
    IF pol = NumPolicies THEN GotoPolicy("complete", 1) ELSE GotoPolicy("replay", pol + 1)

\* A run of the attempt reads the task and executes the harness; the model files
\* were read before it.
ReadDrifted == drift \ {"model"}

-----------------------------------------------------------------------------
(***************************************************************************)
(* The live run.                                                           *)
(***************************************************************************)
\* The output directory must be empty: a suite is started once.
StartLive ==
    /\ pc = "idle" /\ result = "none"
    /\ pc' = "declare" /\ mode' = "live" /\ result' = "running"
    /\ UNCHANGED <<disk, pol, att, plan, env, history>>

\* Temp file, rename, readback: the declaration is there or it is not.
Declare ==
    /\ pc = "declare" /\ ChecksHold
    /\ declared' = TRUE
    /\ Goto("policy")
    /\ UNCHANGED <<evidence, trace, polMan, replay, suiteMan, env, history>>

(***************************************************************************)
(* The resume executor.                                                    *)
(***************************************************************************)
\* Faulty: a suite manifest does not stop a resume.
StartResume_OverSuiteManifest ==
    /\ pc = "idle" /\ declared
    /\ DeclarationCurrent
    /\ pc' = "policy" /\ mode' = "resume" /\ plan' = Inventory /\ result' = "running"
    /\ UNCHANGED <<disk, pol, att, env, history>>

\* It takes the inventory, and refuses a directory that has a suite manifest.
StartResume ==
    /\ pc = "idle" /\ declared
    /\ DeclarationCurrent /\ suiteMan = "none"
    /\ pc' = "policy" /\ mode' = "resume" /\ plan' = Inventory /\ result' = "running"
    /\ UNCHANGED <<disk, pol, att, env, history>>

StartPolicy ==
    /\ pc = "policy" /\ ChecksHold
    /\ Goto(FirstStageOfAttempt)
    /\ UNCHANGED <<disk, env, history>>

\* Completed and rejected attempts are left exactly as they are.
SkipAttempt ==
    /\ pc = "attempt" /\ plan[here] \in {"reuse", "reject"}
    /\ AfterAttempt
    /\ UNCHANGED <<disk, env, history>>

\* Faulty: the attempt with a published generation is run from the start.
FinishFromGeneration_DrawsAgain ==
    /\ pc = "attempt" /\ plan[here] = "finish" /\ ChecksHold
    /\ Goto("launch")
    /\ UNCHANGED <<disk, env, history>>

\* Faulty: what the generation owns is cleared with the rest.
FinishFromGeneration_ClearsGeneration ==
    /\ pc = "attempt" /\ plan[here] = "finish" /\ ChecksHold
    /\ gen' = [gen EXCEPT ![here] = "none"]
    /\ Goto("score")
    /\ UNCHANGED <<declared, dir, genDraw, fin, finDraw, trace, polMan, replay, suiteMan,
                   env, history>>

\* Everything the generation does not own is cleared; scoring runs again, the
\* model does not.
FinishFromGeneration ==
    /\ pc = "attempt" /\ plan[here] = "finish" /\ ChecksHold
    /\ Goto("score")
    /\ UNCHANGED <<disk, env, history>>

\* Faulty: the clearing starts one directory too high.
ClearIncompleteAttempt_ClearsPolicy ==
    /\ pc = "attempt" /\ plan[here] = "run" /\ ChecksHold
    /\ dir' = [s \in Slot |-> IF s[1] = pol THEN "absent" ELSE dir[s]]
    /\ gen' = [s \in Slot |-> IF s[1] = pol THEN "none" ELSE gen[s]]
    /\ fin' = [s \in Slot |-> IF s[1] = pol THEN "none" ELSE fin[s]]
    /\ Goto("launch")
    /\ UNCHANGED <<declared, genDraw, finDraw, trace, polMan, replay, suiteMan, env, history>>

\* The attempt directory is cleared before the attempt runs; one that has a
\* terminal or a generation manifest is never cleared.
ClearIncompleteAttempt ==
    /\ pc = "attempt" /\ plan[here] = "run" /\ ChecksHold
    /\ dir' = [dir EXCEPT ![here] = "absent"]
    /\ Goto("launch")
    /\ UNCHANGED <<declared, gen, genDraw, fin, finDraw, trace, polMan, replay, suiteMan,
                   env, history>>

(***************************************************************************)
(* One attempt, the same code in both modes.                               *)
(***************************************************************************)
\* The attempt directory is made and the attempt starts.
LaunchAttempt ==
    /\ pc = "launch"
    /\ dir' = [dir EXCEPT ![here] = "dir"]
    /\ drawn' = [drawn EXCEPT ![here] = @ + 1]
    /\ taint' = [taint EXCEPT ![here] = ReadDrifted]
    /\ Goto(IF IsModel(here) THEN "generate" ELSE "score")
    /\ UNCHANGED <<declared, gen, genDraw, fin, finDraw, trace, polMan, replay, suiteMan, env>>

\* The prompt loop ends in a terminal result, and the generation manifest is
\* published by rename before scoring starts.
PublishGeneration ==
    /\ pc = "generate"
    /\ gen' = [gen EXCEPT ![here] = "ok"]
    /\ genDraw' = [genDraw EXCEPT ![here] = drawn[here]]
    /\ taint' = [taint EXCEPT ![here] = @ \cup ReadDrifted]
    /\ Goto("score")
    /\ UNCHANGED <<declared, dir, fin, finDraw, trace, polMan, replay, suiteMan, env, drawn>>

\* Faulty: the process tries again.
GenerationIncomplete_RetriesInPlace ==
    /\ pc = "generate" /\ faults < MaxFaults
    /\ Goto("launch")
    /\ UNCHANGED <<disk, env, history>>

\* The generation ends in an exception: no terminal result, and the process
\* ends with it.
GenerationIncomplete ==
    /\ pc = "generate" /\ faults < MaxFaults
    /\ faults' = faults + 1
    /\ Exit("interrupted")
    /\ UNCHANGED <<disk, drift, damages, edits, history>>

\* Scoring, and the attempt's payload files; then manifest.json is opened.
BeginAttemptManifest ==
    /\ pc = "score"
    /\ fin' = [fin EXCEPT ![here] = "torn"]
    /\ taint' = [taint EXCEPT ![here] = @ \cup ReadDrifted]
    /\ Goto("publish")
    /\ UNCHANGED <<declared, dir, gen, genDraw, finDraw, trace, polMan, replay, suiteMan,
                   env, drawn>>

EndAttemptManifest ==
    /\ pc = "publish"
    /\ fin' = [fin EXCEPT ![here] = "ok"]
    /\ finDraw' = [finDraw EXCEPT ![here] = IF IsModel(here) THEN genDraw[here] ELSE drawn[here]]
    /\ AfterAttempt
    /\ UNCHANGED <<declared, dir, gen, genDraw, trace, polMan, replay, suiteMan, env, history>>

(***************************************************************************)
(* Policy manifests, replays and the suite manifest.                       *)
(***************************************************************************)
\* Faulty: the replays of the interrupted process stay.
Reclassify_KeepsReplays ==
    /\ pc = "reclassify" /\ ChecksHold
    /\ plan' = Inventory
    /\ pc' = "seal"
    /\ UNCHANGED <<disk, mode, pol, att, result, env, history>>

\* The executor inventories again, and discards every replay.
Reclassify ==
    /\ pc = "reclassify" /\ ChecksHold
    /\ plan' = Inventory
    /\ replay' = [p \in Policies |-> "none"]
    /\ pc' = "seal"
    /\ UNCHANGED <<declared, evidence, trace, polMan, suiteMan, mode, pol, att, result,
                   env, history>>

\* Faulty: a rejected policy keeps what an earlier process wrote of it.
ClearPolicyCompletion_SkipsRejected ==
    /\ pc = "seal"
    /\ IF PolicyRejected(pol) THEN AfterSeal /\ UNCHANGED <<trace, polMan>>
       ELSE /\ polMan' = [polMan EXCEPT ![pol] = "none"]
            /\ trace' = [trace EXCEPT ![pol] = FALSE]
            /\ Goto("trace")
    /\ UNCHANGED <<declared, evidence, replay, suiteMan, env, history>>

\* A policy with a rejected attempt loses its manifest and trace; any other
\* has them cleared and written again.
ClearPolicyCompletion ==
    /\ pc = "seal"
    /\ polMan' = [polMan EXCEPT ![pol] = "none"]
    /\ trace' = [trace EXCEPT ![pol] = FALSE]
    /\ IF PolicyRejected(pol) THEN AfterSeal ELSE Goto("trace")
    /\ UNCHANGED <<declared, evidence, replay, suiteMan, env, history>>

WritePolicyTrace ==
    /\ pc = "trace"
    /\ trace' = [trace EXCEPT ![pol] = TRUE]
    /\ Goto("stamp")
    /\ UNCHANGED <<declared, evidence, polMan, replay, suiteMan, env, history>>

BeginPolicyManifest ==
    /\ pc = "stamp" /\ ChecksHold
    /\ polMan' = [polMan EXCEPT ![pol] = "torn"]
    /\ Goto("stamping")
    /\ UNCHANGED <<declared, evidence, trace, replay, suiteMan, env, history>>

EndPolicyManifest ==
    /\ pc = "stamping"
    /\ polMan' = [polMan EXCEPT ![pol] = "ok"]
    /\ AfterSeal
    /\ UNCHANGED <<declared, evidence, trace, replay, suiteMan, env, history>>

\* Only the policies that were sealed are replayed.
ReplayDue == pol \in Replayed /\ ~PolicyRejected(pol)

SkipReplay ==
    /\ pc = "replay" /\ ~ReplayDue
    /\ AfterReplay
    /\ UNCHANGED <<disk, env, history>>

\* run_replay refuses a directory that is not empty: with the remains of an
\* earlier process's replay there, nothing would go on.
BeginReplay ==
    /\ pc = "replay" /\ ReplayDue /\ replay[pol] = "none"
    /\ replay' = [replay EXCEPT ![pol] = "partial"]
    /\ Goto("replaying")
    /\ UNCHANGED <<declared, evidence, trace, polMan, suiteMan, env, history>>

\* A replay that errs is recorded as REPLAY_ERROR and does not stop the run.
EndReplay ==
    /\ pc = "replaying"
    /\ replay' = [replay EXCEPT ![pol] = "done"]
    /\ AfterReplay
    /\ UNCHANGED <<declared, evidence, trace, polMan, suiteMan, env, history>>

\* A resume with a rejected attempt ends without a suite manifest.
FinishRejected ==
    /\ pc = "complete" /\ SuiteRejected
    /\ Exit("rejected")
    /\ UNCHANGED <<disk, env, history>>

BeginSuiteManifest ==
    /\ pc = "complete" /\ ~SuiteRejected /\ ChecksHold
    /\ suiteMan' = "torn"
    /\ Goto("completing")
    /\ UNCHANGED <<declared, evidence, trace, polMan, replay, env, history>>

EndSuiteManifest ==
    /\ pc = "completing"
    /\ suiteMan' = "ok"
    /\ Exit("completed")
    /\ UNCHANGED <<declared, evidence, trace, polMan, replay, env, history>>

\* A check fails and the process ends with an exception.
Refuse ==
    /\ pc # "idle" /\ ~ChecksHold
    /\ Exit("refused")
    /\ UNCHANGED <<disk, env, history>>

(***************************************************************************)
(* The environment.                                                        *)
(***************************************************************************)
\* The process is killed, or a write fails: whatever is on disk stays.
Crash ==
    /\ pc # "idle" /\ faults < MaxFaults
    /\ faults' = faults + 1
    /\ Exit("interrupted")
    /\ UNCHANGED <<disk, drift, damages, edits, history>>

\* Between two processes stored evidence is damaged: a terminal manifest or a
\* payload of it, a generation or a file it owns, a stray generation manifest
\* under a policy that has none, or a file where an attempt directory belongs.
DamageAttempt(s) ==
    \/ /\ fin[s] = "ok" /\ fin' = [fin EXCEPT ![s] = "bad"]
       /\ UNCHANGED <<dir, gen>>
    \/ /\ dir[s] = "dir"
       /\ IF IsModel(s) THEN gen[s] = "ok" ELSE gen[s] = "none"
       /\ gen' = [gen EXCEPT ![s] = "bad"]
       /\ UNCHANGED <<dir, fin>>
    \/ /\ dir[s] = "absent" /\ dir' = [dir EXCEPT ![s] = "notdir"]
       /\ UNCHANGED <<gen, fin>>

Damage ==
    /\ pc = "idle" /\ declared /\ suiteMan = "none" /\ damages < MaxDamages
    /\ \E s \in Slot : DamageAttempt(s)
    /\ damages' = damages + 1
    /\ UNCHANGED <<declared, genDraw, finDraw, trace, polMan, replay, suiteMan, process,
                   drift, faults, edits, history>>

\* Someone edits a pinned input, or puts the declared bytes back.
EditInput ==
    /\ edits < MaxEdits
    /\ \E i \in Inputs : drift' = IF i \in drift THEN drift \ {i} ELSE drift \cup {i}
    /\ edits' = edits + 1
    /\ UNCHANGED <<disk, process, faults, damages, history>>

-----------------------------------------------------------------------------
Attempt ==
    \/ SkipAttempt \/ FinishFromGeneration \/ ClearIncompleteAttempt
    \/ LaunchAttempt \/ PublishGeneration
    \/ BeginAttemptManifest \/ EndAttemptManifest

Completion ==
    \/ Reclassify \/ ClearPolicyCompletion \/ WritePolicyTrace
    \/ BeginPolicyManifest \/ EndPolicyManifest
    \/ SkipReplay \/ BeginReplay \/ EndReplay
    \/ FinishRejected \/ BeginSuiteManifest \/ EndSuiteManifest

Process == Declare \/ StartPolicy \/ Attempt \/ Completion \/ Refuse
Environment == GenerationIncomplete \/ Crash \/ Damage \/ EditInput
Next == StartLive \/ StartResume \/ Process \/ Environment

Spec == Init /\ [][Next]_vars

\* A process that can go on does, and the operator resumes an interrupted suite
\* as long as it can be resumed.
FairSpec == Spec /\ WF_vars(Process) /\ WF_vars(StartLive) /\ WF_vars(StartResume)

-----------------------------------------------------------------------------
(***************************************************************************)
(* Safety.                                                                 *)
(***************************************************************************)
\* The attempt at s is being written by the process right now.
Writing(s) == pc = "publish" /\ here = s

\* Something at s has been published, or stands in the way: resume may finish,
\* reuse or reject this attempt, and may not run it.
Terminal(s) == fin[s] # "none" \/ gen[s] # "none" \/ dir[s] = "notdir"

\* The evidence stored for s can no longer be trusted: a terminal manifest that
\* was cut short or damaged, a generation that was, or no directory at all.
Spoilt(s) ==
    \/ dir[s] = "notdir"
    \/ fin[s] = "bad"
    \/ fin[s] = "torn" /\ ~Writing(s)
    \/ gen[s] = "bad" /\ (IsModel(s) \/ fin[s] = "none")

Sound(s) == fin[s] = "ok" /\ ~Spoilt(s)

\* The one outcome an attempt keeps, through every crash and resume, is that of
\* its last run: no earlier generation and no earlier score survives a rerun,
\* and no later run follows a published one (resume.py, agent_task_run.py).
CommittedDraw ==
    \A s \in Slot :
        /\ IsModel(s) /\ gen[s] # "none" => genDraw[s] = drawn[s]
        /\ fin[s] \in {"ok", "bad"} => finDraw[s] = drawn[s]

\* The runs of attempts beyond their first: run n of the attempt at s is <<s, n>>.
Reruns == UNION {{s} \X (2 .. drawn[s]) : s \in Slot}

\* An attempt is run again only because a fault hit it: the suite never
\* samples a policy more often than the declaration planned plus one run for
\* each interruption, whatever mix of live and resumed processes ran it.
RerunsArePaidFor == Cardinality(Reruns) <= faults

\* Parents are written last: a policy manifest, even a torn one, stands only
\* over attempts that all have their terminal manifest and a written trace,
\* and a suite manifest, even a torn one, only over a suite with every attempt
\* valid, every policy sealed and every configured replay finished.
ParentsLast ==
    /\ \A p \in Policies : polMan[p] # "none" =>
            trace[p] /\ \A a \in Attempts : fin[<<p, a>>] # "none"
    /\ suiteMan # "none" =>
            /\ \A s \in Slot : Sound(s)
            /\ \A p \in Policies : polMan[p] = "ok" /\ (p \in Replayed => replay[p] = "done")

\* Rejection stays local: when a resume is about to end, exactly the policies
\* with a rejected attempt lack their manifest and their replay, and every
\* other policy is finished.
RejectionIsLocal ==
    pc = "complete" /\ mode = "resume" =>
        \A p \in Policies :
            IF \E a \in Attempts : Spoilt(<<p, a>>)
            THEN polMan[p] = "none" /\ ~trace[p] /\ replay[p] = "none"
            ELSE polMan[p] = "ok" /\ trace[p] /\ (p \in Replayed => replay[p] = "done")

\* The attempts the process has still to come to.
AttemptStages == {"declare", "policy", "attempt", "launch", "generate", "score", "publish"}

Ahead(s) ==
    \/ s[1] > pol
    \/ s[1] = pol /\ s[2] > att
    \/ s = here /\ pc \in {"declare", "policy", "attempt", "launch"}

Untouched(s) == dir[s] = "absent" /\ gen[s] = "none" /\ fin[s] = "none"

\* Nothing the process believes about an attempt is stale when it gets there:
\* the resume executor acts on an inventory it took before it ran the attempts
\* of all the earlier policies, the live run on the directory having been empty.
PlanIsCurrent ==
    pc \in AttemptStages =>
        \A s \in Slot : Ahead(s) =>
            IF mode = "resume" THEN plan[s] = Classify(s) ELSE Untouched(s)

\* "Resume execution did not produce terminal evidence": the executor that has
\* worked through all its decisions never finds an attempt unresolved.
ResumeResolves == pc = "reclassify" => \A s \in Slot : Sound(s) \/ Spoilt(s)

\* A completed suite combines no attempt that ran over drifted tasks or a
\* drifted harness (only as long as no edit is undone: see the README).
NoMixedSemantics == suiteMan = "ok" => \A s \in Slot : taint[s] = {}

\* No attempt with published evidence is ever run again, by any process.
NoSecondDraw == [][\A s \in Slot : Terminal(s) => drawn'[s] = drawn[s]]_vars

\* What a process finds published it leaves byte for byte as it is, valid or
\* not; only the process that is writing an attempt's manifest completes it.
KeepsEvidence ==
    [][damages' = damages =>
        \A s \in Slot :
            /\ gen[s] # "none" =>
                  gen'[s] = gen[s] /\ genDraw'[s] = genDraw[s] /\ dir'[s] = dir[s]
            /\ fin[s] # "none" /\ ~Writing(s) =>
                  fin'[s] = fin[s] /\ finDraw'[s] = finDraw[s] /\ dir'[s] = dir[s]
            /\ dir[s] = "notdir" => dir'[s] = "notdir"]_vars

\* Once the suite manifest is started, nothing under it changes again.
CompletedSuiteIsFinal ==
    [][suiteMan # "none" =>
        UNCHANGED <<declared, evidence, trace, polMan, replay>>]_vars

(***************************************************************************)
(* Liveness, under FairSpec and with no edit of an input.                  *)
(***************************************************************************)
\* A declared suite is in the end settled: complete, or refused for good by a
\* suite manifest that was torn, or rejected with the evidence to show for it.
SuiteSettles ==
    declared ~> \/ suiteMan = "ok"
                \/ suiteMan = "torn" /\ pc = "idle"
                \/ result = "rejected" /\ \E s \in Slot : Spoilt(s)

(***************************************************************************)
(* Refinement.                                                             *)
(***************************************************************************)
Ledger == INSTANCE SuiteLedger WITH
    Entry <- Slot,
    Draw <- 1..(MaxFaults + 1),
    NoDraw <- 0,
    outcome <- [s \in Slot |->
        IF IsModel(s) /\ gen[s] # "none" THEN genDraw[s]
        ELSE IF fin[s] \in {"ok", "bad"} THEN finDraw[s] ELSE 0],
    closed <- {s \in Slot : fin[s] \in {"ok", "bad"}},
    spoilt <- {s \in Slot : Spoilt(s)},
    complete <- suiteMan = "ok"

\* The directory that live runs, crashes, damage and resumes leave behind is a
\* ledger of outcomes: see SuiteLedger.
ImplementsLedger == Ledger!Spec
=============================================================================
