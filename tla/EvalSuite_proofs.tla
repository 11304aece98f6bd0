-------------------------- MODULE EvalSuite_proofs --------------------------
(***************************************************************************)
(* Theorems about EvalSuite, for every declaration and every bound.        *)
(***************************************************************************)
EXTENDS EvalSuite, FiniteSetTheorems, TLAPS

USE SuiteAssumption

\* The cursor always names a planned attempt, and the inventory decides every
\* attempt.
LEMMA CursorType ==
    ASSUME TypeOK
    PROVE  /\ here \in Slot
           /\ \A s \in Slot : Classify(s) \in Decisions
           /\ Inventory \in [Slot -> Decisions]
           /\ NoPlan \in [Slot -> Decisions]
<1>1. here \in Slot
  BY DEF TypeOK, here, Slot
<1>2. \A s \in Slot : Classify(s) \in Decisions
  BY DEF Classify, Decisions
<1>3. QED
  BY <1>1, <1>2 DEF Inventory, NoPlan, Decisions

\* The process part of the type invariant, which every way to move keeps.
ProcessOK ==
    /\ pc \in Stages
    /\ mode \in {"none", "live", "resume"}
    /\ pol \in Policies
    /\ att \in Attempts
    /\ plan \in [Slot -> Decisions]
    /\ result \in Results

\* Every way to end a process or to move its cursor keeps that part.
LEMMA MovesKeepProcessOK ==
    ASSUME TypeOK
    PROVE  /\ \A how \in Results : Exit(how) => ProcessOK'
           /\ \A st \in Stages : Goto(st) => ProcessOK'
           /\ AfterAttempt => ProcessOK'
           /\ AfterSeal => ProcessOK'
           /\ AfterReplay => ProcessOK'
<1> USE DEF ProcessOK
<1>1. \A how \in Results : Exit(how) => ProcessOK'
  BY CursorType DEF Exit, TypeOK, Stages, Policies, Attempts
<1>2. \A st \in Stages : Goto(st) => ProcessOK'
  BY DEF Goto, TypeOK
<1>3. \A st \in Stages, p \in Policies : GotoPolicy(st, p) => ProcessOK'
  BY DEF GotoPolicy, TypeOK, Attempts
<1>4. pol # NumPolicies => pol + 1 \in Policies
  BY DEF TypeOK, Policies
<1>5. 1 \in Policies
  BY DEF Policies
<1>6. AfterAttempt => ProcessOK'
  <2>1. CASE att < NumAttempts
    BY <2>1 DEF AfterAttempt, FirstStageOfAttempt, TypeOK, Attempts, Stages
  <2>2. CASE ~(att < NumAttempts)
    BY <2>2, <1>2, <1>3, <1>4, <1>5 DEF AfterAttempt, Stages, TypeOK, Policies
  <2>3. QED BY <2>1, <2>2
<1>7. AfterSeal => ProcessOK'
  BY <1>3, <1>4, <1>5 DEF AfterSeal, Stages
<1>8. AfterReplay => ProcessOK'
  BY <1>3, <1>4, <1>5 DEF AfterReplay, Stages
<1>9. QED BY <1>1, <1>2, <1>6, <1>7, <1>8

-----------------------------------------------------------------------------
\* The empty directory is well-typed.
LEMMA TypeInit == Init => TypeOK
<1> SUFFICES ASSUME Init PROVE TypeOK
  OBVIOUS
<1>1. /\ declared \in BOOLEAN
      /\ trace \in [Policies -> BOOLEAN]
  BY DEF Init
<1>2. 1 \in Policies /\ 1 \in Attempts
  BY DEF Policies, Attempts
<1>3. /\ genDraw \in [Slot -> Nat] /\ finDraw \in [Slot -> Nat] /\ drawn \in [Slot -> Nat]
      /\ taint \in [Slot -> SUBSET Inputs]
      /\ plan \in [Slot -> Decisions]
  BY DEF Init, NoPlan, Decisions
<1>4. QED
  BY <1>1, <1>2, <1>3 DEF Init, TypeOK, Stages, Results

\* Every step of a live run or a resume keeps the types.
LEMMA TypeOfProcessSteps ==
    ASSUME TypeOK, StartLive \/ StartResume \/ Process
    PROVE  TypeOK'
<1> USE CursorType, MovesKeepProcessOK DEF ProcessOK, disk, evidence, env, history
<1>1. CASE StartLive
  BY <1>1 DEF StartLive, TypeOK, Stages, Results
<1>2. CASE Declare
  BY <1>2 DEF Declare, TypeOK, Stages
<1>3. CASE StartResume
  BY <1>3 DEF StartResume, TypeOK, Stages, Results
<1>4. CASE StartPolicy
  BY <1>4 DEF StartPolicy, FirstStageOfAttempt, TypeOK, Stages
<1>5. CASE Attempt
  <2>1. CASE SkipAttempt
    BY <2>1 DEF SkipAttempt, TypeOK
  <2>2. CASE FinishFromGeneration
    BY <2>2 DEF FinishFromGeneration, TypeOK, Stages
  <2>3. CASE ClearIncompleteAttempt
    BY <2>3 DEF ClearIncompleteAttempt, TypeOK, Stages
  <2>4. CASE LaunchAttempt
    BY <2>4 DEF LaunchAttempt, ReadDrifted, TypeOK, Stages
  <2>5. CASE PublishGeneration
    BY <2>5 DEF PublishGeneration, ReadDrifted, TypeOK, Stages
  <2>6. CASE BeginAttemptManifest
    BY <2>6 DEF BeginAttemptManifest, ReadDrifted, TypeOK, Stages
  <2>7. CASE EndAttemptManifest
    BY <2>7 DEF EndAttemptManifest, TypeOK
  <2>8. QED
    BY <1>5, <2>1, <2>2, <2>3, <2>4, <2>5, <2>6, <2>7 DEF Attempt
<1>6. CASE Completion
  <2>1. CASE Reclassify
    BY <2>1 DEF Reclassify, TypeOK, Stages
  <2>2. CASE ClearPolicyCompletion
    BY <2>2 DEF ClearPolicyCompletion, TypeOK, Stages
  <2>3. CASE WritePolicyTrace
    BY <2>3 DEF WritePolicyTrace, TypeOK, Stages
  <2>4. CASE BeginPolicyManifest
    BY <2>4 DEF BeginPolicyManifest, TypeOK, Stages
  <2>5. CASE EndPolicyManifest
    BY <2>5 DEF EndPolicyManifest, TypeOK
  <2>6. CASE SkipReplay
    BY <2>6 DEF SkipReplay, TypeOK
  <2>7. CASE BeginReplay
    BY <2>7 DEF BeginReplay, TypeOK, Stages
  <2>8. CASE EndReplay
    BY <2>8 DEF EndReplay, TypeOK
  <2>9. CASE FinishRejected
    BY <2>9 DEF FinishRejected, TypeOK, Results
  <2>10. CASE BeginSuiteManifest
    BY <2>10 DEF BeginSuiteManifest, TypeOK, Stages
  <2>11. CASE EndSuiteManifest
    BY <2>11 DEF EndSuiteManifest, TypeOK, Results
  <2>12. QED
    BY <1>6, <2>1, <2>2, <2>3, <2>4, <2>5, <2>6, <2>7, <2>8, <2>9, <2>10, <2>11 DEF Completion
<1>7. CASE Refuse
  BY <1>7 DEF Refuse, TypeOK, Results
<1>8. QED
  BY <1>1, <1>2, <1>3, <1>4, <1>5, <1>6, <1>7 DEF Process

\* So do crashes, failed generations, damage and edits of inputs.
LEMMA TypeOfEnvironmentSteps ==
    ASSUME TypeOK, Environment
    PROVE  TypeOK'
<1> USE CursorType, MovesKeepProcessOK DEF ProcessOK, disk, process, history
<1>1. CASE GenerationIncomplete
  BY <1>1 DEF GenerationIncomplete, TypeOK, Results, evidence
<1>2. CASE Crash
  BY <1>2 DEF Crash, TypeOK, Results, evidence
<1>3. CASE Damage
  <2>1. PICK s \in Slot : DamageAttempt(s)
    BY <1>3 DEF Damage
  <2>2. /\ dir' \in [Slot -> {"absent", "dir", "notdir"}]
        /\ gen' \in [Slot -> {"none", "ok", "bad"}]
        /\ fin' \in [Slot -> {"none", "torn", "ok", "bad"}]
    BY <2>1 DEF DamageAttempt, TypeOK
  <2>3. QED
    BY <1>3, <2>2 DEF Damage, TypeOK
<1>4. CASE EditInput
  BY <1>4 DEF EditInput, TypeOK, evidence
<1>5. QED
  BY <1>1, <1>2, <1>3, <1>4 DEF Environment

\* TypeOK is an invariant of every suite.
THEOREM TypeCorrect == Spec => []TypeOK
<1>1. TypeOK /\ UNCHANGED vars => TypeOK'
  BY DEF vars, disk, process, env, history, TypeOK
<1>2. TypeOK /\ [Next]_vars => TypeOK'
  BY <1>1, TypeOfProcessSteps, TypeOfEnvironmentSteps DEF Next
<1>3. QED
  BY <1>2, TypeInit, PTL DEF Spec

-----------------------------------------------------------------------------
(***************************************************************************)
(* The inductive invariant.  CommittedDraw is not inductive: whether an    *)
(* attempt may be launched depends on what the process knows about it, so  *)
(* the strengthening says where the process stands and that what it knows  *)
(* is current.                                                             *)
(***************************************************************************)
\* A suite that was never started has an empty directory.
NotStarted ==
    result = "none" => ~declared /\ pc = "idle" /\ \A s \in Slot : Untouched(s)

ModeMatchesStage ==
    /\ pc = "idle" \/ mode \in {"live", "resume"}
    /\ pc = "declare" => mode = "live"
    /\ pc \in {"attempt", "reclassify", "seal"} => mode = "resume"

\* Between two policies of a live run the later ones are untouched.
LaterPoliciesUntouched ==
    mode = "live" /\ pc \in {"trace", "stamp", "stamping"} =>
        \A s \in Slot : s[1] > pol => Untouched(s)

\* What is on disk for the attempt the process is at.
AttemptInHand ==
    /\ pc = "launch" => Untouched(here)
    /\ pc = "generate" => IsModel(here) /\ gen[here] = "none" /\ fin[here] = "none"
    /\ pc = "score" => fin[here] = "none" /\ (IsModel(here) => gen[here] # "none")
    /\ pc = "publish" => fin[here] = "torn" /\ (IsModel(here) => gen[here] # "none")
    /\ pc \in {"generate", "score", "publish"} => dir[here] = "dir"

IInv ==
    /\ TypeOK
    /\ NotStarted
    /\ ModeMatchesStage
    /\ LaterPoliciesUntouched
    /\ AttemptInHand
    /\ PlanIsCurrent
    /\ CommittedDraw

\* The empty directory satisfies the inductive invariant.
LEMMA InductiveInit == Init => IInv
<1> SUFFICES ASSUME Init PROVE IInv
  OBVIOUS
<1>1. TypeOK
  BY TypeInit
<1>2. QED
  BY <1>1 DEF Init, IInv, NotStarted, ModeMatchesStage, LaterPoliciesUntouched, AttemptInHand,
    PlanIsCurrent, AttemptStages, CommittedDraw, Untouched, Ahead, here, Slot, Policies, Attempts

\* How a cursor that moves on looks from an attempt that is ahead of it.
LEMMA AheadAfterAttempt ==
    ASSUME TypeOK, AfterAttempt, NEW s \in Slot, Ahead(s)', pc' \in AttemptStages
    PROVE  s[1] > pol \/ (s[1] = pol /\ s[2] > att)
<1> USE DEF Slot, TypeOK, Policies, Attempts, here, Ahead
<1>1. CASE att < NumAttempts
  BY <1>1 DEF AfterAttempt
<1>2. CASE ~(att < NumAttempts) /\ mode = "live"
  BY <1>2 DEF AfterAttempt, Goto, AttemptStages
<1>3. CASE ~(att < NumAttempts) /\ mode # "live"
  BY <1>3 DEF AfterAttempt, GotoPolicy, AttemptStages
<1>4. QED BY <1>1, <1>2, <1>3

\* Starting a live run, declaring a suite and starting a resume keep it.
LEMMA InductiveStart ==
    ASSUME IInv, TypeOK', StartLive \/ StartResume \/ Declare \/ StartPolicy
    PROVE  IInv'
<1> USE DEF IInv, disk, evidence, env, history
<1>1. CASE StartLive
  BY <1>1 DEF StartLive, NotStarted, ModeMatchesStage, LaterPoliciesUntouched, AttemptInHand,
    PlanIsCurrent, AttemptStages, CommittedDraw, Untouched, Ahead
<1>2. CASE StartResume
  BY <1>2 DEF StartResume, Inventory, NotStarted, ModeMatchesStage, LaterPoliciesUntouched,
    AttemptInHand, PlanIsCurrent, AttemptStages, CommittedDraw, Untouched, Classify,
    CompletedAttemptValid, EvidenceValid, GenerationBound, GenerationValid, IsModel
<1>3. CASE Declare
  BY <1>3 DEF Declare, Goto, NotStarted, ModeMatchesStage, LaterPoliciesUntouched,
    AttemptInHand, PlanIsCurrent, AttemptStages, CommittedDraw, Untouched, Ahead, here
<1>4. CASE StartPolicy
  BY <1>4 DEF StartPolicy, FirstStageOfAttempt, Goto, NotStarted, ModeMatchesStage,
    LaterPoliciesUntouched, AttemptInHand, PlanIsCurrent, AttemptStages, CommittedDraw,
    Untouched, Ahead, here, TypeOK, Slot, Classify, CompletedAttemptValid, EvidenceValid,
    GenerationBound, GenerationValid, IsModel
<1>5. QED
  BY <1>1, <1>2, <1>3, <1>4

\* The seven steps of an attempt.
LEMMA InductiveAttempt ==
    ASSUME IInv, TypeOK', Attempt
    PROVE  IInv'
<1> USE DEF IInv, disk, evidence, env, history
<1>0. here \in Slot
  BY CursorType
<1>b. mode \in {"live", "resume"}
  BY DEF Attempt, ModeMatchesStage, SkipAttempt, FinishFromGeneration, ClearIncompleteAttempt,
    LaunchAttempt, PublishGeneration, BeginAttemptManifest, EndAttemptManifest
<1>a. ASSUME AfterAttempt
      PROVE  /\ ModeMatchesStage' /\ mode' = mode /\ result' = result /\ plan' = plan
             /\ pc' \in {"launch", "attempt", "trace", "policy", "reclassify"}
             /\ pc' = "launch" => mode = "live"
             /\ pc' \in {"attempt", "policy", "reclassify"} => mode # "live"
             /\ pc' = "trace" => pol' = pol /\ mode = "live"
             /\ pc' = "launch" => pol' = pol /\ att' = att + 1 /\ here' # here
  <2> USE <1>a DEF AfterAttempt, FirstStageOfAttempt, Goto, GotoPolicy, ModeMatchesStage, TypeOK,
    here, Attempts
  <2>0. mode' = mode /\ result' = result /\ plan' = plan
    OBVIOUS
  <2>1. CASE att < NumAttempts
    <3>1. pc' = FirstStageOfAttempt /\ att' = att + 1 /\ pol' = pol
      BY <2>1
    <3>2. here' # here
      BY <3>1
    <3>3. QED BY <2>0, <3>1, <3>2, <1>b
  <2>2. CASE ~(att < NumAttempts) /\ mode = "live"
    BY <2>0, <2>2
  <2>3. CASE ~(att < NumAttempts) /\ mode # "live"
    BY <2>0, <2>3, <1>b
  <2>4. QED BY <2>1, <2>2, <2>3
<1>1. CASE SkipAttempt
  <2> USE <1>1 DEF SkipAttempt
  <2>1. mode = "resume"
    BY DEF ModeMatchesStage
  <2>2. PlanIsCurrent'
    BY <2>1, <1>a, AheadAfterAttempt DEF PlanIsCurrent, AttemptStages, Ahead, Classify,
      CompletedAttemptValid, EvidenceValid, GenerationBound, GenerationValid, IsModel
  <2>3. QED
    BY <2>1, <2>2, <1>a DEF NotStarted, LaterPoliciesUntouched, AttemptInHand, CommittedDraw
<1>2. CASE FinishFromGeneration
  <2> USE <1>2 DEF FinishFromGeneration, Goto
  <2>1. plan[here] = Classify(here) /\ mode = "resume"
    BY <1>0 DEF PlanIsCurrent, AttemptStages, Ahead, ModeMatchesStage
  <2>2. dir[here] = "dir" /\ gen[here] = "ok" /\ fin[here] = "none"
    BY <2>1, <1>0 DEF Classify, GenerationValid, TypeOK
  <2>3. PlanIsCurrent'
    BY DEF PlanIsCurrent, AttemptStages, Ahead, here, Classify, Untouched,
      CompletedAttemptValid, EvidenceValid, GenerationBound, GenerationValid, IsModel
  <2>4. AttemptInHand'
    BY <2>2 DEF AttemptInHand, here
  <2>5. QED
    BY <2>3, <2>4, <2>1 DEF NotStarted, ModeMatchesStage, LaterPoliciesUntouched, CommittedDraw
<1>3. CASE ClearIncompleteAttempt
  <2> USE <1>3 DEF ClearIncompleteAttempt, Goto
  <2>1. fin[here] = "none" /\ gen[here] = "none" /\ mode = "resume"
    BY DEF ChecksHold, ModeMatchesStage
  <2>2. PlanIsCurrent'
    <3> SUFFICES ASSUME NEW s \in Slot, Ahead(s)' PROVE plan[s] = Classify(s)'
      BY <2>1 DEF PlanIsCurrent
    <3>1. CASE s = here
      BY <3>1, <1>0 DEF Classify, TypeOK
    <3>2. CASE s # here
      BY <3>2, <1>0, <2>1 DEF PlanIsCurrent, AttemptStages, Ahead, here, TypeOK, Classify,
        CompletedAttemptValid, EvidenceValid, GenerationBound, GenerationValid, IsModel
    <3>3. QED BY <3>1, <3>2
  <2>3. AttemptInHand'
    BY <2>1, <1>0 DEF AttemptInHand, here, Untouched, TypeOK
  <2>4. QED
    BY <2>1, <2>2, <2>3 DEF NotStarted, ModeMatchesStage, LaterPoliciesUntouched, CommittedDraw
<1>4. CASE LaunchAttempt
  <2> USE <1>4 DEF LaunchAttempt, Goto
  <2>1. Untouched(here)
    BY DEF AttemptInHand
  <2>2. \A s \in Slot : Ahead(s)' => Ahead(s) /\ s # here
    BY DEF Ahead, here, TypeOK, Slot, Policies, Attempts
  <2>3. PlanIsCurrent'
    BY <2>2 DEF PlanIsCurrent, AttemptStages, Classify, Untouched, TypeOK,
      CompletedAttemptValid, EvidenceValid, GenerationBound, GenerationValid, IsModel
  <2>4. AttemptInHand'
    BY <2>1, <1>0 DEF AttemptInHand, here, Untouched, TypeOK, IsModel
  <2>5. CommittedDraw'
    BY <2>1, <1>0 DEF CommittedDraw, Untouched, TypeOK, IsModel
  <2>6. QED
    BY <2>3, <2>4, <2>5 DEF NotStarted, ModeMatchesStage, LaterPoliciesUntouched
<1>5. CASE PublishGeneration
  <2> USE <1>5 DEF PublishGeneration, Goto
  <2>1. \A s \in Slot : Ahead(s)' => Ahead(s) /\ s # here
    BY SMTT(30) DEF Ahead, here, TypeOK, Slot, Policies, Attempts
  <2>2. PlanIsCurrent'
    BY <2>1 DEF PlanIsCurrent, AttemptStages, Classify, Untouched, TypeOK,
      CompletedAttemptValid, EvidenceValid, GenerationBound, GenerationValid, IsModel
  <2>3. AttemptInHand'
    BY <1>0 DEF AttemptInHand, here, Untouched, TypeOK, IsModel
  <2>4. CommittedDraw'
    BY <1>0 DEF CommittedDraw, AttemptInHand, TypeOK, IsModel
  <2>5. QED
    BY <2>2, <2>3, <2>4 DEF NotStarted, ModeMatchesStage, LaterPoliciesUntouched
<1>6. CASE BeginAttemptManifest
  <2> USE <1>6 DEF BeginAttemptManifest, Goto
  <2>1. \A s \in Slot : Ahead(s)' => Ahead(s) /\ s # here
    BY SMTT(30) DEF Ahead, here, TypeOK, Slot, Policies, Attempts
  <2>2. PlanIsCurrent'
    BY <2>1 DEF PlanIsCurrent, AttemptStages, Classify, Untouched, TypeOK,
      CompletedAttemptValid, EvidenceValid, GenerationBound, GenerationValid, IsModel
  <2>3. AttemptInHand'
    BY <1>0 DEF AttemptInHand, here, Untouched, TypeOK, IsModel
  <2>4. CommittedDraw'
    BY <1>0 DEF CommittedDraw, AttemptInHand, TypeOK, IsModel
  <2>5. QED
    BY <2>2, <2>3, <2>4 DEF NotStarted, ModeMatchesStage, LaterPoliciesUntouched
<1>7. CASE EndAttemptManifest
  <2> USE <1>7 DEF EndAttemptManifest
  <2>0. AfterAttempt
    OBVIOUS
  <2>1. ASSUME NEW s \in Slot, Ahead(s)', pc' \in AttemptStages
        PROVE  Ahead(s) /\ s # here
    <3>1. s[1] > pol \/ (s[1] = pol /\ s[2] > att)
      BY <2>0, <2>1, AheadAfterAttempt
    <3>2. QED BY <3>1 DEF Ahead, here, TypeOK, Slot, Policies, Attempts
  <2>2. \A s \in Slot : s # here =>
          /\ Untouched(s)' <=> Untouched(s)
          /\ Classify(s)' = Classify(s)
    BY <1>0 DEF Classify, Untouched, TypeOK, CompletedAttemptValid, EvidenceValid,
      GenerationBound, GenerationValid, IsModel
  <2>3. PlanIsCurrent'
    BY <2>1, <2>2, <1>a DEF PlanIsCurrent, AttemptStages
  <2>4. AttemptInHand'
    <3> SUFFICES ASSUME pc' = "launch" PROVE Untouched(here)'
      BY <2>0, <1>a DEF AttemptInHand
    <3>0. <<pol', att'>> \in Slot
      BY DEF TypeOK, Slot
    <3>1. PICK h \in Slot : h = <<pol', att'>>
      BY <3>0
    <3>2. h # here /\ Ahead(h)
      BY <2>0, <1>a, <3>1 DEF Ahead, here, TypeOK, Attempts
    <3>3. Untouched(h)
      BY <3>1, <3>2, <2>0, <1>a DEF PlanIsCurrent, AttemptStages
    <3>4. dir'[h] = "absent" /\ gen'[h] = "none" /\ fin'[h] = "none"
      BY <3>2, <3>3, <1>0 DEF Untouched, TypeOK
    <3>5. QED
      BY <3>1, <3>4 DEF Untouched, here
  <2>5. CommittedDraw'
    BY <1>0 DEF CommittedDraw, AttemptInHand, TypeOK, IsModel
  <2>6. LaterPoliciesUntouched'
    <3>1. pc' = "trace" => pol' = pol /\ mode = "live" /\ \A s \in Slot : s[1] > pol => s # here /\ Ahead(s)
      BY <1>a DEF Ahead, here, TypeOK, Policies
    <3>2. QED
      BY <3>1, <2>2, <1>a DEF LaterPoliciesUntouched, PlanIsCurrent, AttemptStages
  <2>7. QED
    BY <2>3, <2>4, <2>5, <2>6, <1>a DEF NotStarted
<1>8. QED
  BY <1>1, <1>2, <1>3, <1>4, <1>5, <1>6, <1>7 DEF Attempt

\* Where a step that completes policies, replays or the suite may go: it ends
\* the process, or it stays among the stages that touch no attempt, or it takes a
\* live run on to the attempts of the next policy.
LEMMA CompletionMoves ==
    ASSUME TypeOK, ModeMatchesStage, Completion
    PROVE  /\ UNCHANGED <<declared, evidence, history>>
           /\ \/ pc' = "idle" /\ result' # "none"
              \/ /\ pc' \in {"seal", "trace", "stamp", "stamping", "replay", "replaying",
                             "complete", "completing"}
                 /\ pc # "idle" /\ mode' = mode /\ result' = result
                 /\ pc' = "seal" => mode = "resume"
                 /\ mode = "live" /\ pc' \in {"trace", "stamp", "stamping"} =>
                      pc \in {"trace", "stamp"} /\ pol' = pol
              \/ /\ pc' = "policy" /\ pc = "stamping" /\ mode = "live"
                 /\ mode' = mode /\ result' = result
                 /\ pol' = pol + 1
<1> USE DEF ModeMatchesStage, evidence, history, Goto, GotoPolicy, Exit
<1>1. CASE Reclassify
  BY <1>1 DEF Reclassify
<1>2. CASE ClearPolicyCompletion
  BY <1>2 DEF ClearPolicyCompletion, AfterSeal
<1>3. CASE WritePolicyTrace \/ BeginPolicyManifest
  BY <1>3 DEF WritePolicyTrace, BeginPolicyManifest
<1>4. CASE EndPolicyManifest
  <2>1. pc = "stamping" /\ AfterSeal /\ UNCHANGED <<declared, evidence, history>>
    BY <1>4 DEF EndPolicyManifest
  <2>2. CASE pol = NumPolicies
    BY <2>1, <2>2 DEF AfterSeal
  <2>3. CASE pol # NumPolicies /\ mode = "live"
    BY <2>1, <2>3 DEF AfterSeal
  <2>4. CASE pol # NumPolicies /\ mode # "live"
    BY <2>1, <2>4 DEF AfterSeal
  <2>5. QED BY <2>2, <2>3, <2>4
<1>5. CASE SkipReplay \/ BeginReplay \/ EndReplay
  <2>1. /\ pc \in {"replay", "replaying"} /\ UNCHANGED <<declared, evidence, history>>
        /\ AfterReplay \/ Goto("replaying")
    BY <1>5 DEF SkipReplay, BeginReplay, EndReplay, disk
  <2>2. CASE AfterReplay
    BY <2>1, <2>2 DEF AfterReplay
  <2>3. CASE Goto("replaying")
    BY <2>1, <2>3
  <2>4. QED BY <2>1, <2>2, <2>3
<1>6. CASE FinishRejected \/ BeginSuiteManifest \/ EndSuiteManifest
  BY <1>6 DEF FinishRejected, BeginSuiteManifest, EndSuiteManifest, disk
<1>7. QED
  BY <1>1, <1>2, <1>3, <1>4, <1>5, <1>6 DEF Completion

\* A process that ends leaves every part of the invariant standing.
LEMMA InductiveExit ==
    ASSUME IInv, TypeOK', pc' = "idle", result' # "none",
           NotStarted', CommittedDraw'
    PROVE  IInv'
BY DEF IInv, ModeMatchesStage, LaterPoliciesUntouched, AttemptInHand, PlanIsCurrent, AttemptStages

\* The steps that complete policies, replays and the suite keep it.
LEMMA InductiveCompletion ==
    ASSUME IInv, TypeOK', Completion
    PROVE  IInv'
<1> USE DEF evidence, history
<1>0. TypeOK /\ ModeMatchesStage
  BY DEF IInv
<1>1. UNCHANGED <<declared, evidence, history>>
  BY <1>0, CompletionMoves
<1>2. CommittedDraw'
  BY <1>1 DEF IInv, CommittedDraw, IsModel
<1>3. CASE pc' = "idle" /\ result' # "none"
  BY <1>2, <1>3, InductiveExit DEF NotStarted
<1>4. CASE /\ pc' \in {"seal", "trace", "stamp", "stamping", "replay", "replaying",
                       "complete", "completing"}
           /\ pc # "idle" /\ mode' = mode /\ result' = result
           /\ pc' = "seal" => mode = "resume"
           /\ mode = "live" /\ pc' \in {"trace", "stamp", "stamping"} =>
                pc \in {"trace", "stamp"} /\ pol' = pol
  <2>1. LaterPoliciesUntouched'
    BY <1>1, <1>4 DEF IInv, LaterPoliciesUntouched, Untouched
  <2>2. QED
    BY <1>2, <1>4, <2>1 DEF IInv, NotStarted, ModeMatchesStage, AttemptInHand, PlanIsCurrent,
      AttemptStages
<1>5. CASE /\ pc' = "policy" /\ pc = "stamping" /\ mode = "live"
           /\ mode' = mode /\ result' = result
           /\ pol' = pol + 1
  <2>1. \A s \in Slot : Ahead(s)' => s[1] > pol
    BY <1>5 DEF IInv, TypeOK, Policies, Slot, Ahead, here
  <2>2. PlanIsCurrent'
    BY <1>1, <1>5, <2>1 DEF IInv, LaterPoliciesUntouched, PlanIsCurrent, Untouched
  <2>3. QED
    BY <1>2, <1>5, <2>2 DEF IInv, NotStarted, ModeMatchesStage, AttemptInHand,
      LaterPoliciesUntouched
<1>6. QED
  BY <1>0, <1>3, <1>4, <1>5, CompletionMoves

\* Steps that end the process early, and what the environment does.
LEMMA InductiveOthers ==
    ASSUME IInv, TypeOK', Refuse \/ Environment
    PROVE  IInv'
<1> USE DEF disk, evidence, env, history, process
<1>1. CASE Refuse \/ GenerationIncomplete \/ Crash
  <2>1. pc' = "idle" /\ result' # "none" /\ UNCHANGED <<evidence, history>>
    BY <1>1 DEF Refuse, GenerationIncomplete, Crash, Exit
  <2>2. CommittedDraw'
    BY <2>1 DEF IInv, CommittedDraw, IsModel
  <2>3. QED
    BY <2>1, <2>2, InductiveExit DEF NotStarted
<1>2. CASE Damage
  <2>1. PICK s \in Slot : DamageAttempt(s)
    BY <1>2 DEF Damage
  <2>2. \A t \in Slot :
          /\ gen'[t] # "none" => gen[t] # "none" \/ ~IsModel(t)
          /\ fin'[t] \in {"ok", "bad"} => fin[t] \in {"ok", "bad"}
    BY <2>1 DEF DamageAttempt, IInv, TypeOK
  <2>3. CommittedDraw'
    BY <1>2, <2>2 DEF Damage, IInv, CommittedDraw, IsModel
  <2>4. pc' = "idle" /\ result' # "none"
    BY <1>2 DEF Damage, IInv, NotStarted
  <2>5. QED
    BY <2>3, <2>4, InductiveExit DEF NotStarted
<1>3. CASE EditInput
  BY <1>3 DEF EditInput, IInv, NotStarted, ModeMatchesStage, LaterPoliciesUntouched,
    AttemptInHand, PlanIsCurrent, CommittedDraw, Untouched, Ahead, here, Classify,
    CompletedAttemptValid, EvidenceValid, GenerationBound, GenerationValid, IsModel
<1>4. QED
  BY <1>1, <1>2, <1>3 DEF Environment

\* The invariant holds in every reachable state of every suite.
THEOREM Inductive == Spec => []IInv
<1>1. IInv /\ UNCHANGED vars => IInv'
  BY DEF vars, disk, evidence, process, env, history, IInv, TypeOK, NotStarted,
    ModeMatchesStage, LaterPoliciesUntouched, AttemptInHand, PlanIsCurrent, CommittedDraw,
    Untouched, Ahead, here, Classify, CompletedAttemptValid, EvidenceValid, GenerationBound,
    GenerationValid, IsModel
<1>2. IInv /\ Next => IInv'
  <2> SUFFICES ASSUME IInv, Next PROVE IInv'
    OBVIOUS
  <2>1. TypeOK'
    BY TypeOfProcessSteps, TypeOfEnvironmentSteps DEF Next, IInv
  <2>2. QED
    BY <2>1, InductiveStart, InductiveAttempt, InductiveCompletion, InductiveOthers
    DEF Next, Process
<1>3. QED
  BY <1>1, <1>2, InductiveInit, PTL DEF Spec

-----------------------------------------------------------------------------
(***************************************************************************)
(* The properties.                                                         *)
(***************************************************************************)
\* The one outcome an attempt keeps, through every crash and resume, is that of
\* its last run, whatever the declaration and however many faults.
THEOREM OneOutcomePerAttempt == Spec => []CommittedDraw
<1>1. IInv => CommittedDraw
  BY DEF IInv
<1>2. QED
  BY <1>1, Inductive, PTL

\* The resume executor never acts on a stale inventory, nor the live run on a
\* directory that is not as empty as it believes.
THEOREM InventoryStaysCurrent == Spec => []PlanIsCurrent
<1>1. IInv => PlanIsCurrent
  BY DEF IInv
<1>2. QED
  BY <1>1, Inductive, PTL

\* No attempt with published evidence is run again: launching is the one step
\* that runs an attempt, and it finds its attempt untouched.
THEOREM NothingPublishedIsRunAgain == Spec => NoSecondDraw
<1> DEFINE Step == \A s \in Slot : Terminal(s) => drawn'[s] = drawn[s]
<1>1. IInv /\ [Next]_vars => [Step]_vars
  <2> SUFFICES ASSUME IInv, Next, NEW s \in Slot, Terminal(s)
               PROVE  drawn'[s] = drawn[s]
    OBVIOUS
  <2>1. CASE LaunchAttempt
    <3>1. s # here
      BY <2>1 DEF LaunchAttempt, IInv, AttemptInHand, Untouched, Terminal
    <3>2. QED
      BY <2>1, <3>1 DEF LaunchAttempt, IInv, TypeOK
  <2>2. CASE ~LaunchAttempt
    BY <2>2 DEF Next, Process, Environment, Attempt, Completion, StartLive, StartResume,
      Declare, StartPolicy, SkipAttempt, FinishFromGeneration, ClearIncompleteAttempt,
      PublishGeneration, BeginAttemptManifest, EndAttemptManifest, Reclassify,
      ClearPolicyCompletion, WritePolicyTrace, BeginPolicyManifest, EndPolicyManifest,
      SkipReplay, BeginReplay, EndReplay, FinishRejected, BeginSuiteManifest, EndSuiteManifest,
      Refuse, GenerationIncomplete, Crash, Damage, EditInput, history, vars
  <2>3. QED BY <2>1, <2>2
<1>2. QED
  BY <1>1, Inductive, PTL DEF Spec, NoSecondDraw

\* What a process finds published it leaves as it is, valid or not; only the
\* process that is writing an attempt's manifest completes it.
THEOREM EvidenceIsKept == Spec => KeepsEvidence
<1> DEFINE Kept(s) ==
            /\ gen[s] # "none" =>
                  gen'[s] = gen[s] /\ genDraw'[s] = genDraw[s] /\ dir'[s] = dir[s]
            /\ fin[s] # "none" /\ ~Writing(s) =>
                  fin'[s] = fin[s] /\ finDraw'[s] = finDraw[s] /\ dir'[s] = dir[s]
            /\ dir[s] = "notdir" => dir'[s] = "notdir"
           Step == damages' = damages => \A s \in Slot : Kept(s)
<1>1. IInv /\ [Next]_vars => [Step]_vars
  <2> SUFFICES ASSUME IInv, Next, damages' = damages, NEW s \in Slot
               PROVE  Kept(s)
    OBVIOUS
  <2>0. TypeOK /\ here \in Slot
    BY CursorType DEF IInv
  <2>1. CASE ClearIncompleteAttempt
    <3>1. fin[here] = "none" /\ gen[here] = "none" /\ dir[here] # "notdir"
      <4>1. fin[here] = "none" /\ gen[here] = "none" /\ mode = "resume"
        BY <2>1 DEF ClearIncompleteAttempt, ChecksHold, IInv, ModeMatchesStage
      <4>2. Classify(here) = "run"
        BY <2>0, <2>1, <4>1 DEF ClearIncompleteAttempt, IInv, PlanIsCurrent, AttemptStages,
          Ahead
      <4> QED  BY <4>1, <4>2 DEF Classify
    <3> QED  BY <2>0, <2>1, <3>1 DEF ClearIncompleteAttempt, TypeOK
  <2>2. CASE LaunchAttempt
    <3>1. Untouched(here)
      BY <2>2 DEF LaunchAttempt, IInv, AttemptInHand
    <3> QED  BY <2>0, <2>2, <3>1 DEF LaunchAttempt, Untouched, TypeOK
  <2>3. CASE PublishGeneration
    <3>1. gen[here] = "none"
      BY <2>3 DEF PublishGeneration, IInv, AttemptInHand
    <3> QED  BY <2>0, <2>3, <3>1 DEF PublishGeneration, TypeOK
  <2>4. CASE BeginAttemptManifest
    <3>1. fin[here] = "none"
      BY <2>4 DEF BeginAttemptManifest, IInv, AttemptInHand
    <3> QED  BY <2>0, <2>4, <3>1 DEF BeginAttemptManifest, TypeOK
  <2>5. CASE EndAttemptManifest
    BY <2>0, <2>5 DEF EndAttemptManifest, TypeOK, Writing
  <2>6. CASE Damage
    BY <2>0, <2>6 DEF Damage, TypeOK
  <2>7. CASE UNCHANGED evidence
    BY <2>7 DEF evidence
  <2>8. QED
    BY <2>1, <2>2, <2>3, <2>4, <2>5, <2>6, <2>7 DEF Next, Process, Environment, Attempt,
      Completion, StartLive, StartResume, Declare, StartPolicy, SkipAttempt,
      FinishFromGeneration, Reclassify, ClearPolicyCompletion, WritePolicyTrace,
      BeginPolicyManifest, EndPolicyManifest, SkipReplay, BeginReplay, EndReplay,
      FinishRejected, BeginSuiteManifest, EndSuiteManifest, Refuse, GenerationIncomplete,
      Crash, EditInput, disk, vars
<1>2. QED
  BY <1>1, Inductive, PTL DEF Spec, KeepsEvidence

-----------------------------------------------------------------------------
(***************************************************************************)
(* Parents are written last.  That a policy's attempts are all there when  *)
(* it is sealed, and the policies when the suite is, is a fact about where *)
(* the process has been: the cursor's past, read off the disk.             *)
(***************************************************************************)
\* The cursor starts each loop at its beginning, a plan is the executor's, and
\* the last stage is reached by starting the suite manifest.
CursorStarts ==
    /\ pc = "completing" => suiteMan # "none"
    /\ pc \in {"idle", "declare", "reclassify"} => pol = 1
    /\ pc \in {"idle", "declare", "policy"} => att = 1
    /\ plan = NoPlan \/ (mode = "resume" /\ pc # "idle")

\* A terminal manifest is in a directory.
DirThere == \A s \in Slot : fin[s] # "none" => dir[s] = "dir"

\* The stages at which a policy's attempts are behind the process.
Sealing == {"seal", "trace", "stamp", "stamping"}
Closing == {"replay", "replaying", "complete", "completing"}

AttemptsDone ==
    /\ mode = "live" /\ pc \in {"launch", "generate", "score", "publish"} =>
          \A a \in Attempts : a < att => fin[<<pol, a>>] # "none"
    /\ pc \in {"trace", "stamp", "stamping"} =>
          \A a \in Attempts : fin[<<pol, a>>] # "none"
    /\ mode = "resume" /\ pc \in Sealing \cup Closing =>
          \A s \in Slot : plan[s] = "reject" \/ fin[s] # "none"

PolicySealed(p) == polMan[p] = "ok" \/ PolicyRejected(p)
PolicyReplayed(p) == p \in Replayed => replay[p] = "done" \/ PolicyRejected(p)

PoliciesDone ==
    /\ pc \in {"stamp", "stamping"} => trace[pol]
    /\ pc \in Sealing => \A p \in Policies : p < pol => PolicySealed(p)
    /\ mode = "live" /\ pc \in {"policy", "launch", "generate", "score", "publish"} =>
          \A p \in Policies : p < pol => PolicySealed(p)
    /\ pc \in {"replay", "replaying", "complete"} => \A p \in Policies : PolicySealed(p)
    /\ pc \in {"replay", "replaying"} =>
          \A p \in Policies : p < pol => PolicyReplayed(p)
    /\ pc = "complete" => \A p \in Policies : PolicyReplayed(p)

\* With a suite manifest no process works on the directory any more.
AtRest == suiteMan # "none" => result # "none" /\ pc \in {"idle", "completing"}

PInv ==
    /\ CursorStarts
    /\ DirThere
    /\ AttemptsDone
    /\ PoliciesDone
    /\ AtRest
    /\ ParentsLast

\* The first half of ParentsLast.
PoliciesLast ==
    \A p \in Policies : polMan[p] # "none" =>
        trace[p] /\ \A a \in Attempts : fin[<<p, a>>] # "none"

\* While a process works there is no suite manifest.
LEMMA NoSuiteYet ==
    ASSUME PInv, pc \notin {"idle", "completing"}
    PROVE  suiteMan = "none"
BY DEF PInv, AtRest

\* A process that ends.
LEMMA ExitKeepsParents ==
    ASSUME IInv, PInv, NEW how \in Results \ {"none"}, Exit(how), UNCHANGED disk
    PROVE  PInv'
<1> USE DEF PInv, Exit, disk
<1>1. CursorStarts' /\ AttemptsDone' /\ PoliciesDone' /\ AtRest' /\ DirThere'
  BY DEF CursorStarts, NoPlan, AttemptsDone, PoliciesDone, AtRest, DirThere, Sealing, Closing
<1>2. ParentsLast'
  BY DEF ParentsLast, AtRest, Sound, Spoilt, Writing, IsModel
<1> QED  BY <1>1, <1>2

\* Steps that leave the directory alone, or only one attempt of it.
LEMMA StartsKeepParents ==
    ASSUME IInv, PInv, StartLive \/ StartResume \/ Declare \/ StartPolicy
    PROVE  PInv'
<1> USE DEF PInv, disk, evidence
<1>1. UNCHANGED <<evidence, trace, polMan, replay, suiteMan>>
  BY DEF StartLive, StartResume, Declare, StartPolicy
<1>2. suiteMan = "none"
  BY DEF StartLive, StartResume, Declare, StartPolicy, AtRest
<1>3. DirThere' /\ AtRest' /\ ParentsLast'
  BY <1>1, <1>2 DEF DirThere, AtRest, ParentsLast
<1>4. CursorStarts' /\ AttemptsDone' /\ PoliciesDone'
  <2> USE DEF CursorStarts, AttemptsDone, PoliciesDone, Sealing, Closing, Goto, IInv,
    TypeOK, Policies, Attempts, ModeMatchesStage
  <2>1. CASE StartLive
    BY <1>1, <2>1 DEF StartLive
  <2>2. CASE StartResume
    BY <1>1, <2>2 DEF StartResume
  <2>3. CASE Declare
    BY <1>1, <2>3 DEF Declare
  <2>4. CASE StartPolicy
    BY <1>1, <2>4 DEF StartPolicy, FirstStageOfAttempt, PolicySealed, PolicyRejected
  <2> QED  BY <2>1, <2>2, <2>3, <2>4
<1> QED  BY <1>3, <1>4

\* The steps of an attempt: manifests are added, never removed.
LEMMA AttemptsAddEvidence ==
    ASSUME IInv, PInv, Attempt
    PROVE  /\ \A s \in Slot : fin[s] # "none" => fin'[s] # "none"
           /\ UNCHANGED <<trace, polMan, replay, suiteMan>> /\ suiteMan = "none"
           /\ DirThere'
<1> USE DEF disk, evidence, Goto
<1>0. TypeOK /\ here \in Slot
  BY CursorType DEF IInv
<1>1. UNCHANGED <<trace, polMan, replay, suiteMan>> /\ suiteMan = "none"
  BY NoSuiteYet DEF Attempt, SkipAttempt, FinishFromGeneration, ClearIncompleteAttempt,
    LaunchAttempt, PublishGeneration, BeginAttemptManifest, EndAttemptManifest
<1>2. (\A s \in Slot : fin[s] # "none" => fin'[s] # "none") /\ DirThere'
  <2> USE <1>0 DEF PInv, DirThere
  <2>1. CASE SkipAttempt \/ FinishFromGeneration
    BY <2>1 DEF SkipAttempt, FinishFromGeneration
  <2>2. CASE ClearIncompleteAttempt
    <3>1. fin[here] = "none"
      BY <2>2 DEF ClearIncompleteAttempt, ChecksHold
    <3> QED  BY <2>2, <3>1 DEF ClearIncompleteAttempt, TypeOK
  <2>3. CASE LaunchAttempt
    BY <2>3 DEF LaunchAttempt, TypeOK
  <2>4. CASE PublishGeneration
    BY <2>4 DEF PublishGeneration
  <2>5. CASE BeginAttemptManifest
    <3>1. dir[here] = "dir"
      BY <2>5 DEF BeginAttemptManifest, IInv, AttemptInHand
    <3> QED  BY <2>5, <3>1 DEF BeginAttemptManifest, TypeOK
  <2>6. CASE EndAttemptManifest
    <3>1. dir[here] = "dir"
      BY <2>6 DEF EndAttemptManifest, IInv, AttemptInHand
    <3> QED  BY <2>6, <3>1 DEF EndAttemptManifest, TypeOK
  <2> QED
    BY <2>1, <2>2, <2>3, <2>4, <2>5, <2>6 DEF Attempt
<1> QED  BY <1>1, <1>2

LEMMA AttemptsKeepParents ==
    ASSUME IInv, PInv, Attempt
    PROVE  PInv'
<1>1. /\ \A s \in Slot : fin[s] # "none" => fin'[s] # "none"
      /\ UNCHANGED <<trace, polMan, replay, suiteMan>> /\ suiteMan = "none"
      /\ DirThere'
  BY AttemptsAddEvidence
<1>2. AtRest' /\ ParentsLast'
  BY <1>1 DEF PInv, AtRest, ParentsLast, Slot
<1>3. /\ pol \in Policies /\ att \in Attempts /\ here \in Slot
      /\ pc \in {"attempt", "launch", "generate", "score", "publish"}
      /\ mode \in {"live", "resume"} /\ (pc = "attempt" => mode = "resume")
  BY CursorType DEF IInv, TypeOK, Attempt, ModeMatchesStage, SkipAttempt, FinishFromGeneration,
    ClearIncompleteAttempt, LaunchAttempt, PublishGeneration, BeginAttemptManifest,
    EndAttemptManifest
<1>4. CursorStarts' /\ AttemptsDone' /\ PoliciesDone'
  <2> USE <1>1, <1>3 DEF PInv
  <2>1. ASSUME NEW st \in {"launch", "generate", "score", "publish"}, Goto(st),
               st # "launch" \/ pc = "attempt"
        PROVE  CursorStarts' /\ AttemptsDone' /\ PoliciesDone'
    <3>1. mode' = mode /\ pol' = pol /\ att' = att /\ plan' = plan /\ pc' = st
      BY <2>1 DEF Goto
    <3>2. CursorStarts'
      BY <2>1, <3>1 DEF CursorStarts
    <3>3. AttemptsDone'
      BY <2>1, <3>1 DEF AttemptsDone, Sealing, Closing, Slot
    <3>4. PoliciesDone'
      BY <2>1, <3>1 DEF PoliciesDone, Sealing, PolicySealed, PolicyRejected
    <3> QED  BY <3>2, <3>3, <3>4
  <2>2. ASSUME AfterAttempt,
               mode = "live" => pc = "publish" /\ fin'[here] # "none"
        PROVE  CursorStarts' /\ AttemptsDone' /\ PoliciesDone'
    <3>1. CASE att < NumAttempts
      <4>1. /\ mode' = mode /\ pol' = pol /\ att' = att + 1 /\ plan' = plan
            /\ pc' = IF mode = "live" THEN "launch" ELSE "attempt"
        BY <2>2, <3>1 DEF AfterAttempt, FirstStageOfAttempt
      <4>2. CursorStarts'
        BY <4>1 DEF CursorStarts
      <4>3. AttemptsDone'
        BY <2>2, <4>1 DEF AttemptsDone, Sealing, Closing, Slot, here, Attempts
      <4>4. PoliciesDone'
        BY <2>2, <4>1 DEF PoliciesDone, Sealing, PolicySealed, PolicyRejected
      <4> QED  BY <4>2, <4>3, <4>4
    <3>2. CASE ~(att < NumAttempts) /\ mode = "live"
      <4>1. mode' = mode /\ pol' = pol /\ att' = att /\ plan' = plan /\ pc' = "trace"
        BY <2>2, <3>2 DEF AfterAttempt, Goto
      <4>2. CursorStarts'
        BY <4>1 DEF CursorStarts
      <4>3. AttemptsDone'
        BY <2>2, <3>2, <4>1 DEF AttemptsDone, Sealing, Closing, Slot, here, Attempts
      <4>4. PoliciesDone'
        BY <2>2, <3>2, <4>1 DEF PoliciesDone, Sealing, PolicySealed, PolicyRejected
      <4> QED  BY <4>2, <4>3, <4>4
    <3>3. CASE ~(att < NumAttempts) /\ mode # "live"
      <4>1. /\ mode' = mode /\ att' = 1 /\ plan' = plan
            /\ pc' = "policy" \/ (pc' = "reclassify" /\ pol' = 1)
        BY <2>2, <3>3 DEF AfterAttempt, GotoPolicy
      <4>2. CursorStarts'
        BY <4>1 DEF CursorStarts
      <4>3. AttemptsDone' /\ PoliciesDone'
        BY <3>3, <4>1 DEF AttemptsDone, PoliciesDone, Sealing, Closing
      <4> QED  BY <4>2, <4>3
    <3> QED  BY <3>1, <3>2, <3>3
  <2>3. CASE SkipAttempt
    BY <2>2, <2>3 DEF SkipAttempt
  <2>4. CASE FinishFromGeneration \/ ClearIncompleteAttempt
    BY <2>1, <2>4 DEF FinishFromGeneration, ClearIncompleteAttempt
  <2>5. CASE LaunchAttempt \/ PublishGeneration \/ BeginAttemptManifest
    BY <2>1, <2>5 DEF LaunchAttempt, PublishGeneration, BeginAttemptManifest
  <2>6. CASE EndAttemptManifest
    <3>1. fin'[here] # "none"
      BY <2>6 DEF EndAttemptManifest, IInv, TypeOK
    <3> QED  BY <2>2, <2>6, <3>1 DEF EndAttemptManifest
  <2> QED  BY <2>3, <2>4, <2>5, <2>6 DEF Attempt
<1> QED  BY <1>1, <1>2, <1>4 DEF PInv

\* A policy manifest is written over attempts that are all there.
LEMMA PoliciesLastKept ==
    ASSUME PInv, UNCHANGED evidence, suiteMan = "none", suiteMan' = "none",
           \A p \in Policies : polMan'[p] # "none" =>
              \/ polMan[p] # "none" /\ trace'[p] = trace[p]
              \/ trace'[p] /\ \A a \in Attempts : fin[<<p, a>>] # "none"
    PROVE  ParentsLast' /\ DirThere' /\ AtRest'
BY DEF PInv, ParentsLast, DirThere, AtRest, evidence

\* After a policy is sealed, or left unsealed because it is rejected.
LEMMA SealMoves ==
    ASSUME IInv, PInv, AfterSeal, pc \in {"seal", "stamping"}, UNCHANGED evidence,
           polMan'[pol] = "ok" \/ PolicyRejected(pol),
           \A p \in Policies \ {pol} : polMan'[p] = polMan[p]
    PROVE  CursorStarts' /\ AttemptsDone' /\ PoliciesDone'
<1>1. plan' = plan /\ mode' = mode /\ UNCHANGED fin /\ att' = 1
  BY DEF AfterSeal, GotoPolicy, evidence
<1>2. /\ pol \in Policies /\ mode \in {"live", "resume"}
      /\ pc = "seal" => mode = "resume"
  BY DEF IInv, TypeOK, ModeMatchesStage
<1>3. \A p \in Policies : p <= pol => (polMan'[p] = "ok" \/ PolicyRejected(p))
  <2>1. \A p \in Policies : p < pol => PolicySealed(p)
    BY DEF PInv, PoliciesDone, Sealing
  <2> QED  BY <1>2, <2>1 DEF PolicySealed, Policies
<1>4. \A p \in Policies : PolicySealed(p)' <=> (polMan'[p] = "ok" \/ PolicyRejected(p))
  BY <1>1 DEF PolicySealed, PolicyRejected
<1>5. mode = "resume" => \A s \in Slot : plan[s] = "reject" \/ fin[s] # "none"
  BY DEF PInv, AttemptsDone, Sealing, Closing
<1>6. CASE pol = NumPolicies
  <2>1. pc' = "replay" /\ pol' = 1
    BY <1>6 DEF AfterSeal, GotoPolicy
  <2>2. \A p \in Policies : PolicySealed(p)'
    BY <1>3, <1>4, <1>6 DEF Policies
  <2>3. PoliciesDone'
    BY <2>1, <2>2 DEF PoliciesDone, Sealing, Policies
  <2>4. CursorStarts' /\ AttemptsDone'
    BY <1>1, <1>5, <2>1 DEF CursorStarts, AttemptsDone, PInv
  <2> QED  BY <2>3, <2>4
<1>7. CASE pol # NumPolicies
  <2>1. pol' = pol + 1 /\ pc' = IF mode = "live" THEN "policy" ELSE "seal"
    BY <1>7 DEF AfterSeal, GotoPolicy
  <2>2. \A p \in Policies : p < pol' => PolicySealed(p)'
    BY <1>2, <1>3, <1>4, <2>1 DEF Policies
  <2>3. PoliciesDone'
    BY <1>1, <1>2, <2>1, <2>2 DEF PoliciesDone, Sealing
  <2>4. CursorStarts' /\ AttemptsDone'
    BY <1>1, <1>2, <1>5, <2>1 DEF CursorStarts, AttemptsDone, PInv
  <2> QED  BY <2>3, <2>4
<1> QED  BY <1>6, <1>7

LEMMA SealingKeepsParents ==
    ASSUME IInv, PInv,
           Reclassify \/ ClearPolicyCompletion \/ WritePolicyTrace
           \/ BeginPolicyManifest \/ EndPolicyManifest
    PROVE  PInv'
<1>1. /\ UNCHANGED <<evidence, suiteMan>> /\ suiteMan = "none" /\ UNCHANGED fin
      /\ TypeOK /\ pol \in Policies
  BY NoSuiteYet DEF IInv, TypeOK, evidence, Reclassify, ClearPolicyCompletion,
    WritePolicyTrace, BeginPolicyManifest, EndPolicyManifest
<1>2. CASE Reclassify
  <2>1. /\ pc = "reclassify" /\ pc' = "seal" /\ pol' = pol /\ att' = att /\ mode' = mode
        /\ plan' = Inventory /\ UNCHANGED <<trace, polMan>> /\ NothingUnresolved
    BY <1>2 DEF Reclassify, ChecksHold
  <2>2. pol = 1 /\ mode = "resume"
    BY <2>1 DEF PInv, CursorStarts, IInv, ModeMatchesStage
  <2>3. \A s \in Slot : plan'[s] = Classify(s) /\ Classify(s) \in {"reuse", "reject"}
    BY <2>1 DEF Inventory, NothingUnresolved
  <2>4. \A s \in Slot : Classify(s) = "reuse" => fin[s] # "none"
    BY DEF Classify
  <2>5. CursorStarts' /\ AttemptsDone'
    BY <1>1, <2>1, <2>2, <2>3, <2>4 DEF CursorStarts, AttemptsDone
  <2>6. PoliciesDone'
    BY <2>1, <2>2 DEF PoliciesDone, Policies
  <2> QED  BY <1>1, <2>1, <2>5, <2>6, PoliciesLastKept DEF PInv
<1>3. CASE ClearPolicyCompletion
  <2>1. /\ pc = "seal" /\ mode = "resume"
        /\ polMan' = [polMan EXCEPT ![pol] = "none"]
        /\ trace' = [trace EXCEPT ![pol] = FALSE]
    BY <1>3 DEF ClearPolicyCompletion, IInv, ModeMatchesStage
  <2>2. \A p \in Policies : polMan'[p] # "none" => polMan[p] # "none" /\ trace'[p] = trace[p]
    BY <1>1, <2>1 DEF TypeOK
  <2>3. CASE PolicyRejected(pol)
    <3>1. \A p \in Policies \ {pol} : polMan'[p] = polMan[p]
      BY <1>1, <2>1 DEF TypeOK
    <3>2. AfterSeal
      BY <1>3, <2>3 DEF ClearPolicyCompletion
    <3> QED  BY <1>1, <2>1, <2>2, <2>3, <3>1, <3>2, SealMoves, PoliciesLastKept DEF PInv
  <2>4. CASE ~PolicyRejected(pol)
    <3>1. pc' = "trace" /\ UNCHANGED <<mode, pol, att, plan>>
      BY <1>3, <2>4 DEF ClearPolicyCompletion, Goto
    <3>2. \A a \in Attempts : fin[<<pol, a>>] # "none"
      BY <1>1, <2>1, <2>4 DEF PInv, AttemptsDone, Sealing, PolicyRejected, Slot
    <3>3. AttemptsDone' /\ CursorStarts'
      BY <1>1, <2>1, <3>1, <3>2 DEF PInv, AttemptsDone, Sealing, CursorStarts
    <3>4. \A p \in Policies : p < pol => polMan'[p] = polMan[p]
      BY <1>1, <2>1 DEF TypeOK, Policies
    <3>5. PoliciesDone'
      BY <2>1, <3>1, <3>4 DEF PInv, PoliciesDone, Sealing, PolicySealed, PolicyRejected
    <3> QED  BY <1>1, <2>2, <3>3, <3>5, PoliciesLastKept DEF PInv
  <2> QED  BY <2>3, <2>4
<1>4. CASE WritePolicyTrace
  <2>1. /\ pc = "trace" /\ pc' = "stamp" /\ UNCHANGED <<mode, pol, att, plan, polMan>>
        /\ trace' = [trace EXCEPT ![pol] = TRUE]
    BY <1>4 DEF WritePolicyTrace, Goto
  <2>2. /\ trace'[pol] /\ \A p \in Policies \ {pol} : trace'[p] = trace[p]
        /\ \A a \in Attempts : fin[<<pol, a>>] # "none"
    BY <1>1, <2>1 DEF TypeOK, PInv, AttemptsDone
  <2>3. AttemptsDone' /\ CursorStarts'
    BY <1>1, <2>1 DEF PInv, AttemptsDone, Sealing, Closing, CursorStarts
  <2>4. PoliciesDone'
    BY <2>1, <2>2 DEF PInv, PoliciesDone, Sealing, PolicySealed, PolicyRejected
  <2>5. \A p \in Policies : polMan'[p] # "none" =>
              \/ polMan[p] # "none" /\ trace'[p] = trace[p]
              \/ trace'[p] /\ \A a \in Attempts : fin[<<p, a>>] # "none"
    BY <2>1, <2>2
  <2> QED  BY <1>1, <2>3, <2>4, <2>5, PoliciesLastKept DEF PInv
<1>5. CASE BeginPolicyManifest
  <2>1. /\ pc = "stamp" /\ pc' = "stamping" /\ UNCHANGED <<mode, pol, att, plan, trace>>
        /\ polMan' = [polMan EXCEPT ![pol] = "torn"]
    BY <1>5 DEF BeginPolicyManifest, Goto
  <2>2. /\ \A p \in Policies \ {pol} : polMan'[p] = polMan[p]
        /\ \A a \in Attempts : fin[<<pol, a>>] # "none"
        /\ trace[pol]
    BY <1>1, <2>1 DEF TypeOK, PInv, AttemptsDone, PoliciesDone
  <2>3. AttemptsDone' /\ CursorStarts'
    BY <1>1, <2>1 DEF PInv, AttemptsDone, Sealing, Closing, CursorStarts
  <2>4. PoliciesDone'
    <3>1. \A p \in Policies : p < pol => p # pol
      BY <1>1 DEF Policies
    <3>2. \A p \in Policies : p < pol => PolicySealed(p)
      BY <2>1 DEF PInv, PoliciesDone, Sealing
    <3>3. \A p \in Policies : p < pol => PolicySealed(p)'
      BY <2>1, <2>2, <3>1, <3>2 DEF PolicySealed, PolicyRejected
    <3> QED  BY <2>1, <2>2, <3>3 DEF PoliciesDone, Sealing
  <2> QED  BY <1>1, <2>1, <2>2, <2>3, <2>4, PoliciesLastKept DEF PInv
<1>6. CASE EndPolicyManifest
  <2>1. /\ pc = "stamping" /\ AfterSeal /\ UNCHANGED trace
        /\ polMan' = [polMan EXCEPT ![pol] = "ok"]
    BY <1>6 DEF EndPolicyManifest
  <2>2. /\ \A p \in Policies \ {pol} : polMan'[p] = polMan[p]
        /\ polMan'[pol] = "ok"
        /\ \A a \in Attempts : fin[<<pol, a>>] # "none"
        /\ trace[pol]
    BY <1>1, <2>1 DEF TypeOK, PInv, AttemptsDone, PoliciesDone
  <2> QED  BY <1>1, <2>1, <2>2, SealMoves, PoliciesLastKept DEF PInv
<1> QED  BY <1>2, <1>3, <1>4, <1>5, <1>6

LEMMA ReplayMoves ==
    ASSUME IInv, PInv, AfterReplay, pc \in {"replay", "replaying"},
           UNCHANGED <<evidence, polMan, suiteMan>>,
           pol \in Replayed => replay'[pol] = "done" \/ PolicyRejected(pol),
           \A p \in Policies \ {pol} : replay'[p] = replay[p]
    PROVE  CursorStarts' /\ AttemptsDone' /\ PoliciesDone'
<1>1. plan' = plan /\ mode' = mode /\ UNCHANGED fin /\ att' = 1 /\ pol \in Policies
  BY DEF AfterReplay, GotoPolicy, evidence, IInv, TypeOK
<1>2. \A p \in Policies : PolicySealed(p)'
  BY <1>1 DEF PInv, PoliciesDone, PolicySealed, PolicyRejected
<1>3. \A p \in Policies : p <= pol =>
         (p \in Replayed => replay'[p] = "done" \/ PolicyRejected(p))
  <2>1. \A p \in Policies : p < pol => PolicyReplayed(p)
    BY DEF PInv, PoliciesDone
  <2> QED  BY <1>1, <2>1 DEF PolicyReplayed, Policies
<1>4. \A p \in Policies :
         PolicyReplayed(p)' <=> (p \in Replayed => replay'[p] = "done" \/ PolicyRejected(p))
  BY <1>1 DEF PolicyReplayed, PolicyRejected
<1>5. mode = "resume" => \A s \in Slot : plan[s] = "reject" \/ fin[s] # "none"
  BY DEF PInv, AttemptsDone, Sealing, Closing
<1>6. /\ pc' \in {"replay", "complete"}
      /\ pc' = "complete" => pol = NumPolicies
      /\ pc' = "replay" => pol' = pol + 1
  BY DEF AfterReplay, GotoPolicy
<1>7. CursorStarts' /\ AttemptsDone'
  BY <1>1, <1>5, <1>6 DEF CursorStarts, AttemptsDone, PInv
<1>8. pc' = "complete" => \A p \in Policies : PolicyReplayed(p)'
  BY <1>3, <1>4, <1>6 DEF Policies
<1>9. pc' = "replay" => \A p \in Policies : p < pol' => PolicyReplayed(p)'
  BY <1>1, <1>3, <1>4, <1>6 DEF Policies
<1>10. PoliciesDone'
  BY <1>2, <1>6, <1>8, <1>9 DEF PoliciesDone, Sealing
<1> QED  BY <1>7, <1>10

\* What the code tests before the suite manifest is what it stands for.
LEMMA SuiteIsSound ==
    ASSUME IInv, PInv, pc = "complete", ~SuiteRejected, AttemptsBound
    PROVE  /\ \A s \in Slot : fin[s] = "ok" /\ dir[s] = "dir"
                             /\ (gen[s] = "bad" => ~IsModel(s))
           /\ \A p \in Policies : polMan[p] = "ok" /\ (p \in Replayed => replay[p] = "done")
<1>1. \A s \in Slot : fin[s] = "ok" /\ (IsModel(s) => gen[s] = "ok")
  BY DEF AttemptsBound, ManifestsBound, GenerationsBound, GenerationBound, GenerationValid
<1>2. \A p \in Policies : ~PolicyRejected(p) /\ PolicySealed(p) /\ PolicyReplayed(p)
  BY DEF SuiteRejected, PInv, PoliciesDone
<1> QED  BY <1>1, <1>2 DEF PInv, DirThere, PolicySealed, PolicyReplayed

LEMMA ClosingKeepsParents ==
    ASSUME IInv, PInv,
           SkipReplay \/ BeginReplay \/ EndReplay
           \/ FinishRejected \/ BeginSuiteManifest \/ EndSuiteManifest
    PROVE  PInv'
<1>1. TypeOK /\ pol \in Policies
  BY DEF IInv, TypeOK
<1>2. CASE SkipReplay
  <2>1. /\ pc = "replay" /\ AfterReplay /\ ~ReplayDue /\ UNCHANGED disk
    BY <1>2 DEF SkipReplay
  <2>2. UNCHANGED <<evidence, trace, polMan, replay, suiteMan>> /\ suiteMan = "none"
    BY <2>1, NoSuiteYet DEF disk, evidence
  <2>3. CursorStarts' /\ AttemptsDone' /\ PoliciesDone'
    BY <2>1, <2>2, ReplayMoves DEF ReplayDue
  <2> QED  BY <2>2, <2>3, PoliciesLastKept DEF PInv
<1>3. CASE BeginReplay
  <2>1. /\ pc = "replay" /\ pc' = "replaying" /\ UNCHANGED <<mode, pol, att, plan>>
        /\ UNCHANGED <<evidence, trace, polMan, suiteMan>> /\ suiteMan = "none"
        /\ replay' = [replay EXCEPT ![pol] = "partial"]
    BY <1>3, NoSuiteYet DEF BeginReplay, Goto
  <2>2. \A p \in Policies : p < pol => replay'[p] = replay[p]
    BY <1>1, <2>1 DEF TypeOK, Policies
  <2>3. AttemptsDone' /\ CursorStarts'
    BY <2>1 DEF PInv, AttemptsDone, Sealing, Closing, CursorStarts, evidence
  <2>4. PoliciesDone'
    <3>1. /\ \A p \in Policies : PolicySealed(p)'
          /\ \A p \in Policies : p < pol => PolicyReplayed(p)'
      BY <2>1, <2>2 DEF PInv, PoliciesDone, PolicySealed, PolicyReplayed, PolicyRejected
    <3> QED  BY <2>1, <3>1 DEF PoliciesDone, Sealing
  <2> QED  BY <2>1, <2>3, <2>4, PoliciesLastKept DEF PInv
<1>4. CASE EndReplay
  <2>1. /\ pc = "replaying" /\ AfterReplay
        /\ UNCHANGED <<evidence, trace, polMan, suiteMan>> /\ suiteMan = "none"
        /\ replay' = [replay EXCEPT ![pol] = "done"]
    BY <1>4, NoSuiteYet DEF EndReplay
  <2>2. replay'[pol] = "done" /\ \A p \in Policies \ {pol} : replay'[p] = replay[p]
    BY <1>1, <2>1 DEF TypeOK
  <2>3. CursorStarts' /\ AttemptsDone' /\ PoliciesDone'
    BY <2>1, <2>2, ReplayMoves
  <2> QED  BY <2>1, <2>3, PoliciesLastKept DEF PInv
<1>5. CASE FinishRejected
  BY <1>5, ExitKeepsParents DEF FinishRejected, Results
<1>6. CASE BeginSuiteManifest
  <2>1. /\ pc = "complete" /\ pc' = "completing" /\ UNCHANGED <<mode, pol, att, plan, result>>
        /\ UNCHANGED <<evidence, trace, polMan, replay>> /\ suiteMan' = "torn"
        /\ ~SuiteRejected /\ AttemptsBound
    BY <1>6 DEF BeginSuiteManifest, Goto, ChecksHold
  <2>2. AtRest' /\ CursorStarts'
    BY <2>1 DEF PInv, AtRest, CursorStarts, IInv, NotStarted
  <2>3. AttemptsDone' /\ PoliciesDone' /\ DirThere'
    BY <2>1 DEF PInv, AttemptsDone, PoliciesDone, DirThere, Sealing, Closing, evidence
  <2>4. ParentsLast'
    BY <2>1, SuiteIsSound DEF PInv, ParentsLast, Sound, Spoilt, IsModel, evidence
  <2> QED  BY <2>2, <2>3, <2>4 DEF PInv
<1>7. CASE EndSuiteManifest
  <2>1. /\ pc = "completing" /\ pc' = "idle" /\ Exit("completed")
        /\ UNCHANGED <<evidence, trace, polMan, replay>> /\ suiteMan' = "ok"
    BY <1>7 DEF EndSuiteManifest, Exit
  <2>2. suiteMan # "none"
    BY <2>1 DEF PInv, CursorStarts
  <2>3. AtRest' /\ CursorStarts' /\ AttemptsDone' /\ PoliciesDone' /\ DirThere'
    BY <2>1 DEF PInv, AtRest, CursorStarts, AttemptsDone, PoliciesDone, DirThere, Exit,
      Sealing, Closing, evidence
  <2>4. ParentsLast'
    BY <2>1, <2>2 DEF PInv, ParentsLast, Sound, Spoilt, Writing, IsModel, evidence
  <2> QED  BY <2>3, <2>4 DEF PInv
<1> QED  BY <1>2, <1>3, <1>4, <1>5, <1>6, <1>7

LEMMA OthersKeepParents ==
    ASSUME IInv, PInv, Refuse \/ Environment
    PROVE  PInv'
<1>1. CASE Refuse
  BY <1>1, ExitKeepsParents DEF Refuse, Results
<1>2. CASE GenerationIncomplete \/ Crash
  BY <1>2, ExitKeepsParents DEF GenerationIncomplete, Crash, Results
<1>3. CASE Damage
  <2>1. PICK s \in Slot : DamageAttempt(s)
    BY <1>3 DEF Damage
  <2>2. /\ pc = "idle" /\ suiteMan = "none" /\ UNCHANGED <<trace, polMan, replay, suiteMan>>
        /\ UNCHANGED process
    BY <1>3 DEF Damage
  <2>3. /\ \A t \in Slot : fin[t] # "none" <=> fin'[t] # "none"
        /\ \A t \in Slot : dir[t] = "dir" => dir'[t] = "dir"
    BY <2>1 DEF DamageAttempt, IInv, TypeOK
  <2>4. DirThere' /\ AtRest'
    BY <2>2, <2>3 DEF PInv, DirThere, AtRest, process
  <2>5. CursorStarts' /\ AttemptsDone' /\ PoliciesDone'
    BY <2>2 DEF PInv, CursorStarts, NoPlan, AttemptsDone, PoliciesDone, Sealing, Closing, process
  <2>6. ParentsLast'
    BY <2>2, <2>3 DEF PInv, ParentsLast, Slot
  <2> QED  BY <2>4, <2>5, <2>6 DEF PInv
<1>4. CASE EditInput
  <2>1. UNCHANGED <<disk, process>>
    BY <1>4 DEF EditInput
  <2> QED
    BY SMTT(30), <2>1
    DEF disk, evidence, process, PInv, CursorStarts, NoPlan, DirThere, AttemptsDone,
      PoliciesDone, PolicySealed, PolicyReplayed, PolicyRejected, AtRest, ParentsLast, Sound,
      Spoilt, Writing, here, IsModel
<1> QED  BY <1>1, <1>2, <1>3, <1>4 DEF Environment

LEMMA ParentsInductive ==
    Spec => [](IInv /\ PInv)
<1>1. Init => PInv
  BY DEF Init, PInv, CursorStarts, DirThere, AttemptsDone, PoliciesDone, AtRest, ParentsLast,
    Sealing, Closing, Slot
<1>2. IInv /\ PInv /\ UNCHANGED vars => PInv'
  BY SMTT(30)
  DEF vars, disk, evidence, process, PInv, CursorStarts, NoPlan, DirThere, AttemptsDone,
    PoliciesDone, PolicySealed, PolicyReplayed, PolicyRejected, AtRest, ParentsLast, Sound,
    Spoilt, Writing, here, IsModel
<1>3. IInv /\ PInv /\ Next => PInv'
  BY StartsKeepParents, AttemptsKeepParents, SealingKeepsParents, ClosingKeepsParents,
    OthersKeepParents DEF Next, Process, Completion
<1>4. IInv /\ PInv /\ [Next]_vars => PInv'
  BY <1>2, <1>3
<1>5. QED
  BY <1>1, <1>4, Inductive, PTL DEF Spec

\* A policy manifest, even a torn one, stands only over attempts that all have
\* their terminal manifest and a written trace, and a suite manifest, even a
\* torn one, only over a suite that is valid and finished throughout.
THEOREM ParentsAreLast == Spec => []ParentsLast
<1>1. PInv => ParentsLast
  BY DEF PInv
<1>2. QED
  BY <1>1, ParentsInductive, PTL

\* Once the suite manifest is started, nothing under it changes again.
THEOREM CompletedIsFinal == Spec => CompletedSuiteIsFinal
<1> DEFINE Step == suiteMan # "none" =>
                      UNCHANGED <<declared, evidence, trace, polMan, replay>>
<1>1. IInv /\ PInv /\ [Next]_vars => [Step]_vars
  <2> SUFFICES ASSUME IInv, PInv, Next, suiteMan # "none"
               PROVE  UNCHANGED <<declared, evidence, trace, polMan, replay>>
    OBVIOUS
  <2>1. pc \in {"idle", "completing"} /\ result # "none"
    BY DEF PInv, AtRest
  <2>2. EndSuiteManifest \/ Refuse \/ Crash \/ EditInput
    <3>1. ~Attempt
      BY <2>1 DEF Attempt, SkipAttempt, FinishFromGeneration, ClearIncompleteAttempt,
        LaunchAttempt, PublishGeneration, BeginAttemptManifest, EndAttemptManifest
    <3>2. Completion => EndSuiteManifest
      BY <2>1 DEF Completion, Reclassify, ClearPolicyCompletion, WritePolicyTrace,
        BeginPolicyManifest, EndPolicyManifest, SkipReplay, BeginReplay, EndReplay,
        FinishRejected, BeginSuiteManifest
    <3>3. ~StartLive /\ ~StartResume /\ ~Declare /\ ~StartPolicy
      BY <2>1 DEF StartLive, StartResume, Declare, StartPolicy
    <3>4. ~GenerationIncomplete /\ ~Damage
      BY <2>1 DEF GenerationIncomplete, Damage
    <3> QED  BY <3>1, <3>2, <3>3, <3>4 DEF Next, Process, Environment
  <2> QED  BY <2>2 DEF EndSuiteManifest, Refuse, Crash, EditInput, disk, evidence
<1>2. QED
  BY <1>1, ParentsInductive, PTL DEF Spec, CompletedSuiteIsFinal

-----------------------------------------------------------------------------
(***************************************************************************)
(* The refinement.  Every step of the suite is a step of SuiteLedger or    *)
(* leaves the ledger as it is.  The ledger's draws are bounded, so that a  *)
(* bound on the runs of an attempt is needed as well: each run but one is  *)
(* paid for by a fault.                                                    *)
(***************************************************************************)
Running(s) == pc \in {"generate", "score", "publish"} /\ here = s

DrawsPaid ==
    /\ faults <= MaxFaults
    /\ \A s \in Slot :
        /\ drawn[s] <= faults + 1
        /\ ~Terminal(s) /\ ~Running(s) => drawn[s] <= faults
        /\ Running(s) => drawn[s] >= 1 /\ gen[s] # "bad"
        /\ IsModel(s) /\ gen[s] # "none" => drawn[s] >= 1

\* A process that ends without its attempt having an outcome ends by a fault.
LEMMA ExitPaid ==
    ASSUME IInv, DrawsPaid, Refuse \/ GenerationIncomplete \/ Crash
    PROVE  DrawsPaid'
<1> USE DEF IInv, disk, evidence, env, history
<1>1. TypeOK /\ pc' = "idle" /\ UNCHANGED <<evidence, drawn>>
  BY DEF Refuse, GenerationIncomplete, Crash, Exit
<1>2. \A s \in Slot : drawn[s] \in Nat /\ faults \in Nat /\ MaxFaults \in Nat
  BY <1>1 DEF TypeOK
<1>3. CASE Refuse
  <2>1. pc \notin {"generate", "score", "publish"} /\ faults' = faults
    BY <1>3 DEF Refuse, ChecksHold
  <2>2. QED
    BY <1>1, <2>1 DEF DrawsPaid, Running, Terminal, IsModel
<1>4. CASE GenerationIncomplete \/ Crash
  <2>1. faults' = faults + 1 /\ faults < MaxFaults
    BY <1>4 DEF GenerationIncomplete, Crash
  <2>2. faults' <= MaxFaults /\ faults \in Nat
    BY <1>1, <2>1 DEF TypeOK
  <2>3. ASSUME NEW s \in Slot
        PROVE  /\ drawn'[s] <= faults' /\ drawn'[s] <= faults' + 1 /\ ~Running(s)'
               /\ (IsModel(s) /\ gen[s] # "none")' => drawn'[s] >= 1
    BY <1>1, <1>2, <2>1 DEF DrawsPaid, Running, IsModel
  <2>4. QED
    BY <2>2, <2>3 DEF DrawsPaid
<1>5. QED
  BY <1>3, <1>4

\* The steps of an attempt: the one that runs it finds it paid for.
LEMMA AttemptPaid ==
    ASSUME IInv, DrawsPaid, Attempt
    PROVE  DrawsPaid'
<1> USE DEF IInv, disk, evidence, env, history
<1>1. TypeOK /\ here \in Slot /\ faults' = faults
  BY CursorType DEF Attempt, SkipAttempt, FinishFromGeneration, ClearIncompleteAttempt,
     LaunchAttempt, PublishGeneration, BeginAttemptManifest, EndAttemptManifest
<1>2. \A s \in Slot : drawn[s] \in Nat /\ faults \in Nat /\ MaxFaults \in Nat
  BY <1>1 DEF TypeOK
<1>3. CASE SkipAttempt
  <2>1. UNCHANGED <<evidence, drawn>> /\ pc = "attempt"
        /\ pc' \notin {"generate", "score", "publish"}
    BY <1>3 DEF SkipAttempt, AfterAttempt, FirstStageOfAttempt, Goto, GotoPolicy
  <2>2. QED
    BY <1>1, <2>1 DEF DrawsPaid, Running, Terminal, IsModel
<1>4. CASE FinishFromGeneration
  <2>1. /\ UNCHANGED <<evidence, drawn>> /\ pc = "attempt" /\ pc' = "score" /\ here' = here
        /\ gen[here] = "ok"
    BY <1>4 DEF FinishFromGeneration, Goto, here, ChecksHold, GenerationValid
  <2>2. IsModel(here)
    <3>1. plan[here] = Classify(here) /\ plan[here] = "finish"
      BY <1>1, <1>4 DEF FinishFromGeneration, PlanIsCurrent, AttemptStages, Ahead,
         ModeMatchesStage
    <3>2. QED
      BY <3>1 DEF Classify
  <2>3. QED
    BY <1>1, <2>1, <2>2 DEF DrawsPaid, Running, Terminal, IsModel
<1>5. CASE ClearIncompleteAttempt
  <2>1. /\ UNCHANGED <<gen, fin, drawn>> /\ pc = "attempt" /\ pc' = "launch"
        /\ \A s \in Slot : dir'[s] = "notdir" => dir[s] = "notdir"
        /\ \A s \in Slot : s # here => dir'[s] = dir[s]
        /\ fin[here] = "none" /\ gen[here] = "none"
    BY <1>1, <1>5 DEF ClearIncompleteAttempt, Goto, ChecksHold, TypeOK
  <2>2. dir[here] # "notdir"
    <3>1. plan[here] = Classify(here) /\ plan[here] = "run"
      BY <1>1, <1>5 DEF ClearIncompleteAttempt, PlanIsCurrent, AttemptStages, Ahead,
         ModeMatchesStage
    <3>2. QED
      BY <3>1 DEF Classify
  <2>3. QED
    BY <1>1, <2>1, <2>2 DEF DrawsPaid, Running, Terminal, IsModel
<1>6. CASE LaunchAttempt
  <2>1. ~Terminal(here) /\ ~Running(here)
    BY <1>6 DEF LaunchAttempt, AttemptInHand, Untouched, Terminal, Running
  <2>2. drawn[here] <= faults
    BY <1>1, <2>1 DEF DrawsPaid
  <2>3. /\ UNCHANGED <<gen, fin>> /\ here' = here /\ gen[here] = "none" /\ fin[here] = "none"
        /\ \A s \in Slot : s # here => dir'[s] = dir[s] /\ drawn'[s] = drawn[s]
        /\ dir'[here] = "dir" /\ drawn'[here] = drawn[here] + 1
        /\ pc = "launch"
    BY <1>1, <1>6 DEF LaunchAttempt, Goto, here, TypeOK, AttemptInHand, Untouched
  <2>4. pc' \in {"generate", "score"}
    BY <1>6 DEF LaunchAttempt, Goto
  <2>5. ASSUME NEW s \in Slot
        PROVE  /\ drawn'[s] <= faults' + 1
               /\ ~Terminal(s)' /\ ~Running(s)' => drawn'[s] <= faults'
               /\ Running(s)' => drawn'[s] >= 1 /\ gen'[s] # "bad"
               /\ (IsModel(s) /\ gen[s] # "none")' => drawn'[s] >= 1
    <3>1. CASE s = here
      BY <1>1, <1>2, <2>2, <2>3, <2>4, <3>1 DEF Running, IsModel
    <3>2. CASE s # here
      BY <1>1, <1>2, <2>3, <2>4, <3>2 DEF DrawsPaid, Running, IsModel, Terminal
    <3>3. QED
      BY <3>1, <3>2
  <2>6. QED
    BY <1>1, <2>5 DEF DrawsPaid
<1>7. CASE PublishGeneration
  <2>1. /\ UNCHANGED <<dir, fin, drawn>> /\ here' = here /\ pc = "generate" /\ pc' = "score"
        /\ gen'[here] = "ok" /\ \A s \in Slot : s # here => gen'[s] = gen[s]
    BY <1>1, <1>7 DEF PublishGeneration, Goto, here, TypeOK
  <2>2. QED
    BY <1>1, <1>2, <2>1 DEF DrawsPaid, Running, Terminal, IsModel
<1>8. CASE BeginAttemptManifest
  <2>1. /\ UNCHANGED <<dir, gen, drawn>> /\ here' = here /\ pc = "score" /\ pc' = "publish"
        /\ fin'[here] = "torn" /\ \A s \in Slot : s # here => fin'[s] = fin[s]
    BY <1>1, <1>8 DEF BeginAttemptManifest, Goto, here, TypeOK
  <2>2. QED
    BY <1>1, <1>2, <2>1 DEF DrawsPaid, Running, Terminal, IsModel
<1>9. CASE EndAttemptManifest
  <2>1. /\ UNCHANGED <<dir, gen, drawn>> /\ pc = "publish"
        /\ pc' \notin {"generate", "score", "publish"}
        /\ fin'[here] = "ok" /\ \A s \in Slot : s # here => fin'[s] = fin[s]
    BY <1>1, <1>9 DEF EndAttemptManifest, AfterAttempt, FirstStageOfAttempt, Goto,
       GotoPolicy, TypeOK
  <2>2. QED
    BY <1>1, <1>2, <2>1 DEF DrawsPaid, Running, Terminal, IsModel
<1>10. QED
  BY <1>3, <1>4, <1>5, <1>6, <1>7, <1>8, <1>9 DEF Attempt

\* Every other step leaves runs and faults alone, and evidence too but for what
\* is damaged.
LEMMA OthersPaid ==
    ASSUME IInv, DrawsPaid,
           StartLive \/ StartResume \/ Declare \/ StartPolicy \/ Completion \/ Damage \/ EditInput
    PROVE  DrawsPaid'
<1> USE DEF IInv, disk, evidence, env, history, process
<1>1. CASE Damage
  <2>1. PICK s \in Slot : DamageAttempt(s)
    BY <1>1 DEF Damage
  <2>2. /\ UNCHANGED <<drawn, faults, pc>> /\ pc = "idle"
        /\ \A t \in Slot : Terminal(t) => Terminal(t)'
        /\ \A t \in Slot : IsModel(t) /\ gen'[t] # "none" => gen[t] # "none"
    BY <1>1, <2>1 DEF Damage, DamageAttempt, TypeOK, Terminal, IsModel
  <2>3. QED
    BY <2>2 DEF DrawsPaid, Running, IsModel
<1>2. CASE EditInput
  BY <1>2 DEF EditInput, DrawsPaid, Running, here, Terminal, IsModel
<1>3. CASE StartLive \/ StartResume \/ Declare \/ StartPolicy \/ Completion
  <2>1. UNCHANGED <<evidence, drawn, faults>>
    BY <1>3 DEF StartLive, StartResume, Declare, StartPolicy, Completion, Reclassify,
       ClearPolicyCompletion, WritePolicyTrace, BeginPolicyManifest, EndPolicyManifest,
       SkipReplay, BeginReplay, EndReplay, FinishRejected, BeginSuiteManifest,
       EndSuiteManifest
  <2>2. /\ pc \notin {"generate", "score", "publish"}
        /\ pc' \notin {"generate", "score", "publish"}
    BY <1>3 DEF StartLive, StartResume, Declare, StartPolicy, FirstStageOfAttempt,
       Completion, Reclassify, ClearPolicyCompletion, WritePolicyTrace,
       BeginPolicyManifest, EndPolicyManifest, SkipReplay, BeginReplay, EndReplay,
       FinishRejected, BeginSuiteManifest, EndSuiteManifest, Goto, GotoPolicy, AfterSeal,
       AfterReplay, Exit
  <2>3. QED
    BY <2>1, <2>2 DEF DrawsPaid, Running, Terminal, IsModel
<1>4. QED
  BY <1>1, <1>2, <1>3

LEMMA PaidInductive == Spec => [](IInv /\ PInv /\ DrawsPaid)
<1>1. Init => DrawsPaid
  BY DEF Init, DrawsPaid, Running, Terminal, IsModel
<1>2. IInv /\ DrawsPaid /\ UNCHANGED vars => DrawsPaid'
  BY DEF vars, disk, evidence, process, env, history, DrawsPaid, Running, here, Terminal,
     IsModel
<1>3. IInv /\ DrawsPaid /\ Next => DrawsPaid'
  BY ExitPaid, AttemptPaid, OthersPaid DEF Next, Process, Environment
<1>4. IInv /\ DrawsPaid /\ [Next]_vars => DrawsPaid'
  BY <1>2, <1>3
<1>5. QED
  BY <1>1, <1>4, ParentsInductive, PTL DEF Spec

(***************************************************************************)
(* Reruns.  What is owed is the runs beyond the first of every attempt,    *)
(* those that were made and the one a later process will make of an        *)
(* attempt left without an outcome.  Launching it changes nothing: the     *)
(* rerun was owed.  Only a fault adds to what is owed, and only for the    *)
(* attempt the process has in hand.                                        *)
(***************************************************************************)
Due(s) == IF Terminal(s) \/ Running(s) THEN drawn[s] ELSE drawn[s] + 1
Owed == UNION {{s} \X (2 .. Due(s)) : s \in Slot}
OwedPaid == IsFiniteSet(Owed) /\ Cardinality(Owed) <= faults

LEMMA DueType ==
    ASSUME TypeOK, NEW s \in Slot
    PROVE  Due(s) \in Nat /\ drawn[s] \in Nat /\ drawn[s] <= Due(s)
BY DEF TypeOK, Due

\* What is owed, run by run.
LEMMA OwedIs ==
    /\ \A x : x \in Owed <=> \E s \in Slot : \E n \in 2 .. Due(s) : x = <<s, n>>
    /\ \A x : x \in Owed' <=> \E s \in Slot : \E n \in 2 .. Due(s)' : x = <<s, n>>
BY DEF Owed

\* A step that makes no attempt due once more owes nothing new.
LEMMA OwedKept ==
    ASSUME TypeOK, TypeOK', OwedPaid, faults' = faults,
           \A s \in Slot : Due(s)' <= Due(s)
    PROVE  OwedPaid'
<1>1. Owed' \subseteq Owed
  <2>1. ASSUME NEW s \in Slot, NEW n \in 2 .. Due(s)' PROVE n \in 2 .. Due(s)
    <3>1. Due(s) \in Nat /\ Due(s)' \in Nat
      BY DueType DEF TypeOK, Due
    <3>2. QED
      BY <3>1
  <2>2. QED
    BY <2>1, OwedIs
<1>2. QED
  BY <1>1, FS_Subset, FS_CardinalityType DEF OwedPaid, TypeOK

\* A fault makes at most one run due, of the attempt in hand.
LEMMA OwedByFault ==
    ASSUME IInv, TypeOK', OwedPaid, GenerationIncomplete \/ Crash
    PROVE  OwedPaid'
<1> USE DEF IInv
<1>1. /\ faults' = faults + 1 /\ UNCHANGED <<dir, gen, fin, drawn>> /\ pc' = "idle"
      /\ TypeOK /\ faults \in Nat /\ here \in Slot
  BY CursorType DEF GenerationIncomplete, Crash, Exit, disk, evidence, history, TypeOK
<1> DEFINE more == <<here, drawn[here] + 1>>
<1>2. Owed' \subseteq Owed \cup {more}
  <2> SUFFICES ASSUME NEW s \in Slot, NEW n \in 2 .. Due(s)', <<s, n>> # more
               PROVE  n \in 2 .. Due(s)
    BY OwedIs
  <2>1. drawn[s] \in Nat
    BY <1>1 DEF TypeOK
  <2>2. CASE s # here
    BY <1>1, <2>1, <2>2 DEF Due, Terminal, Running
  <2>3. CASE s = here
    BY <1>1, <2>1, <2>3 DEF Due, Terminal
  <2>4. QED
    BY <2>2, <2>3
<1> HIDE DEF more
<1>3. /\ IsFiniteSet(Owed \cup {more}) /\ Cardinality(Owed) \in Nat
      /\ Cardinality(Owed \cup {more}) <= Cardinality(Owed) + 1
  BY FS_AddElement, FS_CardinalityType DEF OwedPaid
<1>4. /\ IsFiniteSet(Owed') /\ Cardinality(Owed') \in Nat
      /\ Cardinality(Owed') <= Cardinality(Owed \cup {more})
  BY <1>2, <1>3, FS_Subset, FS_CardinalityType
<1>5. Cardinality(Owed \cup {more}) \in Nat
  BY <1>3, FS_CardinalityType
<1>6. QED
  BY <1>1, <1>3, <1>4, <1>5 DEF OwedPaid

\* The steps of an attempt: a launch makes the run that was owed, and the
\* attempt in hand stays in hand until its manifest is there.
LEMMA AttemptOwes ==
    ASSUME IInv, TypeOK', Attempt
    PROVE  faults' = faults /\ \A s \in Slot : Due(s)' <= Due(s)
<1> USE DEF IInv, disk, evidence, env, history
<1>1. TypeOK /\ here \in Slot /\ faults' = faults
  BY CursorType DEF Attempt, SkipAttempt, FinishFromGeneration, ClearIncompleteAttempt,
     LaunchAttempt, PublishGeneration, BeginAttemptManifest, EndAttemptManifest
<1>2. \A s \in Slot : drawn[s] \in Nat
  BY <1>1 DEF TypeOK
<1>3. CASE SkipAttempt
  <2>1. UNCHANGED <<dir, gen, fin, drawn>> /\ pc = "attempt"
    BY <1>3 DEF SkipAttempt
  <2>2. QED
    BY <1>1, <1>2, <2>1 DEF Due, Running, Terminal
<1>4. CASE FinishFromGeneration
  <2>1. UNCHANGED <<dir, gen, fin, drawn>> /\ pc = "attempt"
    BY <1>4 DEF FinishFromGeneration
  <2>2. QED
    BY <1>1, <1>2, <2>1 DEF Due, Running, Terminal
<1>5. CASE ClearIncompleteAttempt
  <2>1. /\ UNCHANGED <<gen, fin, drawn>> /\ pc = "attempt" /\ here' = here
        /\ \A s \in Slot : s # here => dir'[s] = dir[s]
    BY <1>1, <1>5 DEF ClearIncompleteAttempt, Goto, here, TypeOK
  <2>2. ~Terminal(here)
    <3>1. plan[here] = Classify(here) /\ plan[here] = "run"
      BY <1>1, <1>5 DEF ClearIncompleteAttempt, PlanIsCurrent, AttemptStages, Ahead,
         ModeMatchesStage
    <3>2. QED
      BY <1>5, <3>1 DEF ClearIncompleteAttempt, ChecksHold, Classify, Terminal
  <2>3. QED
    BY <1>1, <1>2, <2>1, <2>2 DEF Due, Running, Terminal
<1>6. CASE LaunchAttempt
  <2>1. ~Terminal(here) /\ pc = "launch"
    BY <1>6 DEF LaunchAttempt, AttemptInHand, Untouched, Terminal
  <2>2. /\ UNCHANGED <<gen, fin>> /\ here' = here /\ pc' \in {"generate", "score"}
        /\ \A s \in Slot : s # here => dir'[s] = dir[s] /\ drawn'[s] = drawn[s]
        /\ drawn'[here] = drawn[here] + 1
    BY <1>1, <1>6 DEF LaunchAttempt, Goto, here, TypeOK
  <2>3. QED
    BY <1>1, <1>2, <2>1, <2>2 DEF Due, Running, Terminal
<1>7. CASE PublishGeneration
  <2>1. /\ UNCHANGED <<dir, fin, drawn>> /\ here' = here /\ pc = "generate" /\ pc' = "score"
        /\ \A s \in Slot : s # here => gen'[s] = gen[s]
    BY <1>1, <1>7 DEF PublishGeneration, Goto, here, TypeOK
  <2>2. QED
    BY <1>1, <1>2, <2>1 DEF Due, Running, Terminal
<1>8. CASE BeginAttemptManifest
  <2>1. /\ UNCHANGED <<dir, gen, drawn>> /\ here' = here /\ pc = "score" /\ pc' = "publish"
        /\ \A s \in Slot : s # here => fin'[s] = fin[s]
    BY <1>1, <1>8 DEF BeginAttemptManifest, Goto, here, TypeOK
  <2>2. QED
    BY <1>1, <1>2, <2>1 DEF Due, Running, Terminal
<1>9. CASE EndAttemptManifest
  <2>1. /\ UNCHANGED <<dir, gen, drawn>> /\ pc = "publish" /\ fin'[here] = "ok"
        /\ \A s \in Slot : s # here => fin'[s] = fin[s]
    BY <1>1, <1>9 DEF EndAttemptManifest, TypeOK
  <2>2. QED
    BY <1>1, <1>2, <2>1 DEF Due, Running, Terminal
<1>10. QED
  BY <1>1, <1>3, <1>4, <1>5, <1>6, <1>7, <1>8, <1>9 DEF Attempt

\* Every other step runs nothing, has nothing in hand, and takes no outcome
\* away: damage spoils what is published and does not remove it.
LEMMA OthersOwe ==
    ASSUME IInv, TypeOK',
           \/ StartLive \/ StartResume \/ Declare \/ StartPolicy \/ Completion \/ Refuse
           \/ Damage \/ EditInput
    PROVE  faults' = faults /\ \A s \in Slot : Due(s)' <= Due(s)
<1> USE DEF IInv, disk, evidence, env, history, process
<1>1. \A s \in Slot : drawn[s] \in Nat
  BY DEF TypeOK
<1>2. CASE Damage
  <2>1. PICK s \in Slot : DamageAttempt(s)
    BY <1>2 DEF Damage
  <2>2. /\ UNCHANGED <<drawn, faults, pc>> /\ pc = "idle"
        /\ \A t \in Slot : Terminal(t) => Terminal(t)'
    BY <1>2, <2>1 DEF Damage, DamageAttempt, TypeOK, Terminal
  <2>3. QED
    BY <1>1, <2>2 DEF Due, Running
<1>3. CASE EditInput
  BY <1>1, <1>3 DEF EditInput, Due, Running, here, Terminal
<1>4. CASE StartLive \/ StartResume \/ Declare \/ StartPolicy \/ Completion \/ Refuse
  <2>1. UNCHANGED <<dir, gen, fin, drawn, faults>>
    BY <1>4 DEF StartLive, StartResume, Declare, StartPolicy, Completion, Reclassify,
       ClearPolicyCompletion, WritePolicyTrace, BeginPolicyManifest, EndPolicyManifest,
       SkipReplay, BeginReplay, EndReplay, FinishRejected, BeginSuiteManifest,
       EndSuiteManifest, Refuse
  <2>2. pc \notin {"generate", "score", "publish"}
    BY <1>4 DEF StartLive, StartResume, Declare, StartPolicy, Completion, Reclassify,
       ClearPolicyCompletion, WritePolicyTrace, BeginPolicyManifest, EndPolicyManifest,
       SkipReplay, BeginReplay, EndReplay, FinishRejected, BeginSuiteManifest,
       EndSuiteManifest, Refuse, ChecksHold
  <2>3. QED
    BY <1>1, <2>1, <2>2 DEF Due, Running, Terminal
<1>5. QED
  BY <1>2, <1>3, <1>4

\* RerunsArePaidFor: over every mix of live and resumed processes, the suite has
\* made no more reruns than faults hit it.
THEOREM EveryRerunIsPaidFor == Spec => []RerunsArePaidFor
<1>1. ASSUME Init PROVE OwedPaid
  <2>1. Owed = {}
    BY <1>1 DEF Init, Owed, Due
  <2>2. faults = 0
    BY <1>1 DEF Init
  <2>3. QED
    BY <2>1, <2>2, FS_EmptySet DEF OwedPaid
<1>2. ASSUME IInv, TypeOK', OwedPaid, UNCHANGED vars PROVE OwedPaid'
  BY <1>2 DEF vars, disk, evidence, process, env, history, OwedPaid, Owed, Due, Terminal,
     Running, here
<1>3. ASSUME IInv, TypeOK', OwedPaid, Next PROVE OwedPaid'
  <2>1. CASE GenerationIncomplete \/ Crash
    BY <1>3, <2>1, OwedByFault
  <2>2. CASE ~(GenerationIncomplete \/ Crash)
    <3>1. faults' = faults /\ \A s \in Slot : Due(s)' <= Due(s)
      BY <1>3, <2>2, AttemptOwes, OthersOwe DEF Next, Process, Environment
    <3>2. QED
      BY <1>3, <3>1, OwedKept DEF IInv
  <2>3. QED
    BY <2>1, <2>2
<1>4. IInv /\ TypeOK' /\ OwedPaid /\ [Next]_vars => OwedPaid'
  BY <1>2, <1>3
<1>5. TypeOK /\ OwedPaid => RerunsArePaidFor
  <2> SUFFICES ASSUME TypeOK, OwedPaid PROVE RerunsArePaidFor
    OBVIOUS
  <2>1. Reruns \subseteq Owed
    <3>1. ASSUME NEW s \in Slot, NEW n \in 2 .. drawn[s] PROVE n \in 2 .. Due(s)
      BY DueType
    <3>2. \A x \in Reruns : \E s \in Slot : \E n \in 2 .. drawn[s] : x = <<s, n>>
      BY DEF Reruns
    <3>3. QED
      BY <3>1, <3>2, OwedIs
  <2>2. Cardinality(Reruns) <= Cardinality(Owed)
    BY <2>1, FS_Subset DEF OwedPaid
  <2>3. Cardinality(Reruns) \in Nat /\ Cardinality(Owed) \in Nat /\ faults \in Nat
    BY <2>1, FS_Subset, FS_CardinalityType DEF OwedPaid, TypeOK
  <2>4. QED
    BY <2>2, <2>3 DEF OwedPaid, RerunsArePaidFor
<1>6. IInv => TypeOK
  BY DEF IInv
<1>7. QED
  BY <1>1, <1>4, <1>5, <1>6, Inductive, PTL DEF Spec

\* What the ledger has of an attempt.
OutcomeOf(s) ==
    IF IsModel(s) /\ gen[s] # "none" THEN genDraw[s]
    ELSE IF fin[s] \in {"ok", "bad"} THEN finDraw[s] ELSE 0
Recorded(s) == fin[s] \in {"ok", "bad"}

SameOutcome(s) == OutcomeOf(s)' = OutcomeOf(s)
SameRecord(s) == Recorded(s)' <=> Recorded(s)
SameTrust(s) == Spoilt(s)' <=> Spoilt(s)
SameCompletion == (suiteMan = "ok")' <=> (suiteMan = "ok")

\* A step that changes nothing of it is a stutter of the ledger.
LEMMA LedgerStutters ==
    ASSUME \A s \in Slot : SameOutcome(s) /\ SameRecord(s) /\ SameTrust(s), SameCompletion
    PROVE  UNCHANGED Ledger!vars
BY DEF Ledger!vars, SameOutcome, SameRecord, SameTrust, SameCompletion, OutcomeOf, Recorded

\* The steps of the ledger, read off the suite's state.
LEMMA LedgerCommits ==
    ASSUME NEW e \in Slot, NEW d \in 1..MaxFaults + 1, OutcomeOf(e) = 0, ~Spoilt(e),
           OutcomeOf(e)' = d, \A s \in Slot : s # e => SameOutcome(s),
           \A s \in Slot : SameRecord(s) /\ SameTrust(s), SameCompletion
    PROVE  Ledger!Next
<1>1. Ledger!DrawOutcome(e)
  BY ZenonT(30) DEF Ledger!DrawOutcome, SameOutcome, OutcomeOf
<1>2. Ledger!Commit(e)
  BY <1>1 DEF Ledger!Commit, SameRecord, SameTrust, SameCompletion, Recorded
<1>3. QED
  BY <1>2 DEF Ledger!Next

LEMMA LedgerCloses ==
    ASSUME NEW e \in Slot, OutcomeOf(e) # 0, ~Recorded(e), ~Spoilt(e), Recorded(e)',
           \A s \in Slot : SameOutcome(s) /\ SameTrust(s),
           \A s \in Slot : s # e => SameRecord(s), SameCompletion
    PROVE  Ledger!Next
<1>1. Ledger!Close(e)
  BY DEF Ledger!Close, SameOutcome, SameRecord, SameTrust, SameCompletion, OutcomeOf, Recorded
<1>2. QED
  BY <1>1 DEF Ledger!Next

LEMMA LedgerCommitsAndCloses ==
    ASSUME NEW e \in Slot, NEW d \in 1..MaxFaults + 1, OutcomeOf(e) = 0, ~Spoilt(e),
           OutcomeOf(e)' = d, Recorded(e)', \A s \in Slot : SameTrust(s),
           \A s \in Slot : s # e => SameOutcome(s) /\ SameRecord(s), SameCompletion
    PROVE  Ledger!Next
<1>1. Ledger!DrawOutcome(e)
  BY ZenonT(30) DEF Ledger!DrawOutcome, SameOutcome, OutcomeOf
<1>2. Ledger!CommitAndClose(e)
  BY <1>1 DEF Ledger!CommitAndClose, SameRecord, SameTrust, SameCompletion, Recorded
<1>3. QED
  BY <1>2 DEF Ledger!Next

LEMMA LedgerSpoils ==
    ASSUME NEW e \in Slot, ~Spoilt(e), Spoilt(e)', suiteMan # "ok",
           \A s \in Slot : SameOutcome(s) /\ SameRecord(s),
           \A s \in Slot : s # e => SameTrust(s), SameCompletion
    PROVE  Ledger!Next
<1>1. Ledger!Spoil(e)
  BY DEF Ledger!Spoil, SameOutcome, SameRecord, SameTrust, SameCompletion, OutcomeOf, Recorded
<1>2. QED
  BY <1>1 DEF Ledger!Next

LEMMA LedgerCompletes ==
    ASSUME \A s \in Slot : Recorded(s) /\ ~Spoilt(s), suiteMan # "ok", suiteMan' = "ok",
           \A s \in Slot : SameOutcome(s) /\ SameRecord(s) /\ SameTrust(s)
    PROVE  Ledger!Next
<1>1. Ledger!Complete
  BY DEF Ledger!Complete, SameOutcome, SameRecord, SameTrust, OutcomeOf, Recorded
<1>2. QED
  BY <1>1 DEF Ledger!Next

\* A step that leaves the evidence and the attempt being written as they are
\* changes nothing of any attempt.
LEMMA EvidenceSame ==
    ASSUME UNCHANGED evidence, \A s \in Slot : Writing(s)' <=> Writing(s)
    PROVE  \A s \in Slot : SameOutcome(s) /\ SameRecord(s) /\ SameTrust(s)
BY DEF evidence, SameOutcome, SameRecord, SameTrust, OutcomeOf, Recorded, Spoilt, IsModel

\* One attempt's evidence changes: the others are the same.
LEMMA ElsewhereSame ==
    ASSUME NEW e \in Slot, \A s \in Slot : s # e =>
               /\ dir'[s] = dir[s] /\ gen'[s] = gen[s] /\ genDraw'[s] = genDraw[s]
               /\ fin'[s] = fin[s] /\ finDraw'[s] = finDraw[s]
               /\ Writing(s)' <=> Writing(s)
    PROVE  \A s \in Slot : s # e => SameOutcome(s) /\ SameRecord(s) /\ SameTrust(s)
BY DEF SameOutcome, SameRecord, SameTrust, OutcomeOf, Recorded, Spoilt, IsModel

\* A step of an attempt leaves the other attempts alone.
LEMMA AttemptElsewhere ==
    ASSUME TypeOK, here \in Slot, Attempt
    PROVE  \A s \in Slot : s # here => SameOutcome(s) /\ SameRecord(s) /\ SameTrust(s)
<1>1. \A s \in Slot : s # here =>
          /\ dir'[s] = dir[s] /\ gen'[s] = gen[s] /\ genDraw'[s] = genDraw[s]
          /\ fin'[s] = fin[s] /\ finDraw'[s] = finDraw[s]
  BY DEF TypeOK, Attempt, SkipAttempt, FinishFromGeneration, ClearIncompleteAttempt, LaunchAttempt,
     PublishGeneration, BeginAttemptManifest, EndAttemptManifest, disk, evidence
<1>2. \A s \in Slot : s # here => (Writing(s)' <=> Writing(s))
  <2>1. pc' = "publish" => here' = here
    BY DEF Attempt, SkipAttempt, FinishFromGeneration, ClearIncompleteAttempt, LaunchAttempt,
       PublishGeneration, BeginAttemptManifest, EndAttemptManifest, AfterAttempt,
       FirstStageOfAttempt, Goto, GotoPolicy, here
  <2>2. QED
    BY <2>1 DEF Writing
<1>3. QED
  BY <1>1, <1>2, ElsewhereSame

\* The steps of an attempt: publishing a generation commits the outcome of a
\* model attempt, and ending its manifest closes it; any other attempt is
\* committed and closed at once.
LEMMA AttemptRefines ==
    ASSUME IInv, PInv, DrawsPaid, Attempt, NEW e \in Slot, e = here
    PROVE  Ledger!Next \/ UNCHANGED Ledger!vars
<1> USE DEF IInv
<1>1. TypeOK
  OBVIOUS
<1>2. \A s \in Slot : s # e => SameOutcome(s) /\ SameRecord(s) /\ SameTrust(s)
  BY <1>1, AttemptElsewhere
<1>3. SameCompletion
  BY DEF SameCompletion, Attempt, SkipAttempt, FinishFromGeneration, ClearIncompleteAttempt,
     LaunchAttempt, PublishGeneration, BeginAttemptManifest, EndAttemptManifest, disk
<1>4. drawn[e] \in Nat /\ faults \in Nat /\ MaxFaults \in Nat
      /\ drawn[e] <= faults + 1 /\ faults <= MaxFaults
  BY <1>1 DEF TypeOK, DrawsPaid
<1>5. CASE SkipAttempt \/ FinishFromGeneration
  <2>1. UNCHANGED evidence /\ ~Writing(e) /\ ~(pc' = "publish")
    BY <1>5 DEF SkipAttempt, FinishFromGeneration, AfterAttempt, FirstStageOfAttempt, Goto,
       GotoPolicy, Writing, disk, evidence
  <2>2. SameOutcome(e) /\ SameRecord(e) /\ SameTrust(e)
    BY <2>1 DEF evidence, SameOutcome, SameRecord, SameTrust, OutcomeOf, Recorded, Spoilt,
       Writing, IsModel
  <2>3. QED
    BY <1>2, <1>3, <2>2, LedgerStutters
<1>6. CASE ClearIncompleteAttempt
  <2>1. dir[e] # "notdir"
    <3>1. plan[e] = Classify(e) /\ plan[e] = "run"
      BY <1>1, <1>6 DEF ClearIncompleteAttempt, PlanIsCurrent, AttemptStages, Ahead,
         ModeMatchesStage
    <3>2. fin[e] = "none" /\ gen[e] = "none"
      BY <1>6 DEF ClearIncompleteAttempt, ChecksHold
    <3>3. QED
      BY <3>1 DEF Classify
  <2>2. /\ dir'[e] = "absent" /\ UNCHANGED <<gen, genDraw, fin, finDraw>>
        /\ fin[e] = "none"
    BY <1>1, <1>6 DEF ClearIncompleteAttempt, ChecksHold, TypeOK
  <2>3. SameOutcome(e) /\ SameRecord(e) /\ SameTrust(e)
    BY <2>1, <2>2 DEF SameOutcome, SameRecord, SameTrust, OutcomeOf, Recorded, Spoilt, IsModel
  <2>4. QED
    BY <1>2, <1>3, <2>3, LedgerStutters
<1>7. CASE LaunchAttempt
  <2>1. /\ Untouched(e) /\ dir'[e] = "dir" /\ UNCHANGED <<gen, genDraw, fin, finDraw>>
    BY <1>1, <1>7 DEF LaunchAttempt, AttemptInHand, TypeOK
  <2>2. SameOutcome(e) /\ SameRecord(e) /\ SameTrust(e)
    BY <2>1 DEF Untouched, SameOutcome, SameRecord, SameTrust, OutcomeOf, Recorded, Spoilt,
       IsModel
  <2>3. QED
    BY <1>2, <1>3, <2>2, LedgerStutters
<1>8. CASE PublishGeneration
  <2>1. /\ IsModel(e) /\ gen[e] = "none" /\ fin[e] = "none" /\ dir[e] = "dir"
        /\ gen'[e] = "ok" /\ genDraw'[e] = drawn[e]
        /\ UNCHANGED <<dir, fin, finDraw>>
    BY <1>1, <1>8 DEF PublishGeneration, AttemptInHand, TypeOK
  <2>2. drawn[e] \in 1..MaxFaults + 1
    BY <1>1, <1>4, <1>8 DEF PublishGeneration, DrawsPaid, Running
  <2>3. /\ OutcomeOf(e) = 0 /\ ~Spoilt(e) /\ OutcomeOf(e)' = drawn[e]
        /\ SameRecord(e) /\ SameTrust(e)
    BY <2>1 DEF SameRecord, SameTrust, OutcomeOf, Recorded, Spoilt, IsModel
  <2>4. QED
    BY <1>1, <1>2, <1>3, <2>2, <2>3, LedgerCommits
<1>9. CASE BeginAttemptManifest
  <2>1. /\ fin[e] = "none" /\ fin'[e] = "torn" /\ dir[e] = "dir"
        /\ gen[e] # "bad" /\ Writing(e)' /\ UNCHANGED <<dir, gen, genDraw, finDraw>>
    BY <1>1, <1>9 DEF BeginAttemptManifest, AttemptInHand, DrawsPaid, Running, Goto, Writing,
       here, TypeOK
  <2>2. SameOutcome(e) /\ SameRecord(e) /\ SameTrust(e)
    BY <2>1 DEF SameOutcome, SameRecord, SameTrust, OutcomeOf, Recorded, Spoilt, IsModel
  <2>3. QED
    BY <1>2, <1>3, <2>2, LedgerStutters
<1>10. CASE EndAttemptManifest
  <2>1. /\ fin[e] = "torn" /\ fin'[e] = "ok" /\ dir[e] = "dir"
        /\ gen[e] # "bad" /\ Writing(e) /\ UNCHANGED <<dir, gen, genDraw>>
        /\ finDraw'[e] = (IF IsModel(e) THEN genDraw[e] ELSE drawn[e])
    BY <1>1, <1>10 DEF EndAttemptManifest, AttemptInHand, DrawsPaid, Running, Writing, TypeOK
  <2>2. ~Spoilt(e) /\ SameTrust(e) /\ ~Recorded(e) /\ Recorded(e)'
    BY <2>1 DEF SameTrust, Recorded, Spoilt, IsModel
  <2>3. drawn[e] \in 1..MaxFaults + 1
    BY <1>1, <1>4, <1>10 DEF EndAttemptManifest, DrawsPaid, Running
  <2>4. CASE IsModel(e)
    <3>1. gen[e] # "none" /\ genDraw[e] = drawn[e]
      BY <1>1, <1>10, <2>4 DEF EndAttemptManifest, AttemptInHand, CommittedDraw
    <3>2. OutcomeOf(e) # 0 /\ SameOutcome(e)
      BY <2>1, <2>3, <2>4, <3>1 DEF SameOutcome, OutcomeOf, IsModel
    <3>3. QED
      BY <1>1, <1>2, <1>3, <2>2, <3>2, LedgerCloses
  <2>5. CASE ~IsModel(e)
    <3>1. OutcomeOf(e) = 0 /\ OutcomeOf(e)' = drawn[e]
      BY <2>1, <2>5 DEF OutcomeOf, IsModel
    <3>2. QED
      BY <1>1, <1>2, <1>3, <2>2, <2>3, <3>1, LedgerCommitsAndCloses
  <2>6. QED
    BY <2>4, <2>5
<1>11. QED
  BY <1>5, <1>6, <1>7, <1>8, <1>9, <1>10 DEF Attempt

\* A process that dies while it writes a manifest spoils that attempt; damage
\* spoils the attempt it hits, unless it is spoilt already.
LEMMA FaultsRefine ==
    ASSUME IInv, PInv, DrawsPaid, Refuse \/ Environment
    PROVE  Ledger!Next \/ UNCHANGED Ledger!vars
<1> USE DEF IInv
<1>1. TypeOK /\ here \in Slot
  BY CursorType
<1>2. SameCompletion
  BY DEF SameCompletion, Refuse, Environment, GenerationIncomplete, Crash, Damage, EditInput,
     disk
<1>3. CASE Crash /\ pc = "publish"
  <2>0. PICK e \in Slot : e = here
    BY <1>1
  <2>1. UNCHANGED evidence /\ pc' = "idle" /\ suiteMan = "none"
    BY <1>3, NoSuiteYet DEF Crash, Exit, disk, evidence
  <2>2. /\ fin[e] = "torn" /\ dir[e] = "dir" /\ gen[e] # "bad"
    BY <1>1, <1>3, <2>0 DEF AttemptInHand, DrawsPaid, Running
  <2>3. ~Spoilt(e) /\ Spoilt(e)'
    <3>1. Writing(e) /\ ~Writing(e)'
      BY <1>3, <2>0, <2>1 DEF Writing
    <3>2. fin'[e] = "torn"
      BY <2>1, <2>2 DEF evidence
    <3>3. QED
      BY <2>2, <3>1, <3>2 DEF Spoilt
  <2>4. \A s \in Slot : SameOutcome(s) /\ SameRecord(s)
    BY <2>1 DEF evidence, SameOutcome, SameRecord, OutcomeOf, Recorded, IsModel
  <2>5. \A s \in Slot : s # e => SameTrust(s)
    BY <1>3, <2>0, <2>1 DEF evidence, SameTrust, Spoilt, Writing, IsModel
  <2>6. QED
    BY <1>1, <1>2, <2>1, <2>3, <2>4, <2>5, LedgerSpoils
<1>4. CASE Damage
  <2>1. PICK e \in Slot : DamageAttempt(e)
    BY <1>4 DEF Damage
  <2>2. /\ pc = "idle" /\ pc' = "idle" /\ suiteMan = "none" /\ UNCHANGED <<genDraw, finDraw>>
    BY <1>4 DEF Damage, process
  <2>3. \A s \in Slot : s # e => /\ dir'[s] = dir[s] /\ gen'[s] = gen[s] /\ fin'[s] = fin[s]
    BY <2>1 DEF DamageAttempt, TypeOK
  <2>4. \A s \in Slot : ~Writing(s) /\ ~Writing(s)'
    BY <2>2 DEF Writing
  <2>5. \A s \in Slot : s # e => SameOutcome(s) /\ SameRecord(s) /\ SameTrust(s)
    BY <2>2, <2>3, <2>4, ElsewhereSame
  <2>6. SameOutcome(e) /\ SameRecord(e)
    BY <1>1, <2>1, <2>2
       DEF DamageAttempt, SameOutcome, SameRecord, OutcomeOf, Recorded, IsModel, TypeOK
  <2>7. Spoilt(e) => Spoilt(e)'
    BY <1>1, <2>1, <2>4 DEF DamageAttempt, Spoilt, IsModel, TypeOK
  <2>8. CASE SameTrust(e)
    BY <1>2, <2>5, <2>6, <2>8, LedgerStutters
  <2>9. CASE ~SameTrust(e)
    <3>1. ~Spoilt(e) /\ Spoilt(e)'
      BY <2>7, <2>9 DEF SameTrust
    <3>2. QED
      BY <1>2, <2>2, <2>5, <2>6, <3>1, LedgerSpoils
  <2>10. QED
    BY <2>8, <2>9
<1>5. CASE Refuse \/ GenerationIncomplete \/ (Crash /\ pc # "publish")
  <2>1. UNCHANGED evidence /\ pc # "publish" /\ pc' # "publish"
    BY <1>5 DEF Refuse, GenerationIncomplete, Crash, ChecksHold, Exit, disk, evidence
  <2>2. \A s \in Slot : Writing(s)' <=> Writing(s)
    BY <2>1 DEF Writing
  <2>3. QED
    BY <1>2, <2>1, <2>2, EvidenceSame, LedgerStutters
<1>6. CASE EditInput
  <2>1. UNCHANGED evidence /\ \A s \in Slot : Writing(s)' <=> Writing(s)
    BY <1>6 DEF EditInput, Writing, here, disk, evidence, process
  <2>2. QED
    BY <1>2, <2>1, EvidenceSame, LedgerStutters
<1>7. QED
  BY <1>3, <1>4, <1>5, <1>6 DEF Environment

\* Everything else leaves the ledger alone, but for the end of the suite
\* manifest, which completes it.
LEMMA OthersRefine ==
    ASSUME IInv, PInv, StartLive \/ StartResume \/ Declare \/ StartPolicy \/ Completion
    PROVE  Ledger!Next \/ UNCHANGED Ledger!vars
<1>1. UNCHANGED evidence
  BY DEF StartLive, StartResume, Declare, StartPolicy, Completion, Reclassify,
     ClearPolicyCompletion, WritePolicyTrace, BeginPolicyManifest, EndPolicyManifest,
     SkipReplay, BeginReplay, EndReplay, FinishRejected, BeginSuiteManifest,
     EndSuiteManifest, disk, evidence
<1>2. pc # "publish" /\ pc' # "publish"
  BY DEF StartLive, StartResume, Declare, StartPolicy, FirstStageOfAttempt,
     Completion, Reclassify, ClearPolicyCompletion, WritePolicyTrace,
     BeginPolicyManifest, EndPolicyManifest, SkipReplay, BeginReplay, EndReplay,
     FinishRejected, BeginSuiteManifest, EndSuiteManifest, Goto, GotoPolicy, AfterSeal,
     AfterReplay, Exit
<1>3. \A s \in Slot : SameOutcome(s) /\ SameRecord(s) /\ SameTrust(s)
  BY <1>1, <1>2, EvidenceSame DEF Writing
<1>4. CASE EndSuiteManifest
  <2>1. suiteMan # "none" /\ suiteMan' = "ok"
    BY <1>4 DEF EndSuiteManifest, PInv, CursorStarts
  <2>2. \A s \in Slot : Recorded(s) /\ ~Spoilt(s)
    BY <2>1 DEF PInv, ParentsLast, Sound, Recorded
  <2>3. CASE suiteMan = "ok"
    BY <1>3, <2>1, <2>3, LedgerStutters DEF SameCompletion
  <2>4. CASE suiteMan # "ok"
    BY <1>3, <2>1, <2>2, <2>4, LedgerCompletes
  <2>5. QED
    BY <2>3, <2>4
<1>5. CASE ~EndSuiteManifest
  <2>1. SameCompletion
    <3>1. CASE BeginSuiteManifest
      BY <3>1, NoSuiteYet DEF BeginSuiteManifest, SameCompletion
    <3>2. CASE UNCHANGED suiteMan
      BY <3>2 DEF SameCompletion
    <3>3. QED
      BY <1>5, <3>1, <3>2 DEF StartLive, StartResume, Declare, StartPolicy, Completion,
         Reclassify, ClearPolicyCompletion, WritePolicyTrace, BeginPolicyManifest,
         EndPolicyManifest, SkipReplay, BeginReplay, EndReplay, FinishRejected, disk
  <2>2. QED
    BY <1>3, <2>1, LedgerStutters
<1>6. QED
  BY <1>4, <1>5

\* The suite directory, under any mix of live runs, crashes, damage, edits and
\* resumes, is a ledger: each outcome is drawn once, recorded once, never
\* repaired when spoilt, and the suite completes over all of them or never.
THEOREM SuiteIsALedger == Spec => ImplementsLedger
<1>1. Init => Ledger!Init
  BY DEF Init, Ledger!Init, Spoilt, IsModel, Writing
<1>2. IInv /\ PInv /\ DrawsPaid /\ [Next]_vars => [Ledger!Next]_Ledger!vars
  <2> SUFFICES ASSUME IInv, PInv, DrawsPaid, [Next]_vars
               PROVE  Ledger!Next \/ UNCHANGED Ledger!vars
    OBVIOUS
  <2>1. CASE UNCHANGED vars
    <3>1. UNCHANGED evidence /\ SameCompletion /\ \A s \in Slot : Writing(s)' <=> Writing(s)
      BY <2>1 DEF vars, disk, evidence, process, SameCompletion, Writing, here
    <3>2. QED
      BY <3>1, EvidenceSame, LedgerStutters
  <2>2. CASE Next
    BY <2>2, AttemptRefines, FaultsRefine, OthersRefine, CursorType DEF Next, Process, IInv
  <2>3. QED
    BY <2>1, <2>2
<1>3. QED
  BY <1>1, <1>2, PaidInductive, PTL DEF Spec, ImplementsLedger, Ledger!Spec

-----------------------------------------------------------------------------
(***************************************************************************)
(* What a resume leaves behind.  The attempts behind the executor's cursor *)
(* are settled, so that its second inventory finds every attempt complete  *)
(* or rejected; from there on a policy is rejected exactly when evidence   *)
(* of its own is spoilt.                                                   *)
(***************************************************************************)
Settled(s) == fin[s] = "ok" \/ Spoilt(s)
Behind(s) == s[1] < pol \/ (s[1] = pol /\ s[2] < att)
RunStages == {"policy", "attempt", "launch", "generate", "score", "publish"}

\* A generation comes before the terminal manifest made from it, and a policy
\* without a model has no valid one.
GenerationsOwned ==
    \A s \in Slot : IF IsModel(s) THEN fin[s] # "none" => gen[s] # "none"
                    ELSE gen[s] # "ok"

BehindSettled ==
    mode = "resume" =>
        /\ pc \in RunStages => \A s \in Slot : Behind(s) => Settled(s)
        /\ pc = "reclassify" => \A s \in Slot : Settled(s)

RejectedAreSpoilt ==
    mode = "resume" /\ pc \in Sealing \cup Closing =>
        /\ \A s \in Slot : plan[s] = "reject" <=> Spoilt(s)
        /\ \A p \in Policies : PolicyRejected(p) => replay[p] = "none"
        /\ \A p \in Policies : PolicyRejected(p) /\ (pc \in Sealing => p < pol) =>
              polMan[p] = "none" /\ ~trace[p]
        /\ pc \in {"trace", "stamp", "stamping", "replaying"} => ~PolicyRejected(pol)

RInv == GenerationsOwned /\ BehindSettled /\ RejectedAreSpoilt

\* Evidence that is left alone is as spoilt as it was.
LEMMA SpoiltSame ==
    ASSUME UNCHANGED evidence, \A s \in Slot : Writing(s)' <=> Writing(s)
    PROVE  /\ \A s \in Slot : (Spoilt(s)' <=> Spoilt(s)) /\ (Settled(s)' <=> Settled(s))
           /\ GenerationsOwned' <=> GenerationsOwned
BY DEF evidence, Spoilt, Settled, IsModel, GenerationsOwned

\* What the inventory says of an attempt is what is stored for it.
LEMMA InventorySays ==
    ASSUME IInv, PInv, RInv, NEW s \in Slot, ~Writing(s)
    PROVE  /\ Classify(s) \in {"reuse", "reject"} => Settled(s)
           /\ Classify(s) = "reject" => Spoilt(s)
           /\ Classify(s) = "reuse" => ~Spoilt(s)
<1>1. /\ fin[s] \in {"none", "torn", "ok", "bad"} /\ gen[s] \in {"none", "ok", "bad"}
      /\ dir[s] \in {"absent", "dir", "notdir"} /\ fin[s] # "none" => dir[s] = "dir"
      /\ IF IsModel(s) THEN fin[s] # "none" => gen[s] # "none" ELSE gen[s] # "ok"
      /\ IsModel(s) /\ gen[s] # "none" => genDraw[s] = drawn[s]
      /\ fin[s] \in {"ok", "bad"} => finDraw[s] = drawn[s]
  BY DEF IInv, TypeOK, PInv, DirThere, RInv, GenerationsOwned, CommittedDraw
<1>2. Classify(s) = "reuse" => fin[s] = "ok" /\ (IsModel(s) => gen[s] = "ok")
  BY DEF Classify, CompletedAttemptValid, EvidenceValid, GenerationBound, GenerationValid
<1>3. Classify(s) = "reject" => Spoilt(s)
  BY <1>1 DEF Classify, CompletedAttemptValid, EvidenceValid, GenerationBound,
     GenerationValid, Spoilt
<1>4. QED
  BY <1>1, <1>2, <1>3 DEF Settled, Spoilt

\* Once the attempt in hand is settled, so is everything behind the next one.
LEMMA AfterAttemptSettled ==
    ASSUME TypeOK, AfterAttempt, mode = "resume",
           \A s \in Slot : Behind(s) \/ s = here => Settled(s)'
    PROVE  BehindSettled' /\ RejectedAreSpoilt'
<1> USE DEF Slot, Policies, Attempts, TypeOK
<1>1. CASE att < NumAttempts
  <2>1. pc' = "attempt" /\ pol' = pol /\ att' = att + 1
    BY <1>1 DEF AfterAttempt, FirstStageOfAttempt
  <2>2. \A s \in Slot : Behind(s)' => Behind(s) \/ s = here
    BY <2>1 DEF Behind, here
  <2>3. QED
    BY <2>1, <2>2 DEF BehindSettled, RejectedAreSpoilt, Sealing, Closing
<1>2. CASE ~(att < NumAttempts) /\ pol < NumPolicies
  <2>1. pc' = "policy" /\ pol' = pol + 1 /\ att' = 1 /\ att = NumAttempts
    BY <1>2 DEF AfterAttempt, GotoPolicy
  <2>2. \A s \in Slot : Behind(s)' => Behind(s) \/ s = here
    BY <2>1 DEF Behind, here
  <2>3. QED
    BY <2>1, <2>2 DEF BehindSettled, RejectedAreSpoilt, Sealing, Closing
<1>3. CASE ~(att < NumAttempts) /\ ~(pol < NumPolicies)
  <2>1. pc' = "reclassify" /\ att = NumAttempts /\ pol = NumPolicies
    BY <1>3 DEF AfterAttempt, GotoPolicy
  <2>2. \A s \in Slot : Behind(s) \/ s = here
    BY <2>1 DEF Behind, here
  <2>3. QED
    BY <2>1, <2>2 DEF BehindSettled, RejectedAreSpoilt, Sealing, Closing, RunStages
<1>4. QED
  BY <1>1, <1>2, <1>3

\* A step between two stages of the attempt in hand.
LEMMA InAttemptSettled ==
    ASSUME TypeOK, BehindSettled, pc \in RunStages, pc' \in RunStages,
           UNCHANGED <<mode, pol, att>>,
           \A s \in Slot : s # here => (Settled(s) => Settled(s)')
    PROVE  BehindSettled' /\ RejectedAreSpoilt'
<1>1. \A s \in Slot : (Behind(s)' <=> Behind(s)) /\ (Behind(s) => s # here)
  BY DEF Behind, here, Slot, TypeOK, Policies, Attempts
<1>2. QED
  BY <1>1 DEF BehindSettled, RejectedAreSpoilt, RunStages, Sealing, Closing

\* What an attempt's step leaves of the others.
LEMMA ElsewhereSettled ==
    ASSUME IInv, NEW e \in Slot, e = here, Attempt, NEW s \in Slot, s # e
    PROVE  Settled(s) => Settled(s)'
<1>1. /\ dir'[s] = dir[s] /\ gen'[s] = gen[s] /\ fin'[s] = fin[s]
  BY DEF Attempt, SkipAttempt, FinishFromGeneration, ClearIncompleteAttempt, LaunchAttempt,
     PublishGeneration, BeginAttemptManifest, EndAttemptManifest, IInv, TypeOK, disk, evidence
<1>2. ~Writing(s)
  BY DEF Writing
<1>3. ~Writing(s)'
  <2>1. pc' = "publish" => pol' = pol /\ att' = att
    BY DEF Attempt, SkipAttempt, FinishFromGeneration, ClearIncompleteAttempt, LaunchAttempt,
       PublishGeneration, BeginAttemptManifest, EndAttemptManifest, Goto, AfterAttempt,
       GotoPolicy, FirstStageOfAttempt
  <2>2. QED
    BY <2>1 DEF Writing, here
<1>4. QED
  BY <1>1, <1>2, <1>3 DEF Settled, Spoilt, IsModel

LEMMA AttemptResolves ==
    ASSUME IInv, PInv, RInv, Attempt
    PROVE  RInv'
<1>1. TypeOK
  BY DEF IInv
<1>2. PICK e \in Slot : e = here
  BY <1>1, CursorType
<1>3. \A s \in Slot : s # e => (Settled(s) => Settled(s)')
  BY <1>2, ElsewhereSettled
<1>4. GenerationsOwned'
  <2>1. AttemptInHand /\ GenerationsOwned
    BY DEF IInv, RInv
  <2>2. CASE UNCHANGED <<gen, fin>>
    BY <2>1, <2>2 DEF GenerationsOwned, IsModel
  <2>3. CASE PublishGeneration
    BY <1>1, <1>2, <2>1, <2>3 DEF PublishGeneration, AttemptInHand, GenerationsOwned,
       IsModel, TypeOK
  <2>4. CASE BeginAttemptManifest \/ EndAttemptManifest
    BY <1>1, <1>2, <2>1, <2>4 DEF BeginAttemptManifest, EndAttemptManifest, AttemptInHand,
       GenerationsOwned, IsModel, TypeOK
  <2>5. QED
    BY <2>2, <2>3, <2>4 DEF Attempt, SkipAttempt, FinishFromGeneration,
       ClearIncompleteAttempt, LaunchAttempt, disk, evidence
<1>5. BehindSettled' /\ RejectedAreSpoilt'
  <2>0. BehindSettled
    BY DEF RInv
  <2>1. CASE mode # "resume"
    <3>1. mode' = mode
      BY DEF Attempt, SkipAttempt, FinishFromGeneration, ClearIncompleteAttempt,
         LaunchAttempt, PublishGeneration, BeginAttemptManifest, EndAttemptManifest, Goto,
         AfterAttempt, GotoPolicy
    <3>2. QED
      BY <2>1, <3>1 DEF BehindSettled, RejectedAreSpoilt
  <2>2. CASE mode = "resume" /\ (SkipAttempt \/ EndAttemptManifest)
    <3>1. AfterAttempt /\ pc \in RunStages
      BY <2>2 DEF SkipAttempt, EndAttemptManifest, RunStages
    <3>2. Settled(e)'
      <4>1. CASE SkipAttempt
        <5>1. plan[e] \in {"reuse", "reject"} /\ pc = "attempt" /\ UNCHANGED evidence
          BY <1>2, <4>1 DEF SkipAttempt, disk, evidence
        <5>2. plan[e] = Classify(e)
          BY <1>2, <2>2, <5>1 DEF IInv, PlanIsCurrent, AttemptStages, Ahead
        <5>3. ~Writing(e) /\ pc' # "publish"
          BY <2>2, <3>1, <5>1 DEF Writing, AfterAttempt, FirstStageOfAttempt, GotoPolicy
        <5>4. Settled(e)
          BY <5>1, <5>2, <5>3, InventorySays
        <5>5. QED
          BY <5>1, <5>3, <5>4 DEF Settled, Spoilt, Writing, IsModel, evidence
      <4>2. CASE EndAttemptManifest
        BY <1>1, <1>2, <4>2 DEF EndAttemptManifest, Settled, TypeOK
      <4>3. QED
        BY <2>2, <4>1, <4>2
    <3>3. \A s \in Slot : Behind(s) \/ s = here => Settled(s)'
      BY <1>2, <1>3, <2>0, <2>2, <3>1, <3>2 DEF BehindSettled
    <3>4. QED
      BY <1>1, <2>2, <3>1, <3>3, AfterAttemptSettled
  <2>3. CASE mode = "resume" /\ ~(SkipAttempt \/ EndAttemptManifest)
    <3>1. pc \in RunStages /\ pc' \in RunStages /\ UNCHANGED <<mode, pol, att>>
      BY <2>3 DEF Attempt, FinishFromGeneration, ClearIncompleteAttempt, LaunchAttempt,
         PublishGeneration, BeginAttemptManifest, Goto, RunStages
    <3>2. QED
      BY <1>1, <1>2, <1>3, <2>0, <3>1, InAttemptSettled
  <2>4. QED
    BY <2>1, <2>2, <2>3
<1>6. QED
  BY <1>4, <1>5 DEF RInv

\* Completing the suite touches no evidence.
LEMMA CompletionLeavesEvidence ==
    ASSUME Completion
    PROVE  /\ UNCHANGED evidence /\ mode' \in {mode, "none"}
           /\ \A s \in Slot : ~Writing(s) /\ ~Writing(s)'
<1> USE DEF Completion, Reclassify, ClearPolicyCompletion, WritePolicyTrace,
     BeginPolicyManifest, EndPolicyManifest, SkipReplay, BeginReplay, EndReplay,
     FinishRejected, BeginSuiteManifest, EndSuiteManifest, Goto, GotoPolicy, AfterSeal,
     AfterReplay, Exit
<1>1. UNCHANGED evidence
  BY DEF disk, evidence
<1>2. mode' \in {mode, "none"} /\ pc # "publish" /\ pc' # "publish"
  OBVIOUS
<1>3. QED
  BY <1>1, <1>2 DEF Writing

\* The end of the policy in hand: rejected policies stay without their parents.
LEMMA SealKeepsRejected ==
    ASSUME TypeOK, mode = "resume", mode' = "resume", UNCHANGED <<plan, replay>>,
           pc \in Sealing, RejectedAreSpoilt, \A s \in Slot : Spoilt(s)' <=> Spoilt(s),
           \A p \in Policies : p < pol => polMan'[p] = polMan[p] /\ trace'[p] = trace[p],
           \/ AfterSeal /\ (PolicyRejected(pol) => polMan'[pol] = "none" /\ ~trace'[pol])
           \/ /\ pc' \in {"trace", "stamp", "stamping"} /\ pol' = pol
              /\ ~PolicyRejected(pol)
    PROVE  BehindSettled' /\ RejectedAreSpoilt'
<1>1. \A p \in Policies : PolicyRejected(p)' <=> PolicyRejected(p)
  BY DEF PolicyRejected
<1>2. \A p \in Policies : PolicyRejected(p) /\ p < pol => polMan'[p] = "none" /\ ~trace'[p]
  BY DEF RejectedAreSpoilt, Sealing
<1>3. \A p \in Policies : PolicyRejected(p) => replay'[p] = "none"
  BY DEF RejectedAreSpoilt
<1>4. \A s \in Slot : (plan[s] = "reject" <=> Spoilt(s))'
  BY DEF RejectedAreSpoilt
<1>5. CASE AfterSeal /\ (PolicyRejected(pol) => polMan'[pol] = "none" /\ ~trace'[pol])
  <2>1. \A p \in Policies : PolicyRejected(p) /\ p <= pol => polMan'[p] = "none" /\ ~trace'[p]
    BY <1>2, <1>5 DEF TypeOK, Policies
  <2>2. \/ pc' = "replay" /\ pol = NumPolicies
        \/ pc' = "seal" /\ pol' = pol + 1
    BY <1>5 DEF AfterSeal, GotoPolicy
  <2>3. \A p \in Policies : PolicyRejected(p) /\ (pc' \in Sealing => p < pol') =>
           polMan'[p] = "none" /\ ~trace'[p]
    BY <2>1, <2>2 DEF Sealing, TypeOK, Policies
  <2>4. QED
    BY <1>1, <1>3, <1>4, <2>2, <2>3
       DEF RejectedAreSpoilt, BehindSettled, RunStages
<1>6. CASE pc' \in {"trace", "stamp", "stamping"} /\ pol' = pol /\ ~PolicyRejected(pol)
  BY <1>1, <1>2, <1>3, <1>4, <1>6 DEF RejectedAreSpoilt, BehindSettled, RunStages, Sealing,
     TypeOK
<1>7. QED
  BY <1>5, <1>6

\* Replays and the suite manifest: only a policy that is not rejected is
\* replayed.
LEMMA CloseKeepsRejected ==
    ASSUME TypeOK, mode = "resume", mode' = "resume", UNCHANGED <<plan, polMan, trace>>,
           pc \in Closing, pc' \in Closing, RejectedAreSpoilt,
           \A s \in Slot : Spoilt(s)' <=> Spoilt(s),
           \A p \in Policies : PolicyRejected(p) => replay'[p] = replay[p],
           pc' = "replaying" => ~PolicyRejected(pol')
    PROVE  BehindSettled' /\ RejectedAreSpoilt'
<1>1. \A p \in Policies : PolicyRejected(p)' <=> PolicyRejected(p)
  BY DEF PolicyRejected
<1>2. pc' = "replaying" => ~PolicyRejected(pol)'
  BY DEF PolicyRejected
<1>3. QED
  BY <1>1, <1>2 DEF RejectedAreSpoilt, BehindSettled, RunStages, Sealing, Closing

LEMMA CompletionResolves ==
    ASSUME IInv, PInv, RInv, Completion
    PROVE  RInv'
<1>1. /\ TypeOK /\ pol \in Policies
      /\ UNCHANGED evidence /\ mode' \in {mode, "none"}
      /\ \A s \in Slot : ~Writing(s) /\ ~Writing(s)'
  BY CompletionLeavesEvidence DEF IInv, TypeOK
<1>2. /\ \A s \in Slot : (Spoilt(s)' <=> Spoilt(s)) /\ (Settled(s)' <=> Settled(s))
      /\ GenerationsOwned'
  BY <1>1, SpoiltSame DEF RInv
<1>3. RejectedAreSpoilt
  BY DEF RInv
<1>4. CASE mode' # "resume"
  BY <1>2, <1>4 DEF RInv, BehindSettled, RejectedAreSpoilt
<1>5. CASE mode' = "resume"
  <2>0. mode = "resume"
    BY <1>1, <1>5
  <2>1. CASE Reclassify
    <3>1. /\ pc' = "seal" /\ plan' = Inventory /\ pol' = pol /\ NothingUnresolved
          /\ replay' = [p \in Policies |-> "none"] /\ pc = "reclassify"
      BY <2>1 DEF Reclassify, ChecksHold
    <3>2. pol = 1
      BY <3>1 DEF PInv, CursorStarts
    <3>3. \A s \in Slot : plan'[s] = Classify(s) /\ Classify(s) \in {"reuse", "reject"}
      BY <3>1 DEF Inventory, NothingUnresolved
    <3>4. \A s \in Slot : plan'[s] = "reject" <=> Spoilt(s)
      BY <1>1, <3>3, InventorySays
    <3>5. \A p \in Policies : ~(p < pol')
      BY <3>1, <3>2 DEF Policies
    <3>6. RejectedAreSpoilt'
      BY <1>2, <3>1, <3>4, <3>5 DEF RejectedAreSpoilt, Sealing
    <3>7. QED
      BY <1>2, <3>1, <3>6 DEF RInv, BehindSettled, RunStages
  <2>2. CASE ClearPolicyCompletion
    <3>1. /\ pc = "seal" /\ UNCHANGED <<plan, replay>>
          /\ polMan' = [polMan EXCEPT ![pol] = "none"]
          /\ trace' = [trace EXCEPT ![pol] = FALSE]
      BY <2>2 DEF ClearPolicyCompletion, AfterSeal, GotoPolicy, Goto
    <3>2. \A p \in Policies : p < pol => p # pol
      BY <1>1 DEF Policies
    <3>3. \A p \in Policies : p < pol => polMan'[p] = polMan[p] /\ trace'[p] = trace[p]
      BY <1>1, <3>1, <3>2 DEF TypeOK
    <3>4. polMan'[pol] = "none"
      BY <1>1, <3>1 DEF TypeOK
    <3>5. ~trace'[pol]
      BY <1>1, <3>1, Zenon DEF TypeOK
    <3>6. \/ AfterSeal
          \/ pc' = "trace" /\ pol' = pol /\ ~PolicyRejected(pol)
      BY <2>2 DEF ClearPolicyCompletion, Goto
    <3>7. QED
      BY <1>1, <1>2, <1>3, <1>5, <2>0, <3>1, <3>3, <3>4, <3>5, <3>6, SealKeepsRejected
         DEF RInv, Sealing
  <2>3. CASE WritePolicyTrace \/ BeginPolicyManifest
    <3>1. /\ pc \in {"trace", "stamp"} /\ pc' \in {"stamp", "stamping"} /\ pol' = pol
          /\ UNCHANGED <<plan, replay>>
          /\ polMan' = polMan \/ polMan' = [polMan EXCEPT ![pol] = "torn"]
          /\ trace' = trace \/ trace' = [trace EXCEPT ![pol] = TRUE]
      BY <2>3 DEF WritePolicyTrace, BeginPolicyManifest, Goto
    <3>2. \A p \in Policies : p < pol => polMan'[p] = polMan[p] /\ trace'[p] = trace[p]
      BY <1>1, <3>1 DEF TypeOK, Policies
    <3>3. ~PolicyRejected(pol)
      BY <1>3, <2>0, <3>1 DEF RejectedAreSpoilt, Sealing
    <3>4. QED
      BY <1>1, <1>2, <1>3, <1>5, <2>0, <3>1, <3>2, <3>3, SealKeepsRejected DEF RInv, Sealing
  <2>4. CASE EndPolicyManifest
    <3>1. /\ pc = "stamping" /\ AfterSeal /\ UNCHANGED <<plan, replay, trace>>
          /\ polMan' = [polMan EXCEPT ![pol] = "ok"]
      BY <2>4 DEF EndPolicyManifest, AfterSeal, GotoPolicy
    <3>2. \A p \in Policies : p < pol => polMan'[p] = polMan[p] /\ trace'[p] = trace[p]
      BY <1>1, <3>1 DEF TypeOK, Policies
    <3>3. ~PolicyRejected(pol)
      BY <1>3, <2>0, <3>1 DEF RejectedAreSpoilt, Sealing
    <3>4. QED
      BY <1>1, <1>2, <1>3, <1>5, <2>0, <3>1, <3>2, <3>3, SealKeepsRejected DEF RInv, Sealing
  <2>5. CASE SkipReplay \/ BeginReplay \/ EndReplay
    <3>1. /\ pc \in {"replay", "replaying"} /\ pc' \in Closing
          /\ UNCHANGED <<plan, polMan, trace>>
          /\ \/ replay' = replay
             \/ replay' = [replay EXCEPT ![pol] = "partial"] /\ ~PolicyRejected(pol)
             \/ replay' = [replay EXCEPT ![pol] = "done"] /\ pc = "replaying"
      BY <2>5 DEF SkipReplay, BeginReplay, EndReplay, ReplayDue, AfterReplay, GotoPolicy, Goto,
         Closing, disk
    <3>2. pc = "replaying" => ~PolicyRejected(pol)
      BY <1>3, <2>0 DEF RejectedAreSpoilt, Closing
    <3>3. \A p \in Policies : PolicyRejected(p) => replay'[p] = replay[p]
      BY <1>1, <3>1, <3>2 DEF TypeOK
    <3>4. pc' = "replaying" => ~PolicyRejected(pol')
      BY <2>5 DEF SkipReplay, BeginReplay, EndReplay, ReplayDue, AfterReplay, GotoPolicy, Goto
    <3>5. QED
      BY <1>1, <1>2, <1>3, <1>5, <2>0, <3>1, <3>3, <3>4, CloseKeepsRejected DEF RInv, Closing
  <2>6. CASE BeginSuiteManifest
    <3>1. pc = "complete" /\ pc' = "completing" /\ UNCHANGED <<plan, polMan, trace, replay>>
      BY <2>6 DEF BeginSuiteManifest, Goto
    <3>2. QED
      BY <1>1, <1>2, <1>3, <1>5, <2>0, <3>1, CloseKeepsRejected DEF RInv, Closing
  <2>7. QED
    BY <1>5, <2>1, <2>2, <2>3, <2>4, <2>5, <2>6 DEF Completion, FinishRejected,
       EndSuiteManifest, Exit
<1>6. QED
  BY <1>4, <1>5

\* A resume starts with nothing behind it; a process that ends, damage and an
\* edit leave no resume at work, or what it knows alone.
LEMMA OthersResolve ==
    ASSUME IInv, PInv, RInv,
           StartLive \/ StartResume \/ Declare \/ StartPolicy \/ Refuse \/ Environment
    PROVE  RInv'
<1>1. TypeOK
  BY DEF IInv
<1>2. CASE StartLive \/ Declare \/ StartResume \/ StartPolicy
  <2>1. /\ UNCHANGED evidence /\ pc' \in RunStages \cup {"declare"}
        /\ \A s \in Slot : ~Writing(s) /\ ~Writing(s)'
    BY <1>2 DEF StartLive, Declare, StartResume, StartPolicy, Goto, FirstStageOfAttempt,
       disk, evidence, RunStages, Writing
  <2>2. GenerationsOwned' /\ \A s \in Slot : Settled(s)' <=> Settled(s)
    BY <2>1, SpoiltSame DEF RInv
  <2>3. CASE mode' # "resume"
    BY <2>2, <2>3 DEF RInv, BehindSettled, RejectedAreSpoilt
  <2>4. CASE mode' = "resume" /\ StartResume
    <3>1. \A s \in Slot : ~Behind(s)'
      BY <1>1, <2>4 DEF StartResume, PInv, CursorStarts, Behind, Slot, Policies, Attempts
    <3>2. pc' = "policy"
      BY <2>4 DEF StartResume
    <3>3. QED
      BY <2>2, <3>1, <3>2 DEF RInv, BehindSettled, RejectedAreSpoilt, Sealing, Closing
  <2>5. CASE mode' = "resume" /\ (StartPolicy \/ Declare)
    <3>1. mode = "resume" /\ pc = "policy" /\ UNCHANGED <<pol, att>>
      BY <2>5 DEF StartPolicy, Declare, Goto, IInv, ModeMatchesStage
    <3>2. pc' \in RunStages
      BY <2>5, <3>1 DEF StartPolicy, Declare, Goto, FirstStageOfAttempt, RunStages
    <3>3. QED
      BY <2>2, <3>1, <3>2 DEF RInv, BehindSettled, RejectedAreSpoilt, Behind, RunStages,
         Sealing, Closing
  <2>6. QED
    BY <1>2, <2>3, <2>4, <2>5 DEF StartLive
<1>3. CASE Refuse \/ GenerationIncomplete \/ Crash
  <2>1. UNCHANGED <<gen, fin>> /\ mode' = "none"
    BY <1>3 DEF Refuse, GenerationIncomplete, Crash, Exit, disk, evidence
  <2>2. QED
    BY <2>1 DEF RInv, GenerationsOwned, BehindSettled, RejectedAreSpoilt, IsModel
<1>4. CASE Damage
  <2>1. PICK s \in Slot : DamageAttempt(s)
    BY <1>4 DEF Damage
  <2>2. pc' = "idle"
    BY <1>4 DEF Damage, process
  <2>3. GenerationsOwned'
    BY <1>1, <2>1 DEF DamageAttempt, RInv, GenerationsOwned, IsModel, TypeOK
  <2>4. QED
    BY <2>2, <2>3 DEF RInv, BehindSettled, RejectedAreSpoilt, RunStages, Sealing, Closing
<1>5. CASE EditInput
  BY <1>5 DEF EditInput, disk, evidence, process, RInv, GenerationsOwned, BehindSettled,
     RejectedAreSpoilt, Settled, Behind, Spoilt, Writing, here, IsModel, PolicyRejected
<1>6. QED
  BY <1>2, <1>3, <1>4, <1>5 DEF Environment

LEMMA ResumeInductive == Spec => [](IInv /\ PInv /\ RInv)
<1>1. Init => RInv
  BY DEF Init, RInv, GenerationsOwned, BehindSettled, RejectedAreSpoilt
<1>2. IInv /\ PInv /\ RInv /\ UNCHANGED vars => RInv'
  BY SMTT(30) DEF vars, disk, evidence, process, RInv, GenerationsOwned, BehindSettled,
     RejectedAreSpoilt, Settled, Behind, Spoilt, Writing, here, IsModel, PolicyRejected
<1>3. IInv /\ PInv /\ RInv /\ Next => RInv'
  BY AttemptResolves, CompletionResolves, OthersResolve DEF Next, Process
<1>4. IInv /\ PInv /\ RInv /\ [Next]_vars => RInv'
  BY <1>2, <1>3
<1>5. QED
  BY <1>1, <1>4, ParentsInductive, PTL DEF Spec

\* The executor that has worked through all its decisions never finds an
\* attempt unresolved.
THEOREM NothingIsLeftOpen == Spec => []ResumeResolves
<1>1. IInv /\ PInv /\ RInv => ResumeResolves
  BY DEF ResumeResolves, RInv, BehindSettled, Settled, Sound, IInv, ModeMatchesStage
<1>2. QED
  BY <1>1, ResumeInductive, PTL

\* When a resume is about to end, exactly the policies with spoilt evidence
\* lack their manifest, trace and replay; every other policy is finished.
THEOREM RejectionStaysLocal == Spec => []RejectionIsLocal
<1>1. ASSUME IInv, PInv, RInv, pc = "complete", mode = "resume", NEW p \in Policies
      PROVE  IF \E a \in Attempts : Spoilt(<<p, a>>)
             THEN polMan[p] = "none" /\ ~trace[p] /\ replay[p] = "none"
             ELSE polMan[p] = "ok" /\ trace[p] /\ (p \in Replayed => replay[p] = "done")
  <2>1. (\E a \in Attempts : Spoilt(<<p, a>>)) <=> PolicyRejected(p)
    BY <1>1 DEF RInv, RejectedAreSpoilt, Closing, PolicyRejected, Slot
  <2>2. PolicyRejected(p) => polMan[p] = "none" /\ ~trace[p] /\ replay[p] = "none"
    BY <1>1 DEF RInv, RejectedAreSpoilt, Sealing, Closing
  <2>3. ~PolicyRejected(p) => polMan[p] = "ok" /\ (p \in Replayed => replay[p] = "done")
    BY <1>1 DEF PInv, PoliciesDone, PolicySealed, PolicyReplayed
  <2>4. polMan[p] = "ok" => trace[p]
    BY <1>1 DEF PInv, ParentsLast
  <2>5. QED
    BY <2>1, <2>2, <2>3, <2>4
<1>2. IInv /\ PInv /\ RInv => RejectionIsLocal
  BY <1>1 DEF RejectionIsLocal
<1>3. QED
  BY <1>2, ResumeInductive, PTL

-----------------------------------------------------------------------------
(***************************************************************************)
(* Drifted inputs.  An edit that is undone goes unnoticed.  The only such  *)
(* edits that matter are those that put back an input which the current    *)
(* run of some attempt has read drifted.                                   *)
(***************************************************************************)
\* No input is put back that an attempt has read drifted.
PutBackUnread == \A s \in Slot : taint[s] \cap drift \subseteq drift'

DriftSeen ==
    /\ \A s \in Slot : taint[s] \subseteq drift
    /\ suiteMan # "none" => \A s \in Slot : taint[s] = {}

\* What an attempt reads is what has drifted by then, and there is no attempt
\* any more once the suite manifest is started.
LEMMA DriftSeenStep ==
    ASSUME IInv, PInv, DriftSeen, [Next]_vars, [PutBackUnread]_vars
    PROVE  DriftSeen'
<1> USE DEF DriftSeen
<1>0. TypeOK /\ here \in Slot
  BY CursorType DEF IInv
<1>1. CASE EditInput
  <2>1. UNCHANGED <<suiteMan, taint>>
    BY <1>1 DEF EditInput, disk, history
  <2>2. \A s \in Slot : taint[s] \subseteq drift'
    BY DEF PutBackUnread, vars, env
  <2>3. QED
    BY <2>1, <2>2
<1>2. CASE LaunchAttempt \/ PublishGeneration \/ BeginAttemptManifest
  <2>1. UNCHANGED <<drift, suiteMan>> /\ suiteMan = "none"
    BY <1>2, NoSuiteYet DEF LaunchAttempt, PublishGeneration, BeginAttemptManifest, env
  <2>2. \A s \in Slot : taint'[s] \subseteq taint[s] \cup ReadDrifted
    BY <1>0, <1>2 DEF LaunchAttempt, PublishGeneration, BeginAttemptManifest, TypeOK
  <2>3. ReadDrifted \subseteq drift
    BY DEF ReadDrifted
  <2>4. QED
    BY <2>1, <2>2, <2>3
<1>3. CASE BeginSuiteManifest
  <2>1. UNCHANGED <<drift, taint>> /\ drift = {}
    BY <1>3 DEF BeginSuiteManifest, ChecksHold, DeclarationCurrent, env, history
  <2>2. QED
    BY <2>1
<1>4. CASE UNCHANGED <<drift, taint>> /\ (suiteMan # "none" \/ suiteMan' = suiteMan)
  BY <1>4
<1>5. \/ EditInput \/ LaunchAttempt \/ PublishGeneration \/ BeginAttemptManifest
      \/ BeginSuiteManifest
      \/ UNCHANGED <<drift, taint>> /\ (suiteMan # "none" \/ suiteMan' = suiteMan)
  BY DEF PInv, CursorStarts, vars, disk, env, history, Next, Process, Environment, Attempt,
     Completion, StartLive, StartResume, Declare, StartPolicy, SkipAttempt,
     FinishFromGeneration, ClearIncompleteAttempt, EndAttemptManifest, Reclassify,
     ClearPolicyCompletion, WritePolicyTrace, BeginPolicyManifest, EndPolicyManifest,
     SkipReplay, BeginReplay, EndReplay, FinishRejected, EndSuiteManifest, Refuse,
     GenerationIncomplete, Crash, Damage
<1>6. QED
  BY <1>1, <1>2, <1>3, <1>4, <1>5

\* A completed suite combines no attempt that ran over drifted tasks or a
\* drifted harness, however often inputs are edited, unless an input is put back
\* that an attempt has read drifted (validate_current_eval_suite_declaration
\* before the suite manifest).
THEOREM OnlyPutBackInputsMix ==
    Spec /\ [][PutBackUnread]_vars => []NoMixedSemantics
<1>1. Init => DriftSeen
  BY DEF Init, DriftSeen
<1>2. IInv /\ PInv /\ DriftSeen /\ [Next]_vars /\ [PutBackUnread]_vars => DriftSeen'
  BY DriftSeenStep
<1>3. DriftSeen => NoMixedSemantics
  BY DEF DriftSeen, NoMixedSemantics
<1>4. QED
  BY <1>1, <1>2, <1>3, ParentsInductive, PTL DEF Spec

EditsCounted == edits \in Nat /\ edits <= MaxEdits /\ (edits = 0 => drift = {})

\* In particular, inputs that are edited once stay edited.
THEOREM NothingMixed ==
    ASSUME MaxEdits <= 1
    PROVE  Spec => []NoMixedSemantics
<1>1. Init => EditsCounted
  BY DEF Init, EditsCounted
<1>2. EditsCounted /\ [Next]_vars => EditsCounted' /\ [PutBackUnread]_vars
  <2> SUFFICES ASSUME EditsCounted, [Next]_vars PROVE EditsCounted' /\ [PutBackUnread]_vars
    OBVIOUS
  <2>1. CASE EditInput
    <3>1. edits = 0 /\ edits' = 1 /\ drift = {} /\ MaxEdits \in Nat
      BY <2>1 DEF EditInput, EditsCounted
    <3>2. QED
      BY <2>1, <3>1 DEF EditInput, EditsCounted, PutBackUnread
  <2>2. CASE UNCHANGED <<edits, drift>>
    BY <2>2 DEF EditsCounted, PutBackUnread
  <2>3. EditInput \/ UNCHANGED <<edits, drift>>
    BY DEF vars, env, Next, Process, Environment, Attempt, Completion, StartLive,
       StartResume, Declare, StartPolicy, SkipAttempt, FinishFromGeneration,
       ClearIncompleteAttempt, LaunchAttempt, PublishGeneration, BeginAttemptManifest,
       EndAttemptManifest, Reclassify, ClearPolicyCompletion, WritePolicyTrace,
       BeginPolicyManifest, EndPolicyManifest, SkipReplay, BeginReplay, EndReplay,
       FinishRejected, BeginSuiteManifest, EndSuiteManifest, Refuse, GenerationIncomplete,
       Crash, Damage
  <2>4. QED
    BY <2>1, <2>2, <2>3
<1>3. QED
  BY <1>1, <1>2, OnlyPutBackInputsMix, PTL DEF Spec
=============================================================================
