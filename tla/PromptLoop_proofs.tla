------------------------- MODULE PromptLoop_proofs -------------------------
(***************************************************************************)
(* Theorems about PromptLoop: its types, the chain of workspace hashes and *)
(* what the status of a loop says, for every task and every model.         *)
(***************************************************************************)
EXTENDS PromptLoop, FiniteSetTheorems, TLAPS

USE LoopAssumption, WorkspaceAssumption

ErrorClasses == {Nothing} \cup RecoverableErrors \cup FatalErrors

\* A call that is turned down is turned down with an error of a known class.
LEMMA RefusalClass ==
    ASSUME NEW call, NEW w
    PROVE  Refusal(call, w) \in ErrorClasses
BY DEF Refusal, ErrorClasses, RecoverableErrors, FatalErrors

\* Writing one file, whichever, leaves a workspace.
LEMMA Overwrite ==
    ASSUME NEW w \in Workspaces, NEW f, NEW t \in Content
    PROVE  [w EXCEPT ![f] = t] \in Workspaces
BY DEF Workspaces

\* What write_file can leave, the failed write included.
LEMMA WriteLeavesWorkspace ==
    ASSUME NEW call \in Call, NEW w \in Workspaces, call.tool = "write_file"
    PROVE  /\ [w EXCEPT ![call.on] = call.text] \in Workspaces
           /\ [w EXCEPT ![call.on] = Empty] \in Workspaces
<1>1. call.text \in Content /\ Empty \in Content
  BY DEF Call, Content
<1>2. [w EXCEPT ![call.on] = call.text] \in Workspaces
  BY <1>1, Overwrite
<1>3. [w EXCEPT ![call.on] = Empty] \in Workspaces
  BY <1>1, Overwrite
<1>4. QED
  BY <1>2, <1>3

\* An outcome over a workspace is well-typed, with or without an error.
LEMMA OutcomeFields ==
    ASSUME NEW sees, NEW class \in ErrorClasses, NEW w \in Workspaces
    PROVE  /\ Ok(sees, w).ws \in Workspaces /\ Ok(sees, w).class \in ErrorClasses
           /\ Error(class, w).ws \in Workspaces /\ Error(class, w).class \in ErrorClasses
BY DEF Ok, Error, ErrorClasses

\* Whatever a tool does, it leaves a workspace, and an outcome of a known class.
LEMMA OutcomeType ==
    ASSUME NEW call \in Call, NEW w \in Workspaces, NEW outcome \in Outcomes(call, w)
    PROVE  outcome.ws \in Workspaces /\ outcome.class \in ErrorClasses
<1>1. CASE Refusal(call, w) # Nothing
  BY <1>1, RefusalClass, OutcomeFields DEF Outcomes
<1>2. CASE Refusal(call, w) = Nothing
  <2>1. "ToolExecutionError" \in ErrorClasses /\ "ToolTimeout" \in ErrorClasses
    BY DEF ErrorClasses, RecoverableErrors
  <2>2. CASE call.tool = "list_files"
    <3>1. outcome = Ok(Listed(w), w)
      BY <1>2, <2>2 DEF Outcomes
    <3>2. QED
      BY <2>1, <3>1, OutcomeFields
  <2>3. CASE call.tool = "read_file"
    <3>1. outcome = Ok(w[call.on], w)
      BY <1>2, <2>3 DEF Outcomes
    <3>2. QED
      BY <2>1, <3>1, OutcomeFields
  <2>4. CASE call.tool = "write_file"
    <3> DEFINE written == [w EXCEPT ![call.on] = call.text]
               emptied == [w EXCEPT ![call.on] = Empty]
    <3>1. written \in Workspaces /\ emptied \in Workspaces
      BY <2>4, WriteLeavesWorkspace
    <3>2. outcome = Ok("written", written) \/ outcome = Error("ToolExecutionError", emptied)
      BY <1>2, <2>4 DEF Outcomes
    <3> HIDE DEF written, emptied
    <3>3. QED
      BY <2>1, <3>1, <3>2, OutcomeFields
  <2>5. CASE call.tool = "run_tests"
    <3>1. \A v \in CheckRuns(w) : v \in Workspaces
      BY Overwrite DEF CheckRuns, Content
    <3>2. \/ \E passed \in {"passed", "failed"}, v \in CheckRuns(w) : outcome = Ok(passed, v)
          \/ \E v \in CheckRuns(w) : outcome = Error("ToolTimeout", v)
          \/ outcome = Error("ToolExecutionError", w)
      BY <1>2, <2>5 DEF Outcomes
    <3>3. QED
      BY <2>1, <3>1, <3>2, OutcomeFields
  <2>6. QED
    BY <2>2, <2>3, <2>4, <2>5 DEF Call
<1>3. QED
  BY <1>1, <1>2

-----------------------------------------------------------------------------
\* The type invariant is inductive once it says that a loop that runs has turns
\* left; the other theorems need the results to be a sequence, too.
LoopInv ==
    /\ LoopTypeOK
    /\ \E S : results \in Seq(S)
    /\ status = "running" => turns < MaxTurns

\* A loop that starts satisfies the invariant.
LEMMA LoopInvInit == LoopInit => LoopInv
<1> SUFFICES ASSUME LoopInit PROVE LoopInv
  OBVIOUS
<1>1. seed \in Workspaces /\ messages \in Seq(Message) /\ results \in Seq({})
  BY DEF LoopInit
<1>2. QED
  BY <1>1 DEF LoopInit, LoopInv, LoopTypeOK

\* A message of either role is one.
LEMMA MessageType ==
    ASSUME NEW id \in Nat, NEW call \in Call \cup {NoCall}
    PROVE  Says(call, id) \in Message /\ Observes(id) \in Message
BY DEF Says, Observes, Message

\* What running a call does to the workspace and the transcript.
RunsInto(call, outcome) ==
    /\ ws' = outcome.ws
    /\ results' = Append(results, ToolResult(call, ws, outcome))
    /\ messages' = messages \o <<Says(call, ToolCallId), Observes(ToolCallId)>>
    /\ status' = IF IsTerminalToolError(ToolResult(call, ws, outcome))
                 THEN "terminal_tool_error" ELSE NextStatus

\* RunTool runs one call, which names nothing private.
LEMMA RunToolTakesCall ==
    ASSUME RunTool
    PROVE  \E call \in Call : ~NamesPrivate(call) /\ \E outcome \in Outcomes(call, ws) :
                RunsInto(call, outcome)
BY DEF RunTool, RunsInto

\* Every turn keeps it.
LEMMA LoopInvTurn ==
    ASSUME LoopInv, Turn
    PROVE  LoopInv'
<1> USE DEF LoopInv, LoopTypeOK, StartTurn, Statuses
<1>1. PICK S : results \in Seq(S)
  OBVIOUS
<1>2. Len(results) \in Nat /\ ToolCallId \in Nat
  BY <1>1 DEF ToolCallId
<1>3. turns' \in 0..MaxTurns
  BY DEF Turn, GenerateRaises, AnswerEndsLoop, PrivateCall, HashFails, RunTool
<1>4. CASE GenerateRaises
  BY <1>3, <1>4 DEF GenerateRaises
<1>5. CASE AnswerEndsLoop
  BY <1>3, <1>5, MessageType DEF AnswerEndsLoop
<1>6. CASE PrivateCall
  BY <1>3, <1>6, MessageType DEF PrivateCall
<1>7. CASE HashFails
  <2>1. ws' \in Workspaces
    BY <1>7, OutcomeType DEF HashFails
  <2>2. messages' \in Seq(Message)
    BY <1>2, <1>7, MessageType DEF HashFails
  <2>3. QED
    BY <1>3, <1>7, <2>1, <2>2 DEF HashFails
<1>8. CASE RunTool
  <2>1. PICK call \in Call : ~NamesPrivate(call) /\ \E outcome \in Outcomes(call, ws) :
            RunsInto(call, outcome)
    BY <1>8, RunToolTakesCall
  <2>2. PICK outcome \in Outcomes(call, ws) : RunsInto(call, outcome)
    BY <2>1
  <2> DEFINE result == ToolResult(call, ws, outcome)
  <2>3. result.call \in Call /\ result.class \in ErrorClasses
    BY OutcomeType DEF ToolResult
  <2>4. results' \in Seq(S \cup {result})
    BY <1>1, <2>2 DEF RunsInto
  <2>5. \A i \in DOMAIN results' :
            results'[i].call \in Call /\ results'[i].class \in ErrorClasses
    BY <1>1, <2>2, <2>3 DEF ErrorClasses, RunsInto
  <2>6. messages' \in Seq(Message)
    <3>1. <<Says(call, ToolCallId), Observes(ToolCallId)>> \in Seq(Message)
      BY <1>2, MessageType
    <3>2. QED
      BY <2>2, <3>1 DEF RunsInto
  <2>7. ws' \in Workspaces
    BY <2>2, OutcomeType DEF RunsInto
  <2>8. status' \in Statuses \cup {"running"} /\ (status' = "running" => turns' < MaxTurns)
    BY <1>3, <1>8, <2>2 DEF RunTool, RunsInto, NextStatus
  <2>9. UNCHANGED seed /\ responses' \in Nat
    BY <1>8 DEF RunTool
  <2>10. QED
    BY <1>3, <2>4, <2>5, <2>6, <2>7, <2>8, <2>9 DEF ErrorClasses
<1>9. QED
  BY <1>4, <1>5, <1>6, <1>7, <1>8 DEF Turn

\* Every step of the loop keeps the invariant.
LEMMA LoopInvStep ==
    ASSUME LoopInv, [Turn]_loopVars
    PROVE  LoopInv'
<1>1. CASE UNCHANGED loopVars
  BY <1>1 DEF LoopInv, LoopTypeOK, loopVars
<1>2. QED
  BY <1>1, LoopInvTurn

\* The loop never takes a turn past its limit, and every variable keeps its type.
THEOREM LoopTypeCorrect == LoopSpec => []LoopTypeOK
<1>1. LoopInv /\ [Turn]_loopVars => LoopInv'
  BY LoopInvStep
<1>2. LoopInv => LoopTypeOK
  BY DEF LoopInv
<1>3. QED
  BY LoopInvInit, <1>1, <1>2, PTL DEF LoopSpec

-----------------------------------------------------------------------------
\* There is nothing to account for at the start.
LEMMA HashChainInit == LoopInit => HashChain
BY DEF LoopInit, HashChain

\* Every turn keeps the chain; a call the hashes failed around ends it.
LEMMA HashChainStep ==
    ASSUME LoopInv, HashChain, [Turn]_loopVars
    PROVE  HashChain'
<1> USE DEF HashChain
<1>1. PICK S : results \in Seq(S)
  BY DEF LoopInv
<1>2. CASE UNCHANGED loopVars \/ GenerateRaises \/ AnswerEndsLoop \/ PrivateCall
  <2>1. UNCHANGED <<seed, ws, results>> /\ (status # "orchestrator_error" \/ UNCHANGED status)
    BY <1>2 DEF loopVars, GenerateRaises, AnswerEndsLoop, PrivateCall, StartTurn
  <2>2. QED
    BY <2>1
<1>3. CASE HashFails
  BY <1>3 DEF HashFails
<1>4. CASE RunTool
  <2>0. PICK call \in Call : \E outcome \in Outcomes(call, ws) : RunsInto(call, outcome)
    BY <1>4, RunToolTakesCall
  <2>1. PICK outcome \in Outcomes(call, ws) : RunsInto(call, outcome)
    BY <2>0
  <2> DEFINE result == ToolResult(call, ws, outcome)
  <2>2. result.before = CanonicalHash(ws) /\ result.after = CanonicalHash(ws')
    BY <2>1 DEF ToolResult, RunsInto
  <2>3. results' = Append(results, result)
    BY <2>1 DEF RunsInto
  <2>4. status = "running" /\ UNCHANGED seed
    BY <1>4 DEF RunTool, StartTurn
  <2> HIDE DEF result
  <2>5. /\ Len(results') = Len(results) + 1 /\ results'[Len(results) + 1] = result
        /\ \A i \in DOMAIN results : results'[i] = results[i]
        /\ DOMAIN results = 1..Len(results) /\ DOMAIN results' = 1..Len(results')
    BY <1>1, <2>3
  <2>6. QED
    BY <1>1, <2>2, <2>4, <2>5
<1>5. QED
  BY <1>2, <1>3, <1>4 DEF Turn

\* The hashes of the results account for every change of the agent's workspace,
\* however many turns a task allows and whatever its checks do.
THEOREM HashesAccountForChanges == LoopSpec => []HashChain
<1>1. LoopInv /\ HashChain /\ [Turn]_loopVars => LoopInv' /\ HashChain'
  BY LoopInvStep, HashChainStep
<1>2. QED
  BY LoopInvInit, HashChainInit, <1>1, PTL DEF LoopSpec

-----------------------------------------------------------------------------
\* ExitExplained becomes inductive with what a loop that is not over, or that
\* ended in a turn without a result, has in common: how its counts relate.
ExitInv ==
    /\ \A i \in DOMAIN results :
        /\ ~NamesPrivate(results[i].call)
        /\ results[i].class \in FatalErrors =>
                i = Len(results) /\ status = "terminal_tool_error"
    /\ status = "terminal_tool_error" =>
            Len(results) > 0 /\ results[Len(results)].class \in FatalErrors
    /\ status \in {"running", "terminal_tool_error", "max_turns_exceeded"} =>
            Len(results) = turns /\ responses = turns
    /\ status \notin {"running", "terminal_tool_error", "max_turns_exceeded"} =>
            Len(results) = turns - 1 /\ responses \in {turns, turns - 1}
    /\ status = "max_turns_exceeded" => turns = MaxTurns

\* Nothing has ended at the start.
LEMMA ExitInvInit == LoopInit => ExitInv
BY DEF LoopInit, ExitInv

\* Every turn keeps what the status says.
LEMMA ExitInvStep ==
    ASSUME LoopInv, ExitInv, [Turn]_loopVars
    PROVE  ExitInv'
<1> USE DEF ExitInv
<1>1. PICK S : results \in Seq(S)
  BY DEF LoopInv
<1>2. turns \in Nat /\ responses \in Nat /\ Len(results) \in Nat
  BY <1>1 DEF LoopInv, LoopTypeOK
<1>3. CASE UNCHANGED loopVars
  BY <1>3 DEF loopVars
<1>4. CASE GenerateRaises \/ AnswerEndsLoop \/ PrivateCall \/ HashFails
  <2>1. /\ status = "running" /\ turns' = turns + 1 /\ UNCHANGED results
        /\ responses' \in {responses, responses + 1}
        /\ status' \notin {"running", "terminal_tool_error", "max_turns_exceeded"}
    BY <1>4 DEF GenerateRaises, AnswerEndsLoop, PrivateCall, HashFails, StartTurn
  <2>2. QED
    BY <1>2, <2>1
<1>5. CASE RunTool
  <2>1. PICK call \in Call : ~NamesPrivate(call) /\ \E outcome \in Outcomes(call, ws) :
            RunsInto(call, outcome)
    BY <1>5, RunToolTakesCall
  <2>2. PICK outcome \in Outcomes(call, ws) : RunsInto(call, outcome)
    BY <2>1
  <2> DEFINE result == ToolResult(call, ws, outcome)
  <2>3. result.call = call /\ result.class \in ErrorClasses
    BY OutcomeType DEF ToolResult, LoopInv, LoopTypeOK
  <2>4. IsTerminalToolError(result) <=> result.class \in FatalErrors
    BY <2>3 DEF IsTerminalToolError, ErrorClasses, RecoverableErrors, FatalErrors, Nothing
  <2>5. /\ results' = Append(results, result)
        /\ status' = IF IsTerminalToolError(result) THEN "terminal_tool_error" ELSE NextStatus
    BY <2>2 DEF RunsInto
  <2>6. status = "running" /\ turns' = turns + 1 /\ responses' = responses + 1
    BY <1>5 DEF RunTool, StartTurn
  <2> HIDE DEF result
  <2>7. /\ Len(results') = Len(results) + 1 /\ results'[Len(results) + 1] = result
        /\ \A i \in DOMAIN results : results'[i] = results[i]
        /\ DOMAIN results = 1..Len(results) /\ DOMAIN results' = 1..Len(results')
    BY <1>1, <2>5
  <2>8. \A i \in DOMAIN results' :
            /\ ~NamesPrivate(results'[i].call)
            /\ results'[i].class \in FatalErrors =>
                    i = Len(results') /\ status' = "terminal_tool_error"
    <3>1. ~NamesPrivate(result.call)
      BY <2>1, <2>3
    <3>2. QED
      BY <1>2, <2>4, <2>5, <2>6, <2>7, <3>1
  <2>9. status' \in {"running", "terminal_tool_error", "max_turns_exceeded"}
    BY <2>5 DEF NextStatus
  <2>10. status' = "terminal_tool_error" => result.class \in FatalErrors
    BY <2>4, <2>5 DEF NextStatus
  <2>11. status' = "max_turns_exceeded" => turns' = MaxTurns
    BY <2>5, <2>6 DEF NextStatus
  <2>12. QED
    BY <1>2, <2>6, <2>7, <2>8, <2>9, <2>10, <2>11
<1>6. QED
  BY <1>3, <1>4, <1>5 DEF Turn

\* The status of a loop says how its transcript ended: nothing private was run, a
\* fatal tool error is the last thing that happened, and a loop that ran out of
\* turns spent all of them on calls.
THEOREM StatusExplainsEnd == LoopSpec => []ExitExplained
<1>1. LoopInv /\ ExitInv /\ [Turn]_loopVars => LoopInv' /\ ExitInv'
  BY LoopInvStep, ExitInvStep
<1>2. LoopInv /\ ExitInv => ExitExplained
  <2> SUFFICES ASSUME LoopInv, ExitInv PROVE ExitExplained
    OBVIOUS
  <2> USE DEF ExitInv
  <2>1. /\ turns \in Nat /\ MaxTurns \in Nat
        /\ status = "running" => turns < MaxTurns
    BY DEF LoopInv, LoopTypeOK
  <2>2. status = "max_turns_exceeded" <=>
            turns = MaxTurns /\ Len(results) = turns /\ status # "terminal_tool_error"
    BY <2>1
  <2>3. /\ status \in {"running", "max_turns_exceeded"} => Len(results) = turns
        /\ responses \in {turns, turns - 1}
    BY <2>1
  <2>4. QED
    BY <2>2, <2>3 DEF ExitExplained
<1>3. QED
  BY LoopInvInit, ExitInvInit, <1>1, <1>2, PTL DEF LoopSpec

-----------------------------------------------------------------------------
(***************************************************************************)
(* The transcript.  TranscriptLinked is inductive by itself: a loop that   *)
(* runs has no call without its result.                                    *)
(***************************************************************************)
\* The tool messages can be counted.
LEMMA ToolMessagesFinite ==
    ASSUME LoopInv
    PROVE  IsFiniteSet(ToolMessages) /\ Cardinality(ToolMessages) \in Nat
<1>1. Len(messages) \in Nat /\ ToolMessages \in SUBSET (1..Len(messages))
  BY DEF LoopInv, LoopTypeOK, ToolMessages
<1>2. IsFiniteSet(1..Len(messages))
  BY <1>1, FS_Interval
<1>3. QED
  BY <1>1, <1>2, FS_Subset, FS_CardinalityType

\* A turn that ends the loop with a message without a call changes no pairing.
LEMMA LinkedOverAnswer ==
    ASSUME LoopInv, TranscriptLinked, status = "running", UNCHANGED results,
           NEW call \in Call \cup {NoCall}, messages' = Append(messages, Says(call, 0))
    PROVE  TranscriptLinked'
<1>1. messages \in Seq(Message) /\ Len(messages) \in Nat
  BY DEF LoopInv, LoopTypeOK
<1> DEFINE n == Len(messages)
<1>2. /\ DOMAIN messages = 1..n /\ DOMAIN messages' = 1..(n + 1)
      /\ \A i \in 1..n : messages'[i] = messages[i]
      /\ messages'[n + 1] = Says(call, 0)
  BY <1>1
<1>3. ToolMessages' = ToolMessages /\ CallsWithId' = CallsWithId
  BY <1>1, <1>2 DEF ToolMessages, CallsWithId, Says
<1>4. \A i \in ToolMessages : i \in 1..n /\ i - 1 \in 1..n
  BY <1>2 DEF TranscriptLinked, ToolMessages, CallsWithId
<1>5. \A i \in CallsWithId : i + 1 \in ToolMessages
  BY DEF TranscriptLinked
<1>6. QED
  BY <1>2, <1>3, <1>4, <1>5 DEF TranscriptLinked

\* A call whose result is lost with the hashes stays unanswered, the last.
LEMMA LinkedOverLostCall ==
    ASSUME LoopInv, TranscriptLinked, status = "running", HashFails
    PROVE  TranscriptLinked'
<1>1. /\ messages \in Seq(Message) /\ Len(messages) \in Nat /\ Len(results) \in Nat
      /\ UNCHANGED results /\ status' = "orchestrator_error"
  BY DEF LoopInv, LoopTypeOK, HashFails
<1> DEFINE n == Len(messages)
<1>2. PICK call \in Call : messages' = Append(messages, Says(call, Len(results) + 1))
  BY DEF HashFails, ToolCallId
<1>3. /\ DOMAIN messages = 1..n /\ DOMAIN messages' = 1..(n + 1) /\ Len(messages') = n + 1
      /\ \A i \in 1..n : messages'[i] = messages[i]
      /\ messages'[n + 1] = Says(call, Len(results) + 1)
  BY <1>1, <1>2
<1>4. ToolMessages' = ToolMessages /\ CallsWithId' = CallsWithId \cup {n + 1}
  BY <1>1, <1>3 DEF ToolMessages, CallsWithId, Says
<1>5. \A i \in ToolMessages : i \in 1..n /\ i - 1 \in 1..n
  BY <1>3 DEF TranscriptLinked, ToolMessages, CallsWithId
<1>6. \A i \in CallsWithId : i + 1 \in ToolMessages
  BY DEF TranscriptLinked
<1>7. messages'[n + 1].id = Len(results) + 1
  BY <1>3 DEF Says
<1>8. QED
  BY <1>1, <1>3, <1>4, <1>5, <1>6, <1>7 DEF TranscriptLinked

\* A call that is run and its result join the transcript as a pair.
LEMMA LinkedOverCall ==
    ASSUME LoopInv, TranscriptLinked, status = "running",
           NEW call \in Call, NEW outcome, RunsInto(call, outcome)
    PROVE  TranscriptLinked'
<1> DEFINE n == Len(messages)
           k == Len(results) + 1
           result == ToolResult(call, ws, outcome)
<1>0. PICK S : results \in Seq(S)
  BY DEF LoopInv
<1>1. messages \in Seq(Message) /\ n \in Nat /\ k \in Nat \ {0}
  BY <1>0 DEF LoopInv, LoopTypeOK
<1>2. /\ messages' = messages \o <<Says(call, k), Observes(k)>>
      /\ results' = Append(results, result) /\ result.call = call
  BY DEF RunsInto, ToolCallId, ToolResult
<1> HIDE DEF result
<1>3. /\ DOMAIN messages = 1..n /\ DOMAIN messages' = 1..(n + 2) /\ Len(messages') = n + 2
      /\ \A i \in 1..n : messages'[i] = messages[i]
      /\ messages'[n + 1] = Says(call, k) /\ messages'[n + 2] = Observes(k)
  <2>1. Says(call, k) \in Message /\ Observes(k) \in Message
    BY <1>1, MessageType
  <2>2. QED
    BY <1>1, <1>2, <2>1
<1>4. /\ Len(results') = k /\ DOMAIN results' = 1..k /\ DOMAIN results = 1..(k - 1)
      /\ results'[k] = result /\ \A i \in 1..(k - 1) : results'[i] = results[i]
  BY <1>0, <1>1, <1>2
<1>5. /\ messages'[n + 1].id = k /\ messages'[n + 2].id = k /\ messages'[n + 1].call = call
      /\ messages'[n + 1].role = "assistant" /\ messages'[n + 2].role = "tool"
  BY <1>3 DEF Says, Observes
<1>6. /\ ToolMessages' = ToolMessages \cup {n + 2} /\ n + 2 \notin ToolMessages
      /\ CallsWithId' = CallsWithId \cup {n + 1}
  BY SMTT(30), <1>1, <1>3, <1>5 DEF ToolMessages, CallsWithId
<1>7. Cardinality(ToolMessages') = k
  <2>1. Cardinality(ToolMessages) = k - 1
    BY <1>1 DEF TranscriptLinked
  <2>2. Cardinality(ToolMessages \cup {n + 2}) = Cardinality(ToolMessages) + 1
    BY <1>6, ToolMessagesFinite, FS_AddElement
  <2>3. QED
    BY <1>1, <1>6, <2>1, <2>2
<1>8. /\ \A i \in ToolMessages : /\ i \in 1..n /\ i - 1 \in 1..n
                                  /\ messages[i].id \in 1..(k - 1)
      /\ \A i \in CallsWithId : i \in 1..n /\ i + 1 \in ToolMessages
  BY <1>3, <1>4 DEF TranscriptLinked, ToolMessages, CallsWithId
<1>9. ASSUME NEW i \in ToolMessages'
      PROVE  /\ messages'[i].id \in DOMAIN results'
             /\ i - 1 \in CallsWithId' /\ messages'[i - 1].id = messages'[i].id
             /\ messages'[i - 1].call = results'[messages'[i].id].call
             /\ \A j \in ToolMessages' : j < i => messages'[j].id < messages'[i].id
  <2>1. CASE i \in ToolMessages
    <3>1. /\ messages'[i] = messages[i] /\ messages'[i - 1] = messages[i - 1]
          /\ results'[messages[i].id] = results[messages[i].id]
      BY <1>3, <1>4, <1>8, <2>1
    <3>2. /\ i - 1 \in CallsWithId /\ messages[i - 1].id = messages[i].id
          /\ messages[i - 1].call = results[messages[i].id].call
          /\ \A j \in ToolMessages : j < i => messages[j].id < messages[i].id
      BY <2>1 DEF TranscriptLinked
    <3>3. \A j \in ToolMessages' : j < i => j \in ToolMessages /\ messages'[j] = messages[j]
      BY <1>1, <1>3, <1>6, <1>8, <2>1
    <3>4. messages[i].id \in 1..(k - 1)
      BY <1>8, <2>1
    <3>5. messages'[i].id \in DOMAIN results'
      BY <1>1, <1>4, <3>1, <3>4
    <3>6. i - 1 \in CallsWithId'
      BY <1>6, <3>2
    <3>7. \A j \in ToolMessages' : j < i => messages'[j].id < messages'[i].id
      BY <3>1, <3>2, <3>3
    <3>8. QED
      BY <3>1, <3>2, <3>5, <3>6, <3>7
  <2>2. CASE i = n + 2
    <3>1. \A j \in ToolMessages' : j < i => j \in ToolMessages
      BY <1>1, <1>6, <2>2
    <3>2. \A j \in ToolMessages : messages'[j].id \in 1..(k - 1)
      BY <1>3, <1>8
    <3>3. \A j \in ToolMessages' : j < i => messages'[j].id < k
      BY <1>1, <3>1, <3>2
    <3>4. i - 1 = n + 1
      BY <1>1, <2>2
    <3>5. /\ messages'[i].id = k /\ messages'[i - 1].id = k /\ messages'[i - 1].call = call
          /\ i - 1 \in CallsWithId'
      BY <1>5, <1>6, <2>2, <3>4
    <3>6. k \in DOMAIN results' /\ results'[k].call = call
      BY <1>1, <1>2, <1>4
    <3>7. QED
      BY <3>3, <3>5, <3>6
  <2>3. QED
    BY <1>6, <2>1, <2>2
<1>10. \A i \in CallsWithId' : i + 1 \in ToolMessages'
  BY <1>1, <1>6, <1>8
<1>11. QED
  BY <1>4, <1>7, <1>9, <1>10 DEF TranscriptLinked

\* Downstream readers can pair calls and results by the transcript alone: the
\* i-th result belongs to the call with id i, whose tool message follows it at
\* once, and only a loop that could not hash its workspace leaves one unanswered.
THEOREM TranscriptsPairUp == LoopSpec => []TranscriptLinked
<1>1. LoopInit => TranscriptLinked
  <2> SUFFICES ASSUME LoopInit PROVE TranscriptLinked
    OBVIOUS
  <2>1. ToolMessages = {} /\ CallsWithId = {} /\ Len(results) = 0
    BY DEF LoopInit, ToolMessages, CallsWithId
  <2>2. QED
    BY <2>1, FS_EmptySet DEF TranscriptLinked
<1>2. LoopInv /\ TranscriptLinked /\ [Turn]_loopVars => TranscriptLinked'
  <2> SUFFICES ASSUME LoopInv, TranscriptLinked, [Turn]_loopVars PROVE TranscriptLinked'
    OBVIOUS
  <2>1. CASE UNCHANGED loopVars
    BY <2>1 DEF loopVars, TranscriptLinked, ToolMessages, CallsWithId
  <2>2. CASE GenerateRaises
    BY <2>2 DEF GenerateRaises, StartTurn, TranscriptLinked, ToolMessages, CallsWithId
  <2>3. CASE AnswerEndsLoop \/ PrivateCall
    BY <2>3, LinkedOverAnswer DEF AnswerEndsLoop, PrivateCall, StartTurn
  <2>4. CASE HashFails
    BY <2>4, LinkedOverLostCall DEF HashFails, StartTurn
  <2>5. CASE RunTool
    BY <2>5, RunToolTakesCall, LinkedOverCall DEF RunTool, StartTurn
  <2>6. QED
    BY <2>1, <2>2, <2>3, <2>4, <2>5 DEF Turn
<1>3. QED
  BY LoopInvInit, LoopInvStep, <1>1, <1>2, PTL DEF LoopSpec
=============================================================================
