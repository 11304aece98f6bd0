----------------------------- MODULE PromptLoop -----------------------------
(***************************************************************************)
(* The prompt loop of one agent task (agents/loop.py) and the tools it     *)
(* runs in the agent's workspace (tools/local_tools.py).                   *)
(*                                                                         *)
(* A turn asks the model once and runs at most one tool call, so a turn is *)
(* one step.  What the model answers is any answer at all.  A public check *)
(* runs the agent's own code: it may end any way and may write files.      *)
(***************************************************************************)
EXTENDS Workspace

CONSTANTS
    MaxTurns,       \* the task's turn limit, or its override
    AllowedTools,   \* the tools the task allows
    Check,          \* the commands of the task's public checks
    CheckWrites,    \* bound: files a running check may write
    Seeds           \* bound: the workspaces a task may start from

Tools == {"list_files", "read_file", "write_file", "run_tests"}

ASSUME LoopAssumption ==
    /\ MaxTurns \in Nat \ {0}
    /\ AllowedTools \subseteq Tools
    /\ CheckWrites \subseteq File
    /\ Seeds \subseteq Workspaces

VARIABLES
    seed,           \* the task's seed workspace
    ws,             \* the agent's workspace
    turns,          \* turns_executed
    messages,       \* the assistant and tool messages, in order
    responses,      \* how many responses the model gave
    results,        \* tool_results
    status          \* "running", or the prompt loop's status

transcript == <<turns, messages, responses, results, status>>
loopVars == <<seed, ws, turns, messages, responses, results, status>>

Statuses == {"completed", "max_turns_exceeded", "model_error", "invalid_model_output",
             "invalid_shortcut_attempted", "terminal_tool_error", "orchestrator_error"}

\* A call's "on" is what its arguments name: a file, a public check, a path out
\* of the workspace, a path that leads nowhere, or nothing valid at all.
Nothing == "none"
Wrong == {"invalid", "outside", "nowhere"}
Call ==
    [tool : {"list_files"}, on : {"root"} \cup Wrong, text : {Nothing}]
        \cup [tool : {"read_file"}, on : File \cup Wrong, text : {Nothing}]
        \cup [tool : {"write_file"}, on : File \cup Wrong, text : Text \cup {Empty}]
        \cup [tool : {"run_tests"}, on : Check \cup {"invalid", "nowhere"}, text : {Nothing}]

\* What a message without a call shows.
NoCall == [tool |-> Nothing, on |-> Nothing, text |-> Nothing]

RecoverableErrors == {"InvalidToolInput", "ToolExecutionError", "ToolTimeout"}
FatalErrors == {"ToolNotAllowed", "UnsafePath", "CommandNotAllowed"}

\* An assistant message shows the call it makes, if it makes one, and carries
\* the id of the call once the call is accepted; 0 stands for no id.
Message ==
    [role : {"assistant"}, id : Nat, call : Call \cup {NoCall}]
        \cup [role : {"tool"}, id : Nat, call : {NoCall}]

\* The type invariant.
LoopTypeOK ==
    /\ seed \in Seeds
    /\ ws \in Workspaces
    /\ turns \in 0..MaxTurns
    /\ messages \in Seq(Message)
    /\ responses \in Nat
    /\ \A i \in DOMAIN results :
        /\ results[i].call \in Call
        /\ results[i].class \in {Nothing} \cup RecoverableErrors \cup FatalErrors
    /\ status \in Statuses \cup {"running"}

LoopInit ==
    /\ seed \in Seeds /\ ws = seed
    /\ turns = 0 /\ messages = <<>> /\ responses = 0 /\ results = <<>>
    /\ status = "running"

-----------------------------------------------------------------------------
(***************************************************************************)
(* Tools.                                                                  *)
(***************************************************************************)
\* Why a call is turned down before anything runs, in the order of the checks;
\* "none" when it is not.
Refusal(call, w) ==
    CASE call.tool \notin AllowedTools -> "ToolNotAllowed"
      [] call.on = "invalid" -> "InvalidToolInput"
      [] call.on = "outside" -> "UnsafePath"
      [] call.tool = "run_tests" /\ call.on \notin Check -> "CommandNotAllowed"
      [] call.on = "nowhere" -> "ToolExecutionError"
      [] call.tool = "read_file" /\ w[call.on] = Absent -> "ToolExecutionError"
      [] OTHER -> Nothing

Ok(observation, w) == [class |-> Nothing, sees |-> observation, ws |-> w]
Error(class, w) == [class |-> class, sees |-> Nothing, ws |-> w]

\* What a check can leave behind.
CheckRuns(w) == {w} \cup {[w EXCEPT ![f] = t] : f \in CheckWrites, t \in Text}

\* list_files passes over the directories the hash does not look at.
Listed(w) == Present(w) \ (CacheFile \cup BuildFile)

\* Whether the command passed is all the model sees of a run.  A write that
\* fails may have emptied the file.
Outcomes(call, w) ==
    IF Refusal(call, w) # Nothing THEN {Error(Refusal(call, w), w)}
    ELSE CASE call.tool = "list_files" -> {Ok(Listed(w), w)}
           [] call.tool = "read_file" -> {Ok(w[call.on], w)}
           [] call.tool = "write_file" ->
                {Ok("written", [w EXCEPT ![call.on] = call.text]),
                 Error("ToolExecutionError", [w EXCEPT ![call.on] = Empty])}
           [] call.tool = "run_tests" ->
                {Ok(passed, v) : passed \in {"passed", "failed"}, v \in CheckRuns(w)}
                    \cup {Error("ToolTimeout", v) : v \in CheckRuns(w)}
                    \cup {Error("ToolExecutionError", w)}

\* Faulty: the hash before the call is taken when the call is over.
ToolResult_HashesLate(call, w, outcome) ==
    [call |-> call, class |-> outcome.class, sees |-> outcome.sees,
     before |-> CanonicalHash(outcome.ws), after |-> CanonicalHash(outcome.ws)]

ToolResult(call, w, outcome) ==
    [call |-> call, class |-> outcome.class, sees |-> outcome.sees,
     before |-> CanonicalHash(w), after |-> CanonicalHash(outcome.ws)]

\* Faulty: no tool error ends the loop.
IsTerminalToolError_Never(result) == FALSE

IsTerminalToolError(result) == result.class \notin {Nothing} \cup RecoverableErrors

-----------------------------------------------------------------------------
(***************************************************************************)
(* A turn.                                                                 *)
(***************************************************************************)
Says(call, id) == [role |-> "assistant", id |-> id, call |-> call]
Observes(id) == [role |-> "tool", id |-> id, call |-> NoCall]

StartTurn == status = "running" /\ turns' = turns + 1

\* Faulty: one turn too many.
NextStatus_AfterLimit == IF turns = MaxTurns THEN "max_turns_exceeded" ELSE "running"

\* The status the loop has when the turn leaves it running: the for loop ends
\* after the last turn.
NextStatus == IF turns + 1 = MaxTurns THEN "max_turns_exceeded" ELSE "running"

\* The private text a call's arguments carry, if any.
NamesPrivate(call) == call.text \in Private

\* generate raises: the turn counts, and there is no message for it.
GenerateRaises ==
    /\ StartTurn
    /\ status' = "model_error"
    /\ UNCHANGED <<seed, ws, messages, responses, results>>

\* The model answers, and the answer ends the loop without a call: a generation
\* stopped for another reason than its stop criteria, an answer that is no
\* action, or the final one.
AnswerEndsLoop ==
    /\ StartTurn
    /\ responses' = responses + 1
    /\ messages' = Append(messages, Says(NoCall, 0))
    /\ status' \in {"model_error", "invalid_model_output", "completed"}
    /\ UNCHANGED <<seed, ws, results>>

\* The guard looks at the call before it is given an id.
PrivateCall ==
    /\ StartTurn
    /\ responses' = responses + 1
    /\ \E call \in Call : NamesPrivate(call) /\ messages' = Append(messages, Says(call, 0))
    /\ status' = "invalid_shortcut_attempted"
    /\ UNCHANGED <<seed, ws, results>>

\* Faulty: ids are numbered by turn messages, tool messages by results.
ToolCallId_ByMessage == Len(messages) + 1

ToolCallId == Len(results) + 1

\* The workspace cannot be hashed, before the call or after it: the call stays
\* without a result, whatever it did.
HashFails ==
    /\ StartTurn
    /\ responses' = responses + 1
    /\ \E call \in Call :
        /\ ~NamesPrivate(call)
        /\ messages' = Append(messages, Says(call, ToolCallId))
        /\ \/ ws' = ws
           \/ \E outcome \in Outcomes(call, ws) : ws' = outcome.ws
    /\ status' = "orchestrator_error"
    /\ UNCHANGED <<seed, results>>

RunTool ==
    /\ StartTurn
    /\ responses' = responses + 1
    /\ \E call \in Call : ~NamesPrivate(call) /\ \E outcome \in Outcomes(call, ws) :
        LET result == ToolResult(call, ws, outcome) IN
        /\ ws' = outcome.ws
        /\ results' = Append(results, result)
        /\ messages' = messages \o <<Says(call, ToolCallId), Observes(ToolCallId)>>
        /\ status' = IF IsTerminalToolError(result) THEN "terminal_tool_error" ELSE NextStatus
    /\ UNCHANGED seed

Turn == GenerateRaises \/ AnswerEndsLoop \/ PrivateCall \/ HashFails \/ RunTool

LoopSpec == LoopInit /\ [][Turn]_loopVars

-----------------------------------------------------------------------------
(***************************************************************************)
(* Safety.                                                                 *)
(***************************************************************************)
CallsWithId == {i \in DOMAIN messages : messages[i].role = "assistant" /\ messages[i].id # 0}
ToolMessages == {i \in DOMAIN messages : messages[i].role = "tool"}

\* Everything downstream pairs calls and results by the transcript alone
\* (redundancy_detection.py, tool_messages.py): the i-th result belongs to the
\* call with id i, whose tool message follows it at once; only a loop that ends
\* because the workspace could not be hashed leaves a call unanswered, the last.
TranscriptLinked ==
    /\ Cardinality(ToolMessages) = Len(results)
    /\ \A i \in ToolMessages :
        /\ messages[i].id \in DOMAIN results
        /\ i - 1 \in CallsWithId /\ messages[i - 1].id = messages[i].id
        /\ messages[i - 1].call = results[messages[i].id].call
        /\ \A j \in ToolMessages : j < i => messages[j].id < messages[i].id
    /\ \A i \in CallsWithId :
        \/ i + 1 \in ToolMessages
        \/ i = Len(messages) /\ status = "orchestrator_error"
                /\ messages[i].id = Len(results) + 1

\* The recorded hashes account for every change of the workspace between the
\* seed and what a candidate patch is made from: none happens outside a call,
\* and a call that was turned down changed nothing.
HashChain ==
    /\ \A i \in DOMAIN results :
        results[i].before = IF i = 1 THEN CanonicalHash(seed) ELSE results[i - 1].after
    /\ status # "orchestrator_error" =>
        CanonicalHash(ws) = IF results = <<>> THEN CanonicalHash(seed)
                            ELSE results[Len(results)].after

\* The status says how the transcript ended: a fatal tool error is the last
\* thing that happens and nothing private was ever run; a loop that ran out of
\* turns spent every one of them on a call.
ExitExplained ==
    /\ \A i \in DOMAIN results :
        /\ ~NamesPrivate(results[i].call)
        /\ results[i].class \in FatalErrors =>
                i = Len(results) /\ status = "terminal_tool_error"
    /\ status = "terminal_tool_error" => results[Len(results)].class \in FatalErrors
    /\ status \in {"running", "max_turns_exceeded"} => Len(results) = turns
    /\ status = "max_turns_exceeded" <=> turns = MaxTurns /\ Len(results) = turns
            /\ status # "terminal_tool_error"
    /\ responses \in {turns, turns - 1}
=============================================================================
