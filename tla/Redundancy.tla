----------------------------- MODULE Redundancy -----------------------------
(***************************************************************************)
(* Mechanically redundant tool calls: how they are found in the transcript *)
(* of a prompt loop (training/repairs/redundancy_detection.py) and what    *)
(* deleting them leaves (training/repairs/redundancy_repair.py).           *)
(*                                                                         *)
(* A transcript is its messages and its tool results; the loop of          *)
(* PromptLoop provides every transcript there is.                          *)
(***************************************************************************)
EXTENDS PromptLoop

CONSTANTS
    Idempotent,     \* the checks the task declares idempotent
    Calibrated,     \* those with a trusted calibration that says so
    Ambiguous       \* commands that more than one public check has

ASSUME RedundancyAssumption == Idempotent \cup Calibrated \cup Ambiguous \subseteq Check

-----------------------------------------------------------------------------
(***************************************************************************)
(* Detection.                                                              *)
(***************************************************************************)
\* The k-th of a set of positions, and what stands at the positions, in order.
Nth(P, k) == CHOOSE i \in P : Cardinality({j \in P : j <= i}) = k
At(s, P) == [k \in 1 .. Cardinality(P) |-> s[Nth(P, k)]]

IdsAt(ms, P) == [k \in 1 .. Cardinality(P) |-> ms[Nth(P, k)].id]

ToolIds(ms) == IdsAt(ms, {i \in DOMAIN ms : ms[i].role = "tool"})
AssistantIds(ms) == IdsAt(ms, {i \in DOMAIN ms : ms[i].role = "assistant" /\ ms[i].id # 0})

Members(s) == {s[i] : i \in DOMAIN s}
Distinct(s) == \A i, j \in DOMAIN s : s[i] = s[j] => i = j

\* The call is the one the result is of; the arguments of a call that did not
\* succeed are not looked at.
IsResultOf(r, call) == call.tool = r.call.tool /\ (r.class = Nothing => call = r.call)

\* _load_executed_tool_calls: results, tool messages and calls belong together.
EvidenceAligned(ms, rs) ==
    /\ Len(ToolIds(ms)) = Len(rs)
    /\ Distinct(ToolIds(ms)) /\ Distinct(AssistantIds(ms))
    /\ Members(ToolIds(ms)) \subseteq Members(AssistantIds(ms))
    /\ \A k \in DOMAIN rs, i \in DOMAIN ms :
        ms[i].role = "assistant" /\ ms[i].id = ToolIds(ms)[k] => IsResultOf(rs[k], ms[i].call)

SameSuccessfulCall(r, s) == r.class = Nothing /\ s.class = Nothing /\ r.call = s.call

\* Faulty: what the call did to the workspace is not looked at.
RepeatedObservationIsStable_SeesOnly(r, s) == s.sees = r.sees

RepeatedObservationIsStable(r, s) ==
    s.before = r.after /\ s.after = r.after /\ s.sees = r.sees

IsTestRun(r) == r.call.tool = "run_tests"

\* _public_check_index_for_redundancy: a repeated test run counts only if the
\* task says the check is idempotent, and then it must be calibrated as such
\* and must have left the workspace alone.
TestRunVerdict(r) ==
    CASE ~IsTestRun(r) -> "comparable"
      [] IsTestRun(r) /\ r.call.on \in Ambiguous -> "error"
      [] IsTestRun(r) /\ r.call.on \notin Idempotent -> "skipped"
      [] IsTestRun(r) /\ r.call.on \notin Calibrated -> "error"
      [] IsTestRun(r) /\ r.before # r.after -> "error"
      [] OTHER -> "comparable"

\* Faulty: a block is never longer than one repetition.
BlockEnd_FirstRepeat(rs, i) == i + 1

\* The last of the calls that repeat call i without a break.
BlockEnd(rs, i) ==
    CHOOSE j \in i + 1 .. Len(rs) :
        /\ \A k \in i + 1 .. j :
            SameSuccessfulCall(rs[i], rs[k]) /\ RepeatedObservationIsStable(rs[i], rs[k])
        /\ j < Len(rs) =>
            ~(SameSuccessfulCall(rs[i], rs[j + 1])
                /\ RepeatedObservationIsStable(rs[i], rs[j + 1]))

Incomplete == [complete |-> FALSE, blocks |-> {}]
NoBlocks == [complete |-> TRUE, blocks |-> {}]
WithBlock(first, last, rest) ==
    [complete |-> rest.complete,
     blocks |-> IF rest.complete THEN {<<first, last>>} \cup rest.blocks ELSE {}]

\* What _detect_redundant_blocks finds from call i on, given what it finds from
\* each later call on; a test run that repeats and is not stable is an error, any
\* other repetition is then none.
ScanFrom(rs, found, i) ==
    IF i + 1 > Len(rs) THEN NoBlocks
    ELSE IF ~SameSuccessfulCall(rs[i], rs[i + 1]) \/ TestRunVerdict(rs[i]) = "skipped"
    THEN found[i + 1]
    ELSE IF TestRunVerdict(rs[i]) = "error" THEN Incomplete
    ELSE IF ~RepeatedObservationIsStable(rs[i], rs[i + 1])
    THEN IF IsTestRun(rs[i]) THEN Incomplete ELSE found[i + 1]
    ELSE LET last == BlockEnd(rs, i) IN
         IF last < Len(rs) /\ SameSuccessfulCall(rs[i], rs[last + 1]) /\ IsTestRun(rs[i])
         THEN Incomplete
         ELSE WithBlock(i, last, found[last + 1])

Detect(rs) ==
    LET found[i \in 1 .. Len(rs) + 1] == ScanFrom(rs, found, i) IN found[1]

\* Any exception makes the assessment incomplete.
Assess(ms, rs) == IF EvidenceAligned(ms, rs) THEN Detect(rs) ELSE Incomplete

-----------------------------------------------------------------------------
(***************************************************************************)
(* Repair.                                                                 *)
(***************************************************************************)
RedundantIds(ms, rs) ==
    {ToolIds(ms)[i] : i \in UNION {b[1] + 1 .. b[2] : b \in Assess(ms, rs).blocks}}

BaselineIds(ms, rs) == {ToolIds(ms)[b[1]] : b \in Assess(ms, rs).blocks}

\* _validate_repair_message_pairs
PairsAdjacent(ms, ids) ==
    \A id \in ids :
        \E i \in DOMAIN ms :
            /\ {j \in DOMAIN ms : ms[j].id = id} = {i, i + 1}
            /\ ms[i].role = "assistant" /\ ms[i + 1].role = "tool"

RepairedMessages(ms, rs) ==
    At(ms, {i \in DOMAIN ms : ms[i].id \notin RedundantIds(ms, rs)})

\* Results go by the ids of their tool messages.
RepairedResults(ms, rs) ==
    At(rs, {i \in DOMAIN rs : ToolIds(ms)[i] \notin RedundantIds(ms, rs)})

\* _validate_complete_tool_linkage; the ids are distinct.
LinkageComplete(ms) == Members(AssistantIds(ms)) = Members(ToolIds(ms))

\* There is something to repair, and the deletion goes through.
Repairable(ms, rs) == Assess(ms, rs).complete /\ Assess(ms, rs).blocks # {}

Deletable(ms, rs) ==
    /\ PairsAdjacent(ms, RedundantIds(ms, rs) \cup BaselineIds(ms, rs))
    /\ Len(ToolIds(ms)) = Len(rs)
    /\ LinkageComplete(RepairedMessages(ms, rs))

RepairCompletes(ms, rs) ==
    /\ Repairable(ms, rs) /\ Deletable(ms, rs)
    /\ Assess(RepairedMessages(ms, rs), RepairedResults(ms, rs)) = NoBlocks

-----------------------------------------------------------------------------
(***************************************************************************)
(* Safety, over the transcripts of ended loops.                            *)
(***************************************************************************)
Ended == status # "running"

\* One deletion is enough: whatever the detector found, the transcript without
\* it is complete and free of redundancy, so the checks after the repair only
\* ever refuse a loop that broke off with an unanswered call.
RepairConverges ==
    Ended /\ Repairable(messages, results) =>
        (RepairCompletes(messages, results) <=> LinkageComplete(messages))

\* A repaired transcript could have happened: its calls run one after another
\* from the seed, each in the workspace the one before it left, to the same
\* workspace; and a call that was deleted showed the model nothing that the call
\* kept for it, in that very workspace, had not shown.
RepairReplayable ==
    Ended /\ RepairCompletes(messages, results) =>
        LET rs == RepairedResults(messages, results) IN
        /\ \A i \in DOMAIN rs :
            rs[i].before = IF i = 1 THEN CanonicalHash(seed) ELSE rs[i - 1].after
        /\ rs[Len(rs)].after = results[Len(results)].after
        /\ Len(rs) + Cardinality(RedundantIds(messages, results)) = Len(results)
        /\ \A b \in Detect(results).blocks : \A i \in b[1] + 1 .. b[2] :
            /\ results[i].call = results[b[1]].call
            /\ results[i].sees = results[b[1]].sees
            /\ results[i].before = results[b[1]].after
=============================================================================
