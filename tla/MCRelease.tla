------------------------------ MODULE MCRelease ------------------------------
(* An instance of Release for TLC. *)
EXTENDS Release

CONSTANTS t1, t2, c1, k1, oracle, happy

MCCases == [l \in Layers |-> {c1}]
\* The case runs on the first task, and once edited on the second, if there is one.
MCCaseTask == [c \in {c1} |-> [v \in Version |-> IF v = 1 \/ t2 \notin Tasks THEN t1 ELSE t2]]
MCChecks == [t \in Tasks |-> IF t = t1 THEN {k1} ELSE {}]

Ran(after, result) == [failed |-> FALSE, before |-> "w", after |-> after, result |-> result]
Failed == [failed |-> TRUE, before |-> "w", after |-> "w", result |-> "none"]

\* Two runs: alike, with a workspace or a result that changed, or one that failed.
MCCheckRuns == {<<Ran("w", "r"), Ran("w", second)>> : second \in {"r", "s"}}
               \cup {<<Ran("w", "r"), Ran("v", "r")>>, <<Ran("w", "r"), Failed>>}

\* By task; within it the checks, and each control with its repeats.
MCRank == [i \in Item |-> 100 * (IF i.task = t1 THEN 0 ELSE 1)
                          + 10 * (IF i.part = k1 THEN 0 ELSE IF i.part = oracle THEN 1 ELSE 2) + i.repeat]
=============================================================================
