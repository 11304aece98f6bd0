---------------------------- MODULE MCAgentTask ----------------------------
(***************************************************************************)
(* Agent attempts over a task with a module, a test file and a file its    *)
(* seed lacks.  "crlf" is "old" with other line ends; "ragged" has a line  *)
(* break that only Python sees, where "secret" is as "ragged" is.          *)
(***************************************************************************)
EXTENDS Trajectory

SeedWith(text) ==
    [f \in File |-> CASE f \in TestFile -> "old"
                      [] f = "module" -> text
                      [] OTHER -> Absent]

\* An added file can hold what looks like a result.
Formatting == {<<"old", "ragged">>}

ReadByPython == [t \in Text |-> IF t = "crlf" THEN "old" ELSE t]

\* Every hunk of "crlf" quotes a line of it, and so does every hunk of "ragged"
\* but the one that makes it "secret".
GitApply ==
    [c \in Content |-> [t \in Content |->
        IF t = Absent \/ c = "crlf" \/ (c = "ragged" /\ t # "secret")
        THEN Refused ELSE t]]

AllSeeds == {SeedWith("old"), SeedWith("ragged"), SeedWith("crlf")}
Plain == {SeedWith("old")}
=============================================================================
