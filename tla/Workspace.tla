----------------------------- MODULE Workspace -----------------------------
(***************************************************************************)
(* A task's workspace as the harness looks at it: the canonical hash the   *)
(* tools take (hashing.py), the diff a candidate patch is made of          *)
(* (runners/diff_runner.py), and what git apply makes of such a patch.     *)
(*                                                                         *)
(* A workspace maps each path to what the file there holds.  The paths a   *)
(* model names are files whose directories exist.                          *)
(***************************************************************************)
EXTENDS Integers, Sequences, FiniteSets

CONSTANTS
    File,       \* the paths of the model
    TestFile,   \* those under tests/
    CacheFile,  \* those no comparison looks at: __pycache__ and the like
    BuildFile,  \* build, dist: not hashed, and yet in the diff
    BytecodeFile, \* other .pyc, .pyo: hashed, and not in the diff
    LockFile,   \* uv.lock: in the diff only where the seed has one
    Text,       \* what a file can hold
    Unix,       \* [text -> the text as Python reads it, its line ends LF]
    Git,        \* [file, lines it is to have -> what git apply makes of it]
    Private     \* texts that name a hidden validator or the canary

Empty == "empty"
Absent == "absent"
Refused == "refused"
Content == Text \cup {Empty, Absent}

\* _read_lines: a file that is not there reads as one without lines.
Lines(content) == IF content \in Text THEN Unix[content] ELSE Empty

\* Read as it is: every line of it ends in LF.
LF(content) == content = Absent \/ Lines(content) = content

\* Python reads LF text as it is.  The lines that a patch leaves alone keep
\* their ends, the others come with LF.
LineEnds ==
    /\ Unix \in [Text -> Text] /\ \A t \in Text : Unix[Unix[t]] = Unix[t]
    /\ Git \in [Content -> [Content -> Content \cup {Refused}]]
    /\ \A c, t \in Content : Git[c][t] # Refused =>
          /\ Git[c][t] # Absent /\ Lines(Git[c][t]) = Lines(t)
          /\ LF(c) /\ LF(t) => Git[c][t] = Lines(t)

ASSUME WorkspaceAssumption ==
    /\ TestFile \cup CacheFile \cup BuildFile \cup BytecodeFile \cup LockFile \subseteq File
    /\ Private \subseteq Text
    /\ {Empty, Absent, Refused} \cap Text = {}
    /\ IsFiniteSet(File)
    /\ LineEnds

Workspaces == [File -> Content]

Present(ws) == {f \in File : ws[f] # Absent}

-----------------------------------------------------------------------------
\* Paths and exact contents of the files that are there, noisy ones left out.
\* Equality of hashes is taken for equality of what is hashed.
CanonicalHash(ws) == [f \in Present(ws) \ (CacheFile \cup BuildFile) |-> ws[f]]

DiffedFiles(before) ==
    {f \in File \ (CacheFile \cup BytecodeFile) : f \in LockFile => before[f] # Absent}

\* Faulty: a file the seed does not have is not compared.
RenderDiff_OnlySeedFiles(before, after) ==
    [f \in {g \in DiffedFiles(before) \cap Present(before) : Lines(before[g]) # Lines(after[g])} |->
        [from |-> Lines(before[f]), to |-> Lines(after[f])]]

\* render_directory_diff: a hunk for each file whose lines differ.
RenderDiff(before, after) ==
    [f \in {g \in DiffedFiles(before) : Lines(before[g]) # Lines(after[g])} |->
        [from |-> Lines(before[f]), to |-> Lines(after[f])]]

\* git apply takes a patch whole or not at all.  It refuses a hunk that quotes a
\* line which ends in CRLF, or in what only Python's splitlines takes for an end.
Applies(ws, patch) ==
    \A f \in DOMAIN patch :
        Lines(ws[f]) = patch[f].from /\ Git[ws[f]][patch[f].to] # Refused

\* The headers name a/f and b/f, never /dev/null: a file emptied by the patch
\* stays, without contents.
Patched(ws, patch) ==
    [f \in File |-> IF f \in DOMAIN patch THEN Git[ws[f]][patch[f].to] ELSE ws[f]]

\* The patch text is searched as it stands, the lines it removes included.
HiddenReference(patch) ==
    \E f \in DOMAIN patch : {patch[f].from, patch[f].to} \cap Private # {}

\* patch_modifies_public_tests
TestsModified(patch) == DOMAIN patch \cap TestFile # {}
=============================================================================
