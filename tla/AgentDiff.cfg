SPECIFICATION Spec
CONSTANTS
    File = {"module", "test", "added"}
    TestFile = {"test"}
    CacheFile = {}
    BuildFile = {}
    BytecodeFile = {}
    LockFile = {}
    Text = {"old", "ragged", "secret"}
    Unix <- ReadByPython
    Git <- GitApply
    Private = {"secret"}
    MaxTurns = 2
    AllowedTools = {"write_file", "run_tests"}
    Check = {"check"}
    CheckWrites = {"added"}
    Seeds <- Plain
    NumChecks = 1
    NumValidators = 1
    ScoringWrites = {"test"}
    SpoofFile = {"added"}
    SpoofText = {"ragged"}
    FormatOnly <- Formatting
    MaxRuns = 1
INVARIANT
    ScoredWorkspaceIsAgents
CHECK_DEADLOCK FALSE
