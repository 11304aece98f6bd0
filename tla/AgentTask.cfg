SPECIFICATION Spec
CONSTANTS
    File = {"module", "test", "added"}
    TestFile = {"test"}
    CacheFile = {}
    BuildFile = {}
    BytecodeFile = {}
    LockFile = {}
    Text = {"old", "crlf", "ragged", "secret"}
    Unix <- ReadByPython
    Git <- GitApply
    Private = {"secret"}
    MaxTurns = 2
    AllowedTools = {"write_file", "run_tests"}
    Check = {"check"}
    CheckWrites = {"added"}
    Seeds <- AllSeeds
    NumChecks = 2
    NumValidators = 1
    ScoringWrites = {"test"}
    SpoofFile = {"added"}
    SpoofText = {"ragged"}
    FormatOnly <- Formatting
    MaxRuns = 2
INVARIANTS
    TypeOK
    AttemptExplained
    
    RunExplained
    NothingInTheWay
    EveryOutcomeIsATrajectory
    SuccessIsEarned
PROPERTIES
    GenerationIsFinal
    ImplementsLedger
CHECK_DEADLOCK FALSE
