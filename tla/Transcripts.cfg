SPECIFICATION LoopSpec
CONSTANTS
    File = {"module", "cache"}
    TestFile = {}
    CacheFile = {"cache"}
    BuildFile = {}
    BytecodeFile = {}
    LockFile = {}
    Text = {"old", "new", "secret"}
    Unix <- AsItIs
    Git <- Replaced
    Private = {"secret"}
    MaxTurns = 3
    AllowedTools = {"read_file", "write_file", "run_tests"}
    Check = {"calibrated", "flaky"}
    CheckWrites = {"module"}
    Seeds <- SeedWithoutCache
    Idempotent = {"calibrated"}
    Calibrated = {"calibrated"}
    Ambiguous = {}
INVARIANTS
    LoopTypeOK
    TranscriptLinked
    HashChain
    ExitExplained
    RepairConverges
    RepairReplayable
CHECK_DEADLOCK FALSE
