\* An SFT and a DPO run, their inputs replaced under way, and evaluations.
SPECIFICATION Spec
CONSTANTS
    Batches <- Snapshots
    Steps = {1, 2}
    Target = 3
    Tolerance = 2
    Evals <- TaskSets
    Policies = {"p", "q"}
    MaxGen <- Generations
    MaxRev <- Revisions
    MaxRuns = 3
INVARIANTS
    TypeOK
    ManifestIsWhole
    LineageIsExact
    HeldOut
CHECK_DEADLOCK FALSE
