\* An SFT run whose snapshot is materialized anew while it trains.
SPECIFICATION Spec
CONSTANTS
    Batches <- Retokenized
    Steps = {1, 2}
    Target = 3
    Tolerance = 2
    Evals <- TaskSets
    Policies = {"p", "q"}
    MaxGen <- Generations
    MaxRev <- Revisions
    MaxRuns = 3
INVARIANTS
    PinsWhatItTrainedOn
CHECK_DEADLOCK FALSE
