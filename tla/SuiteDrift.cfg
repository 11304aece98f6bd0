\* Inputs drift at any moment and stay drifted.
SPECIFICATION Spec
CONSTANTS
    NumPolicies = 2
    NumAttempts = 2
    Kind <- ModelThenScorer
    Replayed <- OnlyFirst
    MaxFaults = 1
    MaxDamages = 0
    MaxEdits = 1
INVARIANTS
    NoMixedSemantics
CHECK_DEADLOCK FALSE
