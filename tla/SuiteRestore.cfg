\* An input drifts and is put back.
SPECIFICATION Spec
CONSTANTS
    NumPolicies = 1
    NumAttempts = 1
    Kind <- ModelOnly
    Replayed <- OnlyFirst
    MaxFaults = 0
    MaxDamages = 0
    MaxEdits = 2
INVARIANTS
    NoMixedSemantics
CHECK_DEADLOCK FALSE
