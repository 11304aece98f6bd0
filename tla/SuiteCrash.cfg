\* Crashes, damage, and resume: every property but drift, liveness included.
SPECIFICATION FairSpec
CONSTANTS
    NumPolicies = 2
    NumAttempts = 2
    Kind <- ControlThenModel
    Replayed <- OnlyFirst
    MaxFaults = 2
    MaxDamages = 1
    MaxEdits = 0
INVARIANTS
    TypeOK
    CommittedDraw
    RerunsArePaidFor
    ParentsLast
    RejectionIsLocal
    PlanIsCurrent
    ResumeResolves
PROPERTIES
    SuiteSettles
    NoSecondDraw
    KeepsEvidence
    CompletedSuiteIsFinal
    ImplementsLedger
CHECK_DEADLOCK FALSE
