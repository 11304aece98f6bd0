\* The data chain: reviews edited and artifacts overwritten between commands.
SPECIFICATION Spec
CONSTANTS
    Trajectories = {"t1", "t2"}
    Profiles <- Reruns
    ReviewChoices <- Seen
    PrefixChoices <- Prefixes
    MaxMessages = 2
    MaxWrites = 2
    MaxRewrites = 1
    MaxEdits = 4
INVARIANTS
    TypeOK
PROPERTIES
    TrainsOnlyOnApproval
    OverwriteRevivesNothing
CHECK_DEADLOCK FALSE
