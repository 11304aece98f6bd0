\* Comparison, adjudication, pairs and snapshot, with edits and overwrites
\* while each command works.
SPECIFICATION Spec
CONSTANTS
    Rollouts = {"r1", "r2", "r3"}
    Trusted = {"r1", "r2"}
    Task <- Tasks
    Turns <- Transcripts
    Reviews = {"not_reviewed", "rejected"}
    Verdicts = {"tie"}
    MaxContext = 0
    MaxWrites = 2
    MaxRewrites = 1
    MaxEdits = 3
    MaxJobs = 2
INVARIANTS
    TypeOK
    SnapshotKeepsDirection
PROPERTIES
    MaterializesWhatIsPreferred
CHECK_DEADLOCK FALSE
