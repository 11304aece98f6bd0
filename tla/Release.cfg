CONSTANTS
    t1 = t1
    t2 = t2
    c1 = c1
    k1 = k1
    oracle = oracle
    happy = happy
    Tasks = {t1, t2}
    FirstTasks = {t1}
    ScorerControls = {oracle}
    AgentControls = {happy}
    Cases <- MCCases
    CaseTask <- MCCaseTask
    Checks <- MCChecks
    CheckRuns <- MCCheckRuns
    Rank <- MCRank
    MaxRepeats = 2
    MaxEdits = 1
    MaxRuns = 4
    MaxFaults = 1
SPECIFICATION Spec
INVARIANTS
    TypeOK
    TrustedIsCurrent
CHECK_DEADLOCK FALSE
