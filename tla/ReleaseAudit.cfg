\* A task an audit ran on is edited; nothing else unexpected happens.
CONSTANTS
    t1 = t1
    t2 = t2
    c1 = c1
    k1 = k1
    oracle = oracle
    happy = happy
    Tasks = {t1}
    FirstTasks = {t1}
    ScorerControls = {oracle}
    AgentControls = {happy}
    Cases <- MCCases
    CaseTask <- MCCaseTask
    Checks <- MCChecks
    CheckRuns <- MCCheckRuns
    Rank <- MCRank
    MaxRepeats = 2
    MaxEdits = 1
    MaxRuns = 3
    MaxFaults = 0
SPECIFICATION Spec
INVARIANT
    AuditedTasksUnchanged
CHECK_DEADLOCK FALSE
