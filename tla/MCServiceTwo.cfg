SPECIFICATION Spec
CONSTANTS
    s1 = s1
    s2 = s2
    w1 = w1
    w2 = w2
    w3 = w3
    NoServer = NoServer
    NoWorkflow = NoWorkflow
    Servers = {s1, s2}
    Workflows = {w1, w2, w3}
    Home <- HomeOfTwo
    Preinstalled <- OneInstalled
    MaxAttempts = 3
    MutationBudget = 1
    NudgeBudget = 0
    FailBudget = 0
CHECK_DEADLOCK FALSE
INVARIANTS NoLostWorkflow
PROPERTIES MutationEnds
