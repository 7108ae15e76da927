SPECIFICATION Spec
CONSTANTS
    s1 = s1
    s2 = s2
    w1 = w1
    w2 = w2
    w3 = w3
    NoServer = NoServer
    NoWorkflow = NoWorkflow
    Servers = {s1}
    Workflows = {w1, w2, w3}
    Home <- HomeAlone
    Preinstalled <- OneInstalled
    MaxAttempts = 3
    MutationBudget = 5
    NudgeBudget = 2
    FailBudget = 2
CHECK_DEADLOCK FALSE
INVARIANTS NoResurrection
PROPERTIES EditsAreAtomic
