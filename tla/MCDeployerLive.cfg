SPECIFICATION Spec
CONSTANTS
    Loops = {l1}
    Requests = {r1, r2}
    Overlap = {l1}
    FailBudget = 1
    RevertBudget = 0
CHECK_DEADLOCK FALSE
INVARIANTS ActiveLoopRuns
PROPERTIES RequestsEnd LoopSettles EscrowIsSettled
