SPECIFICATION Spec
CONSTANTS
    Loops = {l1}
    Requests = {r1, r2}
    Overlap = {}
    FailBudget = 0
    RevertBudget = 1
CHECK_DEADLOCK FALSE
PROPERTIES LoopSettles
