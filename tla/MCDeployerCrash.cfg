SPECIFICATION Spec
CONSTANTS
    Loops = {l1, l2}
    Requests = {r1, r2}
    Overlap = {}
    FailBudget = 2
    RevertBudget = 1
CHECK_DEADLOCK FALSE
SYMMETRY Symmetry
INVARIANTS RecordedOnce WorkflowMatchesRegistry InactiveLoopStopped
