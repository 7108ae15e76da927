SPECIFICATION Spec
CONSTANTS
    Operators = {o1, o2}
    MaxBlock = 6
    Times = {1, 2, 3}
    TriggerTime = 2
    Lag = 1
    MaxAttempts = 2
CHECK_DEADLOCK FALSE
INVARIANTS LastAtOrBefore SameBlock ProbesAreFew
