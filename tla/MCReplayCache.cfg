SPECIFICATION ReplaySpec
CONSTANTS
    publish = publish
    pause = pause
    p1 = p1
    p2 = p2
    q = q
    Intents = {publish, pause}
    Pauses = {pause}
    Texts = {p1, p2, q}
    Authentic <- TextsOf
    Requests = {r1, r2, r3}
    MaxAge = 3
    MaxSkew = 1
    RecoverySeconds = 1
    MaxTime = 6
    MaxRestarts = 1
CHECK_DEADLOCK FALSE
SYMMETRY Symmetry
INVARIANTS ReplayNeedsClockAhead ReplaysAreBounded
