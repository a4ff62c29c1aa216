SPECIFICATION Spec
CONSTANTS
    Callers = {c1, c2}
    Starts = 2
    Instances = 2
    MaxIds = 2
    Restarts = 1
INVARIANTS OneService IdentityKept TapsDismantled
PROPERTIES SimpleStartReturns StopReturns StopEnds
CHECK_DEADLOCK FALSE
