SPECIFICATION Spec
CONSTANTS
    t1 = t1
    t2 = t2
    t3 = t3
    NoOne = NoOne
    Threads = {t1, t2, t3}
    Apps <- AllApps
    MaxConns = 3
INVARIANTS MapsConsistent ConnectsCounted AcceptFifo
CHECK_DEADLOCK FALSE
SYMMETRY ThreadSymmetry
