SPECIFICATION LiveSpec
CONSTANTS
    t1 = t1
    NoOne = NoOne
    Threads = {t1}
    Apps <- OneConnect
    MaxConns = 1
PROPERTY RefusedReturns
CHECK_DEADLOCK FALSE
