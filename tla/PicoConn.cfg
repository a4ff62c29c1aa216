SPECIFICATION Spec
CONSTANTS
    Socks = {1, 2}
    Clients = {1}
    Talkers = {1}
    Backlogs = {1, 2}
    PendMod = 4
    Retries = 0
    MaxRetrans = 1
INVARIANTS PendingExact ConnsAccepted MemoryKept FinOnce
PROPERTY Freed
CHECK_DEADLOCK FALSE
