SPECIFICATION Spec
CONSTANTS
    SeqMod = 16
    Isn = 1
    Total = 3
    Mss = 2
    Writes = {1}
    InMax = 3
    Ssthresh = 3
    CwndMax = 3
    Burst = 2
    MaxOut = 0
    MaxFrames = 2
    MaxAcks = 1
INVARIANT NeverStalled
CHECK_DEADLOCK FALSE
