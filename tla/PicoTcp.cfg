SPECIFICATION Spec
CONSTANTS
    SeqMod = 16
    Isn = 15
    Total = 4
    Mss = 2
    Writes = {2}
    InMax = 3
    Ssthresh = 3
    CwndMax = 3
    Burst = 2
    MaxOut = 0
    MaxFrames = 2
    MaxAcks = 1
INVARIANTS TypeOK StreamExact SizeExact Retained
CHECK_DEADLOCK FALSE
