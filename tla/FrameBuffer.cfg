SPECIFICATION FrameLiveSpec
CONSTANTS
    MaxSize = 7
    FrameSizes = {2, 3}
    LoopScores = {1, 2}
    MaxPut = 6
INVARIANTS FramesIntact TotExact
PROPERTY EveryFrameHandled
CHECK_DEADLOCK FALSE
