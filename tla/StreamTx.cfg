SPECIFICATION LiveSpec
CONSTANTS
    Size = 4
    Elem = {0, 1, 2, 3, 4, 5}
    MaxBytes = 5
    PipeCap = 3
    PhyRead = 2
    WriteMax = 2
    StackCap = 2
    CloseTries = 2
INVARIANTS TypeOK NeverShort NothingLost RightOrForeign NotStranded CloseDrained
PROPERTIES EveryByteSent CloseReturns
CHECK_DEADLOCK FALSE
