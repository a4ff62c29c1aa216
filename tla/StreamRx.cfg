SPECIFICATION Spec
CONSTANTS
    Size = 4
    Elem = {0, 1, 2, 3, 4, 5, 6, 7, 8}
    MaxBytes = 8
    PipeCap = 2
    ReadMax = 2
INVARIANTS TypeOK ExactUntilShort NumberKept
CHECK_DEADLOCK FALSE
