SPECIFICATION RingSpec
CONSTANTS
    Size = 3
    Elem = {1, 2}
    MaxLen = 4
INVARIANT RingInv
PROPERTY FifoSpec
