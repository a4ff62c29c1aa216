SPECIFICATION Spec
CONSTANTS
    Epb = 3
    Blocks = 2
    ClockMod = 6
    Start = 4
    TimeMax = 7
    Delays = {0, 2}
INVARIANTS HeapInBounds HeapOrdered RefsExact NeverEarly
PROPERTY Called
CHECK_DEADLOCK FALSE
