SPECIFICATION Spec
CONSTANTS
    Threads = {1, 2, 3}
    Setups <- MCSetups
    Block = 4
    Stride = 3
    Turn = 1
INVARIANTS NoPanic WindowIsVersion
PROPERTY RunEnds
CHECK_DEADLOCK FALSE
