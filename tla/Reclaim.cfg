SPECIFICATION Spec
CONSTANTS
    Readers = {r1, r2}
    Writers = {w1, w2}
    Blocks = {1, 2, 3, 4}
    MaxClock = 3
    Untracked = FALSE
INVARIANTS NoReaderLosesBlock OneWinner
SYMMETRY Symmetry
