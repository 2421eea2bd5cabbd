SPECIFICATION Spec
CONSTANTS
    Writers = {w1, w2}
    Readers = {r1}
    Keys = {k1}
    NumRecords = 3
    Setups <- MCSetups
    MaxPages = 2
    MaxClock = 6
INVARIANTS ExactScan LatchedLeafHasRoom LifetimesDisjoint
SYMMETRY Symmetry
