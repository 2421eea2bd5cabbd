SPECIFICATION Spec
CONSTANTS
    w1 = w1
    w2 = w2
    Writers = {w1, w2}
    Readers = {r1}
    NumRecords = 4
    FanOut = 7
    MinKey = 0
    MaxKey = 20
    Keys = {2, 7}
    Lookback = 2
    Preloads <- Loads
    MaxPages = 60
    MaxFound = 20
INVARIANTS ExactAnswer FencesPartition NothingLost LeafRoom PagesFilled LatchedLeafIsCurrent PagesAccounted
PROPERTY QueriesEnd
