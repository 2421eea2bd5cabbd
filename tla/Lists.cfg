SPECIFICATION Spec
CONSTANTS
    w1 = w1
    w2 = w2
    Writers = {w1, w2}
    Readers = {r1}
    Setups <- ListSetups
    MaxKey = 4
    LeafOf <- TwoLeaves
    SENTINEL_LEVEL = 7
    MaxPick = 2
    MaxVersion = 6
INVARIANTS AnswersExact SentinelSeen RidgesMissNobody
PROPERTY QueriesEnd
