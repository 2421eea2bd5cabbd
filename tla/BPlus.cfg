SPECIFICATION Spec
CONSTANTS
    p1 = p1
    p2 = p2
    p3 = p3
    Procs = {p1, p2, p3}
    Setups <- AllCases
    FAN_OUT = 7
    NUM_RECORDS = 8
    MaxKey = 40
    MaxVersion = 4
INVARIANTS AnswersExact NothingLost OutcomesRight SeparatorsDivide RoomForAll
PROPERTY OperationsEnd
