SPECIFICATION Spec
CONSTANTS
    Callers = {c1, c2}
    Workers = {p1}
    Keys = {1}
    Plans <- MCPlans
    MaxClock = 4
    MaxTrackers = 2
INVARIANTS AnswersAtSnapshot RegistrationsMatch ResultsAreTheWrites
PROPERTY TransactionsEnd
CHECK_DEADLOCK FALSE
