SPECIFICATION Spec
CONSTANTS
    MaxThreads = 2
    Epsilon = 0
    VersionMax = 9
    MaxClock = 4
INVARIANTS SnapshotsMonotone ActiveCommitNotPassed
PROPERTY ImplementsWatermark
