SPECIFICATION Spec
CONSTANTS
    Frames = {1, 2}
    Blocks = {1, 2, 3, 4}
    Stored = {1, 2}
    Shard <- Hashed
    Writers = {21}
    Readers = {11, 12}
    Setups <- OneWriter
    NoBlock = NoBlock
INVARIANTS AcceptedReads Durable
PROPERTY CallsEnd
CHECK_DEADLOCK FALSE
