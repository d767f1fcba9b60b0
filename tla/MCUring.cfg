SPECIFICATION FairSpec
CONSTANTS
    Kinds = {"timeout", "accept", "send_zc", "recv", "cancel"}
    Depth = 1
    Buffers = {1, 2}
    NoBuffer = 0
    MaxOps = 3
    MaxShots = 1
    MaxRefused = 1
CONSTRAINT UringBound
INVARIANTS
    CompletionsExact
    BuffersInOnePlace
PROPERTIES
    TimeoutsFire
    StopReturns
CHECK_DEADLOCK FALSE
