SPECIFICATION Spec
CONSTANTS
    Kinds = {"timeout", "accept", "send_zc", "recv", "cancel"}
    Depth = 1
    Buffers = {1, 2}
    NoBuffer = 0
    MaxOps = 3
    MaxShots = 1
    MaxRefused = 1
INVARIANT
    CalledWhenDone
CHECK_DEADLOCK FALSE
