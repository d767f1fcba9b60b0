SPECIFICATION Spec
CONSTANTS
    f1 = f1
    f2 = f2
    n1 = n1
    Streams = {1, 3}
    Fields = {f1, f2}
    Names = {n1}
    NameOf <- MCNameOf
    SizeOf <- MCSizeOf
    NoField = NoField
    TableSize = 2
    StreamWindow = 2
    ConnWindow = 2
    Announced <- MCAnnounced
    ResponseSizes = {0, 3}
    MaxInstructions = 1
    MaxFrames = 4
    MaxControl = 1
    MaxInFlight = 2
INVARIANT
    BodyIsData
CHECK_DEADLOCK FALSE
