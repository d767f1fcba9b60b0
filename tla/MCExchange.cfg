SPECIFICATION Spec
CONSTANTS
    Requests <- MCRequests
    LengthOf <- MCLengthOf
    ChunkedLines <- MCChunkedLines
    Loose <- MCLoose
    HexOf <- MCHexOf
    MaxHead = 5
    Frames <- MCFrames
    MaxFrames = 4
    MaxFrameSize = 2
    MaxMessageSize = 3
    MaxControl = 1
    Answers <- MCAnswers
    HeaderSize = 2
    MaxRecord = 2
    MaxFcgiResponse = 4
    Params <- MCParams
    Signs <- MCSigns
    Rules <- MCRules
    Threshold = 5
    MaxIterations = 2
    BodyLimit = 1
    Contents <- MCContents
    ErrorPage <- MCErrorPage
    HeadSize = 2
    MaxWrites = 2
    UpgradeNeeds = {"get", "upgrade", "connection", "key", "version"}
INVARIANTS
    ParsedAsSent
    AnsweredInOrder
    VerdictIsTotal
    ForwardedWhole
    FileSound
CHECK_DEADLOCK FALSE
