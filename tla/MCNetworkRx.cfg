SPECIFICATION MCSpec
CONSTANTS
    W = 4
    Depth <- MCDepth
    Kind <- MCKind
    MaxFrames = 3
    MaxUnits = 13
    PackageBuffer = 4
    RequestUnits = 8
    MaxPackets = 3
    Base = 4
    Lanes = 8
    EchoRequest = 2
INVARIANTS EveryPort AnswersWhole ChecksumsRight
PROPERTIES EveryFrame EveryoneAnswered
CHECK_DEADLOCK FALSE
