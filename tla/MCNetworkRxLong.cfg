SPECIFICATION LongSpec
CONSTANTS
    W = 4
    Depth <- MCDepth
    Kind <- MCKind
    MaxFrames = 0
    MaxUnits = 0
    PackageBuffer = 4
    RequestUnits = 10
    MaxPackets = 1
    Base = 2
    Lanes = 8
    EchoRequest = 1
PROPERTY ValidForwarded
CHECK_DEADLOCK FALSE
