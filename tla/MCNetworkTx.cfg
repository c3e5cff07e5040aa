SPECIFICATION MCSpec
CONSTANTS
    W = 4
    Depth <- MCDepth
    Datagram <- MCDatagram
    MaxDatagrams = 2
    Address <- MCAddress
    Local <- MCAddress
    Gateway = "b"
    Truncated <- MCTruncated
    Known = {"a"}
    ArpFrame <- MCArpFrame
    MaxArp = 1
INVARIANTS FramesRight
PROPERTY EverythingHandled
CHECK_DEADLOCK FALSE
