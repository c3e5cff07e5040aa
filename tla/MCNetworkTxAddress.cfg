SPECIFICATION Spec
CONSTANTS
    W = 4
    Depth <- MCDepth
    Datagram <- MCDatagram
    MaxDatagrams = 2
    Address <- MCAddress
    Local <- MCAddress
    Gateway = "b"
    Truncated <- MCTruncatedB
    Known = {"a"}
    ArpFrame <- MCArpFrame
    MaxArp = 1
INVARIANT ReplyToSender
CHECK_DEADLOCK FALSE
