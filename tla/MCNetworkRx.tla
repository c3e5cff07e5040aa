---------------------------- MODULE MCNetworkRx ----------------------------
(***************************************************************************)
(* What the network sends to the card, in three systems side by side, of   *)
(* which a behaviour moves one: the receive path (NetworkRx), the ICMP     *)
(* server behind it (IcmpServer), and the arithmetic of both (Checksum).   *)
(***************************************************************************)
EXTENDS NetworkRx, Checksum

CONSTANTS PackageBuffer, RequestUnits, MaxPackets

VARIABLES part, input

-----------------------------------------------------------------------------
(* NetworkRx with words of four units: frames of one, two and three words. *)

MCFrame(ether, protocol, units) ==
    [ether |-> ether, protocol |-> protocol, forMe |-> TRUE, checksum |-> TRUE,
     port |-> TRUE, units |-> units, totalLength |-> units - 1, headerLength |-> 5]
Udp(units) == MCFrame("IPv4", "UDP", units)

MCKind ==
    {MCFrame("ARP", "other", 4), MCFrame("other", "other", 4),
     MCFrame("IPv6", "UDP", 6), MCFrame("IPv4", "ICMP", 5), MCFrame("IPv4", "other", 5),
     Udp(5), Udp(7),
     [Udp(4) EXCEPT !.totalLength = 2],             \* padded, no payload
     [Udp(8) EXCEPT !.port = FALSE],
     [Udp(9) EXCEPT !.checksum = FALSE],
     [Udp(5) EXCEPT !.forMe = FALSE]}

Streams2 ==
    {"ethData", "ipDataCheck", "process2drop", "validIpAddress", "ipv4Protocol",
     "validChecksum", "ipv4Valid"}
StreamNames ==
    Ports \cup Streams2 \cup
    {"raw", "etherType", "ipv4Shift", "ipv6Shift", "ipData", "ipv6Data", "ipDataMeta",
     "ipDataDrop", "ipDataCut", "subSums", "udpData", "UDP",
     "process2dropLength", "ipMeta", "ipRxData", "udp2shift", "udpMeta"}
MCDepth == [f \in StreamNames |-> IF f \in Streams2 THEN 2 ELSE 1]

-----------------------------------------------------------------------------
(* IcmpServer with a packet buffer of PackageBuffer words (64 in the code). *)

IcmpRequest(units, request, checksum) ==
    [in |-> "dataIn", units |-> units, request |-> request, checksum |-> checksum]
Unwanted(in, units) ==
    [in |-> in, units |-> units, request |-> FALSE, checksum |-> TRUE]

IcmpPacket ==
    {IcmpRequest(RequestUnits, TRUE, c) : c \in BOOLEAN}
    \cup {IcmpRequest(7, c, TRUE) : c \in BOOLEAN}
    \cup {Unwanted("udpIn", 7), Unwanted("ttlIn", 8)}

IcmpDepth ==
    [f \in {"dataIn", "udpIn", "ttlIn", "dataOut", "validFifo", "data0", "data1",
            "checksum0", "checksum1", "packageBuffer1", "addIp_data", "addIp_header"} |->
        CASE f = "packageBuffer1" -> PackageBuffer
          [] f = "addIp_data"     -> 4
          [] f = "addIp_header"   -> 2
          [] OTHER                -> 1]

Icmp == INSTANCE IcmpServer WITH W <- 2, Depth <- IcmpDepth, Packet <- IcmpPacket
ASSUME Icmp!IcmpAssumption

-----------------------------------------------------------------------------
(* The systems side by side; words whose last two lanes are the same. *)

MCWord == {word \in LaneWord : word[Lanes - 2] = word[Lanes - 1]}

NoInput == [headerLength |-> 0]

MCInit ==
    \/ part = "rx" /\ input = NoInput /\ Init
    \/ part = "icmp" /\ input = NoInput /\ Icmp!Init
    \/ /\ part = "checksum" /\ Init
       /\ input \in [headerLength : 3..(Lanes \div 2), word : MCWord]

MCNext ==
    /\ UNCHANGED <<part, input>>
    /\ \/ part = "rx" /\ Next
       \/ part = "icmp" /\ Icmp!Next

MCProgress ==
    /\ UNCHANGED <<part, input>>
    /\ \/ part = "rx" /\ Progress
       \/ part = "icmp" /\ Icmp!Progress

MCVars == <<vars, part, input>>

\* WF_MCVars(MCProgress): the steps that leave sent alone are those of MCProgress.
MCFairness == []<><<UNCHANGED sent>>_MCVars \/ []<>~ENABLED <<MCProgress>>_MCVars

MCSpec == MCInit /\ [][MCNext]_MCVars /\ MCFairness
\* The same with the fairness written out, for a run with one packet.
LongSpec == MCInit /\ [][MCNext]_MCVars /\ WF_MCVars(MCProgress)

\* The receive path's PortsInOrder and DatagramsInOrder.
EveryPort == part = "rx" => PortsInOrder /\ DatagramsInOrder
\* Its AllDelivered.
EveryFrame == <>[](part = "rx" => Delivered)
\* The ICMP server's AnswersWhole, EveryoneAnswered and ValidForwarded.
AnswersWhole == part = "icmp" => Icmp!AnswersWhole
EveryoneAnswered == <>[](part = "icmp" => Icmp!AllAnswered)
ValidForwarded == <>[](part = "icmp" => Icmp!RequestsAnswered)
\* ChecksumsAgree and ReplyRight for small words.
ChecksumsRight ==
    part = "checksum" =>
        /\ ChecksumsAgree(input.word, input.headerLength)
        /\ \A checksum \in Lane : ReplyRight(input.word[0] + input.word[1], checksum)
=============================================================================
