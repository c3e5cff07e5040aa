----------------------------- MODULE IpHandler -----------------------------
(***************************************************************************)
(* ip_handler/ip_handler.cpp: the frames of the network are told apart by  *)
(* Ethernet type and IP protocol and sent to the port of their protocol.   *)
(* IPv4 packets lose their Ethernet header, and those with a wrong         *)
(* checksum or for someone else are dropped whole.  The verdict on a       *)
(* packet travels beside its words, in streams of its own.                 *)
(*                                                                         *)
(* sent is the history of the frames; the unit <<k, i>> is the i-th of the *)
(* k-th frame, so that a header can be read where it is found.             *)
(*                                                                         *)
(* Definitions named Fault... are deliberate mistakes for mutation runs.   *)
(***************************************************************************)
EXTENDS Streams

CONSTANTS
    Kind,           \* the frames the network carries
    MaxFrames,      \* bound: frames per behaviour
    MaxUnits        \* bound: units of all its frames together

\* ether and protocol; forMe: the destination is myIpAddress or the broadcast
\* address; checksum: the IP header's is right; units: of the whole frame;
\* totalLength: of the IP packet, shorter than the frame when that is padded;
\* headerLength: in 32-bit words; port: UDP's is the one listened on.
ASSUME IpHandlerAssumption ==
    /\ W \in Nat \ {0, 1} /\ {MaxFrames, MaxUnits} \subseteq Nat
    /\ \A kind \in Kind :
        /\ kind.ether \in {"ARP", "IPv4", "IPv6", "other"}
        /\ kind.protocol \in {"ICMP", "UDP", "TCP", "other"}
        /\ {kind.forMe, kind.checksum, kind.port} \subseteq BOOLEAN
        /\ kind.totalLength < kind.units

VARIABLES
    sent,           \* the kinds of the frames so far
    wire            \* words of the last frame that are still to come

network == <<sent, wire>>

IpHandlerStatic ==
    [eth_metaWritten |-> FALSE,                         \* detect_eth_protocol
     rep_fsmState |-> 0, rep_etherType |-> "other",     \* route_by_eth_protocol
     shiftIpv4 |-> NoWord, shiftIpv6 |-> NoWord,        \* ip_handler_rshiftWordByOctet
     ip_metaWritten |-> FALSE,                          \* extract_ip_meta
     cics_firstWord |-> TRUE, cics_ip_sums |-> TRUE,    \* ip_handler_compute_ipv4_checksum
     iid_state |-> "GET_VALID",                         \* ip_invalid_dropper
     cl_state |-> "FIRST",                              \* cut_length
     dip_state |-> "META", dip_ipProtocol |-> "other",  \* detect_ipv4_protocol
     ip6_state |-> 0, nextHeader |-> "other"]           \* detect_ipv6_protocol

\* The frame a word is part of, read from its first unit as from a header.
Header(word) == sent[word.units[1][1]]
Units(k) == [i \in 1..sent[k].units |-> <<k, i>>]

-----------------------------------------------------------------------------
(* The network: frames of any kind, whole, word after word. *)

Frame(kind) ==
    /\ wire = <<>> /\ Len(sent) < MaxFrames
    /\ FoldFunction(LAMBDA k, n : k.units + n, kind.units, sent) <= MaxUnits
    /\ sent' = Append(sent, kind)
    /\ LET words == Words([i \in 1..kind.units |-> <<Len(sent) + 1, i>>])
       IN  Call({}, "raw" :> Head(words)) /\ wire' = Tail(words)
    /\ UNCHANGED static

NextWord ==
    /\ wire # <<>>
    /\ Call({}, "raw" :> Head(wire))
    /\ wire' = Tail(wire)
    /\ UNCHANGED <<sent, static>>

-----------------------------------------------------------------------------
(* The processes of ip_handler_core, one action each. *)

FaultEthMeta(word) == TRUE
EthMeta(word) == ~word.last
DetectEthProtocol ==
    /\ CanRead("raw")
    /\ LET word == Head(chan["raw"])
       IN  /\ Call({"raw"}, ("ethData" :> word)
                            @@ To("etherType", Header(word).ether, ~static.eth_metaWritten))
           /\ static' = [static EXCEPT !.eth_metaWritten = EthMeta(word)]

RouteByEthProtocol ==
    /\ CanRead("ethData")
    /\ static.rep_fsmState = 0 => CanRead("etherType")
    /\ LET word == Head(chan["ethData"])
           first == static.rep_fsmState = 0
           type == IF first THEN Head(chan["etherType"]) ELSE static.rep_etherType
       IN  /\ Call({"ethData"} \cup (IF first THEN {"etherType"} ELSE {}),
                   CASE type = "ARP"  -> "ARP" :> word
                     [] type = "IPv4" -> "ipv4Shift" :> word
                     [] type = "IPv6" -> "ipv6Shift" :> word
                     [] OTHER         -> Nothing)
           /\ static' = [static EXCEPT !.rep_etherType = type,
                                       !.rep_fsmState = IF word.last THEN 0 ELSE 1]

ShiftIpv4 == RightShift("shiftIpv4", "ipv4Shift", "ipData")
ShiftIpv6 == RightShift("shiftIpv6", "ipv6Shift", "ipv6Data")

ExtractIpMeta ==
    /\ CanRead("ipData")
    /\ LET word == Head(chan["ipData"])
       IN  /\ Call({"ipData"},
                   ("ipDataMeta" :> word)
                   @@ To("validIpAddress", Header(word).forMe, ~static.ip_metaWritten)
                   @@ To("ipv4Protocol", Header(word).protocol, ~static.ip_metaWritten))
           /\ static' = [static EXCEPT !.ip_metaWritten = ~word.last]

\* The sums of the header's 16-bit words come out right when they are those
\* of a right header, and of no other header besides.
ComputeIpv4Checksum ==
    /\ CanRead("ipDataMeta")
    /\ LET word == Head(chan["ipDataMeta"])
           sums == static.cics_ip_sums /\ (static.cics_firstWord => Header(word).checksum)
       IN  /\ Call({"ipDataMeta"}, ("ipDataCheck" :> word) @@ To("subSums", sums, static.cics_firstWord))
           /\ static' = [static EXCEPT !.cics_ip_sums = (word.last \/ sums),
                                       !.cics_firstWord = word.last]

CheckIpv4Checksum ==
    /\ CanRead("subSums")
    /\ Call({"subSums"}, "validChecksum" :> Head(chan["subSums"]))
    /\ UNCHANGED static

\* A verdict is read before the packet it is about, and sent on.
GetValid ==
    /\ static.iid_state = "GET_VALID"
    /\ CanRead("validChecksum") /\ CanRead("validIpAddress")
    /\ LET valid == Head(chan["validChecksum"]) /\ Head(chan["validIpAddress"])
       IN  /\ Call({"validChecksum", "validIpAddress"}, "ipv4Valid" :> valid)
           /\ static' = [static EXCEPT !.iid_state = IF valid THEN "FWD" ELSE "DROP"]

FaultDropEnd(word) == "GET_VALID"
DropEnd(word) == IF word.last THEN "GET_VALID" ELSE static.iid_state
ForwardOrDrop ==
    /\ static.iid_state # "GET_VALID" /\ CanRead("ipDataCheck")
    /\ LET word == Head(chan["ipDataCheck"])
       IN  /\ Call({"ipDataCheck"}, To("ipDataDrop", word, static.iid_state = "FWD"))
           /\ static' = [static EXCEPT !.iid_state = DropEnd(word)]

IpInvalidDropper == GetValid \/ ForwardOrDrop

\* Padding: only a frame of one word has any, and lenToKeep takes it off.
CutLength ==
    /\ CanRead("ipDataDrop")
    /\ LET word == Head(chan["ipDataDrop"])
           length == Header(word).totalLength
       IN  /\ Call({"ipDataDrop"},
                   "ipDataCut" :> IF static.cl_state = "FIRST" /\ word.last
                                  THEN LenToKeep(word, length) ELSE word)
           /\ static' = [static EXCEPT !.cl_state = IF word.last THEN "FIRST" ELSE "REST"]

DetectIpv4Meta ==
    /\ static.dip_state = "META"
    /\ CanRead("ipv4Protocol") /\ CanRead("ipv4Valid")
    /\ Call({"ipv4Protocol", "ipv4Valid"}, Nothing)
    /\ static' = [static EXCEPT !.dip_ipProtocol = Head(chan["ipv4Protocol"]),
                                !.dip_state = IF Head(chan["ipv4Valid"]) THEN "PKG" ELSE "META"]

DetectIpv4Packet ==
    /\ static.dip_state = "PKG" /\ CanRead("ipDataCut")
    /\ LET word == Head(chan["ipDataCut"])
       IN  /\ Call({"ipDataCut"},
                   CASE static.dip_ipProtocol = "ICMP" -> "ICMP" :> word
                     [] static.dip_ipProtocol = "UDP"  -> "udpData" :> word
                     [] static.dip_ipProtocol = "TCP"  -> "TCP" :> word
                     [] OTHER                   -> Nothing)
           /\ static' = [static EXCEPT !.dip_state = IF word.last THEN "META" ELSE "PKG"]

DetectIpv4Protocol == DetectIpv4Meta \/ DetectIpv4Packet

DetectIpv6Protocol ==
    /\ CanRead("ipv6Data")
    /\ LET word == Head(chan["ipv6Data"])
           header == IF static.ip6_state = 0 THEN Header(word).protocol ELSE static.nextHeader
       IN  /\ Call({"ipv6Data"}, CASE header = "ICMP" -> "ICMPv6" :> word
                                   [] header = "UDP"  -> "IPv6UDP" :> word
                                   [] OTHER           -> Nothing)
           /\ static' = [static EXCEPT !.nextHeader = header,
                                       !.ip6_state = IF word.last THEN 0 ELSE 1]

\* The UDP/IP stack and RoCE each get a copy and sort them out by port number.
DuplicateStream ==
    /\ CanRead("udpData")
    /\ LET word == Head(chan["udpData"])
       IN  Call({"udpData"}, ("UDP" :> word) @@ ("ROCE" :> word))
    /\ UNCHANGED static

IpHandlerStep ==
    \/ DetectEthProtocol \/ RouteByEthProtocol
    \/ ShiftIpv4 \/ ShiftIpv6
    \/ ExtractIpMeta \/ ComputeIpv4Checksum \/ CheckIpv4Checksum
    \/ IpInvalidDropper \/ CutLength
    \/ DetectIpv4Protocol \/ DetectIpv6Protocol
    \/ DuplicateStream
=============================================================================
