---------------------------- MODULE MacIpEncode ----------------------------
(***************************************************************************)
(* mac_ip_encode/mac_ip_encode.cpp and ethernet_frame_padding.cpp: an IP   *)
(* packet gets its checksum and the Ethernet header of its next hop, which *)
(* the ARP server looks up; a packet whose hop is unknown is dropped whole.*)
(* The lookup and the checksum run beside the packet's words and meet them *)
(* again in order.                                                         *)
(***************************************************************************)
EXTENDS UdpIpTx, ArpServer

CONSTANTS
    Local,          \* the addresses inside the subnet mask
    Gateway         \* regDefaultGateway, one of them

MacIpEncodeStatic ==
    [ip_metaWritten |-> FALSE,                              \* extract_ip_address
     cics_firstWord |-> TRUE, cics_ip_sums |-> {},          \* mac_compute_ipv4_checksum
     wordCount |-> 0,                                       \* insert_ip_checksum
     har_state |-> "ARP",                                   \* handle_arp_reply
     shiftEth |-> NoWord,                                   \* mac_lshiftWordByOctet
     ge_state |-> "PARTIAL_HEADER",                         \* insert_ethernet_header
     pad_state |-> 0]                                       \* ethernet_frame_padding

NextHop(ip) == IF ip \in Local THEN ip ELSE Gateway

ExtractIpAddress ==
    /\ CanRead("ipTxData")
    /\ LET word == Head(chan["ipTxData"])
       IN  /\ Call({"ipTxData"},
                   ("buffer0" :> word)
                   @@ To("macIpEncode_req", NextHop(sent[word.units[1].of].to),
                         ~static.ip_metaWritten))
           /\ static' = [static EXCEPT !.ip_metaWritten = ~word.last]

\* The sums, told by the headers they were made from; the checksum is theirs.
MacComputeIpv4Checksum ==
    /\ CanRead("buffer0")
    /\ LET word == Head(chan["buffer0"])
           sums == static.cics_ip_sums
                   \cup (IF static.cics_firstWord THEN {word.units[1].of} ELSE {})
       IN  /\ Call({"buffer0"}, ("buffer1" :> word) @@ To("subSum", sums, static.cics_firstWord))
           /\ static' = [static EXCEPT !.cics_ip_sums = IF word.last THEN {} ELSE sums,
                                       !.cics_firstWord = word.last]

MacFinalizeIpv4Checksum ==
    /\ CanRead("subSum")
    /\ Call({"subSum"}, "checksum" :> Head(chan["subSum"]))
    /\ UNCHANGED static

InsertIpChecksum ==
    /\ CanRead("buffer1")
    /\ LET word == Head(chan["buffer1"])
           first == static.wordCount = 0
       IN  /\ first => CanRead("checksum")
           /\ Call({"buffer1"} \cup (IF first THEN {"checksum"} ELSE {}),
                   "buffer2" :> IF first
                                THEN [word EXCEPT !.units[1].checksum = Head(chan["checksum"])]
                                ELSE word)
           /\ static' = [static EXCEPT !.wordCount = IF word.last THEN 0
                                                     ELSE IF @ < 2 THEN @ + 1 ELSE @]

FaultDropRest(word) == "ARP"
DropRest(word) == IF word.last THEN "ARP" ELSE "DROP"
ArpReply ==
    /\ static.har_state = "ARP"
    /\ CanRead("macIpEncode_rsp") /\ CanRead("buffer2")
    /\ LET reply == Head(chan["macIpEncode_rsp"])
           word == Head(chan["buffer2"])
       IN  /\ Call({"macIpEncode_rsp", "buffer2"},
                   IF reply.hit
                   THEN ("header" :> [is |-> "Eth", mac |-> reply.macAddress]) @@ ("buffer3" :> word)
                   ELSE Nothing)
           /\ static' = [static EXCEPT !.har_state =
                           IF ~reply.hit THEN DropRest(word)
                           ELSE IF word.last THEN "ARP" ELSE "FWD"]

ArpForwardOrDrop ==
    /\ static.har_state # "ARP" /\ CanRead("buffer2")
    /\ LET word == Head(chan["buffer2"])
       IN  /\ Call({"buffer2"}, To("buffer3", word, static.har_state = "FWD"))
           /\ static' = [static EXCEPT !.har_state = IF word.last THEN "ARP" ELSE @]

HandleArpReply == ArpReply \/ ArpForwardOrDrop

ShiftEth == LeftShift("shiftEth", "buffer3", "buffer4")

InsertEthernetHeader ==
    /\ CanRead("buffer4")
    /\ LET word == Head(chan["buffer4"])
           first == static.ge_state = "PARTIAL_HEADER"
       IN  /\ first => CanRead("header")
           /\ Call({"buffer4"} \cup (IF first THEN {"header"} ELSE {}),
                   "ethernet" :> IF first THEN Insert(Head(chan["header"]), word) ELSE word)
           /\ static' = [static EXCEPT !.ge_state = IF word.last THEN "PARTIAL_HEADER" ELSE "BODY"]

Zeros(n) == [i \in 1..n |-> [is |-> "zero"]]
Padded(word) == [word EXCEPT !.units = @ \o Zeros(W - Len(@))]

\* Only a frame's first word is filled up, when it is its last one too.
EthernetFramePadding ==
    /\ CanRead("ethernet")
    /\ LET word == Head(chan["ethernet"])
       IN  /\ Call({"ethernet"},
                   "tx" :> IF static.pad_state = 0 /\ word.last THEN Padded(word) ELSE word)
           /\ static' = [static EXCEPT !.pad_state = IF word.last THEN 0 ELSE 1]

MacIpEncodeStep ==
    \/ ExtractIpAddress
    \/ MacComputeIpv4Checksum \/ MacFinalizeIpv4Checksum \/ InsertIpChecksum
    \/ HandleArpReply
    \/ ShiftEth \/ InsertEthernetHeader
    \/ EthernetFramePadding
=============================================================================
