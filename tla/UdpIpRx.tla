------------------------------ MODULE UdpIpRx ------------------------------
(***************************************************************************)
(* The receive halves of ipv4/ipv4.cpp and udp/udp.cpp, joined as in       *)
(* udp_stack.sv: an IPv4 packet loses its IP header, a datagram its UDP    *)
(* header; the sender's address, read by the one kernel, and the ports,    *)
(* read by the other, meet again in merge_rx_meta.  A datagram for another *)
(* port than the one listened on is to leave no trace, neither of its      *)
(* words nor of its metadata.                                              *)
(***************************************************************************)
EXTENDS IpHandler

UdpIpRxStatic ==
    [ipv4_metaWritten |-> FALSE,        \* process_ipv4
     doh |-> NoWord,                    \* ipv4_drop_optional_ip_header
     pu_header |-> 0,                   \* process_udp: the frame of the header, 0 when cleared
     shiftUdp |-> NoWord]               \* udp_rshiftWordByOctet

\* Addresses and ports are those of the frame they were read from.
IpMeta(word) == [their_address |-> word.units[1][1], length |-> Header(word).totalLength]
UdpMeta(k) == [ports |-> k, length |-> sent[k].totalLength - 1, valid |-> sent[k].port]

ProcessIpv4 ==
    /\ CanRead("UDP")
    /\ LET word == Head(chan["UDP"])
           first == ~static.ipv4_metaWritten
       IN  /\ Call({"UDP"},
                   ("process2drop" :> word)
                   @@ To("process2dropLength", Header(word).headerLength, first)
                   @@ To("ipMeta", IpMeta(word), first))
           /\ static' = [static EXCEPT !.ipv4_metaWritten = ~word.last]

\* META, then SHIFT_FIVE or LAST_FIVE.  A header with options is not dropped:
\* its length is read and its packet is left to the next length.
DropMeta ==
    /\ static.doh = NoWord
    /\ CanRead("process2dropLength") /\ CanRead("process2drop")
    /\ LET five == Head(chan["process2dropLength"]) = 5
           word == Head(chan["process2drop"])
       IN  /\ Call({"process2dropLength"} \cup (IF five THEN {"process2drop"} ELSE {}), Nothing)
           /\ static' = [static EXCEPT !.doh =
                           IF five THEN [prev |-> word.units, rest |-> word.last] ELSE @]

DropShiftFive ==
    /\ static.doh # NoWord /\ ~static.doh.rest
    /\ CanRead("process2drop")
    /\ LET word == Head(chan["process2drop"])
           sendWord == Joined(static.doh.prev, word)
       IN  /\ Call({"process2drop"}, "ipRxData" :> sendWord)
           /\ static' = [static EXCEPT !.doh =
                           IF sendWord.last THEN NoWord
                           ELSE [prev |-> word.units, rest |-> word.last]]

DropLastFive ==
    /\ static.doh.rest
    /\ Call({}, "ipRxData" :> Rest(static.doh.prev))
    /\ static' = [static EXCEPT !.doh = NoWord]

Ipv4DropOptionalIpHeader == DropMeta \/ DropShiftFive \/ DropLastFive

\* The header is kept until the packet's last word: the words that have no
\* header of their own go by it.  The metadata are written with the first.
ProcessUdp ==
    /\ CanRead("ipRxData")
    /\ LET word == Head(chan["ipRxData"])
           first == static.pu_header = 0
           header == IF first THEN word.units[1][1] ELSE static.pu_header
       IN  /\ Call({"ipRxData"},
                   To("udp2shift", word, sent[header].port)
                   @@ To("udpMeta", UdpMeta(header), first))
           /\ static' = [static EXCEPT !.pu_header = IF word.last THEN 0 ELSE header]

ShiftUdp == RightShift("shiftUdp", "udp2shift", "rxData")

Merges(meta) == meta.valid
MergeRxMeta ==
    /\ CanRead("ipMeta") /\ CanRead("udpMeta")
    /\ LET ip == Head(chan["ipMeta"])
           udp == Head(chan["udpMeta"])
       IN  Call({"ipMeta", "udpMeta"},
                To("rxMeta", [their_address |-> ip.their_address,
                              ports |-> udp.ports, length |-> udp.length], Merges(udp)))
    /\ UNCHANGED static

UdpIpRxStep ==
    \/ ProcessIpv4 \/ Ipv4DropOptionalIpHeader
    \/ ProcessUdp \/ ShiftUdp \/ MergeRxMeta
=============================================================================
