------------------------------ MODULE UdpIpTx ------------------------------
(***************************************************************************)
(* The transmit halves of udp/udp.cpp and ipv4/ipv4.cpp, joined as in      *)
(* udp_stack.sv.  The user hands over a datagram's words and, in a stream  *)
(* of their own, its metadata; they part in split_tx_meta and each meets   *)
(* the words again where its header is written.                            *)
(*                                                                         *)
(* sent is the history of the datagrams: where they go and how many units  *)
(* of payload they have.  A unit is a unit of payload or a header.         *)
(***************************************************************************)
EXTENDS Streams

CONSTANTS
    Datagram,       \* what the user sends
    MaxDatagrams    \* bound: datagrams per behaviour

VARIABLES
    sent,           \* the datagrams so far
    payload,        \* their words that the user has still to hand over
    metas           \* how many metadata the user has still to hand over

user == <<sent, payload, metas>>

UdpIpTxStatic ==
    [shiftTxUdp |-> NoWord, shiftTxIp |-> NoWord,       \* lshiftWordByOctet
     udp_state |-> "META", udp_header |-> 0,            \* generate_udp
     gi_state |-> "META", gi_header |-> 0]              \* ipv4_generate_ipv4

Payload(k) == [i \in 1..sent[k].units |-> [is |-> "payload", of |-> k, at |-> i]]
UdpHeader(k, length) == [is |-> "UDP", of |-> k, length |-> length]
IpHeader(k, length) == [is |-> "IP", of |-> k, length |-> length, checksum |-> {}]

\* consumeWord: the header takes the room that was made for it.
Insert(header, word) == [word EXCEPT !.units[1] = header]

-----------------------------------------------------------------------------
(* The user: words and metadata come in any order, but each in the datagrams'. *)

Send(d) ==
    /\ Len(sent) < MaxDatagrams
    /\ sent' = Append(sent, d)
    /\ payload' = payload \o Words([i \in 1..d.units |->
                                      [is |-> "payload", of |-> Len(sent) + 1, at |-> i]])
    /\ metas' = metas + 1
    /\ UNCHANGED <<chan, static>>

GiveWord ==
    /\ payload # <<>>
    /\ Call({}, "txData" :> Head(payload))
    /\ payload' = Tail(payload)
    /\ UNCHANGED <<static, sent, metas>>

GiveMeta ==
    /\ metas > 0
    /\ LET k == Len(sent) - metas + 1
       IN  Call({}, "txMeta" :> [of |-> k, length |-> sent[k].units])
    /\ metas' = metas - 1
    /\ UNCHANGED <<static, sent, payload>>

-----------------------------------------------------------------------------
(* udp.cpp and ipv4.cpp *)

\* The length of a header of eight bytes is added for both.
SplitTxMeta ==
    /\ CanRead("txMeta")
    /\ LET meta == [Head(chan["txMeta"]) EXCEPT !.length = @ + 1]
       IN  Call({"txMeta"}, ("ipTxMeta" :> meta) @@ ("udpTxMeta" :> meta))
    /\ UNCHANGED static

ShiftTxUdp == LeftShift("shiftTxUdp", "txData", "tx_shift2udp")

\* META, then PARTIAL_HEADER and BODY.
UdpMetaRead ==
    /\ static.udp_state = "META" /\ CanRead("udpTxMeta")
    /\ Call({"udpTxMeta"}, Nothing)
    /\ LET meta == Head(chan["udpTxMeta"])
       IN  static' = [static EXCEPT !.udp_state = "PARTIAL_HEADER",
                                    !.udp_header = UdpHeader(meta.of, meta.length)]

UdpWord ==
    /\ static.udp_state # "META" /\ CanRead("tx_shift2udp")
    /\ LET word == Head(chan["tx_shift2udp"])
       IN  /\ Call({"tx_shift2udp"},
                   "udpTxData" :> IF static.udp_state = "BODY" THEN word
                                  ELSE Insert(static.udp_header, word))
           /\ static' = [static EXCEPT !.udp_state = IF word.last THEN "META" ELSE "BODY"]

GenerateUdp == UdpMetaRead \/ UdpWord

ShiftTxIp == LeftShift("shiftTxIp", "udpTxData", "tx_shift2ipv4")

IpMetaRead ==
    /\ static.gi_state = "META" /\ CanRead("ipTxMeta")
    /\ Call({"ipTxMeta"}, Nothing)
    /\ LET meta == Head(chan["ipTxMeta"])
       IN  static' = [static EXCEPT !.gi_state = "PARTIAL_HEADER",
                                    !.gi_header = IpHeader(meta.of, meta.length + 1)]

IpWord ==
    /\ static.gi_state # "META" /\ CanRead("tx_shift2ipv4")
    /\ LET word == Head(chan["tx_shift2ipv4"])
       IN  /\ Call({"tx_shift2ipv4"},
                   "ipTxData" :> IF static.gi_state = "BODY" THEN word
                                 ELSE Insert(static.gi_header, word))
           /\ static' = [static EXCEPT !.gi_state = IF word.last THEN "META" ELSE "BODY"]

GenerateIpv4 == IpMetaRead \/ IpWord

UdpIpTxStep ==
    \/ SplitTxMeta
    \/ ShiftTxUdp \/ GenerateUdp
    \/ ShiftTxIp \/ GenerateIpv4
=============================================================================
