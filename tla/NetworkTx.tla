----------------------------- MODULE NetworkTx -----------------------------
(***************************************************************************)
(* The transmit path of the network stack: the UDP/IP stack, the MAC/IP    *)
(* encoder and the ARP server that they share with the network's queries.  *)
(***************************************************************************)
EXTENDS MacIpEncode

VARIABLE out        \* the words that left for the network, a history

vars == <<chan, static, user, arp, out>>

Leave ==
    /\ CanRead("tx")
    /\ Call({"tx"}, Nothing)
    /\ out' = Append(out, Head(chan["tx"]))
    /\ UNCHANGED <<static, user, arp>>

\* The table answers with what it was given before; nobody asks it twice.
Init ==
    /\ chan = Empty(DOMAIN Depth)
    /\ static = UdpIpTxStatic @@ ArpStatic @@ MacIpEncodeStatic
    /\ sent = <<>> /\ payload = <<>> /\ metas = 0
    /\ table = [ip \in Known |-> ip]
    /\ arpIn = <<>> /\ arpOut = <<>>
    /\ out = <<>>

Hand == (GiveWord \/ GiveMeta) /\ UNCHANGED <<arp, out>>
Kernels ==
    \/ (UdpIpTxStep \/ MacIpEncodeStep) /\ UNCHANGED <<user, arp, out>>
    \/ ArpServerStep /\ UNCHANGED <<user, out>>
Network == ArpLeaves /\ UNCHANGED <<user, out>>

\* Queries for this node's address or another's, answers to what this node
\* has asked, and answers nobody asked for.
Arrive == \E frame \in ArpFrame : ArpArrives(frame) /\ UNCHANGED <<user, out>>

Next ==
    \/ \E d \in Datagram : Send(d) /\ UNCHANGED <<arp, out>>
    \/ Hand \/ Arrive \/ Kernels \/ Network \/ Leave

Spec == Init /\ [][Next]_vars

\* A datagram that is sent is handed over, with its metadata; every process is
\* called again and again; what leaves is taken.  ARP need not be answered.
Progress == Hand \/ Kernels \/ Network \/ Leave
LiveSpec == Spec /\ WF_vars(Progress)

-----------------------------------------------------------------------------
(* What is to leave. *)

\* The frame of the k-th datagram.
FrameOf(k) ==
    LET length == sent[k].units
        header == [IpHeader(k, length + 2) EXCEPT !.checksum = {k}]
        units == <<[is |-> "Eth", mac |-> NextHop(sent[k].to)], header,
                   UdpHeader(k, length + 1)>> \o Payload(k)
        words == Words(units)
    IN  IF Len(words) = 1 THEN <<Padded(words[1])>> ELSE words

Frames(chosen) ==
    FlattenSeq([k \in 1..Len(sent) |-> IF k \in chosen THEN FrameOf(k) ELSE <<>>])

Sent(op) == SelectSeq(arpOut, LAMBDA frame : frame.op = op)

\* The requests that datagrams not chosen have led to, in their order.
Requests(chosen) ==
    LET missed == SelectSeq([k \in 1..Len(sent) |-> k], LAMBDA k : k \notin chosen)
    IN  [i \in 1..Len(missed) |-> Frame("REQUEST", "me", NextHop(sent[missed[i]].to))]

Queries == SelectSeq(arpIn, LAMBDA frame : frame.op = "REQUEST" /\ ForMe(frame))
Answers == [i \in 1..Len(Queries) |-> Frame("REPLY", "me", Queries[i].from)]

-----------------------------------------------------------------------------
(* Properties *)

\* What leaves are the frames of some of the datagrams, in order, each whole
\* and each with its own headers: the addresses of its own next hop, its own
\* lengths and a checksum over its own header alone, whatever was dropped
\* before it (mac_ip_encode.cpp:136-272, udp.cpp:80-149, ipv4.cpp:161-249).
FramesRight == \E chosen \in SUBSET (1..Len(sent)) : IsPrefix(out, Frames(chosen))

\* In the end every datagram has left or has been dropped, and for each that
\* was dropped the network has been asked for its next hop; every query for
\* this node has been answered, and nothing waits in any stream for ever but
\* replies of the table to updates nobody waited for (arp_server.cpp:236-273).
EverythingHandled ==
    <>[](/\ \E chosen \in SUBSET (1..Len(sent)) :
              out = Frames(chosen) /\ Sent("REQUEST") = Requests(chosen)
         /\ Sent("REPLY") = Answers
         /\ payload = <<>> /\ metas = 0
         /\ \A f \in DOMAIN Depth \ {"macUpdate_resp"} : chan[f] = <<>>)

\* Who asks for this node's address is answered: each answer goes to a node
\* that has asked (run_hls.tcl:14 "Replies to ARP queries and resolves IP
\* addresses").
ReplyToSender == \A i \in DOMAIN Sent("REPLY") : Sent("REPLY")[i].to \in {Queries[j].from : j \in DOMAIN Queries}
=============================================================================
