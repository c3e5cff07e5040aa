----------------------------- MODULE NetworkRx -----------------------------
(***************************************************************************)
(* The receive path of the network stack: the IP handler in front of the   *)
(* UDP/IP stack.  What each port delivers is compared with what the frames *)
(* on the wire say it should.                                              *)
(***************************************************************************)
EXTENDS UdpIpRx

VARIABLE out        \* what has been taken from each port, a history

vars == <<chan, static, sent, wire, out>>

HandlerPorts == {"ARP", "ICMP", "TCP", "ROCE", "ICMPv6", "IPv6UDP"}
DatagramPorts == {"rxData", "rxMeta"}
Ports == HandlerPorts \cup DatagramPorts

\* The user of a port takes what it finds.
Deliver(port) ==
    /\ CanRead(port)
    /\ Call({port}, Nothing)
    /\ out' = [out EXCEPT ![port] = Append(@, Head(chan[port]))]
    /\ UNCHANGED static

Init ==
    /\ chan = Empty(DOMAIN Depth)
    /\ static = IpHandlerStatic @@ UdpIpRxStatic
    /\ sent = <<>> /\ wire = <<>>
    /\ out = [port \in Ports |-> <<>>]

Arrive == (NextWord \/ \E kind \in Kind : Frame(kind)) /\ UNCHANGED out
Kernels == (IpHandlerStep \/ UdpIpRxStep) /\ UNCHANGED <<network, out>>
Users == (\E port \in Ports : Deliver(port)) /\ UNCHANGED network

Next == Arrive \/ Kernels \/ Users

Spec == Init /\ [][Next]_vars

\* Every process is called again and again, and what it does is its own doing
\* alone: no call of one process takes away what another could do.  So it is
\* enough that some process that can run does.  A frame that has begun is
\* finished and the users of the ports take what is there; another frame need
\* not come.
Progress == (NextWord /\ UNCHANGED out) \/ Kernels \/ Users
LiveSpec == Spec /\ WF_vars(Progress)

-----------------------------------------------------------------------------
(* What the ports are to deliver. *)

\* The frames a port is for.
Accepted(port, kind) ==
    CASE port = "ARP" -> kind.ether = "ARP"
      [] port \in {"ICMPv6", "IPv6UDP"} ->
            kind.ether = "IPv6"
            /\ kind.protocol = (IF port = "IPv6UDP" THEN "UDP" ELSE "ICMP")
      [] OTHER ->
            /\ kind.ether = "IPv4" /\ kind.forMe /\ kind.checksum
            /\ kind.protocol = (IF port \in {"ICMP", "TCP"} THEN port ELSE "UDP")
            /\ port \in DatagramPorts => kind.port

\* What of the k-th frame a port delivers.
Part(port, k) ==
    LET packet == SubSeq(Units(k), 2, sent[k].totalLength + 1)
    IN  CASE port = "ARP" -> Words(Units(k))
          [] port \in {"ICMPv6", "IPv6UDP"} -> Words(Tail(Units(k)))
          [] port = "rxData" -> Words(SubSeq(packet, 3, Len(packet)))
          [] port = "rxMeta" -> <<[their_address |-> k, ports |-> k,
                                   length |-> sent[k].totalLength - 1]>>
          [] OTHER -> Words(packet)

Expected(port) ==
    FlattenSeq([k \in 1..Len(sent) |->
                  IF Accepted(port, sent[k]) THEN Part(port, k) ELSE <<>>])

-----------------------------------------------------------------------------
(* Properties *)

\* Each port of the IP handler delivers the packets of its protocol, whole,
\* in order and nothing else, whatever was dropped in between: a verdict is
\* never applied to another packet than its own (ip_handler.cpp:174-230).
PortsInOrder == \A port \in HandlerPorts : IsPrefix(out[port], Expected(port))

\* The user of the UDP/IP stack receives the payloads of the datagrams for its
\* port and, beside them, the metadata of the same datagrams: the n-th of the
\* one belongs to the n-th of the other (udp.cpp:176-195).
DatagramsInOrder == \A port \in DatagramPorts : IsPrefix(out[port], Expected(port))

\* Everything that was accepted is delivered: no stream fills up for good and
\* no process waits for a verdict, a length or metadata that never comes.
Delivered == \A port \in Ports : out[port] = Expected(port)
AllDelivered == <>[]Delivered
=============================================================================
