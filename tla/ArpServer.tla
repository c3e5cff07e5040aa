----------------------------- MODULE ArpServer -----------------------------
(***************************************************************************)
(* arp_server/arp_server.cpp and the MAC table it asks: it answers the     *)
(* queries of the network, looks up the next hop of every IP packet, and   *)
(* asks the network for a hop the table does not know.  A frame of ARP is  *)
(* one element of its stream: its words are gathered before anything is    *)
(* done with them, and sent without a decision in between.                 *)
(*                                                                         *)
(* The MAC address of a node is written as the node's IP address.          *)
(***************************************************************************)
EXTENDS Streams

CONSTANTS
    Address,        \* IP addresses of the nodes around
    Truncated,      \* an address without the top bit of its last octet
    Known,          \* the addresses the MAC table holds from the start
    ArpFrame,       \* the frames of ARP the network sends
    MaxArp          \* bound: how many of them per behaviour

Opcode == {"REQUEST", "REPLY"}
Frame(op, from, to) == [op |-> op, from |-> from, to |-> to]

ArpAssumption ==
    /\ Truncated \in [Address -> Address]
    /\ Known \subseteq Address /\ MaxArp \in Nat
    /\ \A frame \in ArpFrame : frame.op \in Opcode /\ frame.from \in Address

VARIABLES
    table,          \* what the MAC table holds: addresses to MAC addresses
    arpIn,          \* the frames of ARP received, a history
    arpOut          \* the frames of ARP sent, a history

arp == <<table, arpIn, arpOut>>

ArpStatic == [aps_fsmState |-> "ARP_IDLE", aps_meta |-> "none",     \* arp_pkg_sender
              arpState |-> "ARP_IDLE", at_inputIP |-> "none"]       \* arp_table

-----------------------------------------------------------------------------
(* The network. *)

ArpArrives(frame) ==
    /\ Len(arpIn) < MaxArp
    /\ Call({}, "arpDataIn" :> frame)
    /\ arpIn' = Append(arpIn, frame)
    /\ UNCHANGED <<static, table, arpOut>>

ArpLeaves ==
    /\ CanRead("arpDataOut")
    /\ Call({"arpDataOut"}, Nothing)
    /\ arpOut' = Append(arpOut, Head(chan["arpDataOut"]))
    /\ UNCHANGED <<static, table, arpIn>>

-----------------------------------------------------------------------------
(* The processes of the server. *)

\* A query for this node is to be answered, an answer to this node is learnt.
\* Of the sender's IP address the code takes bits 62 to 32 of the word.
ForMe(frame) == frame.to = "me"
ArpPkgReceiver ==
    /\ CanRead("arpDataIn")
    /\ LET frame == Head(chan["arpDataIn"])
           meta == [hwAddrSrc |-> frame.from, protoAddrSrc |-> Truncated[frame.from]]
       IN  Call({"arpDataIn"},
                CASE frame.op = "REQUEST" /\ ForMe(frame) -> "arpReplyMeta" :> meta
                  [] frame.op = "REPLY" /\ ForMe(frame)   -> "arpTableInsert" :> meta
                  [] OTHER                                -> Nothing)
    /\ UNCHANGED <<static, arp>>

\* Answers go before questions.
ArpIdle ==
    /\ static.aps_fsmState = "ARP_IDLE"
    /\ \/ /\ CanRead("arpReplyMeta")
          /\ Call({"arpReplyMeta"}, Nothing)
          /\ LET meta == Head(chan["arpReplyMeta"])
             IN  static' = [static EXCEPT !.aps_fsmState = "ARP_REPLY",
                                          !.aps_meta = meta.protoAddrSrc]
       \/ /\ ~CanRead("arpReplyMeta") /\ CanRead("arpRequestMeta")
          /\ Call({"arpRequestMeta"}, Nothing)
          /\ static' = [static EXCEPT !.aps_fsmState = "ARP_SENTRQ",
                                      !.aps_meta = Head(chan["arpRequestMeta"])]
    /\ UNCHANGED arp

ArpSend ==
    /\ static.aps_fsmState # "ARP_IDLE"
    /\ Call({}, "arpDataOut" :>
                  Frame(IF static.aps_fsmState = "ARP_REPLY" THEN "REPLY" ELSE "REQUEST",
                        "me", static.aps_meta))
    /\ static' = [static EXCEPT !.aps_fsmState = "ARP_IDLE"]
    /\ UNCHANGED arp

ArpPkgSender == ArpIdle \/ ArpSend

\* An insertion and a lookup that wait at the same time are both started, and
\* only the lookup's reply is waited for.
TableIdle ==
    /\ static.arpState = "ARP_IDLE"
    /\ LET insert == CanRead("arpTableInsert")
           lookup == CanRead("macIpEncode_req")
           ip == Head(chan["macIpEncode_req"])
       IN  /\ insert \/ lookup
           /\ Call((IF insert THEN {"arpTableInsert"} ELSE {})
                   \cup (IF lookup THEN {"macIpEncode_req"} ELSE {}),
                   To("macUpdate_req", Head(chan["arpTableInsert"]), insert)
                   @@ To("macLookup_req", ip, lookup))
           /\ static' = [static EXCEPT !.arpState = IF lookup THEN "ARP_LOOKUP" ELSE "ARP_UPDATE",
                                       !.at_inputIP = IF lookup THEN ip ELSE @]
    /\ UNCHANGED arp

TableUpdate ==
    /\ static.arpState = "ARP_UPDATE" /\ CanRead("macUpdate_resp")
    /\ Call({"macUpdate_resp"}, Nothing)
    /\ static' = [static EXCEPT !.arpState = "ARP_IDLE"]
    /\ UNCHANGED arp

FaultAsks(reply) == FALSE
Asks(reply) == ~reply.hit
TableLookup ==
    /\ static.arpState = "ARP_LOOKUP" /\ CanRead("macLookup_resp")
    /\ LET reply == Head(chan["macLookup_resp"])
       IN  Call({"macLookup_resp"},
                ("macIpEncode_rsp" :> reply) @@ To("arpRequestMeta", static.at_inputIP, Asks(reply)))
    /\ static' = [static EXCEPT !.arpState = "ARP_IDLE"]
    /\ UNCHANGED arp

ArpTable == TableIdle \/ TableUpdate \/ TableLookup

\* The MAC table itself: two ports, each answers in the order it is asked.
MacLookup ==
    /\ CanRead("macLookup_req")
    /\ LET ip == Head(chan["macLookup_req"])
           hit == ip \in DOMAIN table
       IN  Call({"macLookup_req"},
                "macLookup_resp" :> [hit |-> hit, macAddress |-> IF hit THEN table[ip] ELSE "none"])
    /\ UNCHANGED <<static, arp>>

MacUpdate ==
    /\ CanRead("macUpdate_req")
    /\ LET entry == Head(chan["macUpdate_req"])
       IN  /\ Call({"macUpdate_req"}, "macUpdate_resp" :> "done")
           /\ table' = (entry.protoAddrSrc :> entry.hwAddrSrc) @@ table
    /\ UNCHANGED <<static, arpIn, arpOut>>

ArpServerStep ==
    \/ ArpPkgReceiver \/ ArpPkgSender \/ ArpTable
    \/ MacLookup \/ MacUpdate
=============================================================================
