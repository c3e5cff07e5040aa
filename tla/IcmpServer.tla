---------------------------- MODULE IcmpServer ----------------------------
(***************************************************************************)
(* icmp_server/icmp_server.cpp: answers echo requests, and tells the       *)
(* sender of a datagram that nobody listens or that its time is up.        *)
(*                                                                         *)
(* A request is turned round on the way into packageBuffer1 and kept there *)
(* until its checksum, which covers its last byte, is known.  The two      *)
(* kinds of answer share one output, and each waits at its third word for  *)
(* a checksum of its own.  Words have 64 bits; a unit is half a word, 32   *)
(* bits: units 1 to 5 are the IP header with the source and destination    *)
(* address in 4 and 5, unit 6 the ICMP type, code and checksum.            *)
(*                                                                         *)
(* Definitions named Fault... are deliberate mistakes for mutation runs.   *)
(***************************************************************************)
EXTENDS Streams

CONSTANTS
    Packet,         \* what the network and the other stacks hand to the server
    MaxPackets      \* bound: packets per behaviour

Inputs == {"dataIn", "udpIn", "ttlIn"}

\* units: in the packet, a header of five and at least eight bytes behind it;
\* request: type 8, code 0; checksum: the ICMP checksum is right.
IcmpAssumption ==
    /\ W = 2 /\ MaxPackets \in Nat
    /\ \A p \in Packet : p.in \in Inputs /\ p.units >= 7
                         /\ {p.request, p.checksum} \subseteq BOOLEAN

VARIABLES
    sent,           \* for every input, its packets so far
    wire,           \* for every input, words of its last packet still to come
    out             \* the words that have left through dataOut, a history

vars == <<chan, static, sent, wire, out>>

IcmpStatic ==
    [cics_wordCount |-> 0, cics_prevWord |-> Word(<<>>, FALSE),         \* check_icmp_checksum
     cics_writeLastOne |-> FALSE, cics_computeCs |-> FALSE, cics_state |-> 0,
     cics_sums |-> {}, icmpChecksum |-> {},
     udpState |-> "UDP_IDLE", ipWordCounter |-> 0,                      \* udpPortUnreachable
     udpSource |-> "udpIn", udpChecksum |-> {},
     addIpState |-> "AIP_IDLE", sourceIP |-> <<>>,                      \* udpAddIpHeader
     tempWord |-> Word(<<>>, FALSE),
     d_isFirstWord |-> TRUE, d_drop |-> FALSE,                          \* dropper
     ic_wordCount |-> 0, streamSource |-> 0]                            \* insertChecksum

Unit(in, k, i) == [of |-> <<in, k>>, at |-> i, is |-> "same", sum |-> {}]
Units(in, k) == [i \in 1..sent[in][k].units |-> Unit(in, k, i)]

\* The packet a word is of.  A sum is told by the packets it was made from.
Of(word) == word.units[1].of

\* A unit with other contents.
Changed(unit, what) == [unit EXCEPT !.is = what]

-----------------------------------------------------------------------------
(* check_icmp_checksum *)

\* The word before the last stays in cics_prevWord until the packet has ended.
WriteLastOne ==
    /\ static.cics_writeLastOne
    /\ Call({}, "packageBuffer1" :> static.cics_prevWord)
    /\ static' = [static EXCEPT !.cics_writeLastOne = FALSE]

\* Four calls: the sums are folded and the checksum of the answer is worked
\* out (IcmpChecksum), then the verdict.
Valid == /\ \A p \in static.cics_sums : sent[p[1]][p[2]].checksum
         /\ \A p \in static.icmpChecksum : sent[p[1]][p[2]].request
ComputeCs ==
    /\ ~static.cics_writeLastOne /\ static.cics_computeCs
    /\ LET verdict == ("validFifo" :> Valid) @@ To("checksum0", static.icmpChecksum, Valid)
       IN  /\ Call({}, IF static.cics_state < 3 THEN Nothing ELSE verdict)
           /\ static' = [static EXCEPT !.cics_computeCs = static.cics_state < 3,
                                       !.cics_state = (@ + 1) % 4]

\* The second word sent has the destination where the source was, the third
\* the source where the destination was, and the type of an answer.
ReadRequest ==
    /\ ~static.cics_writeLastOne /\ ~static.cics_computeCs
    /\ CanRead("dataIn")
    /\ LET word == Head(chan["dataIn"])
           prev == static.cics_prevWord
           third == static.cics_wordCount = 2
           reply == Changed(word.units[2], "reply")
       IN  /\ Call({"dataIn"},
                   To("packageBuffer1",
                      IF third THEN Word(<<prev.units[1], word.units[1]>>, FALSE) ELSE prev,
                      static.cics_wordCount > 0))
           /\ static' = [static EXCEPT
                !.cics_prevWord = IF ~third THEN word
                                  ELSE Word(<<prev.units[2], reply>>, word.last),
                !.cics_sums = IF static.cics_wordCount = 0 THEN {}
                              ELSE IF static.cics_wordCount < 2 THEN @ ELSE @ \cup {Of(word)},
                !.icmpChecksum = IF third THEN {Of(word)} ELSE @,
                !.cics_wordCount = IF word.last THEN 0 ELSE IF @ < 3 THEN @ + 1 ELSE @,
                !.cics_writeLastOne = word.last,
                !.cics_computeCs = word.last]

CheckIcmpChecksum == WriteLastOne \/ ComputeCs \/ ReadRequest

-----------------------------------------------------------------------------
(* dropper.  It returns with currWord unset while no verdict has come, and   *)
(* then reads currWord.last: true or not, nothing changes.                   *)

FaultDropped(drop, last) == drop
Dropped(drop, last) == drop /\ ~last
Dropper ==
    /\ CanRead("packageBuffer1")
    /\ static.d_isFirstWord => CanRead("validFifo")
    /\ LET word == Head(chan["packageBuffer1"])
           first == static.d_isFirstWord
           valid == IF first THEN Head(chan["validFifo"]) ELSE ~static.d_drop
       IN  /\ Call({"packageBuffer1"} \cup (IF first THEN {"validFifo"} ELSE {}),
                   To("data0", word, valid))
           /\ static' = [static EXCEPT !.d_drop = Dropped(@ \/ ~valid, word.last),
                                       !.d_isFirstWord = word.last]

-----------------------------------------------------------------------------
(* udpPortUnreachable: an ICMP header, then the packet itself; the words of  *)
(* its IP header also by a stream of their own, and a checksum in the end.   *)

UdpIdle ==
    /\ static.udpState = "UDP_IDLE"
    /\ CanRead("udpIn") \/ CanRead("ttlIn")
    /\ LET in == IF CanRead("udpIn") THEN "udpIn" ELSE "ttlIn"
           unit == Head(chan[in]).units[1]
           header == Word(<<Changed(unit, "icmp"), Changed(unit, "zero")>>, FALSE)
       IN  /\ Call({}, "addIp_data" :> header)
           /\ static' = [static EXCEPT !.udpSource = in, !.ipWordCounter = 0, !.udpChecksum = {},
                                       !.udpState = "UDP_IP"]

UdpIp ==
    /\ static.udpState = "UDP_IP" /\ CanRead(static.udpSource)
    /\ LET word == Head(chan[static.udpSource])
           third == static.ipWordCounter = 2
       IN  /\ Call({static.udpSource}, ("addIp_data" :> word) @@ ("addIp_header" :> word))
           /\ static' = [static EXCEPT !.udpChecksum = @ \cup {Of(word)},
                                       !.ipWordCounter = IF third THEN @ ELSE @ + 1,
                                       !.udpState = IF third THEN "UDP_STREAM" ELSE @]

UdpStream ==
    /\ static.udpState = "UDP_STREAM" /\ CanRead(static.udpSource)
    /\ LET word == Head(chan[static.udpSource])
       IN  /\ Call({static.udpSource}, "addIp_data" :> word)
           /\ static' = [static EXCEPT !.udpChecksum = @ \cup {Of(word)},
                                       !.udpState = IF word.last THEN "UDP_CS" ELSE @]

UdpCs ==
    /\ static.udpState = "UDP_CS"
    /\ Call({}, "checksum1" :> static.udpChecksum)
    /\ static' = [static EXCEPT !.udpState = "UDP_IDLE"]

UdpPortUnreachable == UdpIdle \/ UdpIp \/ UdpStream \/ UdpCs

-----------------------------------------------------------------------------
(* udpAddIpHeader: the header goes back to where it came from, in front of   *)
(* the ICMP message, which moves by half a word.                             *)

AipIdle ==
    /\ static.addIpState = "AIP_IDLE" /\ CanRead("addIp_header")
    /\ LET h == Head(chan["addIp_header"]).units
       IN  Call({"addIp_header"}, "data1" :> Word(<<Changed(h[1], "length"), h[2]>>, FALSE))
    /\ static' = [static EXCEPT !.addIpState = "AIP_IP"]

AipIp ==
    /\ static.addIpState = "AIP_IP" /\ CanRead("addIp_header")
    /\ LET h == Head(chan["addIp_header"]).units
       IN  /\ Call({"addIp_header"},
                   "data1" :> Word(<<Changed(h[1], "protocol"), Changed(h[2], "me")>>, FALSE))
           /\ static' = [static EXCEPT !.addIpState = "AIP_MERGE", !.sourceIP = h[2]]

AipMerge ==
    /\ static.addIpState = "AIP_MERGE" /\ CanRead("addIp_header") /\ CanRead("addIp_data")
    /\ LET word == Head(chan["addIp_data"])
       IN  /\ Call({"addIp_header", "addIp_data"},
                   "data1" :> Word(<<static.sourceIP, word.units[1]>>, FALSE))
           /\ static' = [static EXCEPT !.addIpState = "AIP_STREAM", !.tempWord = word]

Residue(word) == word.last /\ Len(word.units) = 2
AipStream ==
    /\ static.addIpState = "AIP_STREAM" /\ CanRead("addIp_data")
    /\ LET word == Head(chan["addIp_data"])
           units == <<static.tempWord.units[2], word.units[1]>>
       IN  /\ Call({"addIp_data"}, "data1" :> Word(units, word.last /\ ~Residue(word)))
           /\ static' = [static EXCEPT !.tempWord = word,
                            !.addIpState = IF Residue(word) THEN "AIP_RESIDUE"
                                           ELSE IF word.last THEN "AIP_IDLE" ELSE @]

AipResidue ==
    /\ static.addIpState = "AIP_RESIDUE"
    /\ Call({}, "data1" :> Word(<<static.tempWord.units[2]>>, TRUE))
    /\ static' = [static EXCEPT !.addIpState = "AIP_IDLE"]

UdpAddIpHeader == AipIdle \/ AipIp \/ AipMerge \/ AipStream \/ AipResidue

-----------------------------------------------------------------------------
(* insertChecksum *)

DataStream == <<"data0", "data1">>
ChecksumStream == <<"checksum0", "checksum1">>
WithChecksum(word, checksum) == [word EXCEPT !.units[2].sum = checksum]

\* The first stream that has a word gets the output until its last one.
FirstOfPacket ==
    /\ static.ic_wordCount = 0
    /\ \E i \in 0..1 :
        /\ CanRead(DataStream[i + 1]) /\ i = 1 => ~CanRead("data0")
        /\ Call({DataStream[i + 1]}, "dataOut" :> Head(chan[DataStream[i + 1]]))
        /\ static' = [static EXCEPT !.streamSource = i, !.ic_wordCount = 1]

FaultSource == 0
Source == static.streamSource
ThirdOfPacket ==
    LET data == DataStream[static.streamSource + 1]
        checksum == ChecksumStream[Source + 1]
    IN  /\ static.ic_wordCount = 2
        /\ CanRead(data) /\ CanRead(checksum)
        /\ Call({data, checksum}, "dataOut" :> WithChecksum(Head(chan[data]), Head(chan[checksum])))
        /\ static' = [static EXCEPT !.ic_wordCount = 3]

OtherOfPacket ==
    LET data == DataStream[static.streamSource + 1]
    IN  /\ static.ic_wordCount \notin {0, 2}
        /\ CanRead(data)
        /\ Call({data}, "dataOut" :> Head(chan[data]))
        /\ static' = [static EXCEPT !.ic_wordCount = IF Head(chan[data]).last THEN 0
                                                     ELSE IF @ < 3 THEN @ + 1 ELSE @]

InsertChecksum == FirstOfPacket \/ ThirdOfPacket \/ OtherOfPacket

-----------------------------------------------------------------------------
(* The inputs and the network behind the output. *)

Arrive(p) ==
    /\ wire[p.in] = <<>>
    /\ FoldFunction(LAMBDA s, n : Len(s) + n, 0, sent) < MaxPackets
    /\ sent' = [sent EXCEPT ![p.in] = Append(@, p)]
    /\ LET words == Words([i \in 1..p.units |-> Unit(p.in, Len(sent[p.in]) + 1, i)])
       IN  /\ Call({}, p.in :> Head(words))
           /\ wire' = [wire EXCEPT ![p.in] = Tail(words)]
    /\ UNCHANGED <<static, out>>

NextWord ==
    /\ \E in \in Inputs :
        /\ wire[in] # <<>>
        /\ Call({}, in :> Head(wire[in]))
        /\ wire' = [wire EXCEPT ![in] = Tail(@)]
    /\ UNCHANGED <<static, sent, out>>

Leave ==
    /\ CanRead("dataOut")
    /\ Call({"dataOut"}, Nothing)
    /\ out' = Append(out, Head(chan["dataOut"]))
    /\ UNCHANGED <<static, sent, wire>>

Init ==
    /\ chan = Empty(DOMAIN Depth) /\ static = IcmpStatic
    /\ sent = [in \in Inputs |-> <<>>] /\ wire = [in \in Inputs |-> <<>>]
    /\ out = <<>>

Processes ==
    /\ \/ CheckIcmpChecksum \/ Dropper
       \/ UdpPortUnreachable \/ UdpAddIpHeader
       \/ InsertChecksum
    /\ UNCHANGED <<sent, wire, out>>

Next == (\E p \in Packet : Arrive(p)) \/ NextWord \/ Processes \/ Leave

Spec == Init /\ [][Next]_vars

\* As in NetworkRx: some process that can run does, a packet that has begun is
\* finished, and the network takes the answers.
Progress == NextWord \/ Processes \/ Leave
LiveSpec == Spec /\ WF_vars(Progress)

-----------------------------------------------------------------------------
(* What is to leave: a request turned round, or the packet nobody wanted     *)
(* behind the headers of the message about it, with the checksum of its own. *)

Wanted(in, k) == in = "dataIn" => sent[in][k].request /\ sent[in][k].checksum

Answer(in, k) ==
    LET u == Units(in, k)
        own(unit) == [unit EXCEPT !.sum = {<<in, k>>}]
        tail == SubSeq(u, 7, Len(u))
    IN  Words(IF in = "dataIn"
              THEN <<u[1], u[2], u[3], u[5], u[4], own(Changed(u[6], "reply"))>> \o tail
              ELSE <<Changed(u[1], "length"), u[2], Changed(u[3], "protocol"), Changed(u[4], "me"),
                     u[4], own(Changed(u[1], "icmp")), Changed(u[1], "zero")>> \o u)

Expected(in) == FlattenSeq([k \in 1..Len(sent[in]) |->
                              IF Wanted(in, k) THEN Answer(in, k) ELSE <<>>])
Answered(in) == SelectSeq(out, LAMBDA word : Of(word)[1] = in)

-----------------------------------------------------------------------------
(* Properties *)

\* What leaves are the answers to the packets that deserve one, in the order of
\* their input, each with the checksum of its own, and no two answers mixed,
\* although they share insertChecksum, where each waits for its checksum.
AnswersWhole ==
    /\ \A in \in Inputs : IsPrefix(Answered(in), Expected(in))
    /\ \A i \in 1..(Len(out) - 1) : out[i].last \/ Of(out[i]) = Of(out[i + 1])

\* Every packet that deserves an answer gets it, and a packet that does not is
\* not in the way: no process waits for ever for a verdict, a checksum or room.
AllAnswered == \A in \in Inputs : Answered(in) = Expected(in)
EveryoneAnswered == <>[]AllAnswered

\* "if package is invalid it is dropped otherwise it is forwarded"
\* (icmp_server.cpp:317): every valid request is.
RequestsAnswered == Answered("dataIn") = Expected("dataIn")
ValidForwarded == <>[]RequestsAnswered
=============================================================================
