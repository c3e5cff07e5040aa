--------------------------- MODULE QdmaFunctionRx ---------------------------
(***************************************************************************)
(* The receive path of src/qdma_subsystem/qdma_subsystem_function.sv with  *)
(* the hash it listens to (qdma_subsystem_hash.sv): beats wait in          *)
(* buf_fifo while the queue ID of their packet is computed from its first  *)
(* two beats; queue IDs wait in qid_fifo and leave with the packets.       *)
(*                                                                         *)
(* One step is one edge of axis_aclk.  A packet is a tag; the tag stands   *)
(* for its headers, its hash and its queue ID as well, so that a queue ID  *)
(* tells the packet it was computed from.                                  *)
(*                                                                         *)
(* Definitions named Fault... are deliberate mistakes for mutation runs.   *)
(***************************************************************************)
EXTENDS Integers, Sequences

CONSTANTS
    Tags,           \* packets are tagged modulo this
    Setups          \* the setups compared: FIFO depths, and whether the receiver stalls

RxAssumption ==
    /\ Tags \in Nat \ {0, 1}
    /\ Setups \subseteq [BufDepth : Nat \ {0}, QidDepth : Nat \ {0}, stalls : BOOLEAN]

Tag == 0..(Tags - 1)
RxBeat == [pkt : Tag, last : BOOLEAN]
None == Tags                    \* no valid data in a pipeline stage

VARIABLES
    setup,                      \* one of Setups, for good: C_PKT_FIFO_DEPTH, C_QID_FIFO_DEPTH
    filled, axis,               \* c2h_slice_inst
    s1_state, eth_payload, eth_payload_valid,
    ip4, hash_result, qid_din,  \* the pipeline stages behind it, each with its valid bit
    buf_fifo, qid_fifo,
    tag, open                   \* the sender's packet, and whether it is inside it

vars == <<setup, filled, axis, s1_state, eth_payload, eth_payload_valid, ip4, hash_result, qid_din,
          buf_fifo, qid_fifo, tag, open>>

Slice == INSTANCE FullSlice WITH Beat <- RxBeat

-----------------------------------------------------------------------------

axis_c2h_tvalid == Slice!m_axis_tvalid
axis_c2h_tready == Len(buf_fifo) < setup.BufDepth
Beat == axis[0]
Accepted == axis_c2h_tvalid /\ axis_c2h_tready

m_axis_c2h_tvalid == buf_fifo # <<>> /\ qid_fifo # <<>>
Taken(m_tready) == m_axis_c2h_tvalid /\ m_tready

\* Stage 1, first beat
S1Idle ==
    /\ s1_state = "S_S1_IDLE"
    /\ eth_payload' = IF Accepted THEN Beat.pkt ELSE eth_payload
    /\ eth_payload_valid' = (Accepted /\ Beat.last)
    /\ s1_state' = IF Accepted /\ ~Beat.last THEN "S_S1_MORE" ELSE "S_S1_IDLE"

\* Stage 1, the cycle after the first beat: the state advances whether or not
\* a beat is there, on what tlast happens to show.
FaultS1More ==
    /\ s1_state = "S_S1_MORE"
    /\ eth_payload_valid' = Accepted
    /\ s1_state' = IF Beat.last THEN "S_S1_IDLE" ELSE "S_S1_PASS"
    /\ UNCHANGED eth_payload
S1More ==
    /\ s1_state = "S_S1_MORE"
    /\ eth_payload_valid' = TRUE
    /\ s1_state' = IF Beat.last THEN "S_S1_IDLE" ELSE "S_S1_PASS"
    /\ UNCHANGED eth_payload

FaultS1Pass ==
    /\ s1_state = "S_S1_PASS"
    /\ eth_payload_valid' = FALSE
    /\ s1_state' = "S_S1_IDLE"
    /\ UNCHANGED eth_payload
S1Pass ==
    /\ s1_state = "S_S1_PASS"
    /\ eth_payload_valid' = FALSE
    /\ s1_state' = IF Accepted /\ Beat.last THEN "S_S1_IDLE" ELSE "S_S1_PASS"
    /\ UNCHANGED eth_payload

S1Step == S1Idle \/ S1More \/ S1Pass

\* Stage 2 and the Toeplitz hash: one register each, on valid data.
Ip4Step == ip4' = IF eth_payload_valid THEN eth_payload ELSE None
HashStep == hash_result' = ip4
QidDinStep == qid_din' = hash_result

qid_fifo_rd_en(m_tready) == Taken(m_tready) /\ Head(buf_fifo).last
\* A write to a full FIFO is lost.
QidFifoStep(m_tready) ==
    qid_fifo' = (IF qid_fifo_rd_en(m_tready) THEN Tail(qid_fifo) ELSE qid_fifo)
                \o (IF qid_din # None /\ Len(qid_fifo) < setup.QidDepth THEN <<qid_din>> ELSE <<>>)

BufFifoStep(m_tready) ==
    buf_fifo' = (IF Taken(m_tready) THEN Tail(buf_fifo) ELSE buf_fifo)
                \o (IF Accepted THEN <<Beat>> ELSE <<>>)

\* The sender: packets of any length, with pauses.
SendStep(tvalid, last) ==
    LET sent == tvalid /\ Slice!s_axis_tready
    IN  /\ open' = IF sent THEN ~last ELSE open
        /\ tag' = IF sent /\ last THEN (tag + 1) % Tags ELSE tag

Clock(tvalid, last, m_tready) ==
    /\ Slice!Clock(tvalid, [pkt |-> tag, last |-> last], axis_c2h_tready)
    /\ S1Step /\ Ip4Step /\ HashStep /\ QidDinStep
    /\ QidFifoStep(m_tready)
    /\ BufFifoStep(m_tready)
    /\ SendStep(tvalid, last)
    /\ UNCHANGED setup

Init ==
    /\ setup \in Setups
    /\ filled = 0 /\ axis = [i \in 0..1 |-> [pkt |-> 0, last |-> FALSE]]
    /\ s1_state = "S_S1_IDLE"
    /\ eth_payload = 0 /\ eth_payload_valid = FALSE
    /\ ip4 = None /\ hash_result = None /\ qid_din = None
    /\ buf_fifo = <<>> /\ qid_fifo = <<>>
    /\ tag = 0 /\ open = FALSE

Cycle(m_tready) == \E tvalid, last \in BOOLEAN : Clock(tvalid, last, m_tready)

Next == \/ Cycle(TRUE)
        \/ setup.stalls /\ Cycle(FALSE)

Spec == Init /\ [][Next]_vars

\* The clock runs and the receiver takes a beat again and again, but nobody has
\* to send: the behaviour may end where a cycle without input would change
\* nothing.
Pause == \E last \in BOOLEAN : Clock(FALSE, last, TRUE)
LiveSpec == Spec /\ ([]<><<Cycle(TRUE)>>_vars \/ []<>~ENABLED <<Pause>>_vars)

-----------------------------------------------------------------------------
(* Properties *)

TypeOK ==
    /\ setup \in Setups
    /\ Slice!TypeOK
    /\ s1_state \in {"S_S1_IDLE", "S_S1_MORE", "S_S1_PASS"}
    /\ eth_payload \in Tag /\ eth_payload_valid \in BOOLEAN
    /\ {ip4, hash_result, qid_din} \subseteq Tag \cup {None}
    /\ buf_fifo \in Seq(RxBeat) /\ Len(buf_fifo) <= setup.BufDepth
    /\ qid_fifo \in Seq(Tag) /\ Len(qid_fifo) <= setup.QidDepth
    /\ tag \in Tag /\ open \in BOOLEAN

\* The queue ID is realigned to the packet it was computed from
\* (qdma_subsystem_function.sv:327-330) ...
QidRealigned == m_axis_c2h_tvalid => Head(qid_fifo) = Head(buf_fifo).pkt

\* ... as long as the receiver does not stall.
QidOfPacket == ~setup.stalls => QidRealigned

\* The beat buffer covers the latency of the queue ID computation
\* (qdma_subsystem_function.sv:81-82): a receiver that never stalls never
\* makes the path stall.
NeverStalls == ~setup.stalls => axis_c2h_tready

\* Every beat gets its turn: a queue ID is found for its packet, whatever the
\* stalls and the pauses.
BeatLeaves == buf_fifo # <<>> ~> m_axis_c2h_tvalid
=============================================================================
