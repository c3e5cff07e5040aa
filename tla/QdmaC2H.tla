------------------------------- MODULE QdmaC2H -------------------------------
(***************************************************************************)
(* src/qdma_subsystem/qdma_subsystem_c2h.sv: packets of several physical   *)
(* functions share one card-to-host stream.  RRArbiter decides which       *)
(* function drives the stream, a forward slice registers the stream, and   *)
(* a completion with the packet's sequence number is queued once the QDMA  *)
(* core has taken the packet's last beat.                                  *)
(*                                                                         *)
(* One step is one edge of axis_aclk.  A beat is the function that sent it *)
(* and its tlast; data, CRC, ECC, size and mty ride along and are left     *)
(* out.  The QDMA core and the functions are the environment.              *)
(*                                                                         *)
(* Definitions named Fault... are deliberate mistakes for mutation runs.   *)
(***************************************************************************)
EXTENDS Integers, Sequences

CONSTANTS
    NumPhysFunc,        \* NUM_PHYS_FUNC
    CplDepth,           \* words of the completion FIFO
    ProgFullThresh,     \* PROG_FULL_THRESH of the completion FIFO
    PldIdMod            \* pkt_pld_id counts modulo this

ASSUME C2HAssumption ==
    /\ NumPhysFunc \in Nat \ {0}
    /\ CplDepth \in Nat /\ ProgFullThresh \in 1..CplDepth
    /\ PldIdMod \in Nat \ {0}

Func == 0..(NumPhysFunc - 1)

C2HBeat == [func : Func, last : BOOLEAN]
Offer == {"none", "middle", "last"}     \* no tvalid, tvalid, tvalid and tlast

VARIABLES
    granted, pending, prio, state, queued,      \* arb_inst
    q_mem, q_wptr, q_rptr, q_cnt,
    processing,                 \* functions inside a packet
    filled, axis,               \* slice_inst
    pkt_pld_id,
    cpl_fifo,                   \* completions not yet taken by the core
    prog_full,                  \* cpl_fifo's prog_full and the stage before it
    offer,                      \* offer[i]: the beat function i holds valid
    rx_open                     \* function whose packet the core is receiving

arbVars == <<granted, pending, prio, state, queued, q_mem, q_wptr, q_rptr, q_cnt>>
vars == <<arbVars, processing, filled, axis, pkt_pld_id, cpl_fifo, prog_full, offer, rx_open>>

Arb == INSTANCE RRArbiter WITH N <- NumPhysFunc, outstanding <- processing
Slice == INSTANCE ForwardSlice WITH Beat <- C2HBeat

-----------------------------------------------------------------------------
(* Combinational signals of one cycle *)

s_axis_c2h_tvalid == {i \in Func : offer[i] # "none"}
LastOffered == {i \in Func : offer[i] = "last"}

arb_req == s_axis_c2h_tvalid \cup processing
FaultArbFin(grant) == s_axis_c2h_tvalid \cap grant
arb_fin(grant) == LastOffered \cap grant

FaultArbReady(m_tready) == Slice!s_axis_tready(m_tready)
arb_ready(m_tready) == Slice!s_axis_tready(m_tready) /\ ~prog_full[1]

\* At most one function is granted; its beat, if any, drives the slice.
Selected(grant) == s_axis_c2h_tvalid \cap grant

cpl_fifo_wr_en(m_tready) == filled /\ m_tready /\ axis.last

-----------------------------------------------------------------------------
(* Registers *)

FaultProcessingStep(grant) ==
    processing' = (processing \cup s_axis_c2h_tvalid) \ LastOffered
ProcessingStep(grant) ==
    processing' = (processing \cup s_axis_c2h_tvalid) \ arb_fin(grant)

SliceStep(grant, m_tready) ==
    \/ /\ Selected(grant) = {}
       /\ Slice!Clock(FALSE, axis, m_tready)
    \/ \E i \in Selected(grant) : Slice!Clock(TRUE, [func |-> i, last |-> offer[i] = "last"], m_tready)

FaultPldIdStep(m_tready) ==
    pkt_pld_id' = IF filled /\ m_tready THEN (pkt_pld_id + 1) % PldIdMod ELSE pkt_pld_id
PldIdStep(m_tready) ==
    pkt_pld_id' = IF cpl_fifo_wr_en(m_tready) THEN (pkt_pld_id + 1) % PldIdMod ELSE pkt_pld_id

Completion == [func |-> axis.func, id |-> (pkt_pld_id + 1) % PldIdMod]

\* A write to a full FIFO is lost.
CplPush(m_tready) ==
    IF cpl_fifo_wr_en(m_tready) /\ Len(cpl_fifo) < CplDepth THEN <<Completion>> ELSE <<>>

CplFifoStep(m_tready, cpl_tready) ==
    /\ cpl_fifo' = (IF cpl_fifo # <<>> /\ cpl_tready THEN Tail(cpl_fifo) ELSE cpl_fifo)
                     \o CplPush(m_tready)
    /\ prog_full' = <<prog_full[2], Len(cpl_fifo) >= ProgFullThresh>>

-----------------------------------------------------------------------------
(* The environment *)

\* The QDMA core's view of the stream: it must not see another function's
\* beat before the last beat of the packet it is receiving.
RxStep(m_tready) ==
    rx_open' = IF filled /\ m_tready
               THEN IF axis.last THEN {} ELSE {axis.func}
               ELSE rx_open

\* An accepted beat is gone and the next one may follow at once; a beat that
\* was not accepted stays (AXI4-Stream).
OfferStep(grant) ==
    offer' \in {o \in [Func -> Offer] :
                  \A i \in Func : o[i] = offer[i] \/ i \in Selected(grant) \/ offer[i] = "none"}

-----------------------------------------------------------------------------

Init ==
    /\ granted = {} /\ pending = {} /\ queued = {}
    /\ prio = [k \in Func |-> k]
    /\ state = "S_IDLE"
    /\ q_mem = [k \in Func |-> {}]
    /\ q_wptr = 0 /\ q_rptr = 0 /\ q_cnt = 0
    /\ processing = {}
    /\ filled = FALSE
    /\ axis = [func |-> 0, last |-> FALSE]
    /\ pkt_pld_id = 0
    /\ cpl_fifo = <<>>
    /\ prog_full = <<FALSE, FALSE>>
    /\ offer = [i \in Func |-> "none"]
    /\ rx_open = {}

Cycle(m_tready, cpl_tready, dout) ==
    LET ready == arb_ready(m_tready)
        grant == Arb!Grant(Arb!ValidReq(arb_req, dout), ready)
    IN  /\ Arb!Clock(arb_req, arb_fin(grant), ready, dout)
        /\ ProcessingStep(grant)
        /\ SliceStep(grant, m_tready)
        /\ PldIdStep(m_tready)
        /\ CplFifoStep(m_tready, cpl_tready)
        /\ RxStep(m_tready)
        /\ OfferStep(grant)

Next == \E m_tready, cpl_tready \in BOOLEAN, dout \in Arb!q_doutValues :
            Cycle(m_tready, cpl_tready, dout)

Spec == Init /\ [][Next]_vars

-----------------------------------------------------------------------------
(* Properties *)

TypeOK ==
    /\ processing \in SUBSET Func
    /\ filled \in BOOLEAN /\ axis \in C2HBeat
    /\ pkt_pld_id \in 0..(PldIdMod - 1)
    /\ cpl_fifo \in Seq([func : Func, id : 0..(PldIdMod - 1)])
    /\ prog_full \in [1..2 -> BOOLEAN]
    /\ offer \in [Func -> Offer]
    /\ rx_open \in SUBSET Func

\* The packets of different functions are never interleaved on the
\* card-to-host stream: while the core is inside a packet of one function,
\* the registered beat is of that function.
NoInterleaving == rx_open # {} /\ filled => axis.func \in rx_open

\* The environment the arbiter's header comment asks for is the one it gets:
\* a request stays up until its fin, and fin comes from the granted function.
ArbiterContract == Arb!Spec

\* prog_full stops the arbiter early enough: a completion is never written
\* to a full FIFO (qdma_subsystem_c2h.sv:240-244).
CompletionNeverLost == Len(cpl_fifo) = CplDepth => ~(filled /\ axis.last)

\* Completions wait in the order of their packets and name them: the queued
\* ids are consecutive and end with the packet counter, so that none waits
\* for a packet the core does not have.
CompletionsInOrder ==
    \A k \in 1..Len(cpl_fifo) :
        cpl_fifo[k].id = (pkt_pld_id + PldIdMod - (Len(cpl_fifo) - k)) % PldIdMod

-----------------------------------------------------------------------------
\* What the next states depend on, as a view for TLC: registers that are
\* written before they are read again are left out.
LiveState ==
    <<state, IF state = "S_BUSY" THEN granted ELSE {}, pending, prio, queued,
      q_rptr, q_wptr, q_cnt, [i \in 0..(q_cnt - 1) |-> Arb!Entry(i)],
      processing, IF filled THEN <<axis>> ELSE <<>>, pkt_pld_id, cpl_fifo,
      prog_full, offer, rx_open>>
=============================================================================
