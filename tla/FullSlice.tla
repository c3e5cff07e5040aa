------------------------------ MODULE FullSlice ------------------------------
(***************************************************************************)
(* src/utility/axi_stream_register_slice.sv with MODE "full": two          *)
(* registers, so that s_axis_tready is the output of a flip-flop and the   *)
(* beat that arrives in the cycle of a stall is kept.  `filled' is the     *)
(* two-bit register as a number: 0, 1 and 3 for 2'b00, 2'b01 and 2'b11;    *)
(* 2'b10, the default branch of the case, is never reached (TypeOK).       *)
(***************************************************************************)
EXTENDS Integers, Sequences

CONSTANT Beat

VARIABLES filled, axis          \* axis[0] is the output register

vars == <<filled, axis>>

s_axis_tready == filled # 3
m_axis_tvalid == filled # 0

\* 2'b00
FillFirst(s_tvalid, beat) ==
    /\ filled = 0 /\ s_tvalid
    /\ axis' = [axis EXCEPT ![0] = beat]
    /\ filled' = 1

\* 2'b01: a beat arrives as one leaves
PassOn(s_tvalid, beat, m_tready) ==
    /\ filled = 1 /\ s_tvalid /\ m_tready
    /\ axis' = [axis EXCEPT ![0] = beat]
    /\ UNCHANGED filled

\* 2'b01: a beat arrives and the output is stalled
FillSecond(s_tvalid, beat, m_tready) ==
    /\ filled = 1 /\ s_tvalid /\ ~m_tready
    /\ axis' = [axis EXCEPT ![1] = beat]
    /\ filled' = 3

\* 2'b01: a beat leaves
Drain(s_tvalid, m_tready) ==
    /\ filled = 1 /\ ~s_tvalid /\ m_tready
    /\ filled' = 0
    /\ UNCHANGED axis

\* 2'b11: a beat leaves, the second register moves up
Shift(m_tready) ==
    /\ filled = 3 /\ m_tready
    /\ axis' = [axis EXCEPT ![0] = axis[1]]
    /\ filled' = 1

Stall(s_tvalid, m_tready) ==
    /\ m_tready => filled = 0
    /\ s_tvalid => filled = 3
    /\ UNCHANGED vars

Clock(s_tvalid, beat, m_tready) ==
    \/ FillFirst(s_tvalid, beat)
    \/ PassOn(s_tvalid, beat, m_tready)
    \/ FillSecond(s_tvalid, beat, m_tready)
    \/ Drain(s_tvalid, m_tready)
    \/ Shift(m_tready)
    \/ Stall(s_tvalid, m_tready)

Init ==
    /\ filled = 0
    /\ axis \in {[i \in 0..1 |-> b] : b \in Beat}

Next == \E s_tvalid \in BOOLEAN, beat \in Beat, m_tready \in BOOLEAN :
            Clock(s_tvalid, beat, m_tready)

Spec == Init /\ [][Next]_vars

-----------------------------------------------------------------------------
(* Properties *)

TypeOK == filled \in {0, 1, 3} /\ axis \in [0..1 -> Beat]

\* The slice is a queue of two beats (axi_stream_register_slice.sv:22-25).
Queue == INSTANCE StreamQueue WITH
            Capacity <- 2,
            q        <- IF filled = 0 THEN <<>>
                        ELSE IF filled = 1 THEN <<axis[0]>> ELSE <<axis[0], axis[1]>>
IsQueue == Queue!Spec
=============================================================================
