---------------------------- MODULE ForwardSlice ----------------------------
(***************************************************************************)
(* src/utility/axi_stream_register_slice.sv with MODE "forward": one       *)
(* register, s_axis_tready derived from m_axis_tready.  A beat stands for  *)
(* the whole of tdata, tkeep, tlast, tid, tdest and tuser.                 *)
(*                                                                         *)
(* Definitions named Fault... are deliberate mistakes for mutation runs.   *)
(***************************************************************************)
EXTENDS Integers, Sequences

CONSTANT Beat

VARIABLES filled, axis

vars == <<filled, axis>>

s_axis_tready(m_tready) == ~filled \/ m_tready
m_axis_tvalid == filled

\* filled = 0
FillEmpty(s_tvalid, beat) ==
    /\ ~filled
    /\ s_tvalid
    /\ filled' = TRUE
    /\ axis' = beat

\* filled = 1, and the output is taken
Replace(s_tvalid, beat, m_tready) ==
    /\ filled /\ s_tvalid /\ m_tready
    /\ axis' = beat
    /\ UNCHANGED filled

Drain(s_tvalid, m_tready) ==
    /\ filled /\ ~s_tvalid /\ m_tready
    /\ filled' = FALSE
    /\ UNCHANGED axis

FaultStall(s_tvalid, beat, m_tready) ==
    /\ filled /\ ~m_tready
    /\ axis' = IF s_tvalid THEN beat ELSE axis
    /\ UNCHANGED filled
Stall(s_tvalid, beat, m_tready) ==
    /\ IF filled THEN ~m_tready ELSE ~s_tvalid
    /\ UNCHANGED vars

Clock(s_tvalid, beat, m_tready) ==
    \/ FillEmpty(s_tvalid, beat)
    \/ Replace(s_tvalid, beat, m_tready)
    \/ Drain(s_tvalid, m_tready)
    \/ Stall(s_tvalid, beat, m_tready)

Init ==
    /\ filled = FALSE
    /\ axis \in Beat

Next == \E s_tvalid \in BOOLEAN, beat \in Beat, m_tready \in BOOLEAN :
            Clock(s_tvalid, beat, m_tready)

Spec == Init /\ [][Next]_vars

-----------------------------------------------------------------------------
(* Properties *)

TypeOK == filled \in BOOLEAN /\ axis \in Beat

\* The slice is a queue of one beat: under any back-pressure it neither
\* loses, repeats nor reorders a beat (axi_stream_register_slice.sv:18-31).
Queue == INSTANCE StreamQueue WITH
            Capacity <- 1,
            q        <- IF filled THEN <<axis>> ELSE <<>>
IsQueue == Queue!Spec
=============================================================================
