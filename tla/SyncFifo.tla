------------------------------ MODULE SyncFifo ------------------------------
(***************************************************************************)
(* plugin_src/source/fifo.sv: the FIFO between the stages of the key-value *)
(* pipeline, a memory with read and write pointers that carry one bit more *)
(* than an address.  FIFO_DEPTH is a power of two in every instance.  One  *)
(* step is one edge of axis_clk.                                           *)
(***************************************************************************)
EXTENDS Integers, Sequences

CONSTANTS
    FifoDepth,      \* FIFO_DEPTH
    Data

FifoAssumption == FifoDepth \in Nat \ {0}

Ptr == 0..(2 * FifoDepth - 1)   \* ADDR_W + 1 bits
Addr == 0..(FifoDepth - 1)

VARIABLES mem, wr_ptr, rd_ptr

vars == <<mem, wr_ptr, rd_ptr>>

\* A pointer without its top bit, and that bit.
Idx(p) == IF p < FifoDepth THEN p ELSE p - FifoDepth
Lap(p) == p >= FifoDepth

empty == wr_ptr = rd_ptr
full == Idx(wr_ptr) = Idx(rd_ptr) /\ Lap(wr_ptr) # Lap(rd_ptr)

s_axis_ready == ~full
m_axis_valid == ~empty
m_axis_data == mem[Idx(rd_ptr)]

Inc(p) == IF p + 1 = 2 * FifoDepth THEN 0 ELSE p + 1

Push(valid, data) ==
    /\ valid /\ s_axis_ready
    /\ mem' = [mem EXCEPT ![Idx(wr_ptr)] = data]
    /\ wr_ptr' = Inc(wr_ptr)
NoPush(valid) ==
    /\ ~(valid /\ s_axis_ready)
    /\ UNCHANGED <<mem, wr_ptr>>

Pop(ready) ==
    /\ m_axis_valid /\ ready
    /\ rd_ptr' = Inc(rd_ptr)
NoPop(ready) ==
    /\ ~(m_axis_valid /\ ready)
    /\ UNCHANGED rd_ptr

Clock(valid, data, ready) ==
    /\ Push(valid, data) \/ NoPush(valid)
    /\ Pop(ready) \/ NoPop(ready)

Init ==
    /\ mem \in [Addr -> Data]
    /\ wr_ptr = 0 /\ rd_ptr = 0

Next == \E valid, ready \in BOOLEAN, data \in Data : Clock(valid, data, ready)

Spec == Init /\ [][Next]_vars

-----------------------------------------------------------------------------
(* Properties *)

\* The distance from the read pointer to the write pointer.
Count == IF wr_ptr >= rd_ptr THEN wr_ptr - rd_ptr ELSE wr_ptr - rd_ptr + 2 * FifoDepth

TypeOK ==
    /\ mem \in [Addr -> Data]
    /\ wr_ptr \in Ptr /\ rd_ptr \in Ptr
    /\ Count <= FifoDepth

\* The word k places behind the read pointer.
At(k) == mem[Idx(IF rd_ptr + k < 2 * FifoDepth THEN rd_ptr + k ELSE rd_ptr + k - 2 * FifoDepth)]
Contents == [k \in 1..Count |-> At(k - 1)]

\* The FIFO is a queue of FIFO_DEPTH words: a full and an empty memory, for
\* which the addresses are equal, are never taken for each other.
Queue == INSTANCE StreamQueue WITH Beat <- Data, Capacity <- FifoDepth, q <- Contents
IsQueue == Queue!Spec
=============================================================================
