--------------------------- MODULE PacketAdapterRx ---------------------------
(***************************************************************************)
(* src/packet_adapter/packet_adapter_rx.sv: packets from the CMAC, which   *)
(* cannot be stopped, cross a forward slice that is always drained into a  *)
(* PacketBuffer.  A packet that ends with tuser_err, or that meets a full  *)
(* buffer, is dropped; every packet is counted as received or dropped.     *)
(*                                                                         *)
(* One step is one edge of cmac_clk.  The far side of the buffer's clock   *)
(* crossing takes beats at its own pace (m_tready).                        *)
(*                                                                         *)
(* Definitions named Fault... are deliberate mistakes for mutation runs.   *)
(***************************************************************************)
EXTENDS Integers, Sequences

CONSTANTS Depth, MaxBeats, SizeFifoCap

ASSUME BufferAssumption ==
    Depth \in Nat \ {0} /\ MaxBeats \in 1..Depth /\ SizeFifoCap \in Nat \ {0}

VARIABLES
    filled, axis,               \* input_slice_inst
    pkt_acc, pkt_size,          \* size_cnt_inst
    ram, ram_addra, ram_addra_checkpoint, ram_addrb, ram_data_cnt, partial_pkt_beats,
    drop_in_prog, dropped, acc, size_valid, size, size_fifo, rd_state, stage, ram_doutb,
    sent                        \* beats the CMAC has sent of its packet

bufVars == <<ram, ram_addra, ram_addra_checkpoint, ram_addrb, ram_data_cnt, partial_pkt_beats,
             drop_in_prog, dropped, acc, size_valid, size, size_fifo, rd_state, stage, ram_doutb>>
vars == <<filled, axis, pkt_acc, pkt_size, bufVars, sent>>

RxBeat == [pos : 1..MaxBeats, last : BOOLEAN, err : BOOLEAN]

Buf == INSTANCE PacketBuffer
Slice == INSTANCE ForwardSlice WITH Beat <- RxBeat

\* What the buffer stores of a beat: tuser_err is not passed on.
axis_buf == [pos |-> axis.pos, last |-> axis.last]

drop ==
    \/ filled /\ axis.last /\ axis.err
    \/ filled /\ ~Buf!s_axis_tready

End == filled /\ axis.last /\ Buf!s_axis_tready
FaultPktRecv == End /\ ~drop_in_prog
pkt_recv == End /\ ~Buf!drop_busy(drop)
pkt_drop == End /\ Buf!drop_busy(drop)
pkt_err == End /\ axis.err

\* size_cnt_inst runs beside the buffer, as if always ready.
SizeCountStep ==
    /\ pkt_acc' = IF ~filled THEN pkt_acc ELSE IF axis.last THEN 0 ELSE pkt_acc + 1
    /\ pkt_size' = IF filled /\ axis.last THEN pkt_acc + 1 ELSE pkt_size

\* The CMAC's next beat; tuser_err matters with tlast only.
NextBeat ==
    {b \in RxBeat : /\ b.pos = sent + 1
                    /\ sent + 1 = MaxBeats => b.last
                    /\ b.err => b.last}
SendStep(tvalid, beat) ==
    sent' = IF ~tvalid THEN sent ELSE IF beat.last THEN 0 ELSE sent + 1

Clock(tvalid, beat, m_tready) ==
    /\ Slice!Clock(tvalid, beat, TRUE)
    /\ SizeCountStep
    /\ Buf!Clock(filled, axis_buf, drop, m_tready)
    /\ SendStep(tvalid, beat)

Init ==
    /\ filled = FALSE /\ axis = [pos |-> 1, last |-> FALSE, err |-> FALSE]
    /\ pkt_acc = 0 /\ pkt_size = 0
    /\ Buf!Init
    /\ sent = 0

Next == \E tvalid, m_tready \in BOOLEAN, beat \in NextBeat : Clock(tvalid, beat, m_tready)

Spec == Init /\ [][Next]_vars

-----------------------------------------------------------------------------
(* Properties *)

TypeOK ==
    /\ Buf!TypeOK
    /\ Slice!TypeOK
    /\ pkt_acc \in 0..(MaxBeats - 1) /\ pkt_size \in 0..MaxBeats
    /\ sent \in 0..(MaxBeats - 1)

\* The beats of the CMAC's packet that reached the buffer's input before this
\* cycle, whether the buffer took them or not.
Position == IF filled THEN axis.pos - 1 ELSE sent
Came == [k \in 1..Position |-> [pos |-> k, last |-> FALSE]]

Queue == INSTANCE PacketQueue WITH
            Beat   <- Buf!Beat,
            Last   <- Buf!Last,
            offer  <- IF filled THEN <<axis_buf>> ELSE <<>>,
            ready  <- Buf!s_axis_tready,
            drop   <- drop,
            came   <- Came,
            doomed <- drop_in_prog,
            line   <- Buf!Line

\* Whatever the CMAC sends, packets reach the card's core whole or not at
\* all, and in order; not at all is for those that met a drop
\* (axi_stream_packet_buffer.sv:18-21, packet_adapter_rx.sv:121-125).
IsPacketQueue == Queue!Spec

PacketsInside == LET line == Buf!Line IN Buf!PacketEnds(line, Len(line))

\* A packet is counted as received exactly when it joins the packets that
\* will be delivered: neither a dropped packet nor part of one is counted,
\* and none is delivered uncounted (packet_adapter_rx.sv:114-119).
CountedIsDelivered ==
    \E gone \in {0, 1} : PacketsInside' = PacketsInside + (IF pkt_recv THEN 1 ELSE 0) - gone
RecvIsDelivered == [][CountedIsDelivered]_vars

\* A packet leaves with its own size, whatever was dropped before it
\* (axi_stream_packet_buffer.sv:18-21, axi_stream_size_counter.sv:18-21).
SizeIsOwn == Buf!SizeIsOwn
=============================================================================
