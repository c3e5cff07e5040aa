------------------------------ MODULE Transfer ------------------------------
(***************************************************************************)
(* plugin_src/source/transfer.sv, the stream half: replies of the host     *)
(* cross a forward slice into a PacketBuffer.  A reply that meets a full   *)
(* buffer is dropped whole.  (The UDP metadata cross a SyncFifo of their   *)
(* own, next to it.)  One step is one edge of clk.                         *)
(***************************************************************************)
EXTENDS Integers, Sequences

CONSTANTS Depth, MaxBeats, SizeFifoCap

BufferAssumption ==
    Depth \in Nat \ {0} /\ MaxBeats \in 1..Depth /\ SizeFifoCap \in Nat \ {0}

VARIABLES
    filled, axis,               \* input_slice_inst
    ram, ram_addra, ram_addra_checkpoint, ram_addrb, ram_data_cnt, partial_pkt_beats,
    drop_in_prog, dropped, acc, size_valid, size, size_fifo, rd_state, stage, ram_doutb,
    sent                        \* beats the sender has sent of its packet

bufVars == <<ram, ram_addra, ram_addra_checkpoint, ram_addrb, ram_data_cnt, partial_pkt_beats,
             drop_in_prog, dropped, acc, size_valid, size, size_fifo, rd_state, stage, ram_doutb>>
vars == <<filled, axis, bufVars, sent>>

Buf == INSTANCE PacketBuffer
Slice == INSTANCE ForwardSlice WITH Beat <- Buf!Beat

drop == filled /\ ~Buf!s_axis_tready

\* The sender: packets of at most MaxBeats beats; a beat stays offered until
\* the slice takes it.
NextBeat == {[pos |-> sent + 1, last |-> l] :
                l \in IF sent + 1 = MaxBeats THEN {TRUE} ELSE BOOLEAN}
SendStep(tvalid, beat) ==
    sent' = IF ~(tvalid /\ Slice!s_axis_tready(Buf!s_axis_tready)) THEN sent
            ELSE IF beat.last THEN 0 ELSE sent + 1

Clock(tvalid, beat, m_tready) ==
    /\ Slice!Clock(tvalid, beat, Buf!s_axis_tready)
    /\ Buf!Clock(filled, axis, drop, m_tready)
    /\ SendStep(tvalid, beat)

Init == Slice!Init /\ axis = [pos |-> 1, last |-> FALSE] /\ Buf!Init /\ sent = 0

Cycle(m_tready) == \E tvalid \in BOOLEAN, beat \in NextBeat : Clock(tvalid, beat, m_tready)

Next == \E m_tready \in BOOLEAN : Cycle(m_tready)

Spec == Init /\ [][Next]_vars

\* The clock runs and the receiver takes a beat again and again, but nobody has
\* to send: the behaviour may end where a cycle without input would change
\* nothing.
Pause == \E beat \in NextBeat : Clock(FALSE, beat, TRUE)
LiveSpec == Spec /\ ([]<><<Cycle(TRUE)>>_vars \/ []<>~ENABLED <<Pause>>_vars)

-----------------------------------------------------------------------------
(* Properties *)

TypeOK == Buf!TypeOK /\ Slice!TypeOK /\ sent \in 0..(MaxBeats - 1)

\* The beats of the reply that reached the buffer's input before the one that
\* is there.
Position == IF filled THEN axis.pos - 1 ELSE sent
Came == [k \in 1..Position |-> [pos |-> k, last |-> FALSE]]

Queue == INSTANCE PacketQueue WITH
            Beat   <- Buf!Beat,
            Last   <- Buf!Last,
            offer  <- IF filled THEN <<axis>> ELSE <<>>,
            ready  <- Buf!s_axis_tready,
            drop   <- drop,
            came   <- Came,
            doomed <- drop_in_prog,
            line   <- Buf!Line

\* A reply leaves whole, or not at all when a beat of it met a full buffer, and
\* in order (transfer.sv:66-67, 114-147).
IsPacketQueue == Queue!Spec

\* Each reply leaves with its own size: a dropped reply leaves no size behind
\* (transfer.sv:66-67, 145).
SizeIsOwn == Buf!SizeIsOwn

\* The buffer's four measures of its contents agree while replies are
\* dropped for lack of room.
CountsAgree == Buf!CountsAgree

\* A complete reply appears at the output, and a full buffer becomes free
\* again: drops, checkpoints and the size FIFO never leave the two sides
\* waiting for each other.
PacketAppears == Buf!Line # <<>> ~> Buf!m_axis_tvalid
RoomAgain == Buf!ram_full ~> Buf!s_axis_tready
=============================================================================
