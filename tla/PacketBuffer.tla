---------------------------- MODULE PacketBuffer ----------------------------
(***************************************************************************)
(* src/utility/axi_stream_packet_buffer.sv (common clock) and the          *)
(* axi_stream_size_counter.sv inside it: a RAM that stores a packet and    *)
(* releases it once its last beat is in.  A packet dropped on the way is   *)
(* rewound to the last checkpoint.  A FIFO carries the packets' sizes.     *)
(*                                                                         *)
(* One step is one edge of s_aclk.  A beat is its position in its packet   *)
(* and its tlast, so that a packet's size is the position of its last      *)
(* beat.  The RAM and the size FIFO are vendor macros.                     *)
(*                                                                         *)
(* Definitions named Fault... are deliberate mistakes for mutation runs.   *)
(***************************************************************************)
EXTENDS Integers, Sequences, FiniteSets

CONSTANTS
    Depth,          \* C_RAM_DEPTH, a power of two
    MaxBeats,       \* beats of a packet of MAX_PKT_LEN bytes, at most Depth (PKT_CAP >= 1.0)
    SizeFifoCap     \* words the size FIFO really holds

Addr == 0..(Depth - 1)
Count == 0..(2 * Depth - 1)         \* C_RAM_ADDR_W + 1 bits
Beat == [pos : 1..MaxBeats, last : BOOLEAN]

VARIABLES
    ram, ram_addra, ram_addra_checkpoint, ram_addrb,
    ram_data_cnt, partial_pkt_beats,
    drop_in_prog, dropped,
    acc, size_valid, size,      \* size_cnt_inst
    size_fifo,
    rd_state,                   \* S_RD_Pxy: first and second output register hold a beat
    stage, ram_doutb            \* those registers

sizeVars == <<acc, size_valid, size, size_fifo>>
vars == <<ram, ram_addra, ram_addra_checkpoint, ram_addrb, ram_data_cnt, partial_pkt_beats,
          drop_in_prog, dropped, sizeVars, rd_state, stage, ram_doutb>>

-----------------------------------------------------------------------------
(* Combinational signals *)

ram_full == ram_data_cnt = Depth
s_axis_tready == ~ram_full
drop_busy(drop) == drop \/ drop_in_prog

Accepted(tvalid) == tvalid /\ s_axis_tready
ram_ena(tvalid, drop) == Accepted(tvalid) /\ ~drop_busy(drop)

full_pkt_beats ==
    IF ram_addra_checkpoint = ram_addrb
    THEN IF ram_full THEN Depth ELSE 0
    ELSE (ram_addra_checkpoint + Depth - ram_addrb) % Depth

m_axis_tvalid == rd_state[2] /\ size_fifo # <<>>
Taken(m_tready) == m_axis_tvalid /\ m_tready

ram_enb(m_tready) ==
    full_pkt_beats > 0 /\ (rd_state = <<TRUE, TRUE>> => Taken(m_tready))
ram_regceb(m_tready) ==
    rd_state[1] /\ (rd_state[2] => Taken(m_tready))

-----------------------------------------------------------------------------
(* Registers *)

FaultDropStep(tvalid, beat, drop) ==
    /\ drop_in_prog' = (~Accepted(tvalid) /\ (drop \/ drop_in_prog))
    /\ dropped' = (Accepted(tvalid) /\ beat.last /\ drop_in_prog)
DropStep(tvalid, beat, drop) ==
    LET end == Accepted(tvalid) /\ beat.last
    IN  /\ drop_in_prog' = (~end /\ (drop \/ drop_in_prog))
        /\ dropped' = (end /\ drop_in_prog)

SizeCountStep(tvalid, beat) ==
    /\ acc' = IF ~Accepted(tvalid) THEN acc ELSE IF beat.last THEN 0 ELSE acc + 1
    /\ size_valid' = (Accepted(tvalid) /\ beat.last)
    /\ size' = IF Accepted(tvalid) /\ beat.last THEN acc + 1 ELSE size

FaultSizeFifoWrEn == size_valid
size_fifo_wr_en == size_valid /\ ~dropped
FaultSizeFifoRdEn(m_tready) == Taken(m_tready)
size_fifo_rd_en(m_tready) == Taken(m_tready) /\ ram_doutb.last

\* A write to a full FIFO is lost: nobody looks at the macro's full flag.
SizeFifoStep(m_tready) ==
    size_fifo' =
        (IF size_fifo_rd_en(m_tready) THEN Tail(size_fifo) ELSE size_fifo)
        \o (IF size_fifo_wr_en /\ Len(size_fifo) < SizeFifoCap THEN <<size>> ELSE <<>>)

PartialStep(tvalid, beat, drop) ==
    partial_pkt_beats' =
        IF drop_busy(drop) THEN 0
        ELSE IF ~Accepted(tvalid) THEN partial_pkt_beats
        ELSE IF beat.last THEN 0 ELSE (partial_pkt_beats + 1) % (2 * Depth)

FaultDataCntStep(tvalid, drop, m_tready) ==
    ram_data_cnt' =
        IF drop_busy(drop) THEN (ram_data_cnt + 2 * Depth - partial_pkt_beats) % (2 * Depth)
        ELSE (ram_data_cnt + 2 * Depth + (IF ram_ena(tvalid, drop) THEN 1 ELSE 0)
                                       - (IF ram_enb(m_tready) THEN 1 ELSE 0)) % (2 * Depth)
DataCntStep(tvalid, drop, m_tready) ==
    LET come == IF ram_ena(tvalid, drop) THEN 1 ELSE 0
        go   == IF ram_enb(m_tready) THEN 1 ELSE 0
        lost == IF drop_busy(drop) THEN partial_pkt_beats ELSE 0
    IN  ram_data_cnt' = (ram_data_cnt + 2 * Depth + come - go - lost) % (2 * Depth)

WriteStep(tvalid, beat, drop) ==
    /\ ram' = IF ram_ena(tvalid, drop) THEN [ram EXCEPT ![ram_addra] = beat] ELSE ram
    /\ ram_addra' =
        IF drop_busy(drop) THEN ram_addra_checkpoint
        ELSE IF Accepted(tvalid) THEN (ram_addra + 1) % Depth ELSE ram_addra

FaultCheckpointStep(tvalid, beat, drop) ==
    ram_addra_checkpoint' =
        IF Accepted(tvalid) /\ beat.last THEN (ram_addra + 1) % Depth ELSE ram_addra_checkpoint
CheckpointStep(tvalid, beat, drop) ==
    ram_addra_checkpoint' =
        IF ram_ena(tvalid, drop) /\ beat.last THEN (ram_addra + 1) % Depth ELSE ram_addra_checkpoint

\* ram_inst has a read latency of two: enb loads the first register, regceb
\* the second.
ReadStep(m_tready) ==
    /\ stage' = IF ram_enb(m_tready) THEN ram[ram_addrb] ELSE stage
    /\ ram_doutb' = IF ram_regceb(m_tready) THEN stage ELSE ram_doutb
    /\ ram_addrb' = IF ram_enb(m_tready) THEN (ram_addrb + 1) % Depth ELSE ram_addrb

RdStateStep(m_tready) ==
    rd_state' = <<ram_enb(m_tready) \/ (rd_state[1] /\ ~ram_regceb(m_tready)),
                  ram_regceb(m_tready) \/ (rd_state[2] /\ ~Taken(m_tready))>>

Clock(tvalid, beat, drop, m_tready) ==
    /\ DropStep(tvalid, beat, drop)
    /\ SizeCountStep(tvalid, beat)
    /\ SizeFifoStep(m_tready)
    /\ PartialStep(tvalid, beat, drop)
    /\ DataCntStep(tvalid, drop, m_tready)
    /\ WriteStep(tvalid, beat, drop)
    /\ CheckpointStep(tvalid, beat, drop)
    /\ ReadStep(m_tready)
    /\ RdStateStep(m_tready)

Init ==
    /\ ram = [a \in Addr |-> [pos |-> 1, last |-> FALSE]]
    /\ ram_addra = 0 /\ ram_addra_checkpoint = 0 /\ ram_addrb = 0
    /\ ram_data_cnt = 0 /\ partial_pkt_beats = 0
    /\ drop_in_prog = FALSE /\ dropped = FALSE
    /\ acc = 0 /\ size_valid = FALSE /\ size = 0
    /\ size_fifo = <<>>
    /\ rd_state = <<FALSE, FALSE>>
    /\ stage = [pos |-> 1, last |-> FALSE] /\ ram_doutb = [pos |-> 1, last |-> FALSE]

-----------------------------------------------------------------------------
(* Properties *)

\* A tlast that meets a full buffer is not accepted, so that the size counter
\* may run on into the packet after it.
TypeOK ==
    /\ ram \in [Addr -> Beat]
    /\ ram_addra \in Addr /\ ram_addra_checkpoint \in Addr /\ ram_addrb \in Addr
    /\ ram_data_cnt \in 0..Depth /\ partial_pkt_beats \in 0..MaxBeats
    /\ drop_in_prog \in BOOLEAN /\ dropped \in BOOLEAN
    /\ acc \in 0..(2 * MaxBeats - 2) /\ size_valid \in BOOLEAN /\ size \in 0..(2 * MaxBeats - 1)
    /\ size_fifo \in Seq(1..MaxBeats) /\ Len(size_fifo) <= SizeFifoCap
    /\ rd_state \in BOOLEAN \X BOOLEAN
    /\ stage \in Beat /\ ram_doutb \in Beat

\* The beats in the RAM from address `from', n of them.
InRam(from, n) == [k \in 1..n |-> ram[(from + k - 1) % Depth]]

\* The beats of complete packets, in the order they will leave.
Line == (IF rd_state[2] THEN <<ram_doutb>> ELSE <<>>)
        \o (IF rd_state[1] THEN <<stage>> ELSE <<>>)
        \o InRam(ram_addrb, full_pkt_beats)

\* What ends a packet, for those who compare the buffer with a PacketQueue.
Last(b) == b.last

\* The four ways the buffer measures its contents agree: the occupancy that
\* drives tready, the distance between the pointers, the beats of the packet
\* being received, and the beats the reader may fetch.
CountsAgree ==
    /\ ram_data_cnt = full_pkt_beats + (IF drop_in_prog THEN 0 ELSE partial_pkt_beats)
    /\ ~drop_in_prog => ram_addra = (ram_addra_checkpoint + partial_pkt_beats) % Depth

\* How many packets end in the first k beats of s.
PacketEnds(s, k) == Cardinality({i \in 1..k : s[i].last})

\* The sizes of the complete packets inside, oldest first: those waiting, and
\* the one about to be written.
PendingSize == IF size_fifo_wr_en THEN <<size>> ELSE <<>>

Sizes == size_fifo \o PendingSize

\* m_axis_tuser_size is the size of the packet it leaves with: there is one
\* size for each packet inside, and it is the position of the packet's last
\* beat (axi_stream_size_counter.sv:18-21).
SizeIsOwn ==
    LET line  == Line
        sizes == Sizes
    IN  /\ Len(sizes) = PacketEnds(line, Len(line))
        /\ \A k \in 1..Len(line) : line[k].last => sizes[PacketEnds(line, k)] = line[k].pos
=============================================================================
