--------------------------- MODULE MCBuffersProofs ---------------------------
(***************************************************************************)
(* The two users of the packet buffer keep what it asks of its input, so   *)
(* that what PacketBufferProofs shows of a cycle holds of both, for every  *)
(* depth and every length of packets that fit.                             *)
(***************************************************************************)
EXTENDS MCBuffers, TLAPS

A == INSTANCE PacketBufferProofs
R == INSTANCE PacketBufferProofs WITH
        Depth <- TransferDepth, MaxBeats <- TransferBeats, SizeFifoCap <- TransferSizes

-----------------------------------------------------------------------------
(* The receive adapter *)

\* While a packet is dropped the counter of its size goes on from where the
\* buffer was full: with the beats of that packet, or of the one after it if
\* the buffer was full until then.
AdapterCounts ==
    /\ ~drop_in_prog => partial_pkt_beats = Position
    /\ drop_in_prog /\ ram_data_cnt = Depth => acc <= MaxBeats - 1
    /\ drop_in_prog /\ ram_data_cnt # Depth => acc <= MaxBeats - 1 + Position
    /\ pkt_acc = Position /\ pkt_size \in 0..MaxBeats

AdapterSlice ==
    /\ filled \in BOOLEAN /\ axis \in RxBeat /\ sent \in 0..(MaxBeats - 1)
    /\ filled => sent = IF axis.last THEN 0 ELSE axis.pos

AdapterInv == A!BufferInv /\ AdapterSlice /\ AdapterCounts

LEMMA AdapterDimensions == A!Dimensions
BY BufferAssumption DEF BufferAssumption, A!Dimensions

LEMMA AdapterClock ==
  ASSUME NEW tvalid, NEW beat, NEW lost, NEW m_tready, Buf!Clock(tvalid, beat, lost, m_tready)
  PROVE  A!Clock(tvalid, beat, lost, m_tready)
BY DEF Buf!Clock, Buf!DropStep, Buf!SizeCountStep, Buf!SizeFifoStep, Buf!PartialStep,
     Buf!DataCntStep,
       Buf!WriteStep, Buf!CheckpointStep, Buf!ReadStep, Buf!RdStateStep,
       A!Clock, A!DropStep, A!SizeCountStep, A!SizeFifoStep, A!PartialStep, A!DataCntStep,
       A!WriteStep, A!CheckpointStep, A!ReadStep, A!RdStateStep,
       Buf!ram_full, Buf!s_axis_tready, Buf!drop_busy, Buf!Accepted, Buf!ram_ena,
          Buf!full_pkt_beats,
       Buf!m_axis_tvalid, Buf!Taken, Buf!ram_enb, Buf!ram_regceb, Buf!size_fifo_wr_en,
          Buf!size_fifo_rd_en,
       A!ram_full, A!s_axis_tready, A!drop_busy, A!Accepted, A!ram_ena, A!full_pkt_beats,
       A!m_axis_tvalid, A!Taken, A!ram_enb, A!ram_regceb, A!size_fifo_wr_en, A!size_fifo_rd_en

\* The slice is drained in every cycle.
LEMMA AdapterSliceStep ==
  ASSUME AdapterSlice, NEW tvalid \in BOOLEAN, NEW beat \in NextBeat, NEW m_tready,
         Clock(tvalid, beat, m_tready)
  PROVE  /\ AdapterSlice'
         /\ Position \in 0..(MaxBeats - 1)
         /\ Position' = sent
         /\ sent = IF filled THEN IF axis.last THEN 0 ELSE Position + 1 ELSE Position
         /\ filled => /\ axis_buf \in A!Beat
                      /\ axis_buf.pos = Position + 1 /\ axis_buf.last = axis.last
                      /\ axis_buf.pos = MaxBeats => axis_buf.last
<1>1. /\ MaxBeats \in Nat /\ sent \in 0..(MaxBeats - 1) /\ filled \in BOOLEAN
      /\ axis.pos \in 1..MaxBeats /\ axis.last \in BOOLEAN /\ axis \in RxBeat
      /\ filled => sent = IF axis.last THEN 0 ELSE axis.pos
  BY BufferAssumption DEF AdapterSlice, RxBeat, BufferAssumption
<1>2. /\ beat \in RxBeat /\ beat.pos = sent + 1 /\ beat.last \in BOOLEAN
      /\ sent + 1 = MaxBeats => beat.last
  BY DEF NextBeat, RxBeat
<1>3. sent' = IF ~tvalid THEN sent ELSE IF beat.last THEN 0 ELSE sent + 1
  BY DEF Clock, SendStep
<1>4. filled' = tvalid /\ axis' = IF tvalid THEN beat ELSE axis
  <2>1. Slice!Clock(tvalid, beat, TRUE)
    BY DEF Clock
  <2>2. QED
    BY <1>1, <2>1 DEF Slice!Clock, Slice!FillEmpty, Slice!Replace, Slice!Drain, Slice!Stall,
         Slice!vars
<1>5. sent' \in 0..(MaxBeats - 1)
  BY <1>1, <1>2, <1>3
<1>6. AdapterSlice'
  BY <1>1, <1>2, <1>3, <1>4, <1>5 DEF AdapterSlice
<1>7. /\ Position \in 0..(MaxBeats - 1)
      /\ sent = IF filled THEN IF axis.last THEN 0 ELSE Position + 1 ELSE Position
  BY <1>1 DEF Position
<1>8. Position' = sent
  BY <1>1, <1>2, <1>3, <1>4 DEF Position
<1>9. filled => /\ axis_buf \in A!Beat
                /\ axis_buf.pos = Position + 1 /\ axis_buf.last = axis.last
                /\ axis_buf.pos = MaxBeats => axis_buf.last
  BY <1>1 DEF axis_buf, A!Beat, Position
<1>10. QED
  BY <1>6, <1>7, <1>8, <1>9

LEMMA AdapterBufferStep ==
  ASSUME AdapterInv, NEW tvalid \in BOOLEAN, NEW beat \in NextBeat, NEW m_tready,
         Clock(tvalid, beat, m_tready)
  PROVE  A!Step(filled, axis_buf, drop, m_tready)
<1>1. /\ Position \in 0..(MaxBeats - 1)
      /\ filled => /\ axis_buf \in A!Beat
                   /\ axis_buf.pos = Position + 1 /\ axis_buf.last = axis.last
                   /\ axis_buf.pos = MaxBeats => axis_buf.last
  BY AdapterSliceStep DEF AdapterInv
<1>2. A!InputOK(filled, axis_buf)
  BY <1>1 DEF A!InputOK, AdapterInv, AdapterCounts
<1>3. filled \in BOOLEAN /\ drop \in BOOLEAN /\ axis.last \in BOOLEAN
  BY DEF AdapterInv, AdapterSlice, drop, RxBeat
<1>4. Buf!Clock(filled, axis_buf, drop, m_tready)
  BY DEF Clock
<1>5. A!Clock(filled, axis_buf, drop, m_tready)
  BY <1>4, AdapterClock
<1>6. acc' \in 0..(2 * MaxBeats - 2)
  <2>1. /\ MaxBeats \in Nat \ {0} /\ acc \in 0..(2 * MaxBeats - 2) /\ drop_in_prog \in BOOLEAN
        /\ ~drop_in_prog => acc = partial_pkt_beats
    BY BufferAssumption DEF AdapterInv, A!BufferInv, A!TypeOK, A!Sizing, BufferAssumption
  <2>2. acc' = IF ~(filled /\ ram_data_cnt # Depth) THEN acc ELSE IF axis.last THEN 0 ELSE acc + 1
    <3>1. acc' = IF ~A!Accepted(filled) THEN acc ELSE IF axis_buf.last THEN 0 ELSE acc + 1
      BY <1>5 DEF A!Clock, A!SizeCountStep
    <3>2. A!Accepted(filled) <=> filled /\ ram_data_cnt # Depth
      BY DEF A!Accepted, A!s_axis_tready, A!ram_full
    <3>3. QED
      BY <1>1, <3>1, <3>2
  <2>3. filled /\ ~axis.last => Position <= MaxBeats - 2
    <3>1. filled => (Position + 1 = MaxBeats => axis.last)
      BY <1>1
    <3>2. QED
      BY <1>1, <2>1, <3>1
  <2>4. filled /\ ram_data_cnt # Depth /\ ~axis.last => acc <= MaxBeats - 1 + Position
    BY <1>1, <2>1 DEF AdapterInv, AdapterCounts
  <2>5. QED
    BY <1>1, <2>1, <2>2, <2>3, <2>4
<1>7. QED
  BY <1>2, <1>3, <1>5, <1>6, AdapterDimensions DEF A!Step, AdapterInv

LEMMA AdapterStep ==
  ASSUME AdapterInv, NEW tvalid \in BOOLEAN, NEW beat \in NextBeat, NEW m_tready,
         Clock(tvalid, beat, m_tready)
  PROVE  AdapterInv'
<1>1. A!Step(filled, axis_buf, drop, m_tready)
  BY AdapterBufferStep
<1>2. /\ AdapterSlice'
      /\ Position \in 0..(MaxBeats - 1) /\ Position' = sent
      /\ sent = IF filled THEN IF axis.last THEN 0 ELSE Position + 1 ELSE Position
      /\ filled => axis_buf.pos = Position + 1 /\ axis_buf.last = axis.last
      /\ filled => (axis_buf.pos = MaxBeats => axis_buf.last)
  BY AdapterSliceStep DEF AdapterInv
<1>3. A!BufferInv'
  BY <1>1, A!BufferStep
<1>4. /\ MaxBeats \in Nat \ {0} /\ sent \in 0..(MaxBeats - 1) /\ drop_in_prog \in BOOLEAN
      /\ partial_pkt_beats \in 0..MaxBeats /\ acc \in 0..(2 * MaxBeats - 2)
      /\ ram_data_cnt \in 0..Depth /\ Depth \in Nat
      /\ ~drop_in_prog => acc = partial_pkt_beats
      /\ drop_in_prog => partial_pkt_beats = 0
      /\ filled \in BOOLEAN /\ axis.last \in BOOLEAN
  BY BufferAssumption DEF AdapterInv, A!BufferInv, A!TypeOK, A!Sizing, A!Occupancy,
                          AdapterSlice, RxBeat, BufferAssumption
<1>5. /\ ~drop_in_prog => partial_pkt_beats = Position
      /\ drop_in_prog /\ ram_data_cnt = Depth => acc <= MaxBeats - 1
      /\ drop_in_prog /\ ram_data_cnt # Depth => acc <= MaxBeats - 1 + Position
      /\ pkt_acc = Position /\ pkt_size \in 0..MaxBeats
  BY DEF AdapterInv, AdapterCounts
<1> DEFINE accepted == filled /\ ram_data_cnt # Depth
           lost == drop \/ drop_in_prog
<1>6. drop <=> filled /\ (ram_data_cnt = Depth \/ (axis.last /\ axis.err))
  BY DEF drop, Buf!s_axis_tready, Buf!ram_full
<1>7. /\ partial_pkt_beats' = IF lost THEN 0 ELSE IF ~accepted THEN partial_pkt_beats
                              ELSE IF axis.last THEN 0 ELSE partial_pkt_beats + 1
      /\ drop_in_prog' = (~(accepted /\ axis.last) /\ lost)
      /\ drop_in_prog => ram_data_cnt' = ram_data_cnt - A!Go(m_tready)
  <2>1. /\ partial_pkt_beats' =
              IF A!Lost(drop) THEN 0 ELSE IF ~A!Comes(filled, drop) THEN partial_pkt_beats
              ELSE IF axis_buf.last THEN 0 ELSE partial_pkt_beats + 1
        /\ drop_in_prog' = (~A!Ends(filled, axis_buf) /\ A!Lost(drop))
        /\ ram_data_cnt' = ram_data_cnt + (IF A!Comes(filled, drop) THEN 1 ELSE 0) - A!Go(m_tready)
                              - (IF A!Lost(drop) THEN partial_pkt_beats ELSE 0)
    BY <1>1, A!CountersStep
  <2>2. /\ A!Lost(drop) <=> lost
        /\ A!Ends(filled, axis_buf) <=> accepted /\ axis.last
        /\ A!Comes(filled, drop) <=> accepted /\ ~lost
    BY <1>2 DEF A!Lost, A!Ends, A!Comes
  <2>3. A!Go(m_tready) \in {0, 1}
    BY A!GoIsPossible
  <2>4. drop_in_prog' = (~(accepted /\ axis.last) /\ lost)
    BY <2>1, <2>2
  <2> HIDE DEF accepted, lost
  <2>5. drop_in_prog => ram_data_cnt' = ram_data_cnt - A!Go(m_tready)
    <3>1. drop_in_prog => A!Lost(drop) /\ ~A!Comes(filled, drop)
      BY <2>2 DEF lost
    <3>2. QED
      BY <1>4, <2>1, <2>3, <3>1
  <2>6. A!Comes(filled, drop) => axis_buf.last = axis.last
    BY <1>2, <2>2 DEF accepted
  <2>7. QED
    BY <2>1, <2>2, <2>4, <2>5, <2>6
<1>8. acc' = IF ~accepted THEN acc ELSE IF axis.last THEN 0 ELSE acc + 1
  <2>1. acc' = IF ~A!Accepted(filled) THEN acc ELSE IF axis_buf.last THEN 0 ELSE acc + 1
    BY <1>1 DEF A!Step, A!Clock, A!SizeCountStep
  <2>2. A!Accepted(filled) <=> accepted
    BY DEF A!Accepted, A!s_axis_tready, A!ram_full
  <2>3. QED
    BY <1>2, <2>1, <2>2
<1>9. AdapterCounts'
  <2>1. /\ pkt_acc' = IF ~filled THEN pkt_acc ELSE IF axis.last THEN 0 ELSE pkt_acc + 1
        /\ pkt_size' = IF filled /\ axis.last THEN pkt_acc + 1 ELSE pkt_size
    BY DEF Clock, SizeCountStep
  <2>2. pkt_acc' = Position' /\ pkt_size' \in 0..MaxBeats
    BY <1>2, <1>4, <1>5, <2>1
  <2>3. ~drop_in_prog' => partial_pkt_beats' = Position'
    BY <1>2, <1>4, <1>5, <1>6, <1>7
  <2>4. A!Go(m_tready) \in {0, 1}
    BY A!GoIsPossible
  <2>5. ASSUME drop_in_prog'
        PROVE  /\ ram_data_cnt' = Depth => acc' <= MaxBeats - 1
               /\ acc' <= MaxBeats - 1 + Position'
    <3>1. CASE ~drop_in_prog
      <4>1. drop /\ ~(accepted /\ axis.last)
        BY <1>7, <2>5, <3>1
      <4>2. ~accepted
        BY <1>6, <4>1
      <4>3. acc' = Position
        BY <1>4, <1>5, <1>8, <3>1, <4>2
      <4>4. QED
        BY <1>2, <1>4, <4>3
    <3>2. CASE drop_in_prog /\ ram_data_cnt = Depth
      <4>1. acc' = acc /\ acc <= MaxBeats - 1
        BY <1>5, <1>8, <3>2
      <4>2. QED
        BY <1>2, <1>4, <4>1
    <3>3. CASE drop_in_prog /\ ram_data_cnt # Depth
      <4>1. ram_data_cnt' # Depth
        BY <1>4, <1>7, <2>4, <3>3
      <4>2. ~(accepted /\ axis.last)
        BY <1>7, <2>5
      <4>3. acc' = (IF filled THEN acc + 1 ELSE acc) /\ (filled => ~axis.last)
        BY <1>8, <3>3, <4>2
      <4>4. QED
        BY <1>2, <1>4, <1>5, <3>3, <4>1, <4>3
    <3>4. QED
      BY <3>1, <3>2, <3>3
  <2>6. QED
    BY <2>2, <2>3, <2>5 DEF AdapterCounts
<1>10. QED
  BY <1>2, <1>3, <1>9 DEF AdapterInv

LEMMA AdapterStarts == ASSUME Init PROVE AdapterInv
<1>1. A!BufferInv
  <2>1. A!Init
    BY DEF Init, Buf!Init, A!Init, Buf!Addr, A!Addr
  <2>2. QED
    BY <2>1, AdapterDimensions, A!StartsEmpty
<1>2. MaxBeats \in Nat \ {0}
  BY BufferAssumption DEF BufferAssumption
<1>3. /\ filled = FALSE /\ axis = [pos |-> 1, last |-> FALSE, err |-> FALSE]
      /\ pkt_acc = 0 /\ pkt_size = 0 /\ sent = 0
      /\ drop_in_prog = FALSE /\ partial_pkt_beats = 0
  BY DEF Init, Buf!Init
<1>4. AdapterSlice
  <2>1. axis \in RxBeat
    BY <1>2, <1>3 DEF RxBeat
  <2>2. filled \in BOOLEAN /\ ~filled
    BY <1>3
  <2>3. QED
    BY <1>2, <1>3, <2>1, <2>2 DEF AdapterSlice
<1>5. AdapterCounts
  BY <1>2, <1>3 DEF AdapterCounts, Position
<1>6. QED
  BY <1>1, <1>4, <1>5 DEF AdapterInv

-----------------------------------------------------------------------------
(* The way of the replies *)

\* The slice waits with the buffer, so that the size counter never runs on.
ReplySlice ==
    /\ filled \in BOOLEAN /\ axis \in R!Beat /\ sent \in 0..(TransferBeats - 1)
    /\ filled => sent = IF axis.last THEN 0 ELSE axis.pos

ReplyCounts ==
    /\ ~drop_in_prog => partial_pkt_beats = Position
    /\ acc = Position

ReplyInv == R!BufferInv /\ ReplySlice /\ ReplyCounts

LEMMA ReplyDimensions == R!Dimensions
BY ReplyAssumption DEF Reply!BufferAssumption, R!Dimensions

LEMMA ReplyClock ==
  ASSUME NEW tvalid, NEW beat, NEW lost, NEW m_tready, Reply!Buf!Clock(tvalid, beat, lost, m_tready)
  PROVE  R!Clock(tvalid, beat, lost, m_tready)
BY DEF Reply!Buf!Clock, Reply!Buf!DropStep, Reply!Buf!SizeCountStep, Reply!Buf!SizeFifoStep,
       Reply!Buf!PartialStep, Reply!Buf!DataCntStep, Reply!Buf!WriteStep, Reply!Buf!CheckpointStep,
       Reply!Buf!ReadStep, Reply!Buf!RdStateStep,
       R!Clock, R!DropStep, R!SizeCountStep, R!SizeFifoStep, R!PartialStep, R!DataCntStep,
       R!WriteStep, R!CheckpointStep, R!ReadStep, R!RdStateStep,
       Reply!Buf!ram_full, Reply!Buf!s_axis_tready, Reply!Buf!drop_busy, Reply!Buf!Accepted,
       Reply!Buf!ram_ena, Reply!Buf!full_pkt_beats, Reply!Buf!m_axis_tvalid, Reply!Buf!Taken,
       Reply!Buf!ram_enb, Reply!Buf!ram_regceb, Reply!Buf!size_fifo_wr_en,
          Reply!Buf!size_fifo_rd_en,
       R!ram_full, R!s_axis_tready, R!drop_busy, R!Accepted, R!ram_ena, R!full_pkt_beats,
       R!m_axis_tvalid, R!Taken, R!ram_enb, R!ram_regceb, R!size_fifo_wr_en, R!size_fifo_rd_en

\* The beat in the slice goes on, or waits for room in the buffer.
LEMMA ReplySliceStep ==
  ASSUME ReplySlice, NEW tvalid \in BOOLEAN, NEW beat \in Reply!NextBeat, NEW m_tready,
         Reply!Clock(tvalid, beat, m_tready)
  PROVE  /\ ReplySlice'
         /\ Position \in 0..(TransferBeats - 1)
         /\ Position' = IF filled /\ ram_data_cnt # TransferDepth
                        THEN IF axis.last THEN 0 ELSE Position + 1 ELSE Position
         /\ filled => /\ axis.pos = Position + 1
                      /\ axis.pos = TransferBeats => axis.last
         /\ filled /\ ram_data_cnt = TransferDepth => filled' /\ axis' = axis
<1> DEFINE room == ram_data_cnt # TransferDepth
<1>1. /\ TransferBeats \in Nat /\ sent \in 0..(TransferBeats - 1) /\ filled \in BOOLEAN
      /\ axis.pos \in 1..TransferBeats /\ axis.last \in BOOLEAN /\ axis \in R!Beat
      /\ filled => sent = IF axis.last THEN 0 ELSE axis.pos
  BY ReplyDimensions DEF ReplySlice, R!Beat, R!Dimensions
<1>2. /\ beat \in R!Beat /\ beat.pos = sent + 1 /\ beat.last \in BOOLEAN
      /\ sent + 1 = TransferBeats => beat.last
  <2>1. PICK l \in BOOLEAN : /\ beat = [pos |-> sent + 1, last |-> l]
                             /\ sent + 1 = TransferBeats => l
    BY <1>1 DEF Reply!NextBeat
  <2>2. sent + 1 \in 1..TransferBeats
    BY <1>1
  <2>3. QED
    BY <2>1, <2>2 DEF R!Beat
<1>3. sent' = IF tvalid /\ (~filled \/ room) THEN IF beat.last THEN 0 ELSE sent + 1 ELSE sent
  BY DEF Reply!Clock, Reply!SendStep, Reply!Slice!s_axis_tready, Reply!Buf!s_axis_tready,
         Reply!Buf!ram_full
<1>4. /\ filled' = IF filled /\ ~room THEN TRUE ELSE tvalid
      /\ axis' = IF (filled /\ ~room) \/ ~tvalid THEN axis ELSE beat
  <2>1. Reply!Slice!Clock(tvalid, beat, room)
    BY DEF Reply!Clock, Reply!Buf!s_axis_tready, Reply!Buf!ram_full
  <2>2. QED
    BY <1>1, <2>1 DEF Reply!Slice!Clock, Reply!Slice!FillEmpty, Reply!Slice!Replace,
                      Reply!Slice!Drain, Reply!Slice!Stall, Reply!Slice!vars
<1> HIDE DEF room
<1>5. sent' \in 0..(TransferBeats - 1)
  BY <1>1, <1>2, <1>3
<1>6. ReplySlice'
  BY <1>1, <1>2, <1>3, <1>4, <1>5 DEF ReplySlice
<1>7. /\ Position \in 0..(TransferBeats - 1)
      /\ sent = IF filled THEN IF axis.last THEN 0 ELSE Position + 1 ELSE Position
      /\ filled => axis.pos = Position + 1 /\ (axis.pos = TransferBeats => axis.last)
  BY <1>1 DEF Position
<1>8. Position' = IF filled /\ ~room THEN Position ELSE sent
  <2>1. CASE filled /\ ~room
    BY <1>3, <1>4, <2>1 DEF Position
  <2>2. CASE ~(filled /\ ~room)
    <3>1. /\ filled' = tvalid /\ axis' = IF tvalid THEN beat ELSE axis
          /\ sent' = IF tvalid THEN IF beat.last THEN 0 ELSE sent + 1 ELSE sent
      BY <1>1, <1>3, <1>4, <2>2
    <3>2. Position' = sent
      BY <1>1, <1>2, <3>1 DEF Position
    <3>3. QED
      BY <2>2, <3>2
  <2>3. QED
    BY <2>1, <2>2
<1>9. Position' = IF filled /\ room THEN IF axis.last THEN 0 ELSE Position + 1 ELSE Position
  BY <1>1, <1>7, <1>8
<1>10. filled /\ ~room => filled' /\ axis' = axis
  BY <1>4
<1>11. QED
  BY <1>6, <1>7, <1>9, <1>10 DEF room

LEMMA ReplyBufferStep ==
  ASSUME ReplyInv, NEW tvalid \in BOOLEAN, NEW beat \in Reply!NextBeat, NEW m_tready,
         Reply!Clock(tvalid, beat, m_tready)
  PROVE  /\ R!Step(filled, axis, Reply!drop, m_tready)
         /\ acc' = Position'
         /\ Reply!drop => ~R!Ends(filled, axis)
<1>1. /\ TransferBeats \in Nat \ {0} /\ filled \in BOOLEAN /\ axis \in R!Beat
      /\ axis.last \in BOOLEAN
  BY ReplyDimensions DEF ReplyInv, ReplySlice, R!Beat, R!Dimensions
<1>2. /\ ReplySlice' /\ Position \in 0..(TransferBeats - 1)
      /\ Position' = IF filled /\ ram_data_cnt # TransferDepth
                     THEN IF axis.last THEN 0 ELSE Position + 1 ELSE Position
      /\ filled => axis.pos = Position + 1 /\ (axis.pos = TransferBeats => axis.last)
  BY ReplySliceStep DEF ReplyInv
<1>3. R!InputOK(filled, axis)
  BY <1>1, <1>2 DEF R!InputOK, ReplyInv, ReplyCounts
<1>4. R!Clock(filled, axis, Reply!drop, m_tready)
  BY ReplyClock DEF Reply!Clock
<1>5. acc' = Position'
  <2>1. acc' = IF ~R!Accepted(filled) THEN acc ELSE IF axis.last THEN 0 ELSE acc + 1
    BY <1>4 DEF R!Clock, R!SizeCountStep
  <2>2. R!Accepted(filled) <=> filled /\ ram_data_cnt # TransferDepth
    BY DEF R!Accepted, R!s_axis_tready, R!ram_full
  <2>3. QED
    BY <1>2, <2>1, <2>2 DEF ReplyInv, ReplyCounts
<1>6. acc' \in 0..(2 * TransferBeats - 2)
  <2>1. filled /\ ~axis.last => Position + 1 \in 0..(TransferBeats - 1)
    BY <1>1, <1>2
  <2>2. Position' \in 0..(TransferBeats - 1)
    BY <1>1, <1>2, <2>1
  <2>3. QED
    BY <1>1, <1>5, <2>2
<1>7. Reply!drop \in BOOLEAN /\ (Reply!drop => ~R!Ends(filled, axis))
  BY <1>1 DEF Reply!drop, Reply!Buf!s_axis_tready, Reply!Buf!ram_full, R!Ends
<1>8. QED
  BY <1>1, <1>3, <1>4, <1>5, <1>6, <1>7, ReplyDimensions DEF R!Step, ReplyInv

LEMMA ReplyStep ==
  ASSUME ReplyInv, NEW tvalid \in BOOLEAN, NEW beat \in Reply!NextBeat, NEW m_tready,
         Reply!Clock(tvalid, beat, m_tready)
  PROVE  ReplyInv'
<1>1. /\ R!Step(filled, axis, Reply!drop, m_tready) /\ acc' = Position'
  BY ReplyBufferStep
<1>2. /\ ReplySlice'
      /\ Position' = IF filled /\ ram_data_cnt # TransferDepth
                     THEN IF axis.last THEN 0 ELSE Position + 1 ELSE Position
  BY ReplySliceStep DEF ReplyInv
<1>3. R!BufferInv'
  BY <1>1, R!BufferStep
<1>4. ~drop_in_prog' => partial_pkt_beats' = Position'
  <2>1. /\ partial_pkt_beats' =
              IF R!Lost(Reply!drop) THEN 0 ELSE IF ~R!Comes(filled,
                 Reply!drop) THEN partial_pkt_beats
              ELSE IF axis.last THEN 0 ELSE partial_pkt_beats + 1
        /\ drop_in_prog' = (~R!Ends(filled, axis) /\ R!Lost(Reply!drop))
    BY <1>1, R!CountersStep
  <2>2. /\ R!Lost(Reply!drop) <=> (filled /\ ram_data_cnt = TransferDepth) \/ drop_in_prog
        /\ R!Ends(filled, axis) <=> filled /\ ram_data_cnt # TransferDepth /\ axis.last
        /\ R!Comes(filled, Reply!drop) <=> filled /\ ram_data_cnt # TransferDepth /\ ~drop_in_prog
    BY DEF R!Lost, R!Ends, R!Comes, Reply!drop, Reply!Buf!s_axis_tready, Reply!Buf!ram_full
  <2>3. ~drop_in_prog => partial_pkt_beats = Position
    BY DEF ReplyInv, ReplyCounts
  <2>4. QED
    BY <1>2, <2>1, <2>2, <2>3
<1>5. QED
  BY <1>1, <1>2, <1>3, <1>4 DEF ReplyInv, ReplyCounts

LEMMA ReplyStarts == ASSUME Reply!Init PROVE ReplyInv /\ R!Init
<1>1. R!Init
  BY DEF Reply!Init, Reply!Buf!Init, R!Init, Reply!Buf!Addr, R!Addr
<1>2. R!BufferInv
  BY <1>1, ReplyDimensions, R!StartsEmpty
<1>3. TransferBeats \in Nat \ {0}
  BY ReplyDimensions DEF R!Dimensions
<1>4. /\ filled = FALSE /\ axis = [pos |-> 1, last |-> FALSE] /\ sent = 0
      /\ drop_in_prog = FALSE /\ partial_pkt_beats = 0 /\ acc = 0
  BY DEF Reply!Init, Reply!Slice!Init, Reply!Buf!Init
<1>5. ReplySlice
  <2>1. axis \in R!Beat
    BY <1>3, <1>4 DEF R!Beat
  <2>2. filled \in BOOLEAN /\ ~filled
    BY <1>4
  <2>3. QED
    BY <1>3, <1>4, <2>1, <2>2 DEF ReplySlice
<1>6. ReplyCounts
  BY <1>4 DEF ReplyCounts, Position
<1>7. QED
  BY <1>1, <1>2, <1>5, <1>6 DEF ReplyInv

-----------------------------------------------------------------------------
(* Both, side by side *)

BuffersInv ==
    /\ part \in {"adapter", "transfer"}
    /\ part = "adapter" => AdapterInv
    /\ part = "transfer" => ReplyInv

LEMMA Unmoved ==
  ASSUME UNCHANGED vars
  PROVE  /\ AdapterInv => AdapterInv'
         /\ ReplyInv => ReplyInv'
         /\ R!SizeIsOwn => R!SizeIsOwn'
<1>1. AdapterInv => AdapterInv'
  BY DEF vars, bufVars, AdapterInv, AdapterSlice, AdapterCounts, Position,
         A!BufferInv, A!TypeOK, A!Occupancy, A!OpenPacket, A!Sizing, A!Building, A!InRam,
         A!full_pkt_beats, A!ram_full, A!size_fifo_wr_en
<1>2. ReplyInv => ReplyInv'
  BY DEF vars, bufVars, ReplyInv, ReplySlice, ReplyCounts, Position,
         R!BufferInv, R!TypeOK, R!Occupancy, R!OpenPacket, R!Sizing, R!Building, R!InRam,
         R!full_pkt_beats, R!ram_full, R!size_fifo_wr_en
<1>3. R!SizeIsOwn => R!SizeIsOwn'
  <2>1. R!InRam(ram_addrb, R!full_pkt_beats)' = R!InRam(ram_addrb, R!full_pkt_beats)
    BY DEF vars, bufVars, R!InRam, R!full_pkt_beats, R!ram_full
  <2>2. R!Line' = R!Line
    BY <2>1 DEF vars, bufVars, R!Line
  <2>3. R!Sizes' = R!Sizes
    BY DEF vars, bufVars, R!Sizes, R!PendingSize, R!size_fifo_wr_en
  <2>4. QED
    BY <2>2, <2>3 DEF R!SizeIsOwn, R!PacketEnds
<1>4. QED
  BY <1>1, <1>2, <1>3

\* A step of either part is a cycle.
LEMMA Cycles ==
  ASSUME [MCNext]_MCVars
  PROVE  \/ /\ part = "adapter" /\ part' = part
            /\ \E tvalid, m_tready \in BOOLEAN, beat \in NextBeat : Clock(tvalid, beat, m_tready)
         \/ /\ part = "transfer" /\ part' = part
            /\ \E tvalid, m_tready \in BOOLEAN, beat \in Reply!NextBeat :
                  Reply!Clock(tvalid, beat, m_tready)
         \/ part' = part /\ UNCHANGED vars
BY DEF MCNext, MCVars, Next, Transfers, Reply!Next, Reply!Cycle

LEMMA BuffersInvariance == MCSpec => []BuffersInv
<1>1. MCInit => BuffersInv
  BY AdapterStarts, ReplyStarts DEF MCInit, BuffersInv
<1>2. BuffersInv /\ [MCNext]_MCVars => BuffersInv'
  <2> SUFFICES ASSUME BuffersInv, [MCNext]_MCVars
               PROVE  BuffersInv'
    OBVIOUS
  <2>1. ASSUME part = "adapter", part' = part,
               NEW tvalid \in BOOLEAN, NEW m_tready \in BOOLEAN, NEW beat \in NextBeat,
               Clock(tvalid, beat, m_tready)
        PROVE  BuffersInv'
    BY <2>1, AdapterStep DEF BuffersInv
  <2>2. ASSUME part = "transfer", part' = part,
               NEW tvalid \in BOOLEAN, NEW m_tready \in BOOLEAN, NEW beat \in Reply!NextBeat,
               Reply!Clock(tvalid, beat, m_tready)
        PROVE  BuffersInv'
    BY <2>2, ReplyStep DEF BuffersInv
  <2>3. CASE part' = part /\ UNCHANGED vars
    BY <2>3, Unmoved DEF BuffersInv
  <2>4. QED
    BY <2>1, <2>2, <2>3, Cycles
<1>3. QED
  BY <1>1, <1>2, PTL DEF MCSpec

\* In both buffers the occupancy that drives tready, the pointers, the beats of
\* the packet being received and the beats the reader may fetch agree, whatever
\* is dropped; and the registers keep their types
\* (axi_stream_packet_buffer.sv:226-262, transfer.sv:66, packet_adapter_rx.sv:114).
THEOREM BuffersCountsAgree == MCSpec => []CountsAgree
<1>1. BuffersInv => CountsAgree
  <2> SUFFICES ASSUME BuffersInv
               PROVE  CountsAgree
    OBVIOUS
  <2>1. CASE part = "adapter"
    <3>1. A!TypeOK /\ A!Occupancy /\ AdapterSlice /\ AdapterCounts
      BY <2>1 DEF BuffersInv, AdapterInv, A!BufferInv
    <3>2. Buf!TypeOK
      BY <3>1 DEF A!TypeOK, Buf!TypeOK, A!Addr, Buf!Addr, A!Beat, Buf!Beat
    <3>3. Buf!CountsAgree
      BY <3>1 DEF A!Occupancy, Buf!CountsAgree, A!full_pkt_beats, Buf!full_pkt_beats,
                  A!ram_full, Buf!ram_full
    <3>4. pkt_acc \in 0..(MaxBeats - 1)
      <4>1. MaxBeats \in Nat /\ (filled => axis.pos \in 1..MaxBeats)
        BY <3>1, BufferAssumption DEF AdapterSlice, RxBeat, BufferAssumption
      <4>2. QED
        BY <3>1, <4>1 DEF AdapterSlice, AdapterCounts, Position
    <3>5. QED
      BY <2>1, <3>1, <3>2, <3>3, <3>4 DEF CountsAgree, TypeOK, Slice!TypeOK, AdapterSlice,
           AdapterCounts
  <2>2. CASE part = "transfer"
    <3>1. R!TypeOK /\ R!Occupancy /\ ReplySlice
      BY <2>2 DEF BuffersInv, ReplyInv, R!BufferInv
    <3>2. Reply!Buf!TypeOK
      BY <3>1 DEF R!TypeOK, Reply!Buf!TypeOK, R!Addr, Reply!Buf!Addr, R!Beat, Reply!Buf!Beat
    <3>3. Reply!Buf!CountsAgree
      BY <3>1 DEF R!Occupancy, Reply!Buf!CountsAgree, R!full_pkt_beats, Reply!Buf!full_pkt_beats,
                  R!ram_full, Reply!Buf!ram_full
    <3>4. Reply!Slice!TypeOK
      BY <3>1 DEF Reply!Slice!TypeOK, ReplySlice, R!Beat, Reply!Buf!Beat
    <3>5. QED
      BY <2>2, <3>1, <3>2, <3>3, <3>4 DEF CountsAgree, Reply!TypeOK, Reply!CountsAgree, ReplySlice
  <2>3. QED
    BY <2>1, <2>2 DEF BuffersInv
<1>2. QED
  BY <1>1, BuffersInvariance, PTL

-----------------------------------------------------------------------------
(* What reaches the buffer and what it delivers *)

\* Came grows by the beat that passes, and starts again behind a last one.
LEMMA CameStep ==
  ASSUME NEW n \in Nat, NEW b, b.pos = n + 1, b \in [pos : Nat, last : BOOLEAN]
  PROVE  IF b.last THEN A!Opening(0) = <<>> ELSE A!Opening(n + 1) = Append(A!Opening(n), b)
<1>1. CASE b.last
  <2>1. Len(A!Opening(0)) = 0 /\ A!Opening(0) \in Seq([pos : Nat, last : BOOLEAN])
    BY A!OpeningWords
  <2>2. QED
    BY <1>1, <2>1
<1>2. CASE ~b.last
  <2>1. b = [pos |-> n + 1, last |-> FALSE]
    BY <1>2
  <2>2. Append(A!Opening(n), [pos |-> n + 1, last |-> FALSE]) = A!Opening(n + 1)
    BY A!OpeningWords
  <2>3. QED
    BY <1>2, <2>1, <2>2
<1>3. QED
  BY <1>1, <1>2

LEMMA AdapterQueueStarts == ASSUME Init PROVE Queue!Init
<1>1. A!Init
  BY DEF Init, Buf!Init, A!Init, Buf!Addr, A!Addr
<1>2. A!Line = <<>>
  BY <1>1, AdapterDimensions, A!StartsEmpty
<1>3. Buf!Line = <<>>
  BY <1>2 DEF A!Line, A!InRam, A!full_pkt_beats, A!ram_full,
              Buf!Line, Buf!InRam, Buf!full_pkt_beats, Buf!ram_full
<1>4. filled = FALSE /\ sent = 0 /\ drop_in_prog = FALSE
  BY DEF Init, Buf!Init
<1>5. Came = <<>>
  <2>1. Position = 0
    BY <1>4 DEF Position
  <2>2. Came = A!Opening(0)
    BY <2>1 DEF Came, A!Opening
  <2>3. Len(A!Opening(0)) = 0 /\ A!Opening(0) \in Seq([pos : Nat, last : BOOLEAN])
    BY A!OpeningWords
  <2>4. QED
    BY <2>2, <2>3
<1>6. Queue!Inputs
  <2>1. drop \in BOOLEAN /\ Buf!s_axis_tready \in BOOLEAN
    BY <1>4 DEF drop, Buf!s_axis_tready
  <2>2. QED
    BY <1>4, <2>1 DEF Queue!Inputs, Queue!Offers
<1>7. QED
  BY <1>3, <1>4, <1>5, <1>6 DEF Queue!Init

\* Every cycle of the receive adapter is a step of PacketQueue.
LEMMA AdapterQueueStep ==
  ASSUME AdapterInv, NEW tvalid \in BOOLEAN, NEW beat \in NextBeat, NEW m_tready,
         Clock(tvalid, beat, m_tready)
  PROVE  Queue!Next
<1> DEFINE room == ram_data_cnt # Depth
           lost == drop \/ drop_in_prog
           b == axis_buf
           joins == IF A!Comes(filled, drop) /\ axis_buf.last
                    THEN Append(A!Opening(partial_pkt_beats), axis_buf) ELSE <<>>
<1>1. A!Step(filled, axis_buf, drop, m_tready)
  BY AdapterBufferStep
<1>2. /\ AdapterSlice' /\ Position \in 0..(MaxBeats - 1) /\ Position' = sent
      /\ sent = IF filled THEN IF axis.last THEN 0 ELSE Position + 1 ELSE Position
      /\ filled => /\ b \in A!Beat /\ b.pos = Position + 1 /\ b.last = axis.last
  BY AdapterSliceStep DEF AdapterInv
<1>3. /\ drop_in_prog' = (~(filled /\ room /\ b.last) /\ lost)
      /\ A!Comes(filled, drop) <=> filled /\ room /\ ~lost
      /\ Buf!s_axis_tready <=> room
      /\ filled /\ ~room => drop
      /\ drop => filled
  <2>1. drop_in_prog' = (~A!Ends(filled, axis_buf) /\ A!Lost(drop))
    BY <1>1, A!CountersStep
  <2>2. QED
    BY <1>2, <2>1 DEF A!Ends, A!Lost, A!Comes, Buf!s_axis_tready, Buf!ram_full, drop
<1>4. /\ MaxBeats \in Nat \ {0} /\ filled \in BOOLEAN /\ drop_in_prog \in BOOLEAN
      /\ axis.last \in BOOLEAN
      /\ ~drop_in_prog => partial_pkt_beats = Position
  BY BufferAssumption DEF AdapterInv, AdapterSlice, AdapterCounts, A!BufferInv, A!TypeOK, RxBeat,
                          BufferAssumption
<1>5. Came = A!Opening(Position) /\ Came' = A!Opening(Position')
  BY DEF Came, A!Opening
<1>6. filled => Came' = IF b.last THEN <<>> ELSE Append(Came, b)
  <2>1. ASSUME filled
        PROVE  IF b.last THEN A!Opening(0) = <<>>
               ELSE A!Opening(Position + 1) = Append(A!Opening(Position), b)
    <3>1. Position \in Nat /\ b.pos = Position + 1 /\ b \in [pos : Nat, last : BOOLEAN]
      BY <1>2, <1>4, <2>1 DEF A!Beat
    <3>2. QED
      BY <3>1, CameStep
  <2>2. QED
    BY <1>2, <1>5, <2>1
<1>7. ~filled => Came' = Came
  BY <1>2, <1>5
<1>8. joins = IF filled /\ room /\ ~lost /\ b.last THEN Append(Came, b) ELSE <<>>
  BY <1>3, <1>4, <1>5
<1>9. Queue!Input(joins)
  <2> HIDE DEF joins, b, room
  <2>1. CASE ~filled
    <3>1. Queue!Idle(joins)
      BY <1>3, <1>7, <1>8, <2>1 DEF Queue!Idle, Queue!Dropped
    <3>2. QED
      BY <3>1 DEF Queue!Input
  <2>2. CASE filled
    <3>1. b \in Buf!Beat /\ (IF filled THEN <<axis_buf>> ELSE <<>>) = <<b>>
      BY <1>2, <2>2 DEF Buf!Beat, A!Beat, b
    <3>2. Queue!Passed(b) /\ (Buf!Last(b) <=> b.last)
      BY <1>6, <2>2 DEF Queue!Passed, Buf!Last
    <3>3. CASE room /\ lost
      <4>1. Queue!Discard(b, joins)
        BY <1>3, <1>8, <2>2, <3>1, <3>2, <3>3 DEF Queue!Discard, Queue!Dropped, Buf!Last
      <4>2. QED
        BY <3>1, <4>1 DEF Queue!Input
    <3>4. CASE room /\ ~lost
      <4>1. Queue!Extend(b, joins) \/ Queue!Complete(b, joins)
        BY <1>3, <1>8, <2>2, <3>1, <3>2, <3>4
        DEF Queue!Extend, Queue!Complete, Queue!Dropped
      <4>2. QED
        BY <3>1, <4>1 DEF Queue!Input
    <3>5. CASE ~room
      <4>1. Queue!Lost(b, joins)
        BY <1>3, <1>8, <2>2, <3>1, <3>2, <3>5 DEF Queue!Lost, Queue!Dropped
      <4>2. QED
        BY <3>1, <4>1 DEF Queue!Input
    <3>6. QED
      BY <3>3, <3>4, <3>5
  <2>3. QED
    BY <2>1, <2>2
<1>10. Queue!Inputs'
  <2>1. filled' \in BOOLEAN /\ axis_buf' \in Buf!Beat /\ axis.last' \in BOOLEAN
        /\ axis.err' \in BOOLEAN
    BY <1>2 DEF AdapterSlice, RxBeat, axis_buf, Buf!Beat
  <2>2. drop' \in BOOLEAN /\ Buf!s_axis_tready' \in BOOLEAN
    BY <2>1 DEF drop, Buf!s_axis_tready
  <2>3. QED
    BY <2>1, <2>2 DEF Queue!Inputs, Queue!Offers
<1>11. \/ /\ Buf!Line # <<>> /\ Buf!Line' = Tail(Buf!Line) \o joins
          /\ SubSeq(Buf!Line', Len(Buf!Line), Len(Buf!Line')) = joins
       \/ /\ Buf!Line' = Buf!Line \o joins
          /\ SubSeq(Buf!Line', Len(Buf!Line) + 1, Len(Buf!Line')) = joins
  <2>1. \/ /\ A!Line # <<>> /\ A!Line' = Tail(A!Line) \o joins
           /\ SubSeq(A!Line', Len(A!Line), Len(A!Line')) = joins
        \/ /\ A!Line' = A!Line \o joins
           /\ SubSeq(A!Line', Len(A!Line) + 1, Len(A!Line')) = joins
    BY <1>1, A!LineMoves
  <2>2. A!Line = Buf!Line /\ A!Line' = Buf!Line'
    BY DEF A!Line, A!InRam, A!full_pkt_beats, A!ram_full,
           Buf!Line, Buf!InRam, Buf!full_pkt_beats, Buf!ram_full
  <2> HIDE DEF joins
  <2>3. QED
    BY <2>1, <2>2
<1> HIDE DEF joins
<1>12. Queue!Stay \/ Queue!Leave
  BY <1>9, <1>11 DEF Queue!Stay, Queue!Leave
<1>13. QED
  BY <1>10, <1>12 DEF Queue!Next

LEMMA ReplyQueueStarts == ASSUME Reply!Init PROVE Reply!Queue!Init
<1>1. R!Init
  BY ReplyStarts
<1>2. R!Line = <<>>
  BY <1>1, ReplyDimensions, R!StartsEmpty
<1>3. Reply!Buf!Line = <<>>
  BY <1>2 DEF R!Line, R!InRam, R!full_pkt_beats, R!ram_full,
              Reply!Buf!Line, Reply!Buf!InRam, Reply!Buf!full_pkt_beats, Reply!Buf!ram_full
<1>4. filled = FALSE /\ sent = 0 /\ drop_in_prog = FALSE
  BY DEF Reply!Init, Reply!Slice!Init, Reply!Buf!Init
<1>5. Reply!Came = <<>>
  <2>1. Reply!Position = 0
    BY <1>4 DEF Reply!Position
  <2>2. Reply!Came = A!Opening(0)
    BY <2>1 DEF Reply!Came, A!Opening
  <2>3. Len(A!Opening(0)) = 0 /\ A!Opening(0) \in Seq([pos : Nat, last : BOOLEAN])
    BY A!OpeningWords
  <2>4. QED
    BY <2>2, <2>3
<1>6. Reply!Queue!Inputs
  <2>1. Reply!drop \in BOOLEAN /\ Reply!Buf!s_axis_tready \in BOOLEAN
    BY <1>4 DEF Reply!drop, Reply!Buf!s_axis_tready
  <2>2. QED
    BY <1>4, <2>1 DEF Reply!Queue!Inputs, Reply!Queue!Offers
<1>7. QED
  BY <1>3, <1>4, <1>5, <1>6 DEF Reply!Queue!Init

\* Every cycle of the way of the replies is a step of PacketQueue.
LEMMA ReplyQueueStep ==
  ASSUME ReplyInv, NEW tvalid \in BOOLEAN, NEW beat \in Reply!NextBeat, NEW m_tready,
         Reply!Clock(tvalid, beat, m_tready)
  PROVE  Reply!Queue!Next
<1> DEFINE room == ram_data_cnt # TransferDepth
           lost == Reply!drop \/ drop_in_prog
           b == axis
           joins == IF R!Comes(filled, Reply!drop) /\ axis.last
                    THEN Append(A!Opening(partial_pkt_beats), axis) ELSE <<>>
<1>1. R!Step(filled, axis, Reply!drop, m_tready)
  BY ReplyBufferStep
<1>2. /\ ReplySlice' /\ Reply!Position \in 0..(TransferBeats - 1)
      /\ Reply!Position' = IF filled /\ room THEN IF axis.last THEN 0 ELSE Reply!Position + 1
                          ELSE Reply!Position
      /\ filled => b.pos = Reply!Position + 1
      /\ filled /\ ~room => filled' /\ axis' = axis
      /\ filled => b \in R!Beat
  <2>1. Position = Reply!Position /\ Position' = Reply!Position'
    BY DEF Position, Reply!Position
  <2>2. ram_data_cnt = TransferDepth <=> ~room
    OBVIOUS
  <2>3. axis \in R!Beat
    BY DEF ReplyInv, ReplySlice
  <2>4. QED
    BY <2>1, <2>2, <2>3, ReplySliceStep DEF ReplyInv
<1>3. /\ drop_in_prog' = (~(filled /\ room /\ b.last) /\ lost)
      /\ R!Comes(filled, Reply!drop) <=> filled /\ room /\ ~lost
      /\ Reply!Buf!s_axis_tready <=> room
      /\ filled /\ ~room => Reply!drop
      /\ Reply!drop => filled
  <2>1. drop_in_prog' = (~R!Ends(filled, axis) /\ R!Lost(Reply!drop))
    BY <1>1, R!CountersStep
  <2>2. QED
    BY <1>2, <2>1 DEF R!Ends, R!Lost, R!Comes, Reply!Buf!s_axis_tready, Reply!Buf!ram_full,
                      Reply!drop
<1>4. /\ TransferBeats \in Nat \ {0} /\ filled \in BOOLEAN /\ drop_in_prog \in BOOLEAN
      /\ axis.last \in BOOLEAN
      /\ ~drop_in_prog => partial_pkt_beats = Reply!Position
  <2>1. Position = Reply!Position
    BY DEF Position, Reply!Position
  <2>2. QED
    BY <2>1, ReplyDimensions DEF ReplyInv, ReplySlice, ReplyCounts, R!BufferInv, R!TypeOK, R!Beat,
                                 R!Dimensions
<1>5. Reply!Came = A!Opening(Reply!Position) /\ Reply!Came' = A!Opening(Reply!Position')
  BY DEF Reply!Came, A!Opening
<1>6. filled /\ room => Reply!Came' = IF b.last THEN <<>> ELSE Append(Reply!Came, b)
  <2>1. ASSUME filled, room
        PROVE  IF b.last THEN A!Opening(0) = <<>>
               ELSE A!Opening(Reply!Position + 1) = Append(A!Opening(Reply!Position), b)
    <3>1. Reply!Position \in Nat /\ b.pos = Reply!Position + 1 /\ b \in [pos : Nat, last : BOOLEAN]
      BY <1>2, <1>4, <2>1 DEF R!Beat
    <3>2. QED
      BY <3>1, CameStep
  <2>2. QED
    BY <1>2, <1>5, <2>1
<1>7. ~(filled /\ room) => Reply!Came' = Reply!Came
  BY <1>2, <1>5
<1>8. joins = IF filled /\ room /\ ~lost /\ b.last THEN Append(Reply!Came, b) ELSE <<>>
  BY <1>3, <1>4, <1>5
<1>9. Reply!Queue!Input(joins)
  <2> HIDE DEF joins, b, room
  <2>1. CASE ~filled
    <3>1. Reply!Queue!Idle(joins)
      BY <1>3, <1>7, <1>8, <2>1 DEF Reply!Queue!Idle, Reply!Queue!Dropped
    <3>2. QED
      BY <3>1 DEF Reply!Queue!Input
  <2>2. CASE filled
    <3>1. b \in Reply!Buf!Beat /\ (IF filled THEN <<axis>> ELSE <<>>) = <<b>>
      BY <1>2, <2>2 DEF Reply!Buf!Beat, R!Beat, b
    <3>2. (room => Reply!Queue!Passed(b)) /\ (Reply!Buf!Last(b) <=> b.last)
      BY <1>6, <2>2 DEF Reply!Queue!Passed, Reply!Buf!Last
    <3>3. CASE room /\ lost
      <4>1. Reply!Queue!Discard(b, joins)
        BY <1>3, <1>8, <2>2, <3>1, <3>2, <3>3
           DEF Reply!Queue!Discard, Reply!Queue!Dropped, Reply!Buf!Last
      <4>2. QED
        BY <3>1, <4>1 DEF Reply!Queue!Input
    <3>4. CASE room /\ ~lost
      <4>1. Reply!Queue!Extend(b, joins) \/ Reply!Queue!Complete(b, joins)
        BY <1>3, <1>8, <2>2, <3>1, <3>2, <3>4
        DEF Reply!Queue!Extend, Reply!Queue!Complete, Reply!Queue!Dropped
      <4>2. QED
        BY <3>1, <4>1 DEF Reply!Queue!Input
    <3>5. CASE ~room
      <4>1. Reply!Queue!Held(b, joins)
        BY <1>2, <1>3, <1>7, <1>8, <2>2, <3>1, <3>5 DEF Reply!Queue!Held, Reply!Queue!Dropped
      <4>2. QED
        BY <3>1, <4>1 DEF Reply!Queue!Input
    <3>6. QED
      BY <3>3, <3>4, <3>5
  <2>3. QED
    BY <2>1, <2>2
<1>10. Reply!Queue!Inputs'
  <2>1. filled' \in BOOLEAN /\ axis' \in Reply!Buf!Beat
    BY <1>2 DEF ReplySlice, R!Beat, Reply!Buf!Beat
  <2>2. Reply!drop' \in BOOLEAN /\ Reply!Buf!s_axis_tready' \in BOOLEAN
    BY <2>1 DEF Reply!drop, Reply!Buf!s_axis_tready
  <2>3. QED
    BY <2>1, <2>2 DEF Reply!Queue!Inputs, Reply!Queue!Offers
<1>11. \/ /\ Reply!Buf!Line # <<>> /\ Reply!Buf!Line' = Tail(Reply!Buf!Line) \o joins
          /\ SubSeq(Reply!Buf!Line', Len(Reply!Buf!Line), Len(Reply!Buf!Line')) = joins
       \/ /\ Reply!Buf!Line' = Reply!Buf!Line \o joins
          /\ SubSeq(Reply!Buf!Line', Len(Reply!Buf!Line) + 1, Len(Reply!Buf!Line')) = joins
  <2>1. \/ /\ R!Line # <<>> /\ R!Line' = Tail(R!Line) \o joins
           /\ SubSeq(R!Line', Len(R!Line), Len(R!Line')) = joins
        \/ /\ R!Line' = R!Line \o joins
           /\ SubSeq(R!Line', Len(R!Line) + 1, Len(R!Line')) = joins
    <3>1. R!Opening(partial_pkt_beats) = A!Opening(partial_pkt_beats)
      BY DEF R!Opening, A!Opening
    <3>2. QED
      BY <1>1, <3>1, R!LineMoves
  <2>2. R!Line = Reply!Buf!Line /\ R!Line' = Reply!Buf!Line'
    BY DEF R!Line, R!InRam, R!full_pkt_beats, R!ram_full,
           Reply!Buf!Line, Reply!Buf!InRam, Reply!Buf!full_pkt_beats, Reply!Buf!ram_full
  <2> HIDE DEF joins
  <2>3. QED
    BY <2>1, <2>2
<1> HIDE DEF joins
<1>12. Reply!Queue!Stay \/ Reply!Queue!Leave
  BY <1>9, <1>11 DEF Reply!Queue!Stay, Reply!Queue!Leave
<1>13. QED
  BY <1>10, <1>12 DEF Reply!Queue!Next

\* What either buffer does is what PacketQueue allows: a packet reaches the
\* output whole or not at all, and in order, whatever was dropped before it
\* (axi_stream_packet_buffer.sv:18-21).
THEOREM BuffersKeepPacketsWhole == MCSpec => EveryPacketWhole
<1> DEFINE Kept == /\ part = "adapter" => [Queue!Next]_(Queue!vars)
                   /\ part = "transfer" => [Reply!Queue!Next]_(Reply!Queue!vars)
<1>1. MCInit => /\ part = "adapter" => Queue!Init
                /\ part = "transfer" => Reply!Queue!Init
  BY AdapterQueueStarts, ReplyQueueStarts DEF MCInit
<1>2. BuffersInv /\ [MCNext]_MCVars => [Kept]_MCVars
  <2> SUFFICES ASSUME BuffersInv, [MCNext]_MCVars
               PROVE  [Kept]_MCVars
    OBVIOUS
  <2>1. ASSUME part = "adapter", part' = part,
               NEW tvalid \in BOOLEAN, NEW m_tready \in BOOLEAN, NEW beat \in NextBeat,
               Clock(tvalid, beat, m_tready)
        PROVE  Kept
    <3>1. Queue!Next
      BY <2>1, AdapterQueueStep DEF BuffersInv
    <3>2. QED
      BY <2>1, <3>1
  <2>2. ASSUME part = "transfer", part' = part,
               NEW tvalid \in BOOLEAN, NEW m_tready \in BOOLEAN, NEW beat \in Reply!NextBeat,
               Reply!Clock(tvalid, beat, m_tready)
        PROVE  Kept
    <3>1. Reply!Queue!Next
      BY <2>2, ReplyQueueStep DEF BuffersInv
    <3>2. QED
      BY <2>2, <3>1
  <2>3. CASE part' = part /\ UNCHANGED vars
    BY <2>3 DEF MCVars
  <2>4. QED
    BY <2>1, <2>2, <2>3, Cycles
<1>3. QED
  BY <1>1, <1>2, BuffersInvariance, PTL DEF MCSpec, EveryPacketWhole

\* The receive adapter counts a packet as received in the cycle in which it
\* joins those that will be delivered, and no other (packet_adapter_rx.sv:114-119).
THEOREM AdapterCountsDelivered == MCSpec => AdapterRecvIsDelivered
<1>1. BuffersInv /\ [MCNext]_MCVars => [part = "adapter" => CountedIsDelivered]_MCVars
  <2> SUFFICES ASSUME BuffersInv, [MCNext]_MCVars
               PROVE  [part = "adapter" => CountedIsDelivered]_MCVars
    OBVIOUS
  <2>1. ASSUME part = "adapter", part' = part,
               NEW tvalid \in BOOLEAN, NEW m_tready \in BOOLEAN, NEW beat \in NextBeat,
               Clock(tvalid, beat, m_tready)
        PROVE  CountedIsDelivered
    <3>1. A!Step(filled, axis_buf, drop, m_tready) /\ (filled => axis_buf.last = axis.last)
      BY <2>1, AdapterBufferStep, AdapterSliceStep DEF BuffersInv, AdapterInv
    <3>2. pkt_recv <=> A!Comes(filled, drop) /\ axis_buf.last
      BY <3>1 DEF pkt_recv, End, A!Comes, Buf!drop_busy, Buf!s_axis_tready, Buf!ram_full
    <3>3. PICK gone \in {0, 1} :
            A!PacketEnds(A!Line, Len(A!Line))' = A!PacketEnds(A!Line, Len(A!Line))
                + (IF A!Comes(filled, drop) /\ axis_buf.last THEN 1 ELSE 0) - gone
      BY <3>1, A!CountStep
    <3>4. /\ A!Line = Buf!Line /\ A!Line' = Buf!Line'
      BY DEF A!Line, A!InRam, A!full_pkt_beats, A!ram_full,
             Buf!Line, Buf!InRam, Buf!full_pkt_beats, Buf!ram_full
    <3>5. /\ A!PacketEnds(A!Line, Len(A!Line)) = PacketsInside
          /\ A!PacketEnds(A!Line, Len(A!Line))' = PacketsInside'
      <4>1. \A s, k : A!PacketEnds(s, k) = Buf!PacketEnds(s, k)
        BY DEF A!PacketEnds, Buf!PacketEnds, A!Cardinality, Buf!Cardinality
      <4>2. /\ A!PacketEnds(A!Line, Len(A!Line)) = Buf!PacketEnds(A!Line, Len(A!Line))
            /\ A!PacketEnds(A!Line, Len(A!Line))' = Buf!PacketEnds(A!Line, Len(A!Line))'
        BY <4>1 DEF A!PacketEnds, Buf!PacketEnds
      <4>3. QED
        BY <3>4, <4>2 DEF PacketsInside
    <3>6. QED
      BY <3>2, <3>3, <3>5 DEF CountedIsDelivered
  <2>2. QED
    BY <2>1, Cycles DEF MCVars
<1>2. QED
  BY <1>1, BuffersInvariance, PTL DEF MCSpec, AdapterRecvIsDelivered

\* A reply leaves with its own size, whatever was dropped before it, if the
\* FIFO of sizes can hold as many as there are beats in the buffer and its two
\* registers (axi_stream_packet_buffer.sv:18-21, transfer.sv:66-67).
THEOREM ReplyKeepsItsSize ==
  ASSUME TransferSizes >= TransferDepth + 2
  PROVE  MCSpec => []ReplySizeIsOwn
<1> DEFINE Own == part = "transfer" => R!SizeIsOwn
<1>1. MCInit => Own
  BY ReplyStarts, ReplyDimensions, R!SizeStarts DEF MCInit
<1>2. BuffersInv /\ Own /\ [MCNext]_MCVars => Own'
  <2> SUFFICES ASSUME BuffersInv, Own, [MCNext]_MCVars, part' = "transfer"
               PROVE  R!SizeIsOwn'
    OBVIOUS
  <2>1. ASSUME part = "transfer",
               NEW tvalid \in BOOLEAN, NEW m_tready \in BOOLEAN, NEW beat \in Reply!NextBeat,
               Reply!Clock(tvalid, beat, m_tready)
        PROVE  R!SizeIsOwn'
    <3>1. R!Step(filled, axis, Reply!drop, m_tready) /\ (Reply!drop => ~R!Ends(filled, axis))
      BY <2>1, ReplyBufferStep DEF BuffersInv
    <3>2. QED
      BY <2>1, <3>1, R!SizeStep
  <2>2. CASE part' = part /\ UNCHANGED vars
    BY <2>2, Unmoved
  <2>3. QED
    BY <2>1, <2>2, Cycles
<1>3. Own => ReplySizeIsOwn
  <2>1. R!SizeIsOwn => Reply!Buf!SizeIsOwn
    <3>1. R!Line = Reply!Buf!Line
      BY DEF R!Line, R!InRam, R!full_pkt_beats, R!ram_full,
             Reply!Buf!Line, Reply!Buf!InRam, Reply!Buf!full_pkt_beats, Reply!Buf!ram_full
    <3>2. R!Sizes = Reply!Buf!Sizes
      BY DEF R!Sizes, R!PendingSize, R!size_fifo_wr_en,
             Reply!Buf!Sizes, Reply!Buf!PendingSize, Reply!Buf!size_fifo_wr_en
    <3>3. \A s, k : R!PacketEnds(s, k) = Reply!Buf!PacketEnds(s, k)
      BY DEF R!PacketEnds, Reply!Buf!PacketEnds, R!Cardinality, Reply!Buf!Cardinality
    <3>4. QED
      BY <3>1, <3>2, <3>3 DEF R!SizeIsOwn, Reply!Buf!SizeIsOwn
  <2>2. QED
    BY <2>1 DEF ReplySizeIsOwn, Reply!SizeIsOwn
<1>4. QED
  BY <1>1, <1>2, <1>3, BuffersInvariance, PTL DEF MCSpec
==============================================================================
