------------------------- MODULE PacketBufferProofs -------------------------
(***************************************************************************)
(* The packet buffer for every depth and every length of packets that fit: *)
(* one cycle keeps its measures in agreement, lets a packet join those     *)
(* that will be delivered as it came, from its first beat to its last, and *)
(* keeps each packet's size beside it.                                     *)
(*                                                                         *)
(* What a user of the buffer owes it is InputOK; the users are in          *)
(* MCBuffersProofs.                                                        *)
(***************************************************************************)
EXTENDS PacketBuffer, FiniteSetTheorems, FunctionTheorems, SequenceTheorems, TLAPS

Dimensions == Depth \in Nat \ {0} /\ MaxBeats \in 1..Depth /\ SizeFifoCap \in Nat \ {0}

-----------------------------------------------------------------------------
(* Arithmetic of the pointers *)

LEMMA ModOnce ==
  ASSUME NEW n \in Nat \ {0}, NEW x \in 0..(2 * n - 1)
  PROVE  x % n = IF x < n THEN x ELSE x - n
OBVIOUS

Wrap(x) == IF x < Depth THEN x ELSE x - Depth

LEMMA NextAddress ==
  ASSUME Dimensions, NEW x \in 0..(2 * Depth - 1)
  PROVE  x % Depth = Wrap(x) /\ Wrap(x) \in Addr
<1>1. Depth \in Nat \ {0}
  BY DEF Dimensions
<1>2. x % Depth = IF x < Depth THEN x ELSE x - Depth
  BY <1>1, ModOnce
<1>3. QED
  BY <1>1, <1>2 DEF Wrap, Addr

\* The distance from the reader to the checkpoint, the remainder written out
Filled(c, b, cnt) ==
    IF c = b THEN IF cnt = Depth THEN Depth ELSE 0
    ELSE IF c > b THEN c - b ELSE c + Depth - b

\* A packet whose last beat comes joins what may be fetched.  b, c: the
\* reader's pointer and the checkpoint; go: a beat is fetched.
LEMMA CompletePacket ==
  ASSUME Dimensions,
         NEW b \in Addr, NEW c \in Addr, NEW cnt \in 0..(Depth - 1), NEW p \in 0..(Depth - 1),
         cnt = Filled(c, b, cnt) + p,
         NEW go \in {0, 1}, go = 1 => Filled(c, b, cnt) > 0
  PROVE  LET new == cnt + 1 - go
         IN  new \in 0..Depth /\ new = Filled(Wrap(c + p + 1), Wrap(b + go), new)
BY DEF Dimensions, Addr, Filled, Wrap

-----------------------------------------------------------------------------
(* The inductive invariant *)

\* The beats of the packet being received, and whether anything counts of it
Building == IF drop_in_prog THEN <<>> ELSE InRam(ram_addra_checkpoint, partial_pkt_beats)

\* The occupancy is what the reader may fetch and what has come of the packet
\* being received; of a packet given up nothing counts.
Occupancy ==
    /\ partial_pkt_beats < MaxBeats
    /\ ram_data_cnt = full_pkt_beats + partial_pkt_beats
    /\ drop_in_prog => partial_pkt_beats = 0
    /\ ~drop_in_prog => ram_addra = (ram_addra_checkpoint + partial_pkt_beats) % Depth

\* The first n beats of a packet that has more
Opening(n) == [k \in 1..n |-> [pos |-> k, last |-> FALSE]]

\* The packet being received is there from its first beat on, without a gap.
OpenPacket == \A k \in 1..Len(Building) : Building[k] = [pos |-> k, last |-> FALSE]

\* The size counter counts the packet being received unless it is given up.
Sizing ==
    /\ ~drop_in_prog => acc = partial_pkt_beats
    /\ size_fifo_wr_en => size \in 1..MaxBeats

BufferInv == TypeOK /\ Occupancy /\ OpenPacket /\ Sizing

\* What the stream at the input owes the buffer.
InputOK(tvalid, beat) ==
    tvalid => /\ beat \in Beat
              /\ ~drop_in_prog => beat.pos = partial_pkt_beats + 1
              /\ beat.pos = MaxBeats => beat.last

PointersOK == ram_addra_checkpoint \in Addr /\ ram_addrb \in Addr

LEMMA FullIsFilled ==
  ASSUME Dimensions, PointersOK
  PROVE  full_pkt_beats = Filled(ram_addra_checkpoint, ram_addrb, ram_data_cnt)
<1> DEFINE c == ram_addra_checkpoint
           b == ram_addrb
<1>1. c \in 0..(Depth - 1) /\ b \in 0..(Depth - 1) /\ Depth \in Nat \ {0}
  BY DEF PointersOK, Addr, Dimensions
<1>2. ASSUME c # b
      PROVE  (c + Depth - b) % Depth = Filled(c, b, ram_data_cnt)
  <2> HIDE DEF c, b
  <2>1. PICK x \in 0..(2 * Depth - 1) : x = c + Depth - b
    BY <1>1
  <2>2. x % Depth = IF x < Depth THEN x ELSE x - Depth
    BY <1>1, ModOnce
  <2>3. (IF x < Depth THEN x ELSE x - Depth) = Filled(c, b, ram_data_cnt)
    BY <1>1, <1>2, <2>1 DEF Filled
  <2>4. QED
    BY <2>1, <2>2, <2>3
<1>3. QED
  BY <1>2 DEF full_pkt_beats, ram_full, Filled

LEMMA FullIsFilledNext ==
  ASSUME Dimensions
  PROVE  (PointersOK => full_pkt_beats = Filled(ram_addra_checkpoint, ram_addrb, ram_data_cnt))'
BY FullIsFilled, PTL

-----------------------------------------------------------------------------
(* One cycle of the pointers and counters, in words of what may happen *)

Go(m_tready) == IF ram_enb(m_tready) THEN 1 ELSE 0
Comes(tvalid, drop) == tvalid /\ ram_data_cnt # Depth /\ ~drop /\ ~drop_in_prog
Lost(drop) == drop \/ drop_in_prog
Ends(tvalid, beat) == tvalid /\ ram_data_cnt # Depth /\ beat.last

LEMMA GoIsPossible ==
  ASSUME NEW m_tready
  PROVE  Go(m_tready) \in {0, 1} /\ (Go(m_tready) = 1 => full_pkt_beats > 0)
<1>1. ram_enb(m_tready) => full_pkt_beats > 0
  BY DEF ram_enb
<1>2. QED
  BY <1>1 DEF Go

\* A cycle of a buffer that is used as it asks: what the lemmas below assume.
\* How far the size counter runs depends on the user.
Step(tvalid, beat, drop, m_tready) ==
    /\ Dimensions /\ BufferInv
    /\ tvalid \in BOOLEAN /\ drop \in BOOLEAN
    /\ InputOK(tvalid, beat)
    /\ acc' \in 0..(2 * MaxBeats - 2)
    /\ Clock(tvalid, beat, drop, m_tready)

LEMMA CountersStep ==
  ASSUME NEW tvalid, NEW beat, NEW drop, NEW m_tready, Step(tvalid, beat, drop, m_tready)
  PROVE  LET go == Go(m_tready)
             come == Comes(tvalid, drop)
             lost == Lost(drop)
         IN  /\ partial_pkt_beats' = IF lost THEN 0 ELSE IF ~come THEN partial_pkt_beats
                                     ELSE IF beat.last THEN 0 ELSE partial_pkt_beats + 1
             /\ ram_addrb' = Wrap(ram_addrb + go)
             /\ ram_data_cnt' = ram_data_cnt + (IF come THEN 1 ELSE 0) - go
                                  - (IF lost THEN partial_pkt_beats ELSE 0)
             /\ ram_addra_checkpoint' = IF come /\ beat.last THEN Wrap(ram_addra + 1)
                                        ELSE ram_addra_checkpoint
             /\ ram_addra' = IF lost THEN ram_addra_checkpoint
                             ELSE IF come THEN Wrap(ram_addra + 1) ELSE ram_addra
             /\ drop_in_prog' = (~Ends(tvalid, beat) /\ lost)
             /\ ram' = IF come THEN [ram EXCEPT ![ram_addra] = beat] ELSE ram
<1> DEFINE go == Go(m_tready)
           come == IF Comes(tvalid, drop) THEN 1 ELSE 0
           lost == IF Lost(drop) THEN partial_pkt_beats ELSE 0
<1>1. /\ Depth \in Nat \ {0} /\ MaxBeats \in 1..Depth
      /\ ram_addrb \in 0..(Depth - 1) /\ ram_addra \in 0..(Depth - 1)
      /\ ram_data_cnt \in 0..Depth /\ partial_pkt_beats \in 0..(MaxBeats - 1)
      /\ drop_in_prog \in BOOLEAN /\ tvalid \in BOOLEAN /\ drop \in BOOLEAN
  BY DEF Step, BufferInv, Occupancy, TypeOK, Addr, Dimensions
<1>2. go \in {0, 1}
  BY GoIsPossible
<1>3. /\ Accepted(tvalid) <=> tvalid /\ ram_data_cnt # Depth
      /\ drop_busy(drop) <=> Lost(drop)
      /\ ram_ena(tvalid, drop) <=> Comes(tvalid, drop)
      /\ Accepted(tvalid) /\ ~Lost(drop) <=> Comes(tvalid, drop)
  BY <1>1 DEF Accepted, s_axis_tready, ram_full, drop_busy, ram_ena, Lost, Comes
<1>4. drop_in_prog' = (~Ends(tvalid, beat) /\ Lost(drop))
  BY <1>3 DEF Step, Clock, DropStep, Lost, Ends, drop_busy
<1>5. ram_addrb' = Wrap(ram_addrb + go)
  <2>1. ram_addrb' = IF ram_enb(m_tready) THEN (ram_addrb + 1) % Depth ELSE ram_addrb
    BY DEF Step, Clock, ReadStep
  <2>2. (ram_addrb + 1) % Depth = Wrap(ram_addrb + 1) /\ ram_addrb = Wrap(ram_addrb)
    BY <1>1, NextAddress DEF Wrap, Step
  <2>3. QED
    BY <1>1, <2>1, <2>2 DEF Go
<1>6. /\ ram_addra_checkpoint' = IF Comes(tvalid, drop) /\ beat.last THEN Wrap(ram_addra + 1)
                                 ELSE ram_addra_checkpoint
      /\ ram_addra' = IF Lost(drop) THEN ram_addra_checkpoint
                      ELSE IF Comes(tvalid, drop) THEN Wrap(ram_addra + 1) ELSE ram_addra
      /\ ram' = IF Comes(tvalid, drop) THEN [ram EXCEPT ![ram_addra] = beat] ELSE ram
  <2>1. (ram_addra + 1) % Depth = Wrap(ram_addra + 1)
    BY <1>1, NextAddress DEF Step
  <2>2. /\ ram_addra_checkpoint' = IF ram_ena(tvalid, drop) /\ beat.last
                                   THEN (ram_addra + 1) % Depth ELSE ram_addra_checkpoint
        /\ ram_addra' = IF drop_busy(drop) THEN ram_addra_checkpoint
                        ELSE IF Accepted(tvalid) THEN (ram_addra + 1) % Depth ELSE ram_addra
        /\ ram' = IF ram_ena(tvalid, drop) THEN [ram EXCEPT ![ram_addra] = beat] ELSE ram
    BY DEF Step, Clock, WriteStep, CheckpointStep
  <2>3. QED
    BY <1>3, <2>1, <2>2
<1>7. partial_pkt_beats' = IF Lost(drop) THEN 0 ELSE IF ~Comes(tvalid, drop) THEN partial_pkt_beats
                           ELSE IF beat.last THEN 0 ELSE partial_pkt_beats + 1
  <2>1. (partial_pkt_beats + 1) % (2 * Depth) = partial_pkt_beats + 1
    <3>1. 2 * Depth \in Nat \ {0} /\ partial_pkt_beats + 1 \in 0..(2 * Depth - 1)
      BY <1>1
    <3>2. partial_pkt_beats + 1 \in 0..(2 * (2 * Depth) - 1)
      BY <1>1
    <3>3. QED
      BY <3>1, <3>2, ModOnce
  <2>2. partial_pkt_beats' =
          IF drop_busy(drop) THEN 0
          ELSE IF ~Accepted(tvalid) THEN partial_pkt_beats
          ELSE IF beat.last THEN 0 ELSE (partial_pkt_beats + 1) % (2 * Depth)
    BY DEF Step, Clock, PartialStep
  <2>3. QED
    BY <1>3, <2>1, <2>2
<1>8. ram_data_cnt' = ram_data_cnt + come - go - lost
  <2>1. ram_data_cnt' = (ram_data_cnt + 2 * Depth + come - go - lost) % (2 * Depth)
    BY <1>3 DEF Step, Clock, DataCntStep, Go
  <2>2. ram_data_cnt + come - go - lost \in 0..Depth
    <3>1. go <= full_pkt_beats /\ full_pkt_beats = ram_data_cnt - partial_pkt_beats
      <4>1. ram_data_cnt = full_pkt_beats + partial_pkt_beats
            /\ full_pkt_beats = Filled(ram_addra_checkpoint, ram_addrb, ram_data_cnt)
            /\ ram_addra_checkpoint \in 0..(Depth - 1)
        BY FullIsFilled DEF Step, BufferInv, Occupancy, TypeOK, PointersOK, Addr
      <4>2. full_pkt_beats \in Nat
        BY <1>1, <4>1 DEF Filled
      <4>3. QED
        BY <1>1, <1>2, <4>1, <4>2, GoIsPossible
    <3>2. Comes(tvalid, drop) => ram_data_cnt < Depth
      BY <1>1 DEF Comes
    <3> HIDE DEF go
    <3>3. QED
      BY <1>1, <1>2, <3>1, <3>2
  <2> HIDE DEF come, go, lost
  <2>3. QED
    <3> DEFINE new == ram_data_cnt + come - go - lost
    <3>1. come \in {0, 1} /\ lost \in Nat
      BY <1>1 DEF come, lost
    <3>2. ram_data_cnt + 2 * Depth + come - go - lost = new + 2 * Depth
      BY <1>1, <1>2, <3>1
    <3>3. new \in 0..Depth
      BY <2>2
    <3> HIDE DEF new
    <3>4. 2 * Depth \in Nat \ {0} /\ new + 2 * Depth \in 0..(2 * (2 * Depth) - 1)
      BY <1>1, <3>3
    <3>5. (new + 2 * Depth) % (2 * Depth) = new
      BY <1>1, <3>3, <3>4, ModOnce
    <3>6. QED
      BY <2>1, <3>2, <3>5 DEF new
<1>9. QED
  BY <1>4, <1>5, <1>6, <1>7, <1>8

\* Whatever comes, is given up or leaves, the measures still agree.
LEMMA OccupancyStep ==
  ASSUME NEW tvalid, NEW beat, NEW drop, NEW m_tready, Step(tvalid, beat, drop, m_tready)
  PROVE  /\ ram_addrb' \in Addr /\ ram_addra_checkpoint' \in Addr /\ ram_addra' \in Addr
         /\ ram_data_cnt' \in 0..Depth /\ partial_pkt_beats' \in 0..(MaxBeats - 1)
         /\ drop_in_prog' \in BOOLEAN
         /\ ram_data_cnt' = Filled(ram_addra_checkpoint', ram_addrb', ram_data_cnt')
                              + partial_pkt_beats'
         /\ drop_in_prog' => partial_pkt_beats' = 0
         /\ ~drop_in_prog' => ram_addra' = (ram_addra_checkpoint' + partial_pkt_beats') % Depth
<1> DEFINE c == ram_addra_checkpoint
           b == ram_addrb
           w == ram_addra
           cnt == ram_data_cnt
           p == partial_pkt_beats
           go == Go(m_tready)
           come == Comes(tvalid, drop)
           lost == Lost(drop)
<1>1. /\ Depth \in Nat \ {0} /\ MaxBeats \in 1..Depth
      /\ b \in Addr /\ c \in Addr /\ w \in Addr /\ cnt \in 0..Depth
      /\ p \in 0..(MaxBeats - 1) /\ drop_in_prog \in BOOLEAN /\ tvalid \in BOOLEAN
      /\ drop \in BOOLEAN
      /\ tvalid => beat.last \in BOOLEAN /\ (~drop_in_prog /\ p + 1 = MaxBeats => beat.last)
  <2>1. TypeOK /\ Occupancy /\ Dimensions /\ InputOK(tvalid, beat)
        /\ tvalid \in BOOLEAN /\ drop \in BOOLEAN
    BY DEF Step, BufferInv
  <2>2. /\ b \in Addr /\ c \in Addr /\ w \in Addr /\ cnt \in 0..Depth
        /\ p \in 0..(MaxBeats - 1) /\ drop_in_prog \in BOOLEAN
    BY <2>1 DEF TypeOK, Occupancy, Dimensions
  <2>3. tvalid \in BOOLEAN
        /\ (tvalid => beat.last \in BOOLEAN /\ (~drop_in_prog /\ p + 1 = MaxBeats => beat.last))
    BY <2>1, <2>2 DEF InputOK, Beat, Dimensions
  <2>4. QED
    BY <2>1, <2>2, <2>3 DEF Dimensions
<1>2. cnt = Filled(c, b, cnt) + p /\ (drop_in_prog => p = 0)
  BY FullIsFilled DEF Step, BufferInv, Occupancy, TypeOK, PointersOK
<1>3. ~drop_in_prog => w = Wrap(c + p)
  <2>1. c + p \in 0..(2 * Depth - 1)
    BY <1>1 DEF Addr
  <2>2. QED
    BY <2>1, NextAddress DEF Step, BufferInv, Occupancy
<1>4. go \in {0, 1} /\ (go = 1 => Filled(c, b, cnt) > 0)
  BY GoIsPossible, FullIsFilled DEF Step, BufferInv, TypeOK, PointersOK
<1>5. /\ p' = IF lost THEN 0 ELSE IF ~come THEN p ELSE IF beat.last THEN 0 ELSE p + 1
      /\ b' = Wrap(b + go)
      /\ cnt' = cnt + (IF come THEN 1 ELSE 0) - go - (IF lost THEN p ELSE 0)
      /\ c' = IF come /\ beat.last THEN Wrap(w + 1) ELSE c
      /\ w' = IF lost THEN c ELSE IF come THEN Wrap(w + 1) ELSE w
      /\ drop_in_prog' = (~Ends(tvalid, beat) /\ lost)
  BY CountersStep
<1>6. /\ come <=> tvalid /\ cnt # Depth /\ ~drop /\ ~drop_in_prog
      /\ lost <=> drop \/ drop_in_prog
  BY DEF Comes, Lost
<1> HIDE DEF c, b, w, cnt, p, go, come, lost
<1>7. p' \in 0..(MaxBeats - 1)
  BY <1>1, <1>5, <1>6
<1>8. ~drop_in_prog => Wrap(w + 1) = Wrap(c + p + 1)
  BY <1>1, <1>3 DEF Wrap, Addr
<1>9. b' \in Addr /\ Wrap(w + 1) \in Addr
  BY <1>1, <1>4, <1>5 DEF Wrap, Addr
<1>10. c' \in Addr /\ w' \in Addr /\ drop_in_prog' \in BOOLEAN
  BY <1>1, <1>5, <1>6, <1>9
<1>11. cnt' \in 0..Depth /\ cnt' = Filled(c', b', cnt') + p'
  <2>1. CASE come /\ beat.last
    <3>1. cnt \in 0..(Depth - 1) /\ p \in 0..(Depth - 1)
      BY <1>1, <1>6, <2>1
    <3>2. ~lost
      BY <1>6, <2>1
    <3>3. cnt' = cnt + 1 - go /\ p' = 0 /\ c' = Wrap(c + p + 1) /\ b' = Wrap(b + go)
      BY <1>1, <1>4, <1>5, <1>6, <1>8, <2>1, <3>2
    <3>4. cnt + 1 - go \in 0..Depth
          /\ cnt + 1 - go = Filled(Wrap(c + p + 1), Wrap(b + go), cnt + 1 - go)
      BY <1>1, <1>2, <1>4, <3>1, CompletePacket DEF Step
    <3>5. cnt' \in 0..Depth /\ cnt' = Filled(c', b', cnt')
      BY <3>3, <3>4
    <3>6. QED
      BY <3>3, <3>5
  <2>2. CASE ~(come /\ beat.last)
    <3>1. PICK q \in 0..(Depth - 1) : q = p'
      BY <1>1, <1>7
    <3>2. /\ q \in {0, p, p + 1} /\ (q > p => cnt < Depth) /\ p \in 0..(Depth - 1)
          /\ cnt' = cnt + q - p - go
      BY <1>1, <1>4, <1>5, <1>6, <2>2, <3>1
    <3>3. cnt + q - p - go \in 0..Depth
          /\ cnt + q - p - go = Filled(c, Wrap(b + go), cnt + q - p - go) + q
      BY <1>1, <1>2, <1>4, <3>2 DEF Filled, Wrap, Addr
    <3>4. c' = c /\ b' = Wrap(b + go)
      BY <1>5, <2>2
    <3>5. QED
      BY <3>1, <3>2, <3>3, <3>4
  <2>3. QED
    BY <2>1, <2>2
<1>12. drop_in_prog' => p' = 0
  BY <1>5, <1>6
<1>13. ~drop_in_prog' => w' = (c' + p') % Depth
  <2>1. ~drop_in_prog' => w' = Wrap(c' + p')
    <3>1. c = Wrap(c + 0)
      BY <1>1 DEF Wrap, Addr
    <3>2. CASE lost /\ ~(come /\ beat.last)
      BY <1>1, <1>5, <1>6, <3>1, <3>2
    <3>3. CASE ~lost
      <4>1. ~drop_in_prog
        BY <1>6, <3>3
      <4>2. CASE come /\ beat.last
        <5>1. w' = Wrap(w + 1) /\ c' = Wrap(w + 1) /\ p' = 0
          BY <1>5, <3>3, <4>2
        <5>2. Wrap(w + 1) = Wrap(Wrap(w + 1) + 0)
          BY <1>1, <1>9 DEF Wrap, Addr
        <5>3. QED
          BY <5>1, <5>2
      <4>3. CASE come /\ ~beat.last
        <5>1. w' = Wrap(w + 1) /\ c' = c /\ p' = p + 1
          BY <1>5, <3>3, <4>3
        <5>2. Wrap(w + 1) = Wrap(c + (p + 1))
          BY <1>1, <1>8, <4>1 DEF Addr
        <5>3. QED
          BY <5>1, <5>2
      <4>4. CASE ~come
        BY <1>3, <1>5, <3>3, <4>1, <4>4
      <4>5. QED
        BY <4>2, <4>3, <4>4
    <3>4. QED
      BY <1>6, <3>2, <3>3
  <2>2. PICK x \in 0..(2 * Depth - 1) : x = c' + p'
    <3>1. PICK y \in Addr, z \in 0..(MaxBeats - 1) : y = c' /\ z = p'
      BY <1>7, <1>10
    <3>2. y + z \in 0..(2 * Depth - 1)
      BY <1>1 DEF Addr
    <3>3. QED
      BY <3>1, <3>2
  <2>3. x % Depth = Wrap(x)
    BY NextAddress DEF Step
  <2>4. QED
    BY <2>1, <2>2, <2>3
<1>14. QED
  BY <1>7, <1>9, <1>10, <1>11, <1>12, <1>13 DEF c, b, w, cnt, p

-----------------------------------------------------------------------------
(* The registers keep their types *)

LEMMA WordsStep ==
  ASSUME NEW tvalid, NEW beat, NEW drop, NEW m_tready, Step(tvalid, beat, drop, m_tready)
  PROVE  /\ ram' \in [Addr -> Beat] /\ stage' \in Beat /\ ram_doutb' \in Beat
         /\ rd_state' \in BOOLEAN \X BOOLEAN
<1>1. /\ ram \in [Addr -> Beat] /\ stage \in Beat /\ ram_doutb \in Beat
      /\ rd_state[1] \in BOOLEAN /\ rd_state[2] \in BOOLEAN
      /\ ram_addrb \in Addr /\ ram_addra \in Addr
  BY DEF Step, BufferInv, TypeOK
<1>2. ram' \in [Addr -> Beat]
  <2>1. Comes(tvalid, drop) => beat \in Beat
    BY DEF Step, InputOK, Comes
  <2>2. ram' = IF Comes(tvalid, drop) THEN [ram EXCEPT ![ram_addra] = beat] ELSE ram
    BY CountersStep
  <2>3. QED
    BY <1>1, <2>1, <2>2
<1>3. stage' \in Beat /\ ram_doutb' \in Beat
  BY <1>1 DEF Step, Clock, ReadStep
<1>4. rd_state' \in BOOLEAN \X BOOLEAN
  <2>1. /\ ram_enb(m_tready) \in BOOLEAN /\ ram_regceb(m_tready) \in BOOLEAN
        /\ Taken(m_tready) \in BOOLEAN
    BY DEF ram_enb, ram_regceb, Taken
  <2>2. QED
    BY <1>1, <2>1 DEF Step, Clock, RdStateStep
<1>5. QED
  BY <1>2, <1>3, <1>4

\* The size counter follows the packet being received; the size it leaves is
\* that of a packet that nobody gave up.
LEMMA SizingStep ==
  ASSUME NEW tvalid, NEW beat, NEW drop, NEW m_tready, Step(tvalid, beat, drop, m_tready)
  PROVE  /\ size_valid' \in BOOLEAN /\ dropped' \in BOOLEAN /\ size' \in 0..(2 * MaxBeats - 1)
         /\ size_fifo_wr_en' <=> Ends(tvalid, beat) /\ ~drop_in_prog
         /\ size_fifo_wr_en' => size' = beat.pos /\ beat.pos \in 1..MaxBeats
         /\ Sizing'
<1>1. /\ MaxBeats \in Nat \ {0} /\ acc \in 0..(2 * MaxBeats - 2) /\ size \in 0..(2 * MaxBeats - 1)
      /\ partial_pkt_beats \in 0..(MaxBeats - 1)
      /\ drop_in_prog \in BOOLEAN /\ tvalid \in BOOLEAN /\ drop \in BOOLEAN
      /\ ~drop_in_prog => acc = partial_pkt_beats
      /\ tvalid => beat.last \in BOOLEAN /\ (~drop_in_prog => beat.pos = partial_pkt_beats + 1)
  BY DEF Step, BufferInv, Occupancy, Sizing, TypeOK, Dimensions, InputOK, Beat
<1>2. Accepted(tvalid) <=> tvalid /\ ram_data_cnt # Depth
  BY DEF Accepted, s_axis_tready, ram_full
<1>3. /\ size_valid' = Ends(tvalid, beat)
      /\ dropped' = (Ends(tvalid, beat) /\ drop_in_prog)
      /\ size' = IF Ends(tvalid, beat) THEN acc + 1 ELSE size
      /\ acc' = IF ~(tvalid /\ ram_data_cnt # Depth) THEN acc ELSE IF beat.last THEN 0 ELSE acc + 1
  BY <1>2 DEF Step, Clock, SizeCountStep, DropStep, Ends
<1>4. size_valid' \in BOOLEAN /\ dropped' \in BOOLEAN /\ Ends(tvalid, beat) \in BOOLEAN
  BY <1>1, <1>3 DEF Ends
<1>5. size_fifo_wr_en' <=> Ends(tvalid, beat) /\ ~drop_in_prog
  BY <1>3 DEF size_fifo_wr_en
<1>6. size' \in 0..(2 * MaxBeats - 1)
  BY <1>1, <1>3
<1>7. size_fifo_wr_en' => size' = beat.pos /\ beat.pos \in 1..MaxBeats
  BY <1>1, <1>3, <1>5 DEF Ends
<1>8. ~drop_in_prog' => acc' = partial_pkt_beats'
  <2>1. /\ partial_pkt_beats' = IF Lost(drop) THEN 0 ELSE IF ~Comes(tvalid,
           drop) THEN partial_pkt_beats
                                ELSE IF beat.last THEN 0 ELSE partial_pkt_beats + 1
        /\ drop_in_prog' = (~Ends(tvalid, beat) /\ Lost(drop))
    BY CountersStep
  <2>2. QED
    BY <1>1, <1>3, <2>1 DEF Lost, Comes, Ends
<1>9. QED
  BY <1>4, <1>5, <1>6, <1>7, <1>8 DEF Sizing

\* The sizes that wait, after a packet has left and one has come.
LEMMA SizeFifoMoves ==
  ASSUME NEW tvalid, NEW beat, NEW drop, NEW m_tready, Step(tvalid, beat, drop, m_tready)
  PROVE  LET rest == IF size_fifo_rd_en(m_tready) THEN Tail(size_fifo) ELSE size_fifo
             new == IF size_fifo_wr_en /\ Len(size_fifo) < SizeFifoCap THEN <<size>> ELSE <<>>
         IN  /\ size_fifo' = rest \o new
             /\ rest \in Seq(1..MaxBeats) /\ new \in Seq(1..MaxBeats)
             /\ Len(rest) = Len(size_fifo) - (IF size_fifo_rd_en(m_tready) THEN 1 ELSE 0)
             /\ Len(new) \in {0, 1} /\ (Len(new) = 1 => Len(size_fifo) < SizeFifoCap)
             /\ Len(size_fifo) \in Nat
             /\ size_fifo_rd_en(m_tready) => size_fifo # <<>>
<1> DEFINE rest == IF size_fifo_rd_en(m_tready) THEN Tail(size_fifo) ELSE size_fifo
           new == IF size_fifo_wr_en /\ Len(size_fifo) < SizeFifoCap THEN <<size>> ELSE <<>>
<1>1. size_fifo \in Seq(1..MaxBeats) /\ (size_fifo_wr_en => size \in 1..MaxBeats)
  BY DEF Step, BufferInv, TypeOK, Sizing
<1>2. size_fifo_rd_en(m_tready) => size_fifo # <<>>
  BY DEF size_fifo_rd_en, Taken, m_axis_tvalid
<1>3. size_fifo' = rest \o new
  BY DEF Step, Clock, SizeFifoStep
<1>4. Len(size_fifo) \in Nat
  BY <1>1
<1>5. rest \in Seq(1..MaxBeats)
         /\ Len(rest) = Len(size_fifo) - (IF size_fifo_rd_en(m_tready) THEN 1 ELSE 0)
  <2>1. CASE size_fifo_rd_en(m_tready)
    BY <1>1, <1>2, <2>1, HeadTailProperties
  <2>2. CASE ~size_fifo_rd_en(m_tready)
    BY <1>1, <1>4, <2>2
  <2>3. QED
    BY <2>1, <2>2
<1>6. new \in Seq(1..MaxBeats) /\ Len(new) \in {0, 1}
         /\ (Len(new) = 1 => Len(size_fifo) < SizeFifoCap)
  <2>1. CASE size_fifo_wr_en /\ Len(size_fifo) < SizeFifoCap
    BY <1>1, <2>1
  <2>2. CASE ~(size_fifo_wr_en /\ Len(size_fifo) < SizeFifoCap)
    <3>1. new = <<>>
      BY <2>2
    <3> HIDE DEF new
    <3>2. new \in Seq(1..MaxBeats) /\ Len(new) = 0
      BY <3>1, EmptySeq
    <3>3. QED
      BY <3>2
  <2>3. QED
    BY <2>1, <2>2
<1>7. QED
  BY <1>2, <1>3, <1>4, <1>5, <1>6

LEMMA TypesStep ==
  ASSUME NEW tvalid, NEW beat, NEW drop, NEW m_tready, Step(tvalid, beat, drop, m_tready)
  PROVE  TypeOK' /\ Occupancy' /\ Sizing'
<1>1. size_fifo' \in Seq(1..MaxBeats) /\ Len(size_fifo') <= SizeFifoCap
  <2> DEFINE rest == IF size_fifo_rd_en(m_tready) THEN Tail(size_fifo) ELSE size_fifo
             new == IF size_fifo_wr_en /\ Len(size_fifo) < SizeFifoCap THEN <<size>> ELSE <<>>
  <2>1. /\ size_fifo' = rest \o new
        /\ rest \in Seq(1..MaxBeats) /\ new \in Seq(1..MaxBeats)
        /\ Len(rest) = Len(size_fifo) - (IF size_fifo_rd_en(m_tready) THEN 1 ELSE 0)
        /\ Len(size_fifo) \in Nat
        /\ Len(new) \in {0, 1} /\ (Len(new) = 1 => Len(size_fifo) < SizeFifoCap)
    BY SizeFifoMoves
  <2> HIDE DEF rest, new
  <2>2. Len(size_fifo) <= SizeFifoCap /\ SizeFifoCap \in Nat
    BY DEF Step, BufferInv, TypeOK, Dimensions
  <2>3. rest \o new \in Seq(1..MaxBeats) /\ Len(rest \o new) = Len(rest) + Len(new)
    BY <2>1, ConcatProperties
  <2>4. PICK x \in Nat, y \in Nat, z \in {0, 1} :
            x = Len(rest) /\ y = Len(size_fifo) /\ z = Len(new)
    BY <2>1, LenProperties
  <2>5. x <= y /\ (z = 1 => y < SizeFifoCap) /\ y <= SizeFifoCap
    BY <2>1, <2>2, <2>4
  <2>6. x + z <= SizeFifoCap
    BY <2>2, <2>5
  <2>7. QED
    BY <2>1, <2>3, <2>4, <2>6
<1>2. partial_pkt_beats' \in 0..(MaxBeats - 1) /\ MaxBeats \in Nat
  BY OccupancyStep DEF Step, Dimensions
<1>3. TypeOK'
  <2>1. acc' \in 0..(2 * MaxBeats - 2)
    BY DEF Step
  <2>2. partial_pkt_beats' \in 0..MaxBeats
    BY <1>2
  <2>3. /\ size_valid' \in BOOLEAN /\ dropped' \in BOOLEAN /\ size' \in 0..(2 * MaxBeats - 1)
    BY SizingStep
  <2>4. /\ ram_addrb' \in Addr /\ ram_addra_checkpoint' \in Addr /\ ram_addra' \in Addr
        /\ ram_data_cnt' \in 0..Depth /\ drop_in_prog' \in BOOLEAN
    BY OccupancyStep
  <2>5. QED
    BY <1>1, <2>1, <2>2, <2>3, <2>4, WordsStep DEF TypeOK
<1>4. (full_pkt_beats)' = Filled(ram_addra_checkpoint', ram_addrb', ram_data_cnt')
  <2>1. (PointersOK => full_pkt_beats = Filled(ram_addra_checkpoint, ram_addrb, ram_data_cnt))'
    BY FullIsFilledNext DEF Step
  <2>2. QED
    BY <2>1, OccupancyStep DEF PointersOK
<1>5. Occupancy'
  <2>1. partial_pkt_beats' < MaxBeats
    BY <1>2
  <2>2. QED
    BY <1>4, <2>1, OccupancyStep DEF Occupancy
<1>6. QED
  BY <1>3, <1>5, SizingStep

-----------------------------------------------------------------------------
(* What lies in the RAM: the reader's words and then those of the packet   *)
(* being received, counted from the reader's pointer                       *)

Fetchable == InRam(ram_addrb, full_pkt_beats)

At(j) == ram[Wrap(ram_addrb + j)]

LEMMA InRamWords ==
  ASSUME Dimensions, ram \in [Addr -> Beat], NEW from \in Addr, NEW n \in 0..Depth
  PROVE  /\ InRam(from, n) \in Seq(Beat) /\ Len(InRam(from, n)) = n
         /\ \A k \in 1..n : InRam(from, n)[k] = ram[Wrap(from + k - 1)]
<1>1. Depth \in Nat \ {0} /\ from \in 0..(Depth - 1)
  BY DEF Dimensions, Addr
<1>2. ASSUME NEW k \in 1..n
      PROVE  (from + k - 1) % Depth = Wrap(from + k - 1) /\ Wrap(from + k - 1) \in Addr
  <2>1. from + k - 1 \in 0..(2 * Depth - 1)
    BY <1>1
  <2>2. QED
    BY <2>1, NextAddress
<1>3. InRam(from, n) = [k \in 1..n |-> ram[(from + k - 1) % Depth]]
  BY DEF InRam
<1>4. \A k \in 1..n : ram[(from + k - 1) % Depth] \in Beat
  BY <1>2
<1>5. InRam(from, n) \in [1..n -> Beat]
  BY <1>3, <1>4
<1>6. InRam(from, n) \in Seq(Beat) /\ Len(InRam(from, n)) = n
  <2>1. n \in Nat
    BY <1>1
  <2> DEFINE s == InRam(from, n)
  <2>2. s \in [1..n -> Beat]
    BY <1>5
  <2> HIDE DEF s
  <2>3. s \in Seq(Beat) /\ Len(s) = n
    BY <2>1, <2>2
  <2>4. QED
    BY <2>3 DEF s
<1>7. QED
  BY <1>2, <1>3, <1>6

LEMMA WrapTwice ==
  ASSUME Dimensions, NEW b \in Addr, NEW f \in 0..Depth, NEW q \in 0..Depth, f + q <= Depth
  PROVE  Wrap(Wrap(b + f) + q) = Wrap(b + (f + q))
<1>1. Depth \in Nat \ {0} /\ b \in 0..(Depth - 1)
  BY DEF Dimensions, Addr
<1>2. QED
  BY <1>1 DEF Wrap

Sound == TypeOK /\ Occupancy

ContentsAreWords ==
    /\ full_pkt_beats \in 0..Depth /\ partial_pkt_beats \in 0..Depth
    /\ ram_data_cnt = full_pkt_beats + partial_pkt_beats
    /\ Fetchable \in Seq(Beat) /\ Len(Fetchable) = full_pkt_beats
    /\ \A k \in 1..full_pkt_beats : Fetchable[k] = At(k - 1)
    /\ Building \in Seq(Beat) /\ Len(Building) = partial_pkt_beats
    /\ \A k \in 1..partial_pkt_beats : Building[k] = At(full_pkt_beats + k - 1)
    /\ ~drop_in_prog /\ ram_data_cnt < Depth => ram_addra = Wrap(ram_addrb + ram_data_cnt)

LEMMA Contents ==
  ASSUME Dimensions, Sound
  PROVE  ContentsAreWords
<1> DEFINE c == ram_addra_checkpoint
           b == ram_addrb
           cnt == ram_data_cnt
           f == full_pkt_beats
           p == partial_pkt_beats
<1>1. /\ Depth \in Nat \ {0} /\ MaxBeats \in 1..Depth
      /\ b \in Addr /\ c \in Addr /\ cnt \in 0..Depth
      /\ p \in 0..(MaxBeats - 1) /\ drop_in_prog \in BOOLEAN
      /\ ram \in [Addr -> Beat]
  BY DEF Sound, Occupancy, TypeOK, Dimensions
<1>2. f = Filled(c, b, cnt) /\ cnt = f + p /\ (drop_in_prog => p = 0)
      /\ (~drop_in_prog => ram_addra = (c + p) % Depth)
  BY FullIsFilled DEF Sound, Occupancy, TypeOK, PointersOK
<1>3. f \in 0..Depth /\ p \in 0..Depth
  <2> HIDE DEF c, b, cnt, f, p
  <2>1. QED
    BY <1>1, <1>2 DEF Filled, Addr
<1>4. c = Wrap(b + f) /\ (f = Depth => p = 0)
  <2> HIDE DEF c, b, cnt, f, p
  <2>1. QED
    BY <1>1, <1>2 DEF Filled, Addr, Wrap
<1>5. /\ Fetchable \in Seq(Beat) /\ Len(Fetchable) = f
      /\ \A k \in 1..f : Fetchable[k] = At(k - 1)
  <2>1. /\ Fetchable \in Seq(Beat) /\ Len(Fetchable) = f
        /\ \A k \in 1..f : Fetchable[k] = ram[Wrap(b + k - 1)]
    BY <1>1, <1>3, InRamWords DEF Fetchable
  <2>2. \A k \in 1..f : b + k - 1 = b + (k - 1)
    BY <1>1, <1>3 DEF Addr
  <2>3. QED
    BY <2>1, <2>2 DEF At
<1>6. /\ Building \in Seq(Beat) /\ Len(Building) = p
      /\ \A k \in 1..p : Building[k] = ram[Wrap(c + k - 1)]
  <2>1. CASE drop_in_prog
    <3>1. Building = <<>> /\ p = 0
      BY <1>2, <2>1 DEF Building
    <3> HIDE DEF p
    <3>2. Building \in Seq(Beat) /\ Len(Building) = 0
      BY <3>1, EmptySeq
    <3>3. QED
      BY <3>1, <3>2
  <2>2. CASE ~drop_in_prog
    BY <1>1, <1>3, <2>2, InRamWords DEF Building
  <2>3. QED
    BY <1>1, <2>1, <2>2
<1>7. \A k \in 1..p : Building[k] = At(f + k - 1)
  <2>1. ASSUME NEW k \in 1..p
        PROVE  Wrap(c + k - 1) = Wrap(b + (f + k - 1))
    <3> HIDE DEF c, b, cnt, f, p
    <3>1. k - 1 \in 0..Depth /\ f + (k - 1) <= Depth
          /\ c + k - 1 = c + (k - 1) /\ f + k - 1 = f + (k - 1)
      BY <1>1, <1>2, <1>3 DEF Addr
    <3>2. QED
      BY <1>1, <1>3, <1>4, <3>1, WrapTwice
  <2>2. QED
    BY <1>6, <2>1 DEF At
<1>8. ~drop_in_prog /\ cnt < Depth => ram_addra = Wrap(b + cnt)
  <2>1. c + p \in 0..(2 * Depth - 1)
    <3> HIDE DEF c, p
    <3>1. QED
      BY <1>1 DEF Addr
  <2>2. (c + p) % Depth = Wrap(c + p)
    BY <2>1, NextAddress
  <2>3. cnt < Depth => Wrap(c + p) = Wrap(b + cnt)
    <3> HIDE DEF c, b, cnt, f, p
    <3>1. QED
      BY <1>1, <1>2, <1>3, <1>4, WrapTwice
  <2>4. QED
    BY <1>2, <2>2, <2>3
<1>9. QED
  BY <1>2, <1>3, <1>5, <1>6, <1>7, <1>8 DEF ContentsAreWords

LEMMA ContentsNext ==
  ASSUME Dimensions
  PROVE  (Sound => ContentsAreWords)'
BY Contents, PTL

\* The words that stay keep their order; the one that comes is behind them.
LEMMA WordsMove ==
  ASSUME NEW tvalid, NEW beat, NEW drop, NEW m_tready, Step(tvalid, beat, drop, m_tready)
  PROVE  \A j \in 0..(Depth - 1) :
            /\ j + Go(m_tready) < ram_data_cnt => At(j)' = At(j + Go(m_tready))
            /\ Comes(tvalid, drop) /\ j + Go(m_tready) = ram_data_cnt => At(j)' = beat
<1> DEFINE b == ram_addrb
           w == ram_addra
           cnt == ram_data_cnt
           go == Go(m_tready)
           come == Comes(tvalid, drop)
<1>1. /\ Depth \in Nat \ {0} /\ b \in Addr /\ w \in Addr /\ cnt \in 0..Depth
      /\ ram \in [Addr -> Beat]
  BY DEF Step, BufferInv, TypeOK, Dimensions
<1>2. come => cnt < Depth /\ w = Wrap(b + cnt)
  <2>1. come => cnt # Depth /\ ~drop_in_prog
    BY DEF Comes
  <2>2. ~drop_in_prog /\ cnt < Depth => w = Wrap(b + cnt)
    BY Contents DEF Step, BufferInv, Sound, ContentsAreWords
  <2> HIDE DEF cnt, come
  <2>3. cnt # Depth => cnt < Depth
    BY <1>1
  <2>4. QED
    BY <2>1, <2>2, <2>3
<1>3. /\ b' = Wrap(b + go) /\ go \in {0, 1}
      /\ ram' = IF come THEN [ram EXCEPT ![w] = beat] ELSE ram
  BY CountersStep, GoIsPossible
<1> SUFFICES ASSUME NEW j \in 0..(Depth - 1)
             PROVE  /\ j + go < cnt => At(j)' = At(j + go)
                    /\ come /\ j + go = cnt => At(j)' = beat
  OBVIOUS
<1>4. At(j)' = ram'[Wrap(b' + j)] /\ At(j + go) = ram[Wrap(b + (j + go))]
  BY DEF At
<1> HIDE DEF b, w, cnt, go, come
<1>5. j + go <= Depth => Wrap(b' + j) = Wrap(b + (j + go)) /\ Wrap(b + (j + go)) \in Addr
  <2>1. j \in 0..Depth /\ go \in 0..Depth /\ go + j = j + go
    BY <1>1, <1>3
  <2>2. j + go <= Depth => Wrap(Wrap(b + go) + j) = Wrap(b + (j + go))
    BY <1>1, <2>1, WrapTwice DEF Step
  <2>3. j + go <= Depth => Wrap(b + (j + go)) \in Addr
    BY <1>1, <1>3 DEF Addr, Wrap
  <2>4. QED
    BY <1>3, <2>2, <2>3
<1>6. ASSUME j + go < cnt
      PROVE  At(j)' = At(j + go)
  <2>1. j + go <= Depth
    BY <1>1, <1>3, <1>6
  <2>2. come => Wrap(b + (j + go)) # w
    <3>1. come => cnt < Depth /\ w = Wrap(b + cnt)
      BY <1>2
    <3>2. cnt < Depth => Wrap(b + (j + go)) # Wrap(b + cnt)
      BY <1>1, <1>3, <1>6 DEF Addr, Wrap
    <3>3. QED
      BY <3>1, <3>2
  <2>3. QED
    BY <1>1, <1>3, <1>4, <1>5, <2>1, <2>2
<1>7. ASSUME come, j + go = cnt
      PROVE  At(j)' = beat
  <2>1. j + go <= Depth /\ w = Wrap(b + (j + go))
    BY <1>1, <1>2, <1>7
  <2>2. QED
    BY <1>1, <1>3, <1>4, <1>5, <1>7, <2>1
<1>8. QED
  BY <1>6, <1>7

\* What becomes complete in a cycle
Joins(tvalid, beat, drop) ==
    IF Comes(tvalid, drop) /\ beat.last THEN Append(Building, beat) ELSE <<>>

LEMMA LengthsStep ==
  ASSUME NEW tvalid, NEW beat, NEW drop, NEW m_tready, Step(tvalid, beat, drop, m_tready)
  PROVE  /\ ContentsAreWords /\ ContentsAreWords'
         /\ Go(m_tready) \in {0, 1} /\ (Go(m_tready) = 1 => full_pkt_beats > 0)
         /\ partial_pkt_beats < Depth
         /\ partial_pkt_beats' =
              IF Lost(drop) THEN 0 ELSE IF ~Comes(tvalid, drop) THEN partial_pkt_beats
              ELSE IF beat.last THEN 0 ELSE partial_pkt_beats + 1
         /\ full_pkt_beats' = full_pkt_beats - Go(m_tready)
              + (IF Comes(tvalid, drop) /\ beat.last THEN partial_pkt_beats + 1 ELSE 0)
<1>1. ContentsAreWords
  BY Contents DEF Step, BufferInv, Sound
<1>2. ContentsAreWords'
  <2>1. (Sound => ContentsAreWords)'
    BY ContentsNext DEF Step
  <2>2. Sound'
    BY TypesStep DEF Sound
  <2>3. QED
    BY <2>1, <2>2
<1>3. partial_pkt_beats < Depth
  BY DEF Step, BufferInv, Occupancy, TypeOK, Dimensions
<1>4. /\ partial_pkt_beats' =
              IF Lost(drop) THEN 0 ELSE IF ~Comes(tvalid, drop) THEN partial_pkt_beats
              ELSE IF beat.last THEN 0 ELSE partial_pkt_beats + 1
      /\ ram_data_cnt' = ram_data_cnt + (IF Comes(tvalid, drop) THEN 1 ELSE 0) - Go(m_tready)
                                  - (IF Lost(drop) THEN partial_pkt_beats ELSE 0)
  BY CountersStep
<1>5. Comes(tvalid, drop) /\ Lost(drop) => FALSE
  BY DEF Comes, Lost
<1>6. full_pkt_beats' = full_pkt_beats - Go(m_tready)
              + (IF Comes(tvalid, drop) /\ beat.last THEN partial_pkt_beats + 1 ELSE 0)
  <2> DEFINE f == full_pkt_beats
             p == partial_pkt_beats
             cnt == ram_data_cnt
             go == Go(m_tready)
  <2>1. /\ Depth \in Nat /\ f \in 0..Depth /\ p \in 0..Depth /\ cnt = f + p
        /\ f' \in 0..Depth /\ p' \in 0..Depth /\ cnt' = f' + p'
        /\ go \in {0, 1}
    BY <1>1, <1>2, GoIsPossible DEF ContentsAreWords, Step, Dimensions
  <2> HIDE DEF f, p, cnt, go
  <2>2. PICK f2 \in 0..Depth, p2 \in 0..Depth : f2 = f' /\ p2 = p'
    BY <2>1
  <2>3. QED
    BY <1>4, <1>5, <2>1, <2>2 DEF f, p, cnt, go
<1>7. QED
  BY <1>1, <1>2, <1>3, <1>4, <1>6, GoIsPossible

LEMMA JoinsWords ==
  ASSUME NEW tvalid, NEW beat, NEW drop, NEW m_tready, Step(tvalid, beat, drop, m_tready)
  PROVE  LET joins == Joins(tvalid, beat, drop)
             completes == Comes(tvalid, drop) /\ beat.last
         IN  /\ joins \in Seq(Beat)
             /\ Len(joins) = IF completes THEN partial_pkt_beats + 1 ELSE 0
             /\ \A i \in 1..Len(joins) :
                    joins[i] = IF i <= partial_pkt_beats THEN Building[i] ELSE beat
<1> DEFINE joins == Joins(tvalid, beat, drop)
           completes == Comes(tvalid, drop) /\ beat.last
<1>1. Building \in Seq(Beat) /\ Len(Building) = partial_pkt_beats
  BY LengthsStep DEF ContentsAreWords
<1>2. CASE completes
  <2>1. joins = Append(Building, beat)
    BY <1>2 DEF Joins
  <2>2. beat \in Beat
    BY <1>2 DEF Step, InputOK, Comes
  <2> HIDE DEF joins
  <2>3. QED
    BY <1>1, <1>2, <2>1, <2>2 DEF joins
<1>3. CASE ~completes
  <2>1. joins = <<>>
    BY <1>3 DEF Joins
  <2> HIDE DEF joins
  <2>2. joins \in Seq(Beat) /\ Len(joins) = 0
    BY <2>1, EmptySeq
  <2>3. \A i \in 1..Len(joins) : FALSE
    BY <2>2
  <2>4. QED
    BY <1>3, <2>2, <2>3 DEF joins
<1>4. QED
  BY <1>2, <1>3

LEMMA FetchableStep ==
  ASSUME NEW tvalid, NEW beat, NEW drop, NEW m_tready, Step(tvalid, beat, drop, m_tready)
  PROVE  Fetchable' = (IF ram_enb(m_tready) THEN Tail(Fetchable) ELSE Fetchable)
                      \o Joins(tvalid, beat, drop)
<1> DEFINE base == IF ram_enb(m_tready) THEN Tail(Fetchable) ELSE Fetchable
           joins == Joins(tvalid, beat, drop)
           completes == Comes(tvalid, drop) /\ beat.last
           go == Go(m_tready)
           f == full_pkt_beats
           p == partial_pkt_beats
           moved == Fetchable'
           n == f'
<1>1. /\ f \in 0..Depth /\ p \in 0..(Depth - 1) /\ Depth \in Nat \ {0} /\ n \in 0..Depth
      /\ go \in {0, 1} /\ (go = 1 => f > 0)
      /\ ram_data_cnt = f + p
      /\ n = f - go + (IF completes THEN p + 1 ELSE 0)
  <2>1. ContentsAreWords /\ ContentsAreWords' /\ p < Depth
        /\ n = f - go + (IF completes THEN p + 1 ELSE 0)
    BY LengthsStep
  <2>2. QED
    BY <2>1, GoIsPossible DEF ContentsAreWords, Step, Dimensions
<1>2. base \in Seq(Beat) /\ Len(base) = f - go /\ \A k \in 1..(f - go) : base[k] = At(k - 1 + go)
  <2>1. /\ Fetchable \in Seq(Beat) /\ Len(Fetchable) = f
        /\ \A k \in 1..f : Fetchable[k] = At(k - 1)
    BY LengthsStep DEF ContentsAreWords
  <2>2. CASE ram_enb(m_tready)
    <3>1. go = 1 /\ base = Tail(Fetchable)
      BY <2>2 DEF Go
    <3>2. Fetchable # <<>>
      BY <1>1, <2>1, <3>1, EmptySeq
    <3>3. /\ Tail(Fetchable) \in Seq(Beat) /\ Len(Tail(Fetchable)) = f - 1
          /\ \A k \in 1..Len(Tail(Fetchable)) : Tail(Fetchable)[k] = Fetchable[k + 1]
      BY <2>1, <3>2, HeadTailProperties
    <3> HIDE DEF base, go, f
    <3>4. ASSUME NEW k \in 1..(f - 1)
          PROVE  Tail(Fetchable)[k] = At(k - 1 + 1)
      <4>1. k + 1 \in 1..f /\ (k + 1) - 1 = k - 1 + 1
        BY <1>1
      <4>2. QED
        BY <2>1, <3>3, <4>1
    <3>5. QED
      BY <3>1, <3>3, <3>4
  <2>3. CASE ~ram_enb(m_tready)
    <3>1. go = 0 /\ base = Fetchable
      BY <2>3 DEF Go
    <3> HIDE DEF base, go, f
    <3>2. \A k \in 1..f : k - 1 + 0 = k - 1 /\ f - 0 = f
      BY <1>1
    <3>3. f - 0 = f
      BY <1>1
    <3>4. QED
      BY <2>1, <3>1, <3>2, <3>3
  <2>4. QED
    BY <2>2, <2>3
<1>3. /\ moved \in Seq(Beat) /\ Len(moved) = n
      /\ \A k \in 1..n : moved[k] = At(k - 1)'
  BY LengthsStep DEF ContentsAreWords
<1>4. /\ joins \in Seq(Beat)
      /\ Len(joins) = IF completes THEN p + 1 ELSE 0
      /\ \A i \in 1..Len(joins) : joins[i] = IF i <= p THEN Building[i] ELSE beat
      /\ \A i \in 1..p : Building[i] = At(f + i - 1)
  BY JoinsWords, LengthsStep DEF ContentsAreWords
<1>5. \A j \in 0..(Depth - 1) :
            /\ j + go < ram_data_cnt => At(j)' = At(j + go)
            /\ Comes(tvalid, drop) /\ j + go = ram_data_cnt => At(j)' = beat
  BY WordsMove
<1> HIDE DEF base, joins, completes, go, f, p, moved, n
<1>6. /\ base \o joins \in Seq(Beat) /\ Len(base \o joins) = n
      /\ \A k \in 1..n : (base \o joins)[k] = IF k <= f - go THEN base[k] ELSE joins[k - (f - go)]
  <2>1. /\ base \o joins \in Seq(Beat) /\ Len(base \o joins) = Len(base) + Len(joins)
        /\ \A i \in 1..(Len(base) + Len(joins)) :
              (base \o joins)[i] = IF i <= Len(base) THEN base[i] ELSE joins[i - Len(base)]
    BY <1>2, <1>4, ConcatProperties
  <2>2. Len(base) + Len(joins) = n
    BY <1>1, <1>2, <1>4
  <2>3. QED
    BY <1>2, <2>1, <2>2
<1>7. ASSUME NEW k \in 1..n
      PROVE  moved[k] = (base \o joins)[k]
  <2>1. k - 1 \in 0..(Depth - 1)
    BY <1>1
  <2>2. CASE k <= f - go
    <3>1. k \in 1..(f - go) /\ k - 1 + go < ram_data_cnt
      BY <1>1, <2>2
    <3>2. QED
      BY <1>2, <1>3, <1>5, <1>6, <2>1, <2>2, <3>1
  <2>3. CASE ~(k <= f - go)
    <3>1. PICK i \in Int : i = k - (f - go)
      BY <1>1
    <3>2. completes /\ i \in 1..(p + 1) /\ i \in 1..Len(joins)
      BY <1>1, <1>4, <2>3, <3>1
    <3>3. (base \o joins)[k] = joins[i]
      BY <1>6, <2>3, <3>1
    <3>4. CASE i <= p
      <4>1. i \in 1..p /\ k - 1 + go < ram_data_cnt /\ k - 1 + go = f + i - 1
        BY <1>1, <3>1, <3>2, <3>4
      <4>2. joins[i] = At(f + i - 1)
        BY <1>4, <3>2, <3>4, <4>1
      <4>3. At(k - 1)' = At(k - 1 + go)
        BY <1>5, <2>1, <4>1
      <4>4. QED
        BY <1>3, <3>3, <4>1, <4>2, <4>3
    <3>5. CASE ~(i <= p)
      <4>1. k - 1 + go = ram_data_cnt
        BY <1>1, <3>1, <3>2, <3>5
      <4>2. Comes(tvalid, drop)
        BY <3>2 DEF completes
      <4>3. QED
        BY <1>3, <1>4, <1>5, <2>1, <3>2, <3>3, <3>5, <4>1, <4>2
    <3>6. QED
      BY <3>4, <3>5
  <2>4. QED
    BY <2>2, <2>3
<1>8. moved = base \o joins
  BY <1>3, <1>6, <1>7, SeqEqual
<1>9. QED
  BY <1>8 DEF moved, base, joins

LEMMA BuildingStep ==
  ASSUME NEW tvalid, NEW beat, NEW drop, NEW m_tready, Step(tvalid, beat, drop, m_tready)
  PROVE  Building' = IF Lost(drop) THEN <<>> ELSE IF ~Comes(tvalid, drop) THEN Building
                     ELSE IF beat.last THEN <<>> ELSE Append(Building, beat)
<1> DEFINE go == Go(m_tready)
           f == full_pkt_beats
           p == partial_pkt_beats
           cnt == ram_data_cnt
           completes == Comes(tvalid, drop) /\ beat.last
<1>1. /\ Depth \in Nat \ {0} /\ f \in 0..Depth /\ p \in 0..(Depth - 1) /\ cnt = f + p
      /\ f' \in 0..Depth /\ p' \in 0..Depth /\ cnt' = f' + p' /\ cnt' \in 0..Depth
      /\ go \in {0, 1} /\ (go = 1 => f > 0)
      /\ f' = f - go + (IF completes THEN p + 1 ELSE 0)
      /\ p' = IF Lost(drop) THEN 0 ELSE IF ~Comes(tvalid, drop) THEN p
              ELSE IF beat.last THEN 0 ELSE p + 1
  <2>1. ContentsAreWords /\ ContentsAreWords' /\ p < Depth
        /\ f' = f - go + (IF completes THEN p + 1 ELSE 0)
        /\ p' = IF Lost(drop) THEN 0 ELSE IF ~Comes(tvalid, drop) THEN p
              ELSE IF beat.last THEN 0 ELSE p + 1
    BY LengthsStep
  <2>2. cnt' \in 0..Depth
    BY TypesStep DEF TypeOK
  <2>3. QED
    BY <2>1, <2>2, GoIsPossible DEF ContentsAreWords, Step, Dimensions
<1>2. /\ Building \in Seq(Beat) /\ Len(Building) = p
      /\ \A k \in 1..p : Building[k] = At(f + k - 1)
      /\ Building' \in Seq(Beat) /\ Len(Building') = p'
      /\ \A k \in 1..p' : Building'[k] = ram'[Wrap(ram_addrb' + (f' + k - 1))]
  BY LengthsStep DEF ContentsAreWords, At
<1>3. \A j \in 0..(Depth - 1) :
            /\ j + go < cnt => At(j)' = At(j + go)
            /\ Comes(tvalid, drop) /\ j + go = cnt => At(j)' = beat
  BY WordsMove
<1>4. CASE p' = 0
  <2>1. Building' = <<>>
    BY <1>2, <1>4, EmptySeq
  <2>2. p = 0 => Building = <<>>
    BY <1>2, EmptySeq
  <2>3. p + 1 # 0
    BY <1>1
  <2>4. QED
    BY <1>1, <1>4, <2>1, <2>2, <2>3
<1>5. CASE p' # 0
  <2>1. ~Lost(drop) /\ f' = f - go
    BY <1>1, <1>5
  <2> HIDE DEF go, f, p, cnt
  <2>2. PICK n \in 1..Depth, g \in 0..Depth : n = p' /\ g = f'
    BY <1>1, <1>5
  <2>3. \A k \in 1..n : k <= p => Building'[k] = Building[k]
    <3> SUFFICES ASSUME NEW k \in 1..n, k <= p
                 PROVE  Building'[k] = Building[k]
      OBVIOUS
    <3>1. g + k - 1 \in 0..(Depth - 1) /\ (g + k - 1) + go < cnt /\ (g + k - 1) + go = f + k - 1
          /\ k \in 1..p
      BY <1>1, <2>1, <2>2
    <3>2. At(g + k - 1)' = At(f + k - 1)
      BY <1>3, <3>1
    <3>3. QED
      BY <1>2, <2>2, <3>1, <3>2 DEF At
  <2>4. CASE ~Comes(tvalid, drop)
    <3>1. n = p
      BY <1>1, <2>1, <2>2, <2>4
    <3>2. \A k \in 1..n : Building'[k] = Building[k]
      BY <1>1, <2>3, <3>1
    <3>3. Building' = Building
      BY <1>2, <2>2, <3>1, <3>2, SeqEqual
    <3>4. QED
      BY <2>1, <2>4, <3>3
  <2>5. CASE Comes(tvalid, drop)
    <3>1. n = p + 1 /\ ~beat.last
      BY <1>1, <1>5, <2>1, <2>2, <2>5
    <3>2. beat \in Beat
      BY <2>5 DEF Step, InputOK, Comes
    <3>3. Building'[n] = beat
      <4>1. g + n - 1 \in 0..(Depth - 1) /\ (g + n - 1) + go = cnt
        BY <1>1, <2>1, <2>2, <3>1
      <4>2. At(g + n - 1)' = beat
        BY <1>3, <2>5, <4>1
      <4>3. QED
        BY <1>2, <2>2, <4>2 DEF At
    <3> DEFINE s == Append(Building, beat)
    <3>4. s \in Seq(Beat) /\ Len(s) = n
             /\ (\A k \in 1..n : s[k] = IF k <= p THEN Building[k] ELSE beat)
      BY <1>1, <1>2, <3>1, <3>2
    <3> HIDE DEF s
    <3>5. \A k \in 1..n : Building'[k] = s[k]
      <4>1. \A k \in 1..n : k <= p \/ k = n
        BY <1>1, <3>1
      <4>2. ~(n <= p)
        BY <1>1, <3>1
      <4>3. QED
        BY <2>3, <3>3, <3>4, <4>1, <4>2
    <3>6. Building' = s
      BY <1>2, <2>2, <3>4, <3>5, SeqEqual
    <3>7. QED
      BY <2>1, <2>5, <3>1, <3>6 DEF s
  <2>6. QED
    BY <2>4, <2>5
<1>6. QED
  BY <1>4, <1>5

LEMMA OpenPacketStep ==
  ASSUME NEW tvalid, NEW beat, NEW drop, NEW m_tready, Step(tvalid, beat, drop, m_tready)
  PROVE  OpenPacket'
<1>1. /\ Building \in Seq(Beat) /\ Len(Building) = partial_pkt_beats
      /\ \A k \in 1..Len(Building) : Building[k] = [pos |-> k, last |-> FALSE]
  BY LengthsStep DEF ContentsAreWords, Step, BufferInv, OpenPacket
<1>2. Building' = IF Lost(drop) THEN <<>> ELSE IF ~Comes(tvalid, drop) THEN Building
                  ELSE IF beat.last THEN <<>> ELSE Append(Building, beat)
  BY BuildingStep
<1>3. CASE Building' = <<>>
  <2>1. Len(Building') = 0
    BY <1>3, EmptySeq
  <2>2. QED
    BY <2>1 DEF OpenPacket
<1>4. CASE Building' = Building
  BY <1>1, <1>4 DEF OpenPacket
<1>5. CASE Building' = Append(Building, beat) /\ Comes(tvalid, drop) /\ ~beat.last
  <2>1. beat \in Beat /\ beat = [pos |-> Len(Building) + 1, last |-> FALSE]
    <3>1. beat \in Beat /\ beat.pos = partial_pkt_beats + 1
      BY <1>5 DEF Step, InputOK, Comes, Lost
    <3>2. QED
      BY <1>1, <1>5, <3>1 DEF Beat
  <2> DEFINE s == Append(Building, beat)
  <2>2. /\ Len(s) = Len(Building) + 1 /\ Len(Building) \in Nat
        /\ \A k \in 1..Len(Building) : s[k] = Building[k]
        /\ s[Len(Building) + 1] = beat
    BY <1>1, <2>1
  <2> HIDE DEF s
  <2>3. \A k \in 1..Len(s) : s[k] = [pos |-> k, last |-> FALSE]
    <3>1. \A k \in 1..Len(s) : k \in 1..Len(Building) \/ k = Len(Building) + 1
      BY <2>2
    <3>2. QED
      BY <1>1, <2>1, <2>2, <3>1
  <2>4. Building' = s
    BY <1>5 DEF s
  <2>5. QED
    BY <2>3, <2>4 DEF OpenPacket
<1>6. QED
  BY <1>2, <1>3, <1>4, <1>5

LEMMA TailOfOne ==
  ASSUME NEW S, NEW x \in S, NEW s \in Seq(S)
  PROVE  /\ <<x>> \o s \in Seq(S) /\ <<x>> \o s # <<>>
         /\ Tail(<<x>> \o s) = s
         /\ s # <<>> => <<Head(s)>> \o Tail(s) = s
OBVIOUS

LEMMA Regrouped == \A x, y, z \in Seq(Beat) : (x \o y) \o z = x \o (y \o z)
BY ConcatAssociative

\* A register that may hold a word
Reg(holds, word) == IF holds THEN <<word>> ELSE <<>>

LEMMA RegWords ==
  ASSUME NEW S, NEW holds, NEW x \in S, NEW s \in Seq(S)
  PROVE  /\ Reg(holds, x) \in Seq(S) /\ Reg(holds, x) \o s \in Seq(S)
         /\ holds => Reg(holds, x) = <<x>>
         /\ ~holds => Reg(holds, x) \o s = s
<1>1. CASE holds
  BY <1>1 DEF Reg
<1>2. CASE ~holds
  <2>1. Reg(holds, x) = <<>>
    BY <1>2 DEF Reg
  <2>2. Reg(holds, x) \in Seq(S)
    BY <2>1, EmptySeq
  <2>3. <<>> \o s = s
    BY ConcatEmptySeq
  <2>4. QED
    BY <1>2, <2>1, <2>2, <2>3
<1>3. QED
  BY <1>1, <1>2

LEMMA LineIs ==
  ASSUME Dimensions, Sound
  PROVE  /\ Line = (Reg(rd_state[2], ram_doutb) \o Reg(rd_state[1], stage)) \o Fetchable
         /\ Line \in Seq(Beat)
<1>1. Line = (Reg(rd_state[2], ram_doutb) \o Reg(rd_state[1], stage)) \o Fetchable
  BY DEF Line, Reg, Fetchable
<1>2. Fetchable \in Seq(Beat) /\ ram_doutb \in Beat /\ stage \in Beat
  BY Contents DEF Sound, ContentsAreWords, TypeOK
<1>3. Reg(rd_state[2], ram_doutb) \in Seq(Beat) /\ Reg(rd_state[1], stage) \in Seq(Beat)
  BY <1>2, RegWords
<1>4. QED
  BY <1>1, <1>2, <1>3, ConcatProperties

\* The packets that are complete move on as a queue does: a beat taken is the
\* first, a packet that becomes complete joins at the end.
LEMMA LineStep ==
  ASSUME NEW tvalid, NEW beat, NEW drop, NEW m_tready, Step(tvalid, beat, drop, m_tready)
  PROVE  /\ Line' = (IF Taken(m_tready) THEN Tail(Line) ELSE Line) \o Joins(tvalid, beat, drop)
         /\ Line \in Seq(Beat) /\ Joins(tvalid, beat, drop) \in Seq(Beat)
         /\ Taken(m_tready) => Line # <<>> /\ Head(Line) = ram_doutb
<1> DEFINE F == Fetchable
           base == IF ram_enb(m_tready) THEN Tail(Fetchable) ELSE Fetchable
           joins == Joins(tvalid, beat, drop)
           enb == ram_enb(m_tready)
           ceb == ram_regceb(m_tready)
           taken == Taken(m_tready)
           r1 == rd_state[1]
           r2 == rd_state[2]
           S == Reg(r1, stage)
           O == Reg(r2, ram_doutb)
           S2 == Reg(rd_state'[1], stage')
           O2 == Reg(rd_state'[2], ram_doutb')
           F2 == Fetchable'
<1>1. /\ F \in Seq(Beat) /\ ram_doutb \in Beat /\ stage \in Beat
      /\ stage' \in Beat /\ ram_doutb' \in Beat
      /\ r1 \in BOOLEAN /\ r2 \in BOOLEAN /\ rd_state = <<r1, r2>>
  <2>1. F \in Seq(Beat) /\ stage' \in Beat /\ ram_doutb' \in Beat
    BY LengthsStep, WordsStep DEF ContentsAreWords
  <2>2. QED
    BY <2>1 DEF Step, BufferInv, TypeOK
<1>2. /\ enb <=> full_pkt_beats > 0 /\ (r1 /\ r2 => taken)
      /\ ceb <=> r1 /\ (r2 => taken)
      /\ taken => r2
      /\ rd_state'[1] <=> enb \/ (r1 /\ ~ceb)
      /\ rd_state'[2] <=> ceb \/ (r2 /\ ~taken)
  <2>1. rd_state' = <<enb \/ (r1 /\ ~ceb), ceb \/ (r2 /\ ~taken)>>
    BY DEF Step, Clock, RdStateStep
  <2>2. taken => r2
    BY DEF Taken, m_axis_tvalid
  <2>3. ceb <=> r1 /\ (r2 => taken)
    BY DEF ram_regceb
  <2>4. enb <=> full_pkt_beats > 0 /\ (r1 /\ r2 => taken)
    <3>1. rd_state = <<TRUE, TRUE>> <=> r1 /\ r2
      <4>1. rd_state = <<TRUE, TRUE>> => r1 /\ r2
        OBVIOUS
      <4> HIDE DEF r1, r2
      <4>2. r1 /\ r2 => r1 = TRUE /\ r2 = TRUE
        BY <1>1
      <4>3. QED
        BY <1>1, <4>1, <4>2
    <3>2. QED
      BY <3>1 DEF ram_enb
  <2> HIDE DEF enb, ceb, taken
  <2>5. QED
    BY <1>1, <2>1, <2>2, <2>3, <2>4
<1>3. /\ stage' = IF enb THEN ram[ram_addrb] ELSE stage
      /\ ram_doutb' = IF ceb THEN stage ELSE ram_doutb
  BY DEF Step, Clock, ReadStep
<1>4. enb => F # <<>> /\ ram[ram_addrb] = Head(F)
  <2>1. Len(F) = full_pkt_beats /\ \A k \in 1..full_pkt_beats : F[k] = At(k - 1)
    BY LengthsStep DEF ContentsAreWords
  <2>2. full_pkt_beats \in Nat
    BY <1>1, <2>1, LenProperties
  <2>3. ram_addrb \in Addr /\ Depth \in Nat
    BY DEF Step, BufferInv, TypeOK, Dimensions
  <2>4. Wrap(ram_addrb + (1 - 1)) = ram_addrb
    BY <2>3 DEF Wrap, Addr
  <2>5. At(1 - 1) = ram[ram_addrb]
    BY <2>4 DEF At
  <2> HIDE DEF enb, F
  <2>6. enb => full_pkt_beats > 0 /\ 1 \in 1..full_pkt_beats
    BY <1>2, <2>2
  <2>7. enb => F[1] = ram[ram_addrb]
    BY <2>1, <2>5, <2>6
  <2>8. QED
    BY <1>1, <2>1, <2>6, <2>7, EmptySeq
<1>5. F2 = base \o joins /\ joins \in Seq(Beat)
  BY FetchableStep, JoinsWords
<1>6. base = IF enb THEN Tail(F) ELSE F
  OBVIOUS
<1>7. Line = (O \o S) \o F /\ Line \in Seq(Beat)
  BY LineIs DEF Step, BufferInv, Sound
<1>8. Line' = (O2 \o S2) \o F2
  <2>1. Line' = (Reg(rd_state[2], ram_doutb) \o Reg(rd_state[1], stage))' \o Fetchable'
    BY DEF Line, Reg, Fetchable
  <2>2. QED
    BY <2>1 DEF Reg
<1> DEFINE waits == Reg(r1 /\ ~ceb, stage) \o F
<1> HIDE DEF F, base, joins, enb, ceb, taken, r1, r2, S, O, S2, O2, F2, waits
<1>9. S \in Seq(Beat) /\ O \in Seq(Beat) /\ S2 \in Seq(Beat) /\ O2 \in Seq(Beat)
  BY <1>1, RegWords DEF S, O, S2, O2
<1>10. base \in Seq(Beat)
  <2>1. enb => Tail(F) \in Seq(Beat)
    BY <1>1, <1>4, HeadTailProperties
  <2>2. QED
    BY <1>1, <1>6, <2>1
<1>11. waits \in Seq(Beat)
  BY <1>1, RegWords DEF waits
<1>12. S2 \o base = waits
  <2>1. CASE enb
    <3>1. ~(r1 /\ ~ceb) /\ rd_state'[1]
      BY <1>2, <2>1
    <3>2. waits = F
      BY <1>1, <3>1, RegWords DEF waits
    <3>3. S2 = <<Head(F)>>
      BY <1>1, <1>3, <1>4, <2>1, <3>1 DEF S2, Reg
    <3>4. base = Tail(F) /\ F # <<>>
      BY <1>4, <1>6, <2>1
    <3>5. Head(F) \in Beat
      BY <1>1, <3>4, HeadTailProperties
    <3>6. <<Head(F)>> \o Tail(F) = F
      BY <1>1, <3>4, <3>5, TailOfOne
    <3>7. QED
      BY <3>2, <3>3, <3>4, <3>6
  <2>2. CASE ~enb
    <3>1. rd_state'[1] <=> r1 /\ ~ceb
      BY <1>2, <2>2
    <3>2. S2 = Reg(r1 /\ ~ceb, stage)
      BY <1>3, <2>2, <3>1 DEF S2, Reg
    <3>3. QED
      BY <1>6, <2>2, <3>2 DEF waits
  <2>3. QED
    BY <2>1, <2>2
<1>13. (O2 \o S2) \o F2 = (O2 \o waits) \o joins
  <2>1. (O2 \o S2) \o (base \o joins) = ((O2 \o S2) \o base) \o joins
    <3> DEFINE X == O2 \o S2
    <3>1. X \in Seq(Beat)
      BY <1>9, ConcatProperties
    <3> HIDE DEF X
    <3>2. joins \in Seq(Beat) /\ base \in Seq(Beat)
      BY <1>5, <1>10
    <3>3. (X \o base) \o joins = X \o (base \o joins)
      BY <3>1, <3>2, Regrouped
    <3>4. QED
      BY <3>3 DEF X
  <2>2. (O2 \o S2) \o base = O2 \o (S2 \o base)
    <3>1. O2 \in Seq(Beat) /\ S2 \in Seq(Beat) /\ base \in Seq(Beat)
      BY <1>9, <1>10
    <3> HIDE DEF O2, S2, base
    <3>2. QED
      BY <3>1, Regrouped
  <2>3. QED
    BY <1>5, <1>12, <2>1, <2>2
<1>14. O2 \o waits = (IF taken THEN Tail(Line) ELSE Line)
          /\ (taken => Line # <<>> /\ Head(Line) = ram_doutb)
  <2>1. Line = O \o (S \o F)
    <3>1. O \in Seq(Beat) /\ S \in Seq(Beat) /\ F \in Seq(Beat)
      BY <1>1, <1>9
    <3>2. (O \o S) \o F = O \o (S \o F)
      BY <3>1, Regrouped
    <3>3. QED
      BY <1>7, <3>2
  <2>2. S \o F \in Seq(Beat)
    BY <1>1, <1>9, ConcatProperties
  <2>3. ceb => waits = F
    BY <1>1, RegWords DEF waits
  <2>4. ~r1 => S \o F = F /\ waits = F
    BY <1>1, RegWords DEF waits, S
  <2>5. r1 => S = <<stage>>
    BY DEF S, Reg
  <2>6. ~r2 => O \o (S \o F) = S \o F
    <3> DEFINE X == S \o F
    <3>1. X \in Seq(Beat)
      BY <2>2
    <3> HIDE DEF X
    <3>2. ~r2 => O \o X = X
      BY <1>1, <3>1, RegWords DEF O
    <3>3. QED
      BY <3>2 DEF X
  <2>7. r2 => O = <<ram_doutb>> /\ O \o (S \o F) # <<>> /\ Tail(O \o (S \o F)) = S \o F
              /\ Head(O \o (S \o F)) = ram_doutb
    <3>1. r2 => O = <<ram_doutb>>
      BY DEF O, Reg
    <3>2. <<ram_doutb>> \o (S \o F) # <<>> /\ Tail(<<ram_doutb>> \o (S \o F)) = S \o F
      BY <1>1, <2>2, TailOfOne
    <3>3. Head(<<ram_doutb>> \o (S \o F)) = ram_doutb
      BY <1>1, <2>2
    <3>4. QED
      BY <3>1, <3>2, <3>3
  <2>8. CASE ceb
    <3>1. O2 = <<stage>> /\ r1 /\ (r2 => taken)
      BY <1>2, <1>3, <2>8 DEF O2, Reg
    <3>2. O2 \o waits = S \o F
      BY <2>3, <2>5, <2>8, <3>1
    <3>3. QED
      BY <1>2, <2>1, <2>6, <2>7, <3>1, <3>2
  <2>9. CASE ~ceb /\ r2 /\ ~taken
    <3>1. O2 = O
      BY <1>2, <1>3, <2>9 DEF O2, O, Reg
    <3>2. waits = S \o F
      <4>1. r1 /\ ~ceb <=> r1
        BY <2>9
      <4>2. QED
        BY <4>1 DEF waits, S, Reg
    <3>3. QED
      BY <2>1, <2>9, <3>1, <3>2
  <2>10. CASE ~ceb /\ ~(r2 /\ ~taken)
    <3>1. ~r1 /\ ~rd_state'[2] /\ (r2 <=> taken)
      BY <1>2, <2>10
    <3>2. O2 \o waits = waits
      BY <1>1, <1>11, <3>1, RegWords DEF O2
    <3>3. QED
      BY <2>1, <2>4, <2>6, <2>7, <3>1, <3>2
  <2>11. QED
    BY <2>8, <2>9, <2>10
<1>15. QED
  BY <1>5, <1>7, <1>8, <1>13, <1>14 DEF taken, joins

LEMMA Joined ==
  ASSUME NEW S, NEW s \in Seq(S), NEW t \in Seq(S)
  PROVE  SubSeq(s \o t, Len(s) + 1, Len(s \o t)) = t
<1> DEFINE u == s \o t
           r == SubSeq(u, Len(s) + 1, Len(u))
<1>1. /\ u \in Seq(S) /\ Len(u) = Len(s) + Len(t)
      /\ \A i \in 1..(Len(s) + Len(t)) : u[i] = IF i <= Len(s) THEN s[i] ELSE t[i - Len(s)]
  BY ConcatProperties
<1>2. PICK m \in Nat, n \in Nat : m = Len(s) /\ n = Len(t)
  BY LenProperties
<1> HIDE DEF u
<1>3. /\ r \in Seq(S) /\ Len(r) = n
      /\ \A i \in 1..n : r[i] = u[m + 1 + i - 1]
  <2>1. \A i \in (m + 1)..(m + n) : u[i] \in S
    BY <1>1, <1>2, ElementOfSeq
  <2>2. m + 1 \in Int /\ m + n \in Int /\ (m + n) - (m + 1) + 1 = n /\ (m + 1 <= m + n <=> n > 0)
    BY <1>2
  <2>3. /\ SubSeq(u, m + 1, m + n) \in Seq(S)
        /\ Len(SubSeq(u, m + 1, m + n)) = IF m + 1 <= m + n THEN (m + n) - (m + 1) + 1 ELSE 0
        /\ \A i \in 1..((m + n) - (m + 1) + 1) : SubSeq(u, m + 1, m + n)[i] = u[m + 1 + i - 1]
    BY <2>1, <2>2, SubSeqProperties
  <2>4. r = SubSeq(u, m + 1, m + n)
    BY <1>1, <1>2
  <2>5. n = 0 \/ n > 0
    BY <1>2
  <2> HIDE DEF r
  <2>6. QED
    BY <2>2, <2>3, <2>4, <2>5
<1> HIDE DEF r
<1>4. \A i \in 1..n : r[i] = t[i]
  <2> SUFFICES ASSUME NEW i \in 1..n
               PROVE  r[i] = t[i]
    OBVIOUS
  <2>1. /\ m + 1 + i - 1 = m + i /\ m + i \in 1..(m + n)
        /\ ~(m + i <= m) /\ (m + i) - m = i
    BY <1>2
  <2>2. r[i] = u[m + i]
    BY <1>3, <2>1
  <2>3. u[m + i] = t[(m + i) - m]
    BY <1>1, <1>2, <2>1
  <2>4. QED
    BY <2>1, <2>2, <2>3
<1>5. r = t
  BY <1>2, <1>3, <1>4, SeqEqual
<1>6. QED
  BY <1>5 DEF r, u

LEMMA OpeningWords ==
  ASSUME NEW n \in Nat
  PROVE  /\ Opening(n) \in Seq([pos : Nat, last : BOOLEAN]) /\ Len(Opening(n)) = n
         /\ Append(Opening(n), [pos |-> n + 1, last |-> FALSE]) = Opening(n + 1)
<1> DEFINE S == [pos : Nat, last : BOOLEAN]
<1>1. \A m \in Nat : Opening(m) \in Seq(S) /\ Len(Opening(m)) = m
                   /\ \A k \in 1..m : Opening(m)[k] = [pos |-> k, last |-> FALSE]
  BY DEF Opening
<1> DEFINE b == [pos |-> n + 1, last |-> FALSE]
           s == Append(Opening(n), b)
<1>2. b \in S
  OBVIOUS
<1>3. /\ s \in Seq(S) /\ Len(s) = n + 1
      /\ \A k \in 1..(n + 1) : s[k] = IF k <= n THEN Opening(n)[k] ELSE b
  BY <1>1, <1>2
<1> HIDE DEF s
<1>4. \A k \in 1..(n + 1) : s[k] = Opening(n + 1)[k]
  <2>1. \A k \in 1..(n + 1) : (k <= n => k \in 1..n) /\ (~(k <= n) => k = n + 1)
    OBVIOUS
  <2>2. n + 1 \in Nat
    OBVIOUS
  <2>3. QED
    BY <1>1, <1>3, <2>1, <2>2
<1>5. s = Opening(n + 1)
  <2>1. n + 1 \in Nat /\ Opening(n + 1) \in Seq(S) /\ Len(Opening(n + 1)) = n + 1
    BY <1>1
  <2>2. QED
    BY <1>3, <1>4, <2>1, SeqEqual
<1>6. QED
  BY <1>1, <1>5 DEF s

\* What the buffer holds of the packet being received is its beginning.
LEMMA BuildingOpens ==
  ASSUME Dimensions, BufferInv
  PROVE  Building = Opening(partial_pkt_beats)
<1>1. /\ Building \in Seq(Beat) /\ Len(Building) = partial_pkt_beats
      /\ partial_pkt_beats \in Nat
  <2>1. ContentsAreWords
    BY Contents DEF BufferInv, Sound
  <2>2. QED
    BY <2>1 DEF ContentsAreWords, Dimensions
<1> DEFINE o == Opening(partial_pkt_beats)
<1>2. /\ o \in Seq([pos : Nat, last : BOOLEAN]) /\ Len(o) = partial_pkt_beats
      /\ \A k \in 1..partial_pkt_beats : o[k] = [pos |-> k, last |-> FALSE]
  <2>1. \A k \in 1..partial_pkt_beats : o[k] = [pos |-> k, last |-> FALSE]
    BY DEF Opening
  <2>2. QED
    BY <1>1, <2>1, OpeningWords
<1> HIDE DEF o
<1>3. \A k \in 1..partial_pkt_beats : Building[k] = o[k]
  <2>1. \A k \in 1..Len(Building) : Building[k] = [pos |-> k, last |-> FALSE]
    BY DEF BufferInv, OpenPacket
  <2>2. QED
    BY <1>1, <1>2, <2>1
<1>4. Building = o
  <2> DEFINE s == Building
  <2>1. s \in Seq(Beat) /\ Len(s) = partial_pkt_beats /\ \A k \in 1..partial_pkt_beats : s[k] = o[k]
    BY <1>1, <1>3
  <2> HIDE DEF s
  <2>2. s = o
    BY <1>1, <1>2, <2>1, SeqEqual
  <2>3. QED
    BY <2>2 DEF s
<1>5. QED
  BY <1>4 DEF o

\* The beats that will be delivered after a cycle, and those that joined them:
\* a whole packet when its last beat comes, and otherwise none.
LEMMA LineMoves ==
  ASSUME NEW tvalid, NEW beat, NEW drop, NEW m_tready, Step(tvalid, beat, drop, m_tready)
  PROVE  LET joins == IF Comes(tvalid, drop) /\ beat.last
                      THEN Append(Opening(partial_pkt_beats), beat) ELSE <<>>
         IN  \/ /\ Line # <<>> /\ Line' = Tail(Line) \o joins
                /\ SubSeq(Line', Len(Line), Len(Line')) = joins
             \/ /\ Line' = Line \o joins
                /\ SubSeq(Line', Len(Line) + 1, Len(Line')) = joins
<1> DEFINE joins == IF Comes(tvalid, drop) /\ beat.last
                    THEN Append(Opening(partial_pkt_beats), beat) ELSE <<>>
<1>1. joins = Joins(tvalid, beat, drop)
  BY BuildingOpens DEF Joins, Step
<1> HIDE DEF joins
<1>2. /\ Line' = (IF Taken(m_tready) THEN Tail(Line) ELSE Line) \o joins
      /\ Line \in Seq(Beat) /\ joins \in Seq(Beat)
      /\ Taken(m_tready) => Line # <<>>
  BY <1>1, LineStep
<1>3. CASE Taken(m_tready)
  <2>1. /\ Tail(Line) \in Seq(Beat) /\ Len(Tail(Line)) + 1 = Len(Line)
    BY <1>2, <1>3, HeadTailProperties, LenProperties
  <2>2. SubSeq(Tail(Line) \o joins, Len(Tail(Line)) + 1, Len(Tail(Line) \o joins)) = joins
    BY <1>2, <2>1, Joined
  <2>3. SubSeq(Line', Len(Line), Len(Line')) = joins /\ Line' = Tail(Line) \o joins
    BY <1>2, <1>3, <2>1, <2>2
  <2>4. QED
    BY <1>2, <1>3, <2>3 DEF joins
<1>4. CASE ~Taken(m_tready)
  <2>1. SubSeq(Line \o joins, Len(Line) + 1, Len(Line \o joins)) = joins
    BY <1>2, Joined
  <2>2. SubSeq(Line', Len(Line) + 1, Len(Line')) = joins /\ Line' = Line \o joins
    BY <1>2, <1>4, <2>1
  <2>3. QED
    BY <2>2 DEF joins
<1>5. QED
  BY <1>3, <1>4

LEMMA StartsEmpty ==
  ASSUME Dimensions, Init
  PROVE  BufferInv /\ Fetchable = <<>> /\ Building = <<>> /\ Line = <<>>
<1>1. /\ Depth \in Nat \ {0} /\ MaxBeats \in 1..Depth /\ SizeFifoCap \in Nat \ {0}
  BY DEF Dimensions
<1>2. [pos |-> 1, last |-> FALSE] \in Beat
  BY <1>1 DEF Beat
<1>3. TypeOK
  <2>1. ram \in [Addr -> Beat]
    BY <1>2 DEF Init
  <2>2. size_fifo \in Seq(1..MaxBeats) /\ Len(size_fifo) = 0
    BY EmptySeq DEF Init
  <2>3. rd_state \in BOOLEAN \X BOOLEAN
    BY DEF Init
  <2>4. stage \in Beat /\ ram_doutb \in Beat
    BY <1>2 DEF Init
  <2>5. 0 \in Addr
    BY <1>1 DEF Addr
  <2>6. /\ 0 \in 0..(2 * MaxBeats - 2) /\ 0 \in 0..(2 * MaxBeats - 1) /\ 0 \in 0..Depth
        /\ 0 \in 0..MaxBeats /\ 0 <= SizeFifoCap
    BY <1>1
  <2>7. /\ ram_addra \in Addr /\ ram_addra_checkpoint \in Addr /\ ram_addrb \in Addr
        /\ ram_data_cnt \in 0..Depth /\ partial_pkt_beats \in 0..MaxBeats
        /\ drop_in_prog \in BOOLEAN /\ dropped \in BOOLEAN /\ size_valid \in BOOLEAN
        /\ acc \in 0..(2 * MaxBeats - 2) /\ size \in 0..(2 * MaxBeats - 1)
    BY <2>5, <2>6 DEF Init
  <2>8. QED
    BY <2>1, <2>2, <2>3, <2>4, <2>6, <2>7 DEF TypeOK
<1>4. full_pkt_beats = 0
  BY <1>1 DEF Init, full_pkt_beats, ram_full
<1>5. Occupancy
  <2>1. (0 + 0) % Depth = 0
    BY <1>1, ModOnce
  <2>2. QED
    BY <1>1, <1>4, <2>1 DEF Init, Occupancy
<1>6. Len(Fetchable) = 0 /\ Fetchable \in Seq(Beat) /\ Len(Building) = 0 /\ Building \in Seq(Beat)
  BY <1>3, <1>4, <1>5, Contents DEF Sound, ContentsAreWords, Init
<1>7. Fetchable = <<>> /\ Building = <<>>
  BY <1>6, EmptySeq
<1>8. OpenPacket
  BY <1>6 DEF OpenPacket
<1>9. Sizing
  BY DEF Init, Sizing, size_fifo_wr_en
<1>10. Line = <<>>
  <2>1. Line = (<<>> \o <<>>) \o <<>>
    BY <1>7 DEF Init, Line, Fetchable
  <2>2. QED
    BY <2>1, ConcatEmptySeq, EmptySeq
<1>11. QED
  BY <1>3, <1>5, <1>7, <1>8, <1>9, <1>10 DEF BufferInv

LEMMA BufferStep ==
  ASSUME NEW tvalid, NEW beat, NEW drop, NEW m_tready, Step(tvalid, beat, drop, m_tready)
  PROVE  BufferInv'
BY TypesStep, OpenPacketStep DEF BufferInv

-----------------------------------------------------------------------------
(* How many packets end in a line of beats *)

LEMMA EndsCount ==
  ASSUME NEW s, NEW k \in Nat
  PROVE  /\ IsFiniteSet({i \in 1..k : s[i].last})
         /\ PacketEnds(s, k) \in 0..k /\ PacketEnds(s, k) \in Nat
<1> DEFINE E == {i \in 1..k : s[i].last}
<1>1. IsFiniteSet(1..k) /\ Cardinality(1..k) = k
  BY FS_Interval
<1>2. E \in SUBSET (1..k)
  OBVIOUS
<1> HIDE DEF E
<1>3. IsFiniteSet(E) /\ Cardinality(E) <= k
  BY <1>1, <1>2, FS_Subset
<1>4. Cardinality(E) \in Nat
  BY <1>3, FS_CardinalityType
<1>5. QED
  BY <1>3, <1>4 DEF E, PacketEnds

LEMMA NoEnds ==
  ASSUME NEW s
  PROVE  PacketEnds(s, 0) = 0
<1>1. 0 \in Nat
  OBVIOUS
<1>2. PacketEnds(s, 0) \in 0..0
  BY <1>1, EndsCount
<1>3. QED
  BY <1>2

LEMMA NextEnd ==
  ASSUME NEW s, NEW k \in Nat
  PROVE  PacketEnds(s, k + 1) = PacketEnds(s, k) + (IF s[k + 1].last THEN 1 ELSE 0)
<1> DEFINE E == {i \in 1..k : s[i].last}
           F == {i \in 1..(k + 1) : s[i].last}
<1>1. IsFiniteSet(E) /\ Cardinality(E) \in Nat
  BY EndsCount DEF PacketEnds
<1>2. k + 1 \notin E /\ F = IF s[k + 1].last THEN E \cup {k + 1} ELSE E
  OBVIOUS
<1> HIDE DEF E, F
<1>3. Cardinality(E \cup {k + 1}) = Cardinality(E) + 1
  BY <1>1, <1>2, FS_AddElement
<1>4. Cardinality(F) = Cardinality(E) + (IF s[k + 1].last THEN 1 ELSE 0)
  BY <1>1, <1>2, <1>3
<1>5. QED
  BY <1>4 DEF E, F, PacketEnds

LEMMA SameEnds ==
  ASSUME NEW s, NEW t, NEW k \in Nat, \A i \in 1..k : s[i] = t[i]
  PROVE  PacketEnds(s, k) = PacketEnds(t, k)
<1>1. {i \in 1..k : s[i].last} = {i \in 1..k : t[i].last}
  OBVIOUS
<1>2. QED
  BY <1>1 DEF PacketEnds

\* A stretch without an end
LEMMA NoEndBetween ==
  ASSUME NEW s, NEW m \in Nat, NEW n \in Nat, m <= n, \A i \in (m + 1)..n : ~s[i].last
  PROVE  PacketEnds(s, n) = PacketEnds(s, m)
<1>1. {i \in 1..n : s[i].last} = {i \in 1..m : s[i].last}
  <2>1. \A i \in 1..n : i \in 1..m \/ i \in (m + 1)..n
    OBVIOUS
  <2>2. \A i \in 1..m : i \in 1..n
    OBVIOUS
  <2>3. QED
    BY <2>1, <2>2
<1>2. QED
  BY <1>1 DEF PacketEnds

\* Without its first beat
LEMMA ShiftedEnds ==
  ASSUME NEW s, NEW t, NEW k \in Nat, \A i \in 1..k : t[i] = s[i + 1]
  PROVE  PacketEnds(s, k + 1) = PacketEnds(t, k) + (IF s[1].last THEN 1 ELSE 0)
<1> DEFINE E == {i \in 1..k : t[i].last}
           F == {i \in 2..(k + 1) : s[i].last}
           G == {i \in 1..(k + 1) : s[i].last}
           f == [i \in E |-> i + 1]
<1>1. IsFiniteSet(E) /\ Cardinality(E) \in Nat
  BY EndsCount DEF PacketEnds
<1>2. f \in Bijection(E, F)
  <2>1. \A i \in E : i + 1 \in F
    OBVIOUS
  <2>2. \A j \in F : j - 1 \in E /\ (j - 1) + 1 = j
    <3>1. \A j \in F : j - 1 \in 1..k /\ (j - 1) + 1 = j
      OBVIOUS
    <3>2. QED
      BY <3>1
  <2>3. \A i, j \in E : i + 1 = j + 1 => i = j
    OBVIOUS
  <2> HIDE DEF E, F
  <2>4. f \in [E -> F]
    BY <2>1
  <2>5. \A i, j \in E : f[i] = f[j] => i = j
    BY <2>3
  <2>6. \A j \in F : \E i \in E : f[i] = j
    BY <2>2
  <2> HIDE DEF f
  <2>7. QED
    BY <2>4, <2>5, <2>6, Fun_IsBij
<1>3. G = IF s[1].last THEN F \cup {1} ELSE F
  <2>1. \A i \in 1..(k + 1) : i = 1 \/ i \in 2..(k + 1)
    OBVIOUS
  <2>2. \A i \in 2..(k + 1) : i \in 1..(k + 1) /\ i # 1
    OBVIOUS
  <2>3. 1 \in 1..(k + 1)
    OBVIOUS
  <2>4. QED
    BY <2>1, <2>2, <2>3
<1>4. 1 \notin F
  OBVIOUS
<1> HIDE DEF E, F, G, f
<1>5. IsFiniteSet(F) /\ Cardinality(F) = Cardinality(E)
  BY <1>1, <1>2, FS_Bijection DEF ExistsBijection
<1>6. Cardinality(F \cup {1}) = Cardinality(F) + 1
  BY <1>4, <1>5, FS_AddElement
<1>7. Cardinality(G) = Cardinality(E) + (IF s[1].last THEN 1 ELSE 0)
  BY <1>1, <1>3, <1>5, <1>6
<1>8. QED
  BY <1>7 DEF E, G, PacketEnds

LEMMA EndIsCounted ==
  ASSUME NEW s, NEW n \in Nat, NEW k \in 1..n, s[k].last
  PROVE  PacketEnds(s, k) \in 1..PacketEnds(s, n)
<1> DEFINE E == {i \in 1..k : s[i].last}
           F == {i \in 1..n : s[i].last}
<1>1. k \in E /\ E \in SUBSET F
  OBVIOUS
<1>2. IsFiniteSet(F) /\ IsFiniteSet(E) /\ Cardinality(E) \in Nat /\ Cardinality(F) \in Nat
  <2>1. k \in Nat
    OBVIOUS
  <2>2. QED
    BY <2>1, EndsCount DEF PacketEnds
<1> HIDE DEF E, F
<1>3. Cardinality(E) <= Cardinality(F)
  BY <1>1, <1>2, FS_Subset
<1>4. Cardinality(E) # 0
  BY <1>1, <1>2, FS_EmptySet
<1>5. Cardinality(E) \in 1..Cardinality(F)
  BY <1>2, <1>3, <1>4
<1>6. QED
  BY <1>5 DEF E, F, PacketEnds

LEMMA EndsAfterLeaving ==
  ASSUME NEW line \in Seq(Beat), line # <<>>
  PROVE  /\ Len(Tail(line)) \in Nat /\ Len(line) = Len(Tail(line)) + 1
         /\ \A k \in 0..Len(Tail(line)) :
                PacketEnds(line, k + 1) = PacketEnds(Tail(line),
                   k) + (IF Head(line).last THEN 1 ELSE 0)
<1>1. /\ Tail(line) \in Seq(Beat) /\ Len(Tail(line)) = Len(line) - 1
      /\ \A i \in 1..Len(Tail(line)) : Tail(line)[i] = line[i + 1]
  BY HeadTailProperties
<1>2. Len(Tail(line)) \in Nat /\ Len(line) = Len(Tail(line)) + 1
  BY <1>1, LenProperties
<1>3. Head(line) = line[1]
  OBVIOUS
<1>4. ASSUME NEW k \in 0..Len(Tail(line))
      PROVE  PacketEnds(line, k + 1) = PacketEnds(Tail(line),
                k) + (IF Head(line).last THEN 1 ELSE 0)
  <2>1. k \in Nat /\ \A i \in 1..k : Tail(line)[i] = line[i + 1]
    BY <1>1, <1>2
  <2>2. PacketEnds(line, k + 1) = PacketEnds(Tail(line), k) + (IF line[1].last THEN 1 ELSE 0)
    BY <2>1, ShiftedEnds
  <2>3. QED
    BY <1>3, <2>2
<1>5. QED
  BY <1>2, <1>4

\* A packet: only its last beat ends it.
Whole(packet) ==
    /\ packet \in Seq(Beat) /\ packet # <<>>
    /\ \A i \in 1..Len(packet) : packet[i].last <=> i = Len(packet)

LEMMA EndsAfterJoining ==
  ASSUME NEW line \in Seq(Beat), NEW packet, Whole(packet)
  PROVE  LET m == Len(line)
             n == Len(line \o packet)
         IN  /\ m \in Nat /\ n \in Nat /\ n > m
             /\ (line \o packet)[n] = packet[Len(packet)]
             /\ \A k \in 1..m : (line \o packet)[k] = line[k]
             /\ \A k \in 0..m : PacketEnds(line \o packet, k) = PacketEnds(line, k)
             /\ \A k \in (m + 1)..n : (line \o packet)[k].last <=> k = n
             /\ PacketEnds(line \o packet, n) = PacketEnds(line, m) + 1
<1> DEFINE u == line \o packet
<1>1. /\ u \in Seq(Beat) /\ Len(u) = Len(line) + Len(packet)
      /\ \A i \in 1..(Len(line) + Len(packet)) :
            u[i] = IF i <= Len(line) THEN line[i] ELSE packet[i - Len(line)]
  BY ConcatProperties DEF Whole
<1>2. PICK m \in Nat, l \in Nat \ {0} : m = Len(line) /\ l = Len(packet)
  BY EmptySeq, LenProperties DEF Whole
<1> HIDE DEF u
<1>3. PICK n \in Nat : n = Len(u) /\ n = m + l
  BY <1>1, <1>2
<1>4. \A k \in 1..m : u[k] = line[k]
  BY <1>1, <1>2
<1>5. \A k \in (m + 1)..n : (u[k].last <=> k = n) /\ u[k] = packet[k - m]
  <2>1. \A k \in (m + 1)..n : k - m \in 1..l /\ ~(k <= m) /\ k \in 1..(m + l)
                              /\ (k - m = l <=> k = n)
    BY <1>2, <1>3
  <2>2. \A k \in (m + 1)..n : u[k] = packet[k - m]
    BY <1>1, <1>2, <2>1
  <2>3. QED
    BY <1>2, <2>1, <2>2 DEF Whole
<1>6. u[n] = packet[l]
  <2>1. n \in (m + 1)..n /\ n - m = l
    BY <1>2, <1>3
  <2>2. QED
    BY <1>5, <2>1
<1>7. ASSUME NEW k \in 0..m
      PROVE  PacketEnds(u, k) = PacketEnds(line, k)
  <2>1. k \in Nat /\ \A i \in 1..k : u[i] = line[i]
    BY <1>2, <1>4
  <2>2. QED
    BY <2>1, SameEnds
<1>8. PacketEnds(u, n) = PacketEnds(line, m) + 1
  <2>1. PICK h \in Nat : n = h + 1 /\ m <= h
    <3>1. n - 1 \in Nat /\ n = (n - 1) + 1 /\ m <= n - 1
      BY <1>2, <1>3
    <3>2. QED
      BY <3>1
  <2>2. \A i \in (m + 1)..h : ~u[i].last
    BY <1>5, <2>1
  <2>3. PacketEnds(u, h) = PacketEnds(u, m)
    BY <1>2, <2>1, <2>2, NoEndBetween
  <2>4. u[h + 1].last
    BY <1>5, <2>1
  <2>5. PacketEnds(u, h + 1) = PacketEnds(u, h) + 1
    BY <2>1, <2>4, NextEnd
  <2>6. PacketEnds(u, m) = PacketEnds(line, m)
    BY <1>2, <1>7
  <2>7. QED
    BY <2>1, <2>3, <2>5, <2>6
<1>9. QED
  BY <1>2, <1>3, <1>4, <1>5, <1>6, <1>7, <1>8 DEF u

-----------------------------------------------------------------------------
(* The sizes beside the packets *)

OwnSizes(line, sizes) ==
    /\ Len(sizes) = PacketEnds(line, Len(line))
    /\ \A k \in 1..Len(line) : line[k].last => sizes[PacketEnds(line, k)] = line[k].pos

\* The first beat leaves; if it ends its packet the first size leaves with it.
LEMMA SizesAfterLeaving ==
  ASSUME NEW line \in Seq(Beat), line # <<>>, NEW sizes \in Seq(Nat), OwnSizes(line, sizes)
  PROVE  OwnSizes(Tail(line), IF Head(line).last THEN Tail(sizes) ELSE sizes)
<1> DEFINE rest == Tail(line)
           left == IF Head(line).last THEN Tail(sizes) ELSE sizes
           one == IF Head(line).last THEN 1 ELSE 0
<1>1. /\ Len(rest) \in Nat /\ Len(line) = Len(rest) + 1
      /\ \A k \in 0..Len(rest) : PacketEnds(line, k + 1) = PacketEnds(rest, k) + one
      /\ \A k \in 1..Len(rest) : rest[k] = line[k + 1]
  BY EndsAfterLeaving, HeadTailProperties
<1>2. one \in {0, 1}
  OBVIOUS
<1> HIDE DEF rest
<1>3. PICK m \in Nat : m = Len(rest) /\ Len(line) = m + 1
  BY <1>1
<1>4. \A k \in 0..m : PacketEnds(rest, k) \in Nat
  <2>1. \A k \in 0..m : k \in Nat
    OBVIOUS
  <2>2. QED
    BY <2>1, EndsCount
<1>5. Len(sizes) = PacketEnds(rest, m) + one
  <2>1. m \in 0..m
    OBVIOUS
  <2>2. QED
    BY <1>1, <1>3, <2>1 DEF OwnSizes
<1>6. /\ Len(left) = PacketEnds(rest, m)
      /\ \A k \in 1..PacketEnds(rest, m) : left[k] = sizes[k + one]
  <2>1. PICK n \in Nat : n = PacketEnds(rest, m)
    BY <1>4
  <2>2. CASE Head(line).last
    <3>1. Len(sizes) = n + 1 /\ left = Tail(sizes) /\ one = 1
      BY <1>5, <2>1, <2>2
    <3>2. sizes # <<>>
      BY <3>1, <2>1, EmptySeq
    <3>3. Len(Tail(sizes)) = n /\ \A k \in 1..n : Tail(sizes)[k] = sizes[k + 1]
      BY <2>1, <3>1, <3>2, HeadTailProperties
    <3> HIDE DEF left, one
    <3>4. QED
      BY <2>1, <3>1, <3>3
  <2>3. CASE ~Head(line).last
    <3>1. Len(sizes) = n + 0 /\ left = sizes /\ one = 0
      BY <1>5, <2>1, <2>3
    <3> HIDE DEF left, one
    <3>2. \A k \in 1..n : k + 0 = k
      OBVIOUS
    <3>3. QED
      BY <2>1, <3>1, <3>2
  <2>4. QED
    BY <2>2, <2>3
<1> HIDE DEF left, one
<1>7. ASSUME NEW k \in 1..m, rest[k].last
      PROVE  left[PacketEnds(rest, k)] = rest[k].pos
  <2>1. PacketEnds(rest, k) \in 1..PacketEnds(rest, m)
    BY <1>7, EndIsCounted
  <2>2. left[PacketEnds(rest, k)] = sizes[PacketEnds(rest, k) + one]
    BY <1>6, <2>1
  <2>3. k \in 0..m /\ k + 1 \in 1..(m + 1)
    OBVIOUS
  <2>4. PacketEnds(rest, k) + one = PacketEnds(line, k + 1)
    BY <1>1, <1>3, <2>3
  <2>5. line[k + 1] = rest[k]
    BY <1>1, <1>3
  <2>6. sizes[PacketEnds(line, k + 1)] = line[k + 1].pos
    BY <1>3, <1>7, <2>3, <2>5 DEF OwnSizes
  <2>7. QED
    BY <2>2, <2>4, <2>5, <2>6
<1>8. QED
  BY <1>3, <1>6, <1>7 DEF OwnSizes, rest, left

\* A packet joins with its size.
LEMMA SizesAfterJoining ==
  ASSUME NEW line \in Seq(Beat), NEW packet, Whole(packet),
         NEW sizes \in Seq(Nat), OwnSizes(line, sizes)
  PROVE  OwnSizes(line \o packet, sizes \o <<packet[Len(packet)].pos>>)
<1> DEFINE u == line \o packet
           pos == packet[Len(packet)].pos
           more == sizes \o <<pos>>
           m == Len(line)
           n == Len(u)
<1>1. /\ m \in Nat /\ n \in Nat /\ n > m
      /\ u[n].pos = pos
      /\ \A k \in 1..m : u[k] = line[k]
      /\ \A k \in 0..m : PacketEnds(u, k) = PacketEnds(line, k)
      /\ \A k \in (m + 1)..n : u[k].last <=> k = n
      /\ PacketEnds(u, n) = PacketEnds(line, m) + 1
  BY EndsAfterJoining
<1>2. packet[Len(packet)] \in Beat
  <2>1. packet \in Seq(Beat) /\ Len(packet) \in Nat \ {0}
    BY EmptySeq DEF Whole
  <2>2. QED
    BY <2>1, ElementOfSeq
<1>3. PICK e \in Nat : e = PacketEnds(line, m) /\ Len(sizes) = e
  BY <1>1, EndsCount DEF OwnSizes
<1> HIDE DEF u, m, n
<1>4. /\ Len(more) = e + 1 /\ more[e + 1] = pos
      /\ \A i \in 1..e : more[i] = sizes[i]
  <2> HIDE DEF pos
  <2>1. more = Append(sizes, pos)
    OBVIOUS
  <2> HIDE DEF more
  <2>2. QED
    BY <1>3, <2>1
<1> HIDE DEF more, pos
<1>5. ASSUME NEW k \in 1..n, u[k].last
      PROVE  more[PacketEnds(u, k)] = u[k].pos
  <2>1. k \in 1..m \/ k \in (m + 1)..n
    BY <1>1
  <2>2. CASE k \in 1..m
    <3>1. u[k] = line[k] /\ PacketEnds(u, k) = PacketEnds(line, k)
      <4>1. k \in 0..m
        BY <1>1, <2>2
      <4>2. QED
        BY <1>1, <2>2, <4>1
    <3>2. PacketEnds(line, k) \in 1..e
      BY <1>1, <1>3, <1>5, <2>2, <3>1, EndIsCounted
    <3>3. sizes[PacketEnds(line, k)] = line[k].pos
      BY <1>5, <2>2, <3>1 DEF OwnSizes, m
    <3>4. QED
      BY <1>4, <3>1, <3>2, <3>3
  <2>3. CASE k \in (m + 1)..n
    <3>1. k = n
      BY <1>1, <1>5, <2>3
    <3>2. QED
      BY <1>1, <1>3, <1>4, <3>1
  <2>4. QED
    BY <2>1, <2>2, <2>3
<1>6. Len(more) = PacketEnds(u, n)
  BY <1>1, <1>3, <1>4
<1>7. QED
  BY <1>5, <1>6 DEF OwnSizes, u, n, more, pos

\* What becomes complete in a cycle is one packet, or nothing.
LEMMA JoinsWhole ==
  ASSUME NEW tvalid, NEW beat, NEW drop, NEW m_tready, Step(tvalid, beat, drop, m_tready)
  PROVE  LET joins == Joins(tvalid, beat, drop)
         IN  IF Comes(tvalid, drop) /\ beat.last
             THEN Whole(joins) /\ joins[Len(joins)] = beat ELSE joins = <<>>
<1> DEFINE joins == Joins(tvalid, beat, drop)
           p == partial_pkt_beats
<1>1. CASE Comes(tvalid, drop) /\ beat.last
  <2>1. /\ joins \in Seq(Beat) /\ Len(joins) = p + 1
        /\ \A i \in 1..Len(joins) : joins[i] = IF i <= p THEN Building[i] ELSE beat
    BY <1>1, JoinsWords
  <2>2. p \in Nat
    BY DEF Step, BufferInv, TypeOK
  <2>3. \A i \in 1..p : ~Building[i].last
    <3>1. Len(Building) = p
      BY LengthsStep DEF ContentsAreWords
    <3>2. \A k \in 1..Len(Building) : Building[k] = [pos |-> k, last |-> FALSE]
      BY DEF Step, BufferInv, OpenPacket
    <3>3. QED
      BY <3>1, <3>2
  <2> HIDE DEF joins, p
  <2>4. \A i \in 1..Len(joins) : joins[i].last <=> i = Len(joins)
    <3>1. \A i \in 1..(p + 1) : (i <= p => i \in 1..p /\ i # p + 1) /\ (~(i <= p) => i = p + 1)
      BY <2>2
    <3>2. QED
      BY <1>1, <2>1, <2>3, <3>1
  <2>5. joins[Len(joins)] = beat /\ joins # <<>>
    <3>1. p + 1 \in 1..(p + 1) /\ ~(p + 1 <= p) /\ p + 1 # 0
      BY <2>2
    <3>2. QED
      BY <2>1, <3>1, EmptySeq
  <2>6. QED
    BY <1>1, <2>1, <2>4, <2>5 DEF Whole, joins
<1>2. CASE ~(Comes(tvalid, drop) /\ beat.last)
  BY <1>2 DEF Joins
<1>3. QED
  BY <1>1, <1>2

\* The packets inside: one more when one becomes complete, one less when its
\* last beat is taken.
LEMMA CountStep ==
  ASSUME NEW tvalid, NEW beat, NEW drop, NEW m_tready, Step(tvalid, beat, drop, m_tready)
  PROVE  \E gone \in {0, 1} :
            PacketEnds(Line, Len(Line))' =
                PacketEnds(Line, Len(Line)) + (IF Comes(tvalid, drop)
                   /\ beat.last THEN 1 ELSE 0) - gone
<1> DEFINE base == IF Taken(m_tready) THEN Tail(Line) ELSE Line
           joins == Joins(tvalid, beat, drop)
<1>1. /\ Line' = base \o joins
      /\ Line \in Seq(Beat) /\ joins \in Seq(Beat)
      /\ Taken(m_tready) => Line # <<>>
  BY LineStep
<1>2. PICK n \in Nat : n = PacketEnds(Line, Len(Line))
  BY <1>1, LenProperties, EndsCount
<1>3. base \in Seq(Beat) /\ \E gone \in {0, 1} : PacketEnds(base, Len(base)) = n - gone
  <2>1. CASE Taken(m_tready)
    <3>1. base = Tail(Line) /\ Tail(Line) \in Seq(Beat)
      BY <1>1, <2>1, HeadTailProperties
    <3>2. PICK m \in Nat : m = Len(Tail(Line))
      BY <3>1, LenProperties
    <3>3. m \in 0..m /\ Len(Line) = m + 1
      BY <1>1, <2>1, <3>2, EndsAfterLeaving
    <3>4. PacketEnds(Line, m + 1) = PacketEnds(Tail(Line), m) + (IF Head(Line).last THEN 1 ELSE 0)
      BY <1>1, <2>1, <3>2, <3>3, EndsAfterLeaving
    <3>5. PICK k \in Nat : k = PacketEnds(Tail(Line), m)
      BY EndsCount
    <3>6. k = n - 1 \/ k = n - 0
      BY <1>2, <3>3, <3>4, <3>5
    <3>7. QED
      BY <3>1, <3>2, <3>5, <3>6
  <2>2. CASE ~Taken(m_tready)
    <3>1. n = n - 0
      OBVIOUS
    <3>2. QED
      BY <1>1, <1>2, <2>2, <3>1
  <2>3. QED
    BY <2>1, <2>2
<1>4. PICK gone \in {0, 1} : PacketEnds(base, Len(base)) = n - gone
  BY <1>3
<1> HIDE DEF base
<1>5. CASE Comes(tvalid, drop) /\ beat.last
  <2>1. Whole(joins)
    BY <1>5, JoinsWhole
  <2> HIDE DEF joins
  <2>2. PacketEnds(base \o joins, Len(base \o joins)) = PacketEnds(base, Len(base)) + 1
    BY <1>3, <2>1, EndsAfterJoining
  <2>3. (n - gone) + 1 = n + 1 - gone
    OBVIOUS
  <2>4. PacketEnds(Line, Len(Line))' = n + 1 - gone
    BY <1>1, <1>4, <2>2, <2>3 DEF PacketEnds
  <2>5. QED
    BY <1>2, <1>5, <2>4
<1>6. CASE ~(Comes(tvalid, drop) /\ beat.last)
  <2>1. joins = <<>>
    BY <1>6, JoinsWhole
  <2> HIDE DEF joins
  <2>2. base \o joins = base
    BY <1>3, <2>1, ConcatEmptySeq
  <2>3. n - gone = n + 0 - gone
    OBVIOUS
  <2>4. PacketEnds(Line, Len(Line))' = n + 0 - gone
    BY <1>1, <1>4, <2>2, <2>3 DEF PacketEnds
  <2>5. QED
    BY <1>2, <1>6, <2>4
<1>7. QED
  BY <1>5, <1>6

\* A size is written one cycle after its packet's last beat, unless the FIFO
\* is full.
LEMMA SizesMove ==
  ASSUME NEW tvalid, NEW beat, NEW drop, NEW m_tready, Step(tvalid, beat, drop, m_tready),
         drop => ~Ends(tvalid, beat),
         size_fifo_wr_en => Len(size_fifo) < SizeFifoCap
  PROVE  /\ Sizes' = (IF size_fifo_rd_en(m_tready) THEN Tail(Sizes) ELSE Sizes)
                     \o (IF Comes(tvalid, drop) /\ beat.last THEN <<beat.pos>> ELSE <<>>)
         /\ Sizes \in Seq(1..MaxBeats)
         /\ size_fifo_rd_en(m_tready) => Sizes # <<>>
         /\ Comes(tvalid, drop) /\ beat.last => beat.pos \in 1..MaxBeats
<1> DEFINE rest == IF size_fifo_rd_en(m_tready) THEN Tail(size_fifo) ELSE size_fifo
           new == IF size_fifo_wr_en /\ Len(size_fifo) < SizeFifoCap THEN <<size>> ELSE <<>>
           last == IF Comes(tvalid, drop) /\ beat.last THEN <<beat.pos>> ELSE <<>>
           rd == size_fifo_rd_en(m_tready)
<1>1. /\ size_fifo' = rest \o new
      /\ rest \in Seq(1..MaxBeats) /\ new \in Seq(1..MaxBeats)
      /\ rd => size_fifo # <<>>
  BY SizeFifoMoves
<1>2. size_fifo \in Seq(1..MaxBeats)
  BY DEF Step, BufferInv, TypeOK
<1>3. new = PendingSize
  BY DEF PendingSize
<1>4. /\ size_fifo_wr_en' <=> Ends(tvalid, beat) /\ ~drop_in_prog
      /\ size_fifo_wr_en' => size' = beat.pos /\ beat.pos \in 1..MaxBeats
  BY SizingStep
<1>5. size_fifo_wr_en' <=> Comes(tvalid, drop) /\ beat.last
  <2>1. tvalid \in BOOLEAN /\ drop \in BOOLEAN /\ drop_in_prog \in BOOLEAN
    BY DEF Step, BufferInv, TypeOK
  <2>2. QED
    BY <1>4, <2>1 DEF Ends, Comes
<1>6. PendingSize' = last
  BY <1>4, <1>5 DEF PendingSize
<1>7. Sizes = size_fifo \o new
  BY <1>3 DEF Sizes
<1>8. Sizes' = size_fifo' \o last
  BY <1>6 DEF Sizes
<1>9. rest = IF rd THEN Tail(size_fifo) ELSE size_fifo
  OBVIOUS
<1> HIDE DEF rest, new, last, rd
<1>10. rd => size_fifo \o new # <<>> /\ Tail(size_fifo \o new) = Tail(size_fifo) \o new
  BY <1>1, <1>2
<1>11. rest \o new = IF rd THEN Tail(Sizes) ELSE Sizes
  BY <1>7, <1>9, <1>10
<1>12. Sizes \in Seq(1..MaxBeats)
  BY <1>1, <1>2, <1>7, ConcatProperties
<1>13. Sizes' = (rest \o new) \o last
  BY <1>1, <1>8
<1>14. QED
  BY <1>4, <1>5, <1>7, <1>10, <1>11, <1>12, <1>13 DEF rd, last

\* The size FIFO has room if it can hold as many sizes as there are beats in
\* the buffer and its two registers.
LEMMA RoomForSize ==
  ASSUME Dimensions, BufferInv, SizeIsOwn, SizeFifoCap >= Depth + 2, size_fifo_wr_en
  PROVE  Len(size_fifo) < SizeFifoCap
<1>1. /\ Line = (Reg(rd_state[2], ram_doutb) \o Reg(rd_state[1], stage)) \o Fetchable
      /\ Fetchable \in Seq(Beat) /\ Len(Fetchable) = full_pkt_beats
      /\ full_pkt_beats \in 0..Depth
      /\ stage \in Beat /\ ram_doutb \in Beat
  BY LineIs, Contents DEF BufferInv, Sound, ContentsAreWords, TypeOK
<1>2. \A holds, word : word \in Beat => Reg(holds, word) \in Seq(Beat)
         /\ Len(Reg(holds, word)) \in {0, 1}
  <2> SUFFICES ASSUME NEW holds, NEW word \in Beat
               PROVE  Reg(holds, word) \in Seq(Beat) /\ Len(Reg(holds, word)) \in {0, 1}
    OBVIOUS
  <2>1. CASE holds
    BY <2>1 DEF Reg
  <2>2. CASE ~holds
    <3>1. Reg(holds, word) = <<>>
      BY <2>2 DEF Reg
    <3>2. QED
      BY <3>1, EmptySeq
  <2>3. QED
    BY <2>1, <2>2
<1>3. PICK o \in Seq(Beat), s \in Seq(Beat) :
        /\ o = Reg(rd_state[2], ram_doutb) /\ s = Reg(rd_state[1], stage)
        /\ Len(o) \in {0, 1} /\ Len(s) \in {0, 1}
  BY <1>1, <1>2
<1>4. o \o s \in Seq(Beat) /\ Len(o \o s) = Len(o) + Len(s)
  BY ConcatProperties
<1>5. Len(Line) = Len(o) + Len(s) + full_pkt_beats
  <2>1. PICK r \in Seq(Beat) : r = o \o s
    BY <1>4
  <2>2. Len(r \o Fetchable) = Len(r) + Len(Fetchable)
    BY <1>1, ConcatProperties
  <2>3. Line = r \o Fetchable
    BY <1>1, <1>3, <2>1
  <2>4. QED
    BY <1>1, <1>4, <2>1, <2>2, <2>3
<1>6. PICK l \in 0..(Depth + 2) : l = Len(Line)
  <2>1. PICK x \in {0, 1}, y \in {0, 1}, f \in 0..Depth :
            x = Len(o) /\ y = Len(s) /\ f = full_pkt_beats
    BY <1>1, <1>3
  <2>2. x + y + f \in 0..(Depth + 2)
    BY DEF Dimensions
  <2>3. QED
    BY <1>5, <2>1, <2>2
<1>7. l \in Nat
  BY <1>6 DEF Dimensions
<1>8. Len(Sizes) \in 0..l
  BY <1>6, <1>7, EndsCount DEF SizeIsOwn
<1>9. Len(Sizes) = Len(size_fifo) + 1 /\ Len(size_fifo) \in Nat
  <2>1. PendingSize = <<size>> /\ size_fifo \in Seq(1..MaxBeats) /\ size \in 1..MaxBeats
    BY DEF PendingSize, BufferInv, Sizing, TypeOK
  <2>2. QED
    BY <2>1 DEF Sizes
<1>10. QED
  BY <1>6, <1>8, <1>9 DEF Dimensions

\* No packet leaves with another's size, provided that a packet is not given
\* up by the very beat that ends it.
LEMMA SizeStep ==
  ASSUME NEW tvalid, NEW beat, NEW drop, NEW m_tready, Step(tvalid, beat, drop, m_tready),
         drop => ~Ends(tvalid, beat),
         SizeFifoCap >= Depth + 2, SizeIsOwn
  PROVE  SizeIsOwn'
<1> DEFINE base == IF Taken(m_tready) THEN Tail(Line) ELSE Line
           joins == Joins(tvalid, beat, drop)
           left == IF size_fifo_rd_en(m_tready) THEN Tail(Sizes) ELSE Sizes
           comes == IF Comes(tvalid, drop) /\ beat.last THEN <<beat.pos>> ELSE <<>>
<1>1. /\ Line' = base \o joins
      /\ Line \in Seq(Beat) /\ joins \in Seq(Beat)
      /\ Taken(m_tready) => Line # <<>> /\ Head(Line) = ram_doutb
  BY LineStep
<1>2. size_fifo_wr_en => Len(size_fifo) < SizeFifoCap
  BY RoomForSize DEF Step
<1>3. /\ Sizes' = left \o comes
      /\ Sizes \in Seq(1..MaxBeats)
      /\ size_fifo_rd_en(m_tready) => Sizes # <<>>
      /\ Comes(tvalid, drop) /\ beat.last => beat.pos \in 1..MaxBeats
  BY <1>2, SizesMove
<1>4. Sizes \in Seq(Nat)
  <2>1. 1..MaxBeats \subseteq Nat
    OBVIOUS
  <2>2. QED
    BY <1>3, <2>1, SeqMonotonic
<1>5. OwnSizes(Line, Sizes)
  BY DEF SizeIsOwn, OwnSizes
<1>6. base \in Seq(Beat) /\ left \in Seq(Nat) /\ OwnSizes(base, left)
  <2>1. CASE Taken(m_tready)
    <3>1. size_fifo_rd_en(m_tready) <=> Head(Line).last
      <4>1. size_fifo_rd_en(m_tready) <=> Taken(m_tready) /\ ram_doutb.last
        BY DEF size_fifo_rd_en
      <4>2. QED
        BY <1>1, <2>1, <4>1
    <3>2. left = IF Head(Line).last THEN Tail(Sizes) ELSE Sizes
      BY <3>1
    <3>3. left \in Seq(Nat)
      <4>1. size_fifo_rd_en(m_tready) => Tail(Sizes) \in Seq(Nat)
        BY <1>3, <1>4, HeadTailProperties
      <4>2. QED
        BY <1>4, <4>1
    <3>4. OwnSizes(Tail(Line), IF Head(Line).last THEN Tail(Sizes) ELSE Sizes)
      BY <1>1, <1>4, <1>5, <2>1, SizesAfterLeaving
    <3>5. base = Tail(Line) /\ Tail(Line) \in Seq(Beat)
      BY <1>1, <2>1, HeadTailProperties
    <3>6. QED
      BY <3>2, <3>3, <3>4, <3>5
  <2>2. CASE ~Taken(m_tready)
    <3>1. ~size_fifo_rd_en(m_tready)
      BY <2>2 DEF size_fifo_rd_en
    <3>2. base = Line /\ left = Sizes
      BY <2>2, <3>1
    <3>3. QED
      BY <1>1, <1>4, <1>5, <3>2
  <2>3. QED
    BY <2>1, <2>2
<1> HIDE DEF base, left
<1>7. OwnSizes(base \o joins, left \o comes)
  <2>1. CASE Comes(tvalid, drop) /\ beat.last
    <3>1. Whole(joins) /\ joins[Len(joins)] = beat
      BY <2>1, JoinsWhole
    <3>2. comes = <<beat.pos>>
      BY <2>1
    <3> HIDE DEF joins, comes
    <3>3. OwnSizes(base \o joins, left \o <<joins[Len(joins)].pos>>)
      BY <1>6, <3>1, SizesAfterJoining
    <3>4. QED
      BY <3>1, <3>2, <3>3
  <2>2. CASE ~(Comes(tvalid, drop) /\ beat.last)
    <3>1. joins = <<>> /\ comes = <<>>
      BY <2>2, JoinsWhole
    <3> HIDE DEF joins, comes
    <3>2. base \o joins = base /\ left \o comes = left
      BY <1>6, <3>1, ConcatEmptySeq
    <3>3. QED
      BY <1>6, <3>2
  <2>3. QED
    BY <2>1, <2>2
<1>8. OwnSizes(Line', Sizes')
  BY <1>1, <1>3, <1>7
<1>9. QED
  BY <1>8 DEF SizeIsOwn, OwnSizes, PacketEnds

LEMMA SizeStarts ==
  ASSUME Dimensions, Init
  PROVE  SizeIsOwn
<1>1. Line = <<>> /\ size_fifo = <<>> /\ PendingSize = <<>>
  BY StartsEmpty DEF Init, PendingSize, size_fifo_wr_en
<1>2. Len(Line) = 0 /\ Len(Sizes) = 0
  BY <1>1, EmptySeq, ConcatEmptySeq DEF Sizes
<1>3. PacketEnds(Line, 0) = 0
  BY NoEnds
<1>4. QED
  BY <1>2, <1>3 DEF SizeIsOwn
=============================================================================
