--------------------------- MODULE FunctionsProofs ---------------------------
(***************************************************************************)
(* The functions of the card on their two sides.                           *)
(*                                                                         *)
(* The host-to-card stream, for every number of functions and every        *)
(* division of the queue IDs among them: a packet goes to the function     *)
(* that owns its queue, whole, and to no other, and a function holds its   *)
(* beats in the order of the host.                                         *)
(*                                                                         *)
(* The receive path of a function, for every depth of its FIFOs that       *)
(* covers the latency of the queue ID: a receiver that never stalls never  *)
(* makes the path stall, and each packet leaves with the queue ID that was *)
(* computed from it.                                                       *)
(***************************************************************************)
EXTENDS MCFunctions, SequenceTheorems, TLAPS

-----------------------------------------------------------------------------
(* From the host to a function *)

USE H2CAssumption DEF Func

\* The function inside a packet is its owner, from the host's first beat to
\* the last one: the slice's beat continues what the functions have taken,
\* and the host continues what the slice has.
PacketInFlight ==
    /\ filled \in BOOLEAN /\ axis \in H2CBeat
    /\ h2c_matched = h2c_started
    /\ inside = {} \/ \E qid \in Qid : inside = {qid}
    /\ filled =>
        /\ axis.first => h2c_started = {}
        /\ ~axis.first => \E i \in Func : h2c_started = {i} /\ axis.qid \in Queues(i)
        /\ inside = IF axis.last THEN {} ELSE {axis.qid}
    /\ ~filled =>
        /\ inside = {} => h2c_started = {}
        /\ \A qid \in inside : \E i \in Func : h2c_started = {i} /\ qid \in Queues(i)

\* A function's range check is the ownership of the queue.
LEMMA RangeIsQueues ==
  ASSUME PacketInFlight, NEW i \in Func
  PROVE  h2c_q_in_range(i) <=> axis.qid \in Queues(i)
<1>1. axis.qid \in Nat /\ q_base[i] \in Nat /\ num_q[i] \in Nat
  BY DEF PacketInFlight, H2CBeat
<1>2. QED
  BY <1>1 DEF h2c_q_in_range, Queues

\* Only the owner matches, in the first beat by the range check and in the
\* others because it took the first one.
LEMMA OwnerMatches ==
  ASSUME PacketInFlight, filled
  PROVE  \E i \in Func : /\ axis.qid \in Queues(i)
                         /\ Takers \subseteq {i}
                         /\ ~axis.first => h2c_started = {i}
<1>1. axis.qid \in Qid
  BY DEF PacketInFlight, H2CBeat
<1>2. PICK i \in Func : axis.qid \in Queues(i) /\ \A j \in Func : axis.qid \in Queues(j) => j = i
  BY <1>1
<1>3. ~axis.first => h2c_started = {i}
  BY <1>2 DEF PacketInFlight
<1>4. ASSUME NEW j \in Func, h2c_match(j)
      PROVE  j = i
  <2>1. CASE j \in h2c_started
    BY <1>3, <2>1 DEF PacketInFlight
  <2>2. CASE j \notin h2c_started
    BY <1>2, <1>4, <2>2, RangeIsQueues DEF h2c_match
  <2>3. QED
    BY <2>1, <2>2
<1>5. Takers \subseteq {i}
  BY <1>4 DEF Takers
<1>6. QED
  BY <1>2, <1>3, <1>5

LEMMA ClockKeepsPacket ==
  ASSUME PacketInFlight, NEW ready \in SUBSET Func, NEW tvalid \in BOOLEAN,
         NEW beat \in NextBeat, Clock(tvalid, beat, ready)
  PROVE  PacketInFlight'
<1>1. /\ filled \in BOOLEAN /\ axis \in H2CBeat
      /\ h2c_matched = h2c_started
      /\ beat \in H2CBeat /\ (beat.first <=> inside = {})
      /\ inside = {} \/ inside = {beat.qid}
  BY DEF PacketInFlight, NextBeat
<1>2. Slice!Clock(tvalid, beat, axis_h2c_tready) /\ SendStep(tvalid, beat)
  BY DEF Clock
<1>3. /\ h2c_started' = {i \in Func : IF TakesBeat(i) THEN ~axis.last ELSE i \in h2c_started}
      /\ h2c_matched' = h2c_started'
  <2>1. \A i \in Func : TakesBeat(i) => i \in h2c_matched \/ h2c_q_in_range(i)
    BY <1>1 DEF TakesBeat, Takers, h2c_match
  <2>2. QED
    BY <1>1, <2>1 DEF Clock, StartedStep, MatchedStep
<1>4. h2c_started \subseteq Func
  BY DEF PacketInFlight
<1> USE DEF Slice!Clock, Slice!FillEmpty, Slice!Replace, Slice!Drain, Slice!Stall, Slice!vars,
            Slice!s_axis_tready
\* Nobody takes the beat in the slice, or there is none.
<1>5. CASE ~filled \/ ~axis_h2c_tready
  <2>1. h2c_started' = h2c_started
    BY <1>3, <1>4, <1>5 DEF TakesBeat, axis_h2c_tready
  <2>2. CASE ~filled /\ tvalid
    BY <1>1, <1>2, <1>3, <2>1, <2>2 DEF PacketInFlight, SendStep, H2CBeat
  <2>3. CASE filled \/ ~tvalid
    <3>1. UNCHANGED <<filled, axis, inside>>
      BY <1>1, <1>2, <1>5, <2>3 DEF SendStep
    <3>2. QED
      BY <1>1, <1>3, <2>1, <3>1 DEF PacketInFlight
  <2>4. QED
    BY <2>2, <2>3
\* The owner takes the beat in the slice.
<1>6. CASE filled /\ axis_h2c_tready
  <2>1. PICK i \in Func : /\ axis.qid \in Queues(i)
                          /\ Takers = {i}
                          /\ ~axis.first => h2c_started = {i}
    BY <1>6, OwnerMatches DEF axis_h2c_tready
  <2>2. h2c_started' = IF axis.last THEN {} ELSE {i}
    BY <1>3, <1>6, <2>1 DEF TakesBeat, PacketInFlight
  <2>3. inside = IF axis.last THEN {} ELSE {axis.qid}
    BY <1>6 DEF PacketInFlight
  <2>4. CASE tvalid
    <3>1. /\ filled' /\ axis' = beat
          /\ inside' = IF beat.last THEN {} ELSE {beat.qid}
      BY <1>1, <1>2, <1>6, <2>4 DEF SendStep
    <3>2. beat.first => h2c_started' = {}
      BY <1>1, <2>2, <2>3
    <3>3. ~beat.first => h2c_started' = {i} /\ beat.qid \in Queues(i)
      <4>1. ~beat.first => ~axis.last /\ axis.qid = beat.qid
        BY <1>1, <2>3
      <4>2. QED
        BY <2>1, <2>2, <4>1
    <3>4. inside' = {} \/ \E qid \in Qid : inside' = {qid}
      BY <1>1, <3>1 DEF H2CBeat
    <3>5. QED
      BY <1>1, <1>3, <3>1, <3>2, <3>3, <3>4 DEF PacketInFlight
  <2>5. CASE ~tvalid
    <3>1. ~filled' /\ filled' \in BOOLEAN /\ axis' = axis /\ inside' = inside
      BY <1>1, <1>2, <1>6, <2>5 DEF SendStep
    <3>2. /\ inside' = {} => h2c_started' = {}
          /\ \A qid \in inside' : h2c_started' = {i} /\ qid \in Queues(i)
      BY <2>1, <2>2, <2>3, <3>1
    <3>3. inside' = {} \/ \E qid \in Qid : inside' = {qid}
      BY <3>1 DEF PacketInFlight
    <3>4. QED
      BY <1>1, <1>3, <3>1, <3>2, <3>3 DEF PacketInFlight
  <2>6. QED
    BY <2>4, <2>5
<1>7. QED
  BY <1>1, <1>5, <1>6

LEMMA Invariance == Spec => []PacketInFlight
<1>1. Init => PacketInFlight
  BY DEF Init, PacketInFlight
<1>2. PacketInFlight /\ [Next]_vars => PacketInFlight'
  <2>1. SUFFICES ASSUME PacketInFlight, [Next]_vars
                 PROVE  PacketInFlight'
    OBVIOUS
  <2>2. CASE Next
    BY <2>1, <2>2, ClockKeepsPacket DEF Next, Cycle
  <2>3. CASE UNCHANGED vars
    BY <2>1, <2>3 DEF vars, PacketInFlight
  <2>4. QED
    BY <2>1, <2>2, <2>3
<1>3. QED
  BY <1>1, <1>2, PTL DEF Spec

\* Only the owner of its queue takes a beat.
THEOREM H2COnlyOwnerTakes == Spec => []OnlyOwnerTakes
<1>1. PacketInFlight => OnlyOwnerTakes
  BY OwnerMatches DEF OnlyOwnerTakes
<1>2. QED
  BY <1>1, Invariance, PTL

LEMMA ShownWhole == PacketInFlight => WholePackets
<1>1. SUFFICES ASSUME PacketInFlight, NEW i \in Func, TakesBeat(i)
               PROVE  axis.first <=> i \notin h2c_started
  BY DEF WholePackets
<1>2. PICK j \in Func : /\ Takers \subseteq {j}
                        /\ ~axis.first => h2c_started = {j}
  BY <1>1, OwnerMatches DEF TakesBeat
<1>3. QED
  BY <1>1, <1>2 DEF TakesBeat, PacketInFlight, H2CBeat

\* A function is shown whole packets, from the first beat to the last.
THEOREM H2CWholePackets == Spec => []WholePackets
BY ShownWhole, Invariance, PTL

-----------------------------------------------------------------------------
(* What a function has taken and not yet passed on *)

\* One beat may follow another on a function's stream.
Follows(a, b) ==
    /\ a.last <=> b.first
    /\ ~a.last => a.qid = b.qid

Run(s) == \A k \in 1..(Len(s) - 1) : Follows(s[k], s[k + 1])

\* The last beat a function holds says whether it is inside a packet, and of
\* which queue: the slice, or the host when the slice is empty, goes on there.
Continues(i) ==
    LET e == h2c_slice[i][Len(h2c_slice[i])]
    IN  h2c_slice[i] # <<>> =>
            /\ e.last <=> i \notin h2c_started
            /\ i \in h2c_started => IF filled THEN axis.qid = e.qid ELSE inside = {e.qid}

SlicesInOrder ==
    /\ h2c_slice \in [Func -> Seq(H2CBeat)]
    /\ \A i \in Func : Len(h2c_slice[i]) <= 2
    /\ \A i \in Func : Run(h2c_slice[i])
    /\ \A i \in Func : Continues(i)

IInv == PacketInFlight /\ SlicesInOrder

\* A beat leaves a run, and a beat that follows its last one joins it.
LEMMA RunShrinks ==
  ASSUME NEW s \in Seq(H2CBeat), s # <<>>, Run(s)
  PROVE  /\ Tail(s) \in Seq(H2CBeat) /\ Len(Tail(s)) = Len(s) - 1
         /\ Run(Tail(s))
         /\ Tail(s) # <<>> => Tail(s)[Len(Tail(s))] = s[Len(s)]
<1>1. /\ Tail(s) \in Seq(H2CBeat) /\ Len(Tail(s)) = Len(s) - 1
      /\ \A k \in 1..(Len(s) - 1) : Tail(s)[k] = s[k + 1]
  OBVIOUS
<1>2. ASSUME NEW k \in 1..(Len(Tail(s)) - 1)
      PROVE  Follows(Tail(s)[k], Tail(s)[k + 1])
  <2>1. k + 1 \in 1..(Len(s) - 1) /\ k \in 1..(Len(s) - 1)
    BY <1>1
  <2>2. QED
    BY <1>1, <2>1 DEF Run
<1>3. Tail(s) # <<>> => Tail(s)[Len(Tail(s))] = s[Len(s)]
  BY <1>1
<1>4. QED
  BY <1>1, <1>2, <1>3 DEF Run

LEMMA RunGrows ==
  ASSUME NEW s \in Seq(H2CBeat), Run(s), NEW b \in H2CBeat,
         s # <<>> => Follows(s[Len(s)], b)
  PROVE  /\ s \o <<b>> \in Seq(H2CBeat) /\ Len(s \o <<b>>) = Len(s) + 1
         /\ Run(s \o <<b>>)
         /\ (s \o <<b>>)[Len(s) + 1] = b
<1> DEFINE t == s \o <<b>>
<1>1. /\ t \in Seq(H2CBeat) /\ Len(t) = Len(s) + 1 /\ t[Len(s) + 1] = b
      /\ \A k \in 1..Len(s) : t[k] = s[k]
  OBVIOUS
<1> HIDE DEF t
<1>2. ASSUME NEW k \in 1..(Len(t) - 1)
      PROVE  Follows(t[k], t[k + 1])
  <2>1. CASE k = Len(s)
    BY <1>1, <2>1
  <2>2. CASE k # Len(s)
    <3>1. k \in 1..(Len(s) - 1) /\ k + 1 \in 1..Len(s) /\ k \in 1..Len(s)
      BY <1>1, <2>2
    <3>2. QED
      BY <1>1, <3>1 DEF Run
  <2>3. QED
    BY <2>1, <2>2
<1>3. QED
  BY <1>1, <1>2 DEF t, Run

LEMMA ClockKeepsOrder ==
  ASSUME IInv, NEW ready \in SUBSET Func, NEW tvalid \in BOOLEAN,
         NEW beat \in NextBeat, Clock(tvalid, beat, ready)
  PROVE  SlicesInOrder'
<1> DEFINE Kept(i) == IF i \in ready /\ h2c_slice[i] # <<>> THEN Tail(h2c_slice[i])
                      ELSE h2c_slice[i]
           Last(s) == s[Len(s)]
<1>1. /\ filled \in BOOLEAN /\ axis \in H2CBeat
      /\ beat \in H2CBeat
      /\ inside = {} \/ inside = {beat.qid}
  BY DEF IInv, PacketInFlight, NextBeat
<1>2. Slice!Clock(tvalid, beat, axis_h2c_tready) /\ SendStep(tvalid, beat)
  BY DEF Clock
<1>3. h2c_started' = {i \in Func : IF TakesBeat(i) THEN ~axis.last ELSE i \in h2c_started}
  BY DEF Clock, StartedStep
<1>4. \A i \in Func : h2c_slice'[i] = Kept(i) \o (IF TakesBeat(i) THEN <<axis>> ELSE <<>>)
  BY DEF Clock, SlicesStep
<1>5. ASSUME NEW i \in Func
      PROVE  /\ Kept(i) \in Seq(H2CBeat) /\ Run(Kept(i))
             /\ Len(Kept(i)) <= Len(h2c_slice[i])
             /\ Kept(i) # <<>> => /\ h2c_slice[i] # <<>>
                                  /\ Last(Kept(i)) = Last(h2c_slice[i])
  <2>1. h2c_slice[i] \in Seq(H2CBeat) /\ Run(h2c_slice[i])
    BY DEF IInv, SlicesInOrder
  <2>2. CASE i \in ready /\ h2c_slice[i] # <<>>
    <3>1. PICK s \in Seq(H2CBeat) : s = h2c_slice[i]
      BY <2>1
    <3>2. Kept(i) = Tail(s) /\ s # <<>> /\ Run(s)
      BY <2>1, <2>2, <3>1
    <3>3. /\ Tail(s) \in Seq(H2CBeat) /\ Len(Tail(s)) = Len(s) - 1
          /\ Run(Tail(s))
          /\ Tail(s) # <<>> => Tail(s)[Len(Tail(s))] = s[Len(s)]
      BY <3>2, RunShrinks
    <3> HIDE DEF Kept
    <3>4. Len(Tail(s)) <= Len(s)
      BY <3>3
    <3>5. Run(Kept(i))
      BY <3>2, <3>3
    <3>6. QED
      BY <3>1, <3>2, <3>3, <3>4, <3>5
  <2>3. CASE ~(i \in ready /\ h2c_slice[i] # <<>>)
    BY <2>1, <2>3
  <2>4. QED
    BY <2>2, <2>3
<1>6. \A i \in Func : TakesBeat(i) => (axis.first <=> i \notin h2c_started)
  BY ShownWhole DEF IInv, WholePackets
<1> USE DEF Slice!Clock, Slice!FillEmpty, Slice!Replace, Slice!Drain, Slice!Stall, Slice!vars,
            Slice!s_axis_tready
<1> HIDE DEF Kept
\* A function that takes the beat in the slice.
<1>7. ASSUME NEW i \in Func, TakesBeat(i)
      PROVE  /\ h2c_slice'[i] \in Seq(H2CBeat) /\ Len(h2c_slice'[i]) <= 2
             /\ Run(h2c_slice'[i])
             /\ Continues(i)'
  <2>1. h2c_slice'[i] = Kept(i) \o <<axis>>
    BY <1>4, <1>7
  <2>2. Kept(i) # <<>> => Follows(Last(Kept(i)), axis)
    BY <1>5, <1>6, <1>7 DEF IInv, SlicesInOrder, Continues, Follows, TakesBeat
  <2>3. /\ h2c_slice'[i] \in Seq(H2CBeat)
        /\ Len(h2c_slice'[i]) = Len(Kept(i)) + 1
        /\ Run(h2c_slice'[i])
        /\ h2c_slice'[i][Len(Kept(i)) + 1] = axis
    BY <1>1, <1>5, <2>1, <2>2, RunGrows
  <2>4. Len(h2c_slice[i]) < 2 /\ h2c_slice[i] \in Seq(H2CBeat)
    BY <1>7 DEF TakesBeat, Takers, IInv, SlicesInOrder
  <2>5. i \in h2c_started' <=> ~axis.last
    BY <1>3, <1>7
  <2>6. i \in h2c_started' => IF filled' THEN axis'.qid = axis.qid ELSE inside' = {axis.qid}
    <3>1. filled /\ axis_h2c_tready
      BY <1>7 DEF TakesBeat, axis_h2c_tready
    <3>2. ~axis.last => inside = {axis.qid}
      BY <3>1 DEF IInv, PacketInFlight
    <3>3. CASE tvalid
      BY <1>1, <1>2, <2>5, <3>1, <3>2, <3>3
    <3>4. CASE ~tvalid
      BY <1>1, <1>2, <2>5, <3>1, <3>2, <3>4 DEF SendStep
    <3>5. QED
      BY <3>3, <3>4
  <2>7. QED
    <3>1. Len(h2c_slice'[i]) <= 2
      BY <1>5, <2>3, <2>4
    <3>2. h2c_slice'[i][Len(h2c_slice'[i])] = axis
      BY <2>3
    <3>3. Continues(i)'
      BY <2>5, <2>6, <3>2 DEF Continues
    <3>4. QED
      BY <2>3, <3>1, <3>3
\* A function that takes nothing.
<1>8. ASSUME NEW i \in Func, ~TakesBeat(i)
      PROVE  /\ h2c_slice'[i] \in Seq(H2CBeat) /\ Len(h2c_slice'[i]) <= 2
             /\ Run(h2c_slice'[i])
             /\ Continues(i)'
  <2>1. h2c_slice'[i] = Kept(i)
    <3>1. h2c_slice'[i] = Kept(i) \o <<>>
      BY <1>4, <1>8
    <3>2. QED
      BY <1>5, <3>1, ConcatEmptySeq
  <2>2. Len(h2c_slice[i]) <= 2 /\ h2c_slice[i] \in Seq(H2CBeat) /\ Continues(i)
    BY DEF IInv, SlicesInOrder
  <2>3. i \in h2c_started' <=> i \in h2c_started
    BY <1>3, <1>8
  <2>4. ASSUME h2c_slice[i] # <<>>, i \in h2c_started
        PROVE  IF filled' THEN axis'.qid = Last(h2c_slice[i]).qid
               ELSE inside' = {Last(h2c_slice[i]).qid}
    <3>1. IF filled THEN axis.qid = Last(h2c_slice[i]).qid
          ELSE inside = {Last(h2c_slice[i]).qid}
      BY <2>2, <2>4 DEF Continues
    <3>2. filled => ~axis_h2c_tready
      <4>1. SUFFICES ASSUME filled
                     PROVE  Takers = {}
        BY DEF axis_h2c_tready
      <4>2. PacketInFlight
        BY DEF IInv
      <4>3. ~axis.first
        BY <2>4, <4>1, <4>2 DEF PacketInFlight
      <4>4. PICK j \in Func : Takers \subseteq {j} /\ h2c_started = {j}
        BY <4>1, <4>2, <4>3, OwnerMatches
      <4>5. QED
        BY <1>8, <2>4, <4>1, <4>4 DEF TakesBeat
    <3>3. CASE filled
      <4>1. filled' /\ axis' = axis
        BY <1>2, <3>2, <3>3
      <4>2. QED
        BY <3>1, <3>3, <4>1
    <3>4. CASE ~filled /\ tvalid
      <4>1. filled' /\ axis' = beat
        BY <1>2, <3>4
      <4>2. QED
        BY <1>1, <3>1, <3>4, <4>1
    <3>5. CASE ~filled /\ ~tvalid
      <4>1. filled' = filled /\ inside' = inside
        BY <1>2, <3>5 DEF SendStep
      <4>2. QED
        BY <3>1, <3>5, <4>1
    <3>6. QED
      BY <3>3, <3>4, <3>5
  <2>5. Len(Kept(i)) <= 2
    <3>1. \A x, y \in Nat : x <= y /\ y <= 2 => x <= 2
      OBVIOUS
    <3>2. Len(Kept(i)) \in Nat /\ Len(h2c_slice[i]) \in Nat
      BY <1>5, <2>2, LenProperties
    <3>3. Len(Kept(i)) <= Len(h2c_slice[i])
      BY <1>5
    <3>4. QED
      BY <2>2, <3>1, <3>2, <3>3
  <2>6. Kept(i) \in Seq(H2CBeat) /\ Run(Kept(i))
    BY <1>5
  <2>7. Continues(i)'
    BY <1>5, <2>1, <2>2, <2>3, <2>4 DEF Continues
  <2>8. QED
    BY <2>1, <2>5, <2>6, <2>7
<1>9. h2c_slice' \in [Func -> Seq(H2CBeat)]
  <2>1. \A i \in Func : h2c_slice'[i] \in Seq(H2CBeat)
    BY <1>7, <1>8
  <2>2. QED
    BY <2>1 DEF Clock, SlicesStep
<1>10. QED
  BY <1>7, <1>8, <1>9 DEF SlicesInOrder

LEMMA OrderInvariance == Spec => []IInv
<1>1. Init => IInv
  <2>1. Init => PacketInFlight
    BY DEF Init, PacketInFlight
  <2>2. Init => SlicesInOrder
    BY DEF Init, SlicesInOrder, Run, Continues
  <2>3. QED
    BY <2>1, <2>2 DEF IInv
<1>2. IInv /\ [Next]_vars => IInv'
  <2>1. SUFFICES ASSUME IInv, [Next]_vars
                 PROVE  IInv'
    OBVIOUS
  <2>2. CASE Next
    <3>1. PICK ready \in SUBSET Func, tvalid \in BOOLEAN, beat \in NextBeat :
               Clock(tvalid, beat, ready)
      BY <2>2 DEF Next, Cycle
    <3>2. QED
      BY <2>1, <3>1, ClockKeepsPacket, ClockKeepsOrder DEF IInv
  <2>3. CASE UNCHANGED vars
    BY <2>1, <2>3 DEF vars, IInv, PacketInFlight, SlicesInOrder, Continues
  <2>4. QED
    BY <2>1, <2>2, <2>3
<1>3. QED
  BY <1>1, <1>2, PTL DEF Spec

\* The registers keep their types; no slice ever holds more than two beats.
THEOREM H2CTypeOK == Spec => []TypeOK
<1>1. IInv => TypeOK
  BY DEF IInv, PacketInFlight, SlicesInOrder, TypeOK, Slice!TypeOK
<1>2. QED
  BY <1>1, OrderInvariance, PTL

\* Of two neighbouring beats that a function holds, the second starts a packet
\* exactly when the first ends one; otherwise both are of one queue
\* (qdma_subsystem_function.sv:157-173).
THEOREM H2CInOrder == Spec => []InOrder
<1>1. IInv => InOrder
  BY DEF IInv, SlicesInOrder, InOrder, Run, Follows
<1>2. QED
  BY <1>1, OrderInvariance, PTL

HIDE H2CAssumption DEF Func

-----------------------------------------------------------------------------
(* From a function to the host *)
Bit(b) == IF b THEN 1 ELSE 0

-----------------------------------------------------------------------------
(* The inductive invariant *)

\* The queue IDs under way, in the order of their packets: those in qid_fifo,
\* then one for each stage of the pipeline that holds valid data, the last
\* stage first.  With... counts the IDs that have got at least that far.
Valid(x) == Bit(x # Rx!None)
InFifo == Len(qid_fifo)
WithDin == InFifo + Valid(qid_din)
WithHash == WithDin + Valid(hash_result)
WithIp4 == WithHash + Valid(ip4)
WithStage1 == WithIp4 + Bit(eth_payload_valid)
UnderWay == WithStage1 + Bit(s1_state = "S_S1_MORE")

QidAt(j) ==
    IF j <= InFifo THEN qid_fifo[j]
    ELSE IF j <= WithDin THEN qid_din
    ELSE IF j <= WithHash THEN hash_result
    ELSE IF j <= WithIp4 THEN ip4
    ELSE eth_payload

Beats == Len(buf_fifo)

\* pkt[k]: which of the packets inside beat k of buf_fifo belongs to, the first
\* one being 1; pkt[Beats + 1]: which one the beat accepted next will belong to.
Numbered(pkt) ==
    /\ pkt[1] = 1
    /\ \A k \in 1..Beats : pkt[k + 1] = pkt[k] + Bit(buf_fifo[k].last)
    /\ \A k, m \in 1..(Beats + 1) : k <= m => pkt[m] - pkt[k] \in 0..(m - k)

\* Each beat has its queue ID under way, and so has the packet being accepted.
Realigned(pkt) ==
    /\ \A k \in 1..Beats : pkt[k] <= UnderWay /\ buf_fifo[k].pkt = QidAt(pkt[k])
    /\ IF s1_state = "S_S1_IDLE"
       THEN UnderWay = pkt[Beats + 1] - 1
       ELSE UnderWay = pkt[Beats + 1] /\ QidAt(UnderWay) = eth_payload

\* The beats that came since a packet's first beat are no more than the stages
\* its queue ID has passed.
Timely(pkt) ==
    \A k \in 1..Beats :
        /\ pkt[k] > InFifo => Beats - k < 5
        /\ pkt[k] > WithDin => Beats - k < 4
        /\ pkt[k] > WithHash => Beats - k < 3
        /\ pkt[k] > WithIp4 => Beats - k < 2
        /\ pkt[k] > WithStage1 => Beats - k < 1

RxTypes ==
    /\ rxFilled \in {0, 1} /\ rxAxis \in [0..1 -> Rx!RxBeat]
    /\ s1_state \in {"S_S1_IDLE", "S_S1_MORE", "S_S1_PASS"}
    /\ eth_payload \in Rx!Tag /\ eth_payload_valid \in BOOLEAN
    /\ ip4 \in Rx!Tag \cup {Rx!None} /\ hash_result \in Rx!Tag \cup {Rx!None}
    /\ qid_din \in Rx!Tag \cup {Rx!None}
    /\ buf_fifo \in Seq(Rx!RxBeat) /\ Beats <= 6
    /\ qid_fifo \in Seq(Rx!Tag)
    /\ tag \in Rx!Tag

\* The beats in the slice and at the sender continue the packet being accepted.
OnePacket ==
    /\ s1_state = "S_S1_MORE" => ~eth_payload_valid /\ (rxFilled = 0 => ~rxAxis[0].last)
    /\ s1_state # "S_S1_IDLE" =>
          (IF rxFilled = 1 THEN rxAxis[0].pkt ELSE tag) = eth_payload
    /\ rxFilled = 1 /\ ~rxAxis[0].last => tag = rxAxis[0].pkt

RxInv ==
    /\ RxTypes /\ OnePacket
    /\ \E pkt \in [1..(Beats + 1) -> Nat] : Numbered(pkt) /\ Realigned(pkt) /\ Timely(pkt)

\* What a receiver that never stalls needs
Deep(s) == s.BufDepth \in Nat /\ s.QidDepth \in Nat /\ s.BufDepth >= 7 /\ s.QidDepth >= 7

-----------------------------------------------------------------------------
(* One cycle of a receiver that is always ready *)

LEMMA TagNone ==
  Rx!RxAssumption => /\ Rx!None \notin Rx!Tag /\ 0 \in Rx!Tag
                     /\ \A x \in Rx!Tag : (x + 1) % Tags \in Rx!Tag
BY DEF Rx!RxAssumption, Rx!None, Rx!Tag

\* What may happen: a beat arrives from the slice, and opens a packet; a beat
\* leaves, and its queue ID with it.
Arrives == Bit(rxFilled = 1)
Leaves == Bit(buf_fifo # <<>> /\ qid_fifo # <<>>)
Opens == Bit(s1_state = "S_S1_IDLE" /\ rxFilled = 1)
IdLeaves == Bit(buf_fifo # <<>> /\ qid_fifo # <<>> /\ buf_fifo[1].last)

\* The slice is drained in every cycle: it never needs its second register.
LEMMA SliceMoves ==
  ASSUME Rx!RxAssumption, RxTypes, OnePacket, Deep(setup),
         NEW tvalid \in BOOLEAN, NEW last \in BOOLEAN, Rx!Clock(tvalid, last, TRUE)
  PROVE  /\ rxFilled' = Bit(tvalid)
         /\ rxAxis' = IF tvalid THEN [rxAxis EXCEPT ![0] = [pkt |-> tag, last |-> last]] ELSE rxAxis
         /\ rxAxis' \in [0..1 -> Rx!RxBeat]
         /\ tag' = IF tvalid /\ last THEN (tag + 1) % Tags ELSE tag
         /\ tag' \in Rx!Tag
<1>1. rxFilled \in {0, 1} /\ Rx!axis_c2h_tready = TRUE
  BY DEF RxTypes, Deep, Rx!axis_c2h_tready, Beats
<1>2. [pkt |-> tag, last |-> last] \in Rx!RxBeat
  BY DEF RxTypes, Rx!RxBeat
<1>3. Rx!Slice!Clock(tvalid, [pkt |-> tag, last |-> last], TRUE)
  BY <1>1 DEF Rx!Clock
<1>4. /\ rxFilled' = Bit(tvalid)
      /\ rxAxis' = IF tvalid THEN [rxAxis EXCEPT ![0] = [pkt |-> tag, last |-> last]] ELSE rxAxis
  BY <1>1, <1>3 DEF Rx!Slice!Clock, Rx!Slice!FillFirst, Rx!Slice!PassOn, Rx!Slice!FillSecond,
       Rx!Slice!Drain, Rx!Slice!Shift, Rx!Slice!Stall, Rx!Slice!vars, Bit
<1>5. rxAxis' \in [0..1 -> Rx!RxBeat]
  BY <1>2, <1>4 DEF RxTypes
<1>6. tag' = IF tvalid /\ last THEN (tag + 1) % Tags ELSE tag
  BY <1>1 DEF Rx!Clock, Rx!SendStep, Rx!Slice!s_axis_tready
<1>7. QED
  BY <1>4, <1>5, <1>6, TagNone DEF RxTypes

\* There is room for the beat that arrives.
LEMMA BufferMoves ==
  ASSUME RxTypes, Deep(setup), NEW tvalid, NEW last, Rx!Clock(tvalid, last, TRUE)
  PROVE  /\ buf_fifo' \in Seq(Rx!RxBeat)
         /\ Beats' = Beats - Leaves + Arrives
         /\ \A k \in 1..(Beats - Leaves) : buf_fifo'[k] = buf_fifo[k + Leaves]
         /\ Arrives = 1 => buf_fifo'[Beats - Leaves + 1] = rxAxis[0]
<1> DEFINE rest == IF Leaves = 1 THEN Tail(buf_fifo) ELSE buf_fifo
           new == IF Arrives = 1 THEN <<rxAxis[0]>> ELSE <<>>
<1>1. /\ buf_fifo \in Seq(Rx!RxBeat) /\ Beats \in Nat /\ Beats = Len(buf_fifo)
      /\ rxAxis[0] \in Rx!RxBeat
      /\ Leaves \in {0, 1} /\ Arrives \in {0, 1} /\ (Leaves = 1 => buf_fifo # <<>>)
  BY DEF RxTypes, Beats, Leaves, Arrives, Bit
<1>2. buf_fifo' = rest \o new
  <2>1. Rx!axis_c2h_tready
    BY DEF RxTypes, Deep, Rx!axis_c2h_tready, Beats
  <2>2. Rx!Accepted <=> Arrives = 1
    BY <2>1 DEF RxTypes, Arrives, Bit, Rx!Accepted, Rx!axis_c2h_tvalid, Rx!Slice!m_axis_tvalid
  <2>3. Rx!Taken(TRUE) <=> Leaves = 1
    BY DEF Rx!Taken, Rx!m_axis_c2h_tvalid, Leaves, Bit
  <2>4. QED
    BY <2>2, <2>3 DEF Rx!Clock, Rx!BufFifoStep, Rx!Beat
<1>3. rest \in Seq(Rx!RxBeat) /\ Len(rest) = Beats - Leaves
         /\ \A k \in 1..(Beats - Leaves) : rest[k] = buf_fifo[k + Leaves]
  BY <1>1
<1>4. new \in Seq(Rx!RxBeat) /\ Len(new) = Arrives /\ (Arrives = 1 => new[1] = rxAxis[0])
  BY <1>1
<1> HIDE DEF rest, new
<1>5. QED
  BY <1>1, <1>2, <1>3, <1>4 DEF Beats

\* And for the queue ID that is ready.
LEMMA FifoMoves ==
  ASSUME Rx!RxAssumption, RxTypes, Deep(setup), WithDin <= 7, NEW tvalid, NEW last,
           Rx!Clock(tvalid, last, TRUE)
  PROVE  /\ qid_fifo' \in Seq(Rx!Tag)
         /\ InFifo' = WithDin - IdLeaves
         /\ \A j \in 1..(WithDin - IdLeaves) :
               qid_fifo'[j] = IF j + IdLeaves <= InFifo THEN qid_fifo[j + IdLeaves] ELSE qid_din
<1> DEFINE rest == IF IdLeaves = 1 THEN Tail(qid_fifo) ELSE qid_fifo
           new == IF Valid(qid_din) = 1 THEN <<qid_din>> ELSE <<>>
<1>1. /\ qid_fifo \in Seq(Rx!Tag) /\ InFifo \in Nat /\ InFifo = Len(qid_fifo)
      /\ Valid(qid_din) = 1 => qid_din \in Rx!Tag
      /\ IdLeaves \in {0, 1} /\ Valid(qid_din) \in {0, 1} /\ (IdLeaves = 1 => qid_fifo # <<>>)
  BY DEF RxTypes, InFifo, IdLeaves, Bit, Valid
<1>2. qid_fifo' = rest \o new
  <2>1. (qid_din # Rx!None /\ Len(qid_fifo) < setup.QidDepth) <=> Valid(qid_din) = 1
    BY <1>1 DEF Deep, WithDin, Valid, Bit
  <2>2. Rx!qid_fifo_rd_en(TRUE) <=> IdLeaves = 1
    BY DEF Rx!qid_fifo_rd_en, Rx!Taken, Rx!m_axis_c2h_tvalid, IdLeaves, Bit, RxTypes
  <2>3. QED
    BY <2>1, <2>2 DEF Rx!Clock, Rx!QidFifoStep
<1>3. rest \in Seq(Rx!Tag) /\ Len(rest) = InFifo - IdLeaves
         /\ \A k \in 1..(InFifo - IdLeaves) : rest[k] = qid_fifo[k + IdLeaves]
  BY <1>1
<1>4. new \in Seq(Rx!Tag) /\ Len(new) = Valid(qid_din) /\ (Valid(qid_din) = 1 => new[1] = qid_din)
  BY <1>1
<1> HIDE DEF rest, new
<1>5. QED
  BY <1>1, <1>2, <1>3, <1>4 DEF InFifo, WithDin

\* Stage 1 opens a packet with a beat that arrives only, and waits for its last
\* beat; an ID is valid in eth_payload once.
LEMMA StagesMove ==
  ASSUME Rx!RxAssumption, RxTypes, OnePacket, Deep(setup), WithDin <= 7,
         NEW tvalid \in BOOLEAN, NEW last \in BOOLEAN, Rx!Clock(tvalid, last, TRUE)
  PROVE  /\ s1_state = "S_S1_IDLE" =>
               s1_state' = IF Arrives = 1 /\ ~rxAxis[0].last THEN "S_S1_MORE" ELSE "S_S1_IDLE"
         /\ s1_state = "S_S1_MORE"
            => s1_state' = IF rxAxis[0].last THEN "S_S1_IDLE" ELSE "S_S1_PASS"
         /\ s1_state = "S_S1_PASS" =>
               s1_state' = IF Arrives = 1 /\ rxAxis[0].last THEN "S_S1_IDLE" ELSE "S_S1_PASS"
         /\ eth_payload' = IF Opens = 1 THEN rxAxis[0].pkt ELSE eth_payload
         /\ eth_payload_valid' = (s1_state = "S_S1_MORE" \/ (Opens = 1 /\ rxAxis[0].last))
         /\ ip4' = IF eth_payload_valid THEN eth_payload ELSE Rx!None
         /\ hash_result' = ip4 /\ qid_din' = hash_result
<1>1. Rx!Accepted <=> Arrives = 1
  BY DEF RxTypes, Deep, Beats, Arrives, Bit, Rx!Accepted, Rx!axis_c2h_tready, Rx!axis_c2h_tvalid,
       Rx!Slice!m_axis_tvalid
<1>2. Opens = 1 <=> s1_state = "S_S1_IDLE" /\ Arrives = 1
  BY DEF Opens, Arrives, Bit
<1>3. ip4' = IF eth_payload_valid THEN eth_payload ELSE Rx!None
  BY DEF Rx!Clock, Rx!Ip4Step
<1>4. hash_result' = ip4 /\ qid_din' = hash_result
  BY DEF Rx!Clock, Rx!HashStep, Rx!QidDinStep
<1>5. CASE s1_state = "S_S1_IDLE"
  BY <1>1, <1>2, <1>3, <1>4, <1>5 DEF Rx!Clock, Rx!S1Step, Rx!S1Idle, Rx!S1More, Rx!S1Pass, Rx!Beat
<1>6. CASE s1_state = "S_S1_MORE"
  BY <1>1, <1>2, <1>3, <1>4, <1>6 DEF Rx!Clock, Rx!S1Step, Rx!S1Idle, Rx!S1More, Rx!S1Pass, Rx!Beat
<1>7. CASE s1_state = "S_S1_PASS"
  BY <1>1, <1>2, <1>3, <1>4, <1>7 DEF Rx!Clock, Rx!S1Step, Rx!S1Idle, Rx!S1More, Rx!S1Pass, Rx!Beat
<1>8. QED
  BY <1>5, <1>6, <1>7 DEF RxTypes

\* The counts of IDs under way move up by one stage.
LEMMA CountsMove ==
  ASSUME Rx!RxAssumption, RxTypes, OnePacket, Deep(setup), WithDin <= 7,
         NEW tvalid \in BOOLEAN, NEW last \in BOOLEAN, Rx!Clock(tvalid, last, TRUE)
  PROVE  /\ InFifo' = WithDin - IdLeaves
         /\ WithDin' = WithHash - IdLeaves
         /\ WithHash' = WithIp4 - IdLeaves
         /\ WithIp4' = WithStage1 - IdLeaves
         /\ WithStage1' = UnderWay - IdLeaves + (IF Opens = 1 /\ rxAxis[0].last THEN 1 ELSE 0)
         /\ UnderWay' = UnderWay - IdLeaves + Opens
<1> USE TagNone
<1>1. /\ InFifo \in Nat /\ IdLeaves \in {0, 1} /\ Opens \in {0, 1}
      /\ Valid(qid_din) \in {0, 1} /\ Valid(hash_result) \in {0, 1} /\ Valid(ip4) \in {0, 1}
      /\ Bit(eth_payload_valid) \in {0, 1} /\ Bit(s1_state = "S_S1_MORE") \in {0, 1}
  BY DEF RxTypes, InFifo, IdLeaves, Opens, Valid, Bit
<1>2. InFifo' = WithDin - IdLeaves
  BY FifoMoves
<1>3. Valid(qid_din') = Valid(hash_result) /\ Valid(hash_result') = Valid(ip4)
  BY StagesMove
<1>4. Valid(ip4') = Bit(eth_payload_valid)
  BY StagesMove DEF Valid, Bit, RxTypes
<1> DEFINE single == IF Opens = 1 /\ rxAxis[0].last THEN 1 ELSE 0
<1>5. /\ s1_state \in {"S_S1_IDLE", "S_S1_MORE", "S_S1_PASS"}
      /\ Opens = 1 => s1_state = "S_S1_IDLE" /\ Arrives = 1
      /\ s1_state = "S_S1_IDLE" /\ Arrives = 1 => Opens = 1
  BY DEF Opens, Arrives, Bit, RxTypes
<1>6. rxAxis[0].last \in BOOLEAN
  BY DEF RxTypes, Rx!RxBeat
<1>7. eth_payload_valid' <=> s1_state = "S_S1_MORE" \/ single = 1
  <2>1. eth_payload_valid' = (s1_state = "S_S1_MORE" \/ (Opens = 1 /\ rxAxis[0].last))
    BY StagesMove
  <2>2. single = 1 <=> Opens = 1 /\ rxAxis[0].last
    BY <1>6
  <2> HIDE DEF single
  <2>3. QED
    BY <2>1, <2>2
<1>8. s1_state' = "S_S1_MORE" <=> Opens = 1 /\ single = 0
  <2>1. s1_state' = "S_S1_MORE" <=> s1_state = "S_S1_IDLE" /\ Arrives = 1 /\ ~rxAxis[0].last
    BY StagesMove, <1>5, <1>6
  <2>2. Opens = 1 => (single = 0 <=> ~rxAxis[0].last)
    BY <1>6
  <2> HIDE DEF single
  <2>3. QED
    BY <1>5, <2>1, <2>2
<1>9. single \in {0, 1} /\ (single = 1 => Opens = 1)
  OBVIOUS
<1> HIDE DEF single
<1>10. Bit(eth_payload_valid') = Bit(s1_state = "S_S1_MORE") + single
  <2>1. CASE s1_state = "S_S1_MORE"
    <3>1. single = 0 /\ eth_payload_valid'
      BY <1>5, <1>7, <1>9, <2>1
    <3>2. QED
      BY <2>1, <3>1 DEF Bit
  <2>2. CASE s1_state # "S_S1_MORE" /\ single = 1
    BY <1>7, <2>2 DEF Bit
  <2>3. CASE s1_state # "S_S1_MORE" /\ single = 0
    BY <1>7, <2>3 DEF Bit
  <2>4. QED
    BY <1>9, <2>1, <2>2, <2>3
<1>11. Bit(eth_payload_valid') + Bit(s1_state' = "S_S1_MORE") = Bit(s1_state = "S_S1_MORE") + Opens
  <2>1. Bit(s1_state' = "S_S1_MORE") = Opens - single
    BY <1>1, <1>8, <1>9 DEF Bit
  <2>2. QED
    BY <1>1, <1>10, <1>9, <2>1
<1>12. WithDin' = InFifo' + Valid(qid_din') /\ WithHash' = WithDin' + Valid(hash_result')
       /\ WithIp4' = WithHash' + Valid(ip4') /\ WithStage1' = WithIp4' + Bit(eth_payload_valid')
       /\ UnderWay' = WithStage1' + Bit(s1_state' = "S_S1_MORE")
  BY DEF WithDin, WithHash, WithIp4, WithStage1, UnderWay
<1>13. WithDin' = WithHash - IdLeaves
  BY <1>1, <1>2, <1>3, <1>12 DEF WithDin, WithHash
<1>14. WithHash' = WithIp4 - IdLeaves
  BY <1>1, <1>3, <1>12, <1>13 DEF WithDin, WithHash, WithIp4
<1>15. WithIp4' = WithStage1 - IdLeaves
  BY <1>1, <1>4, <1>12, <1>14 DEF WithDin, WithHash, WithIp4, WithStage1
<1>16. WithStage1' = UnderWay - IdLeaves + single
  BY <1>1, <1>9, <1>10, <1>12, <1>15 DEF WithDin, WithHash, WithIp4, WithStage1, UnderWay
<1>17. UnderWay' = UnderWay - IdLeaves + Opens
  <2>1. WithIp4' + (Bit(eth_payload_valid') + Bit(s1_state' = "S_S1_MORE")) = UnderWay'
    <3>1. Bit(eth_payload_valid') \in {0, 1} /\ Bit(s1_state' = "S_S1_MORE") \in {0, 1}
      BY DEF Bit
    <3>2. WithIp4' \in Int
      BY <1>1, <1>15 DEF WithDin, WithHash, WithIp4, WithStage1
    <3>3. QED
      BY <1>12, <3>1, <3>2
  <2>2. WithIp4' + (Bit(s1_state = "S_S1_MORE") + Opens) = UnderWay'
    BY <1>11, <2>1
  <2>3. QED
    BY <1>1, <1>15, <2>2 DEF WithDin, WithHash, WithIp4, WithStage1, UnderWay
<1>18. QED
  BY <1>2, <1>13, <1>14, <1>15, <1>16, <1>17 DEF single

\* The IDs keep their order.
LEMMA IdsMove ==
  ASSUME Rx!RxAssumption, RxTypes, OnePacket, Deep(setup), WithDin <= 7,
         NEW tvalid \in BOOLEAN, NEW last \in BOOLEAN, Rx!Clock(tvalid, last, TRUE)
  PROVE  /\ \A j \in 1..(UnderWay - IdLeaves) : QidAt(j)' = QidAt(j + IdLeaves)
         /\ Opens = 1 => \A j \in Int : j > UnderWay - IdLeaves => QidAt(j)' = rxAxis[0].pkt
<1> USE TagNone
<1>1. /\ InFifo \in Nat /\ IdLeaves \in {0, 1} /\ Opens \in {0, 1}
      /\ Valid(qid_din) \in {0, 1} /\ Valid(hash_result) \in {0, 1} /\ Valid(ip4) \in {0, 1}
      /\ Bit(eth_payload_valid) \in {0, 1} /\ Bit(s1_state = "S_S1_MORE") \in {0, 1}
  BY DEF RxTypes, InFifo, IdLeaves, Opens, Valid, Bit
<1>2. /\ WithDin = InFifo + Valid(qid_din) /\ WithHash = WithDin + Valid(hash_result)
      /\ WithIp4 = WithHash + Valid(ip4) /\ WithStage1 = WithIp4 + Bit(eth_payload_valid)
      /\ UnderWay = WithStage1 + Bit(s1_state = "S_S1_MORE")
  BY DEF WithDin, WithHash, WithIp4, WithStage1, UnderWay
<1>3. /\ InFifo' = WithDin - IdLeaves /\ WithDin' = WithHash - IdLeaves
         /\ WithHash' = WithIp4 - IdLeaves
      /\ WithIp4' = WithStage1 - IdLeaves
  BY CountsMove
<1>4. /\ eth_payload' = IF Opens = 1 THEN rxAxis[0].pkt ELSE eth_payload
      /\ ip4' = IF eth_payload_valid THEN eth_payload ELSE Rx!None
      /\ hash_result' = ip4 /\ qid_din' = hash_result
  BY StagesMove
<1>5. Opens = 1 => UnderWay = WithStage1
  BY <1>1, <1>2 DEF Opens, Bit
<1>6. ASSUME NEW j \in Int
      PROVE  QidAt(j)' = IF j <= InFifo' THEN qid_fifo'[j]
                         ELSE IF j <= WithDin' THEN qid_din'
                         ELSE IF j <= WithHash' THEN hash_result'
                         ELSE IF j <= WithIp4' THEN ip4'
                         ELSE eth_payload'
  BY DEF QidAt
<1>7. ASSUME NEW j \in 1..(UnderWay - IdLeaves)
      PROVE  QidAt(j)' = QidAt(j + IdLeaves)
  <2>1. j \in Int /\ j + IdLeaves <= UnderWay /\ UnderWay \in Int
    BY <1>1, <1>2
  <2>2. CASE j + IdLeaves <= WithDin
    <3>1. j \in 1..(WithDin - IdLeaves) /\ j <= InFifo'
      BY <1>1, <1>2, <1>3, <2>1, <2>2
    <3>2. QidAt(j)' = IF j + IdLeaves <= InFifo THEN qid_fifo[j + IdLeaves] ELSE qid_din
      BY <1>6, <2>1, <3>1, FifoMoves
    <3>3. QED
      BY <2>2, <3>2 DEF QidAt
  <2>3. CASE WithDin < j + IdLeaves /\ j + IdLeaves <= WithHash
    <3>1. j > InFifo' /\ j <= WithDin' /\ ~(j + IdLeaves <= InFifo) /\ ~(j + IdLeaves <= WithDin)
      BY <1>1, <1>2, <1>3, <2>1, <2>3
    <3>2. QED
      BY <1>3, <1>4, <1>6, <2>1, <2>3, <3>1 DEF QidAt
  <2>4. CASE WithHash < j + IdLeaves /\ j + IdLeaves <= WithIp4
    <3>1. ~(j <= InFifo') /\ ~(j <= WithDin') /\ j <= WithHash'
          /\ ~(j + IdLeaves <= InFifo) /\ ~(j + IdLeaves <= WithDin) /\ ~(j + IdLeaves <= WithHash)
      BY <1>1, <1>2, <1>3, <2>1, <2>4
    <3>2. QED
      BY <1>4, <1>6, <2>1, <2>4, <3>1 DEF QidAt
  <2>5. CASE WithIp4 < j + IdLeaves /\ j + IdLeaves <= WithStage1
    <3>1. ~(j <= InFifo') /\ ~(j <= WithDin') /\ ~(j <= WithHash') /\ j <= WithIp4'
          /\ ~(j + IdLeaves <= InFifo) /\ ~(j + IdLeaves <= WithDin)
             /\ ~(j + IdLeaves <= WithHash) /\ ~(j + IdLeaves <= WithIp4)
      BY <1>1, <1>2, <1>3, <2>1, <2>5
    <3>2. eth_payload_valid
      BY <1>1, <1>2, <2>1, <2>5 DEF Bit
    <3>3. QED
      BY <1>4, <1>6, <2>1, <3>1, <3>2 DEF QidAt
  <2>6. CASE WithStage1 < j + IdLeaves
    <3>1. ~(j <= InFifo') /\ ~(j <= WithDin') /\ ~(j <= WithHash') /\ ~(j <= WithIp4')
          /\ ~(j + IdLeaves <= InFifo) /\ ~(j + IdLeaves <= WithDin)
             /\ ~(j + IdLeaves <= WithHash) /\ ~(j + IdLeaves <= WithIp4)
      BY <1>1, <1>2, <1>3, <2>1, <2>6
    <3>2. Opens # 1
      BY <1>1, <1>2, <1>5, <2>1, <2>6
    <3>3. QED
      BY <1>4, <1>6, <2>1, <3>1, <3>2 DEF QidAt
  <2>7. QED
    BY <1>1, <1>2, <2>1, <2>2, <2>3, <2>4, <2>5, <2>6
<1>8. ASSUME Opens = 1, NEW j \in Int, j > UnderWay - IdLeaves
      PROVE  QidAt(j)' = rxAxis[0].pkt
  <2>1. ~(j <= InFifo') /\ ~(j <= WithDin') /\ ~(j <= WithHash') /\ ~(j <= WithIp4')
    BY <1>1, <1>2, <1>3, <1>8
  <2>2. QED
    BY <1>4, <1>6, <1>8, <2>1
<1>9. QED
  BY <1>7, <1>8

LEMMA FewBeats ==
  ASSUME RxTypes
  PROVE  Beats \in 0..6 /\ Beats = Len(buf_fifo) /\ (buf_fifo # <<>> => Beats > 0)
<1>1. Len(buf_fifo) <= 6
  BY DEF RxTypes, Beats
<1>2. Len(buf_fifo) \in Nat /\ (buf_fifo # <<>> => Len(buf_fifo) > 0)
  BY EmptySeq, LenProperties DEF RxTypes
<1>3. Len(buf_fifo) \in 0..6
  <2>1. \A x \in Nat : x <= 6 => x \in 0..6
    OBVIOUS
  <2>2. QED
    BY <1>1, <1>2, <2>1
<1>4. QED
  BY <1>2, <1>3 DEF Beats

\* No more IDs are under way than beats wait, but for the packet being accepted.
LEMMA FewIds ==
  ASSUME RxTypes, NEW pkt \in [1..(Beats + 1) -> Nat], Numbered(pkt), Realigned(pkt)
  PROVE  /\ InFifo \in Nat /\ WithDin \in Nat /\ WithHash \in Nat /\ WithIp4 \in Nat
            /\ WithStage1 \in Nat
         /\ InFifo <= WithDin /\ WithDin <= WithHash /\ WithHash <= WithIp4 /\ WithIp4 <= WithStage1
         /\ UnderWay \in Nat /\ WithStage1 <= UnderWay /\ UnderWay <= 7
<1>1. /\ InFifo \in Nat
      /\ Valid(qid_din) \in {0, 1} /\ Valid(hash_result) \in {0, 1} /\ Valid(ip4) \in {0, 1}
      /\ Bit(eth_payload_valid) \in {0, 1} /\ Bit(s1_state = "S_S1_MORE") \in {0, 1}
  BY DEF RxTypes, InFifo, Valid, Bit
<1>2. Beats \in 0..6
  BY FewBeats
<1>3. UnderWay <= 7
  <2>1. 1 \in 1..(Beats + 1) /\ Beats + 1 \in 1..(Beats + 1) /\ 1 <= Beats + 1
           /\ pkt[Beats + 1] \in Nat
    BY <1>2
  <2>2. UnderWay <= pkt[Beats + 1]
    BY <2>1 DEF Realigned
  <2>3. pkt[Beats + 1] - pkt[1] \in 0..((Beats + 1) - 1) /\ pkt[1] = 1
    BY <2>1 DEF Numbered
  <2>4. PICK x \in Nat, b \in 0..6 : x = pkt[Beats + 1] /\ b = Beats
    BY <1>2, <2>1
  <2>5. x <= 7
    BY <2>3, <2>4
  <2>6. UnderWay \in Int
    BY <1>1 DEF WithDin, WithHash, WithIp4, WithStage1, UnderWay
  <2>7. QED
    BY <2>2, <2>4, <2>5, <2>6
<1>4. /\ WithDin = InFifo + Valid(qid_din) /\ WithHash = WithDin + Valid(hash_result)
      /\ WithIp4 = WithHash + Valid(ip4) /\ WithStage1 = WithIp4 + Bit(eth_payload_valid)
      /\ UnderWay = WithStage1 + Bit(s1_state = "S_S1_MORE")
  BY DEF WithDin, WithHash, WithIp4, WithStage1, UnderWay
<1>5. WithDin \in Nat /\ InFifo <= WithDin
  BY <1>1, <1>4
<1>6. WithHash \in Nat /\ WithDin <= WithHash
  BY <1>1, <1>4, <1>5
<1>7. WithIp4 \in Nat /\ WithHash <= WithIp4
  BY <1>1, <1>4, <1>6
<1>8. WithStage1 \in Nat /\ WithIp4 <= WithStage1
  BY <1>1, <1>4, <1>7
<1>9. UnderWay \in Nat /\ WithStage1 <= UnderWay
  BY <1>1, <1>4, <1>8
<1>10. QED
  BY <1>1, <1>3, <1>5, <1>6, <1>7, <1>8, <1>9

\* The beats that stay keep their packets, less the one whose ID left; the beat
\* that arrives belongs to the packet being accepted, or opens one.
LEMMA NumbersMove ==
  ASSUME Rx!RxAssumption, RxTypes, OnePacket, Deep(setup),
         NEW pkt \in [1..(Beats + 1) -> Nat], Numbered(pkt), Realigned(pkt), Timely(pkt),
         NEW tvalid \in BOOLEAN, NEW last \in BOOLEAN, Rx!Clock(tvalid, last, TRUE)
  PROVE  \E w \in [1..(Beats' + 1) -> Nat] : Numbered(w)' /\ Realigned(w)' /\ Timely(w)'
<1>1. PICK n \in 0..6, t \in {0, 1}, p \in {0, 1}, a \in {0, 1}, lb \in {0, 1} :
        n = Beats /\ t = Leaves /\ p = IdLeaves /\ a = Arrives /\ lb = Bit(rxAxis[0].last)
  <2>1. Leaves \in {0, 1} /\ IdLeaves \in {0, 1} /\ Arrives \in {0, 1}
           /\ Bit(rxAxis[0].last) \in {0, 1}
    BY DEF Leaves, IdLeaves, Arrives, Bit
  <2>2. QED
    BY <2>1, FewBeats
<1>2. t <= n
  BY <1>1, FewBeats DEF Leaves, Bit
<1>3. p = IF t = 1 THEN Bit(buf_fifo[1].last) ELSE 0
  BY <1>1 DEF Leaves, IdLeaves, Bit
<1>4. PICK c1 \in Nat, c2 \in Nat, c3 \in Nat, c4 \in Nat, c5 \in Nat, u \in Nat :
        c1 = InFifo /\ c2 = WithDin /\ c3 = WithHash /\ c4 = WithIp4 /\ c5 = WithStage1
           /\ u = UnderWay
  <2>1. /\ InFifo \in Nat /\ WithDin \in Nat /\ WithHash \in Nat /\ WithIp4 \in Nat
           /\ WithStage1 \in Nat
        /\ UnderWay \in Nat
    BY FewIds
  <2>2. QED
    BY <2>1
<1>5. c1 <= c2 /\ c2 <= c3 /\ c3 <= c4 /\ c4 <= c5 /\ c5 <= u /\ u <= 7
  BY <1>4, FewIds
<1>6. PICK new \in {0, 1} : new = Opens
  BY DEF Opens, Bit
<1>7. WithDin <= 7
  BY <1>4, <1>5
<1>8. PICK d1, d2, d3, d4, d5, u2 :
        d1 = InFifo' /\ d2 = WithDin' /\ d3 = WithHash' /\ d4 = WithIp4' /\ d5 = WithStage1'
           /\ u2 = UnderWay'
  OBVIOUS
<1>9. /\ d1 = c2 - p /\ d2 = c3 - p /\ d3 = c4 - p /\ d4 = c5 - p
      /\ d5 = u - p + (IF new = 1 /\ rxAxis[0].last THEN 1 ELSE 0)
      /\ u2 = u - p + new
  BY <1>1, <1>4, <1>8, <1>6, <1>7, CountsMove
<1>10. /\ Beats' = n - t + a
       /\ \A k \in 1..(n - t) : buf_fifo'[k] = buf_fifo[k + t]
       /\ a = 1 => buf_fifo'[n - t + 1] = rxAxis[0]
  BY <1>1, BufferMoves
<1>11. PICK n2 \in 0..7 : n2 = Beats' /\ n2 = n - t + a
  <2>1. n - t + a \in 0..7
    BY <1>2
  <2>2. QED
    BY <1>10, <2>1
<1>12. n2 = n - t + a
  BY <1>11
<1>13. PICK w : w = [k \in 1..(n2 + 1) |->
                       IF k <= n - t + 1 THEN pkt[k + t] - p ELSE pkt[n + 1] - p + lb]
  OBVIOUS
<1>14. /\ \A k \in 1..(n + 1) : pkt[k] \in Nat
       /\ pkt[1] = 1
       /\ \A k \in 1..n : pkt[k + 1] = pkt[k] + Bit(buf_fifo[k].last)
       /\ \A k, m \in 1..(n + 1) : k <= m => pkt[m] - pkt[k] \in 0..(m - k)
  BY <1>1 DEF Numbered
<1>15. /\ \A j \in 1..(u - p) : QidAt(j)' = QidAt(j + p)
       /\ new = 1 => \A j \in Int : j > u - p => QidAt(j)' = rxAxis[0].pkt
  BY <1>1, <1>4, <1>6, <1>7, IdsMove
<1>16. PICK y \in Nat : y = pkt[n + 1]
  <2>1. n + 1 \in 1..(n + 1)
    OBVIOUS
  <2>2. QED
    BY <1>14, <2>1
<1>17. /\ \A k \in 1..n : pkt[k] <= u /\ buf_fifo[k].pkt = QidAt(pkt[k])
       /\ IF s1_state = "S_S1_IDLE" THEN u = pkt[n + 1] - 1
          ELSE u = pkt[n + 1] /\ QidAt(u) = eth_payload
  BY <1>1, <1>4 DEF Realigned
<1>18. s1_state = "S_S1_IDLE" => u = y - 1
  BY <1>17, <1>16
<1>19. s1_state # "S_S1_IDLE" => u = y /\ QidAt(u) = eth_payload
  BY <1>17, <1>16
<1>20. \A k \in 1..n :
         /\ pkt[k] > c1 => n - k < 5
         /\ pkt[k] > c2 => n - k < 4
         /\ pkt[k] > c3 => n - k < 3
         /\ pkt[k] > c4 => n - k < 2
         /\ pkt[k] > c5 => n - k < 1
  BY <1>1, <1>4 DEF Timely
<1>21. /\ new \in {0, 1} /\ (new = 1 <=> s1_state = "S_S1_IDLE" /\ a = 1)
       /\ rxAxis[0].last \in BOOLEAN /\ (lb = 1 <=> rxAxis[0].last)
  BY <1>1, <1>6 DEF Opens, Arrives, Bit, RxTypes, Rx!RxBeat
<1>22. /\ n2 + 1 = n - t + a + 1
       /\ \A k \in 1..(n - t + 1) : w[k] = pkt[k + t] - p
       /\ a = 1 => w[n - t + 2] = pkt[n + 1] - p + lb
  BY <1>2, <1>12, <1>13
<1>23. pkt[1 + t] - p = 1
  <2>1. CASE t = 0
    BY <1>14, <1>3, <2>1
  <2>2. CASE t = 1
    BY <1>2, <1>14, <1>3, <2>2
  <2>3. QED
    BY <1>2, <2>1, <2>2
<1>24. \A k \in 1..(n - t + 1) : pkt[k + t] - p \in Nat \ {0}
  <2> SUFFICES ASSUME NEW k \in 1..(n - t + 1)
               PROVE  pkt[k + t] - p \in Nat \ {0}
    OBVIOUS
  <2>1. 1 + t \in 1..(n + 1) /\ k + t \in 1..(n + 1) /\ 1 + t <= k + t
    BY <1>2
  <2>2. pkt[k + t] - pkt[1 + t] >= 0 /\ pkt[1 + t] \in Nat /\ pkt[k + t] \in Nat
    BY <1>14, <2>1
  <2>3. QED
    BY <1>2, <1>23, <2>2
<1>25. w \in [1..(n2 + 1) -> Nat]
  <2>1. ASSUME NEW k \in 1..(n - t + a + 1)
        PROVE  w[k] \in Nat
    <3>1. CASE k <= n - t + 1
      BY <1>22, <1>24, <3>1
    <3>2. CASE k > n - t + 1
      <4>1. a = 1 /\ k = n - t + 2
        BY <1>2, <3>2
      <4>2. n - t + 1 \in 1..(n - t + 1) /\ (n - t + 1) + t = n + 1
        BY <1>2
      <4>3. pkt[n + 1] - p \in Nat
        BY <1>24, <4>2
      <4>4. QED
        BY <1>2, <1>22, <4>1, <4>3
    <3>3. QED
      BY <1>2, <3>1, <3>2
  <2>2. w = [k \in 1..(n2 + 1) |-> w[k]]
    BY <1>13
  <2>3. QED
    BY <1>22, <2>1, <2>2
<1>26. Numbered(w)'
  <2>1. w[1] = 1
    BY <1>2, <1>22, <1>23
  <2>2. ASSUME NEW k \in 1..n2
        PROVE  w[k + 1] = w[k] + Bit(buf_fifo'[k].last)
    <3>1. CASE k <= n - t
      <4>1. k \in 1..(n - t + 1) /\ k + 1 \in 1..(n - t + 1) /\ k + t \in 1..n /\ k \in 1..(n - t)
        BY <1>2, <1>12, <3>1
      <4>2. w[k] = pkt[k + t] - p /\ w[k + 1] = pkt[(k + 1) + t] - p
               /\ buf_fifo'[k] = buf_fifo[k + t]
        BY <1>10, <1>22, <4>1
      <4>3. pkt[(k + t) + 1] = pkt[k + t] + Bit(buf_fifo[k + t].last) /\ (k + 1) + t = (k + t) + 1
        BY <1>2, <1>14, <4>1
      <4>4. pkt[k + t] \in Nat /\ Bit(buf_fifo[k + t].last) \in {0, 1}
        BY <1>2, <1>14, <4>1 DEF Bit
      <4>5. QED
        BY <1>2, <4>2, <4>3, <4>4
    <3>2. CASE k > n - t
      <4>1. a = 1 /\ k = n - t + 1 /\ n - t + 1 \in 1..(n - t + 1) /\ (n - t + 1) + t = n + 1
        BY <1>2, <1>12, <3>2
      <4>2. w[k] = pkt[n + 1] - p /\ w[k + 1] = pkt[n + 1] - p + lb
        BY <1>2, <1>22, <4>1
      <4>3. buf_fifo'[k] = rxAxis[0]
        BY <1>10, <4>1
      <4>4. QED
        BY <1>1, <4>2, <4>3
    <3>3. QED
      BY <1>2, <1>12, <3>1, <3>2
  <2>3. ASSUME NEW k \in 1..(n2 + 1), NEW m \in 1..(n2 + 1), k <= m
        PROVE  w[m] - w[k] \in 0..(m - k)
    <3>1. k \in Int /\ m \in Int /\ k <= n - t + a + 1 /\ m <= n - t + a + 1
      BY <1>2, <1>12
    <3>2. CASE m <= n - t + 1
      <4>1. k \in 1..(n - t + 1) /\ m \in 1..(n - t + 1) /\ k + t \in 1..(n + 1)
               /\ m + t \in 1..(n + 1) /\ k + t <= m + t
        BY <1>2, <2>3, <3>1, <3>2
      <4>2. pkt[m + t] - pkt[k + t] \in 0..((m + t) - (k + t)) /\ pkt[m + t] \in Nat
               /\ pkt[k + t] \in Nat
        BY <1>14, <4>1
      <4>3. w[m] = pkt[m + t] - p /\ w[k] = pkt[k + t] - p
        BY <1>22, <4>1
      <4>4. PICK x \in Nat, z \in Nat : x = pkt[k + t] /\ z = pkt[m + t]
        BY <4>2
      <4>5. w[m] - w[k] = z - x
        BY <1>2, <4>3, <4>4
      <4>6. z - x \in 0..(m - k)
        BY <1>2, <3>1, <4>2, <4>4
      <4>7. QED
        BY <4>5, <4>6
    <3>3. CASE m > n - t + 1 /\ k <= n - t + 1
      <4>1. a = 1 /\ m = n - t + 2 /\ k \in 1..(n - t + 1) /\ k + t \in 1..(n + 1)
               /\ n + 1 \in 1..(n + 1) /\ k + t <= n + 1
        BY <1>2, <2>3, <3>1, <3>3
      <4>2. PICK x \in Nat : x = pkt[k + t] /\ y - x \in 0..((n + 1) - (k + t))
        BY <1>14, <1>16, <4>1
      <4>3. w[m] = y - p + lb /\ w[k] = x - p
        BY <1>22, <1>16, <4>1, <4>2
      <4>4. w[m] - w[k] = (y - x) + lb /\ (y - x) \in 0..(n + 1 - (k + t))
               /\ m - k = (n + 1 - (k + t)) + 1
        BY <3>1, <4>1, <4>2, <4>3
      <4>5. QED
        BY <3>1, <4>4
    <3>4. CASE m > n - t + 1 /\ k > n - t + 1
      <4>1. m = k /\ w[m] \in Nat
        BY <1>2, <1>25, <2>3, <3>1, <3>4
      <4>2. QED
        BY <4>1
    <3>5. QED
      BY <1>2, <3>1, <3>2, <3>3, <3>4
  <2>4. QED
    BY <1>11, <2>1, <2>2, <2>3 DEF Numbered
<1>27. /\ s1_state = "S_S1_IDLE" =>
              s1_state' = IF a = 1 /\ ~rxAxis[0].last THEN "S_S1_MORE" ELSE "S_S1_IDLE"
       /\ s1_state = "S_S1_MORE" => s1_state' = IF rxAxis[0].last THEN "S_S1_IDLE" ELSE "S_S1_PASS"
       /\ s1_state = "S_S1_PASS" =>
              s1_state' = IF a = 1 /\ rxAxis[0].last THEN "S_S1_IDLE" ELSE "S_S1_PASS"
       /\ eth_payload' = IF new = 1 THEN rxAxis[0].pkt ELSE eth_payload
  BY <1>1, <1>6, <1>7, StagesMove
<1>28. Realigned(w)'
  <2>1. w[n - t + 1] = y - p /\ y - p \in Nat \ {0}
    <3>1. n - t + 1 \in 1..(n - t + 1) /\ (n - t + 1) + t = n + 1
      BY <1>2
    <3>2. QED
      BY <1>22, <1>24, <1>16, <3>1
  <2>2. s1_state # "S_S1_IDLE" /\ a = 1 => rxAxis[0].pkt = eth_payload
    BY <1>1 DEF OnePacket, Arrives, Bit
  <2>3. s1_state = "S_S1_MORE" /\ a = 0 => ~rxAxis[0].last
    BY <1>1 DEF OnePacket, Arrives, Bit, RxTypes
  <2>4. s1_state \in {"S_S1_IDLE", "S_S1_MORE", "S_S1_PASS"}
    BY DEF RxTypes
  <2>5. ASSUME NEW k \in 1..n2
        PROVE  w[k] <= u2 /\ buf_fifo'[k].pkt = QidAt(w[k])'
    <3>1. CASE k <= n - t
      <4>1. k \in 1..(n - t + 1) /\ k + t \in 1..n /\ k \in 1..(n - t)
        BY <1>2, <1>12, <3>1
      <4>2. w[k] = pkt[k + t] - p /\ buf_fifo'[k] = buf_fifo[k + t] /\ w[k] \in Nat \ {0}
        BY <1>10, <1>22, <1>24, <4>1
      <4>3. PICK m \in 1..n : m = k + t
        BY <4>1
      <4>4. PICK x \in Nat : x = pkt[m]
        <5>1. m \in 1..(n + 1)
          OBVIOUS
        <5>2. QED
          BY <1>14, <5>1
      <4>5. x <= u /\ buf_fifo[m].pkt = QidAt(x)
        BY <1>17, <4>4
      <4>6. PICK v \in Nat \ {0} : v = w[k]
        BY <4>2
      <4>7. v = x - p
        BY <4>2, <4>3, <4>4, <4>6
      <4>8. v \in 1..(u - p) /\ v + p = x /\ v <= u2
        BY <1>9, <4>5, <4>7
      <4>9. QidAt(v)' = QidAt(x)
        BY <1>15, <4>8
      <4>10. QED
        BY <4>2, <4>3, <4>5, <4>6, <4>8, <4>9
    <3>2. CASE k > n - t
      <4>1. a = 1 /\ k = n - t + 1
        BY <1>2, <1>12, <3>2
      <4>2. w[k] = y - p /\ buf_fifo'[k] = rxAxis[0]
        BY <1>10, <2>1, <4>1
      <4>3. PICK v \in Nat \ {0} : v = w[k] /\ v = y - p
        BY <2>1, <4>2
      <4>4. CASE s1_state = "S_S1_IDLE"
        <5>1. new = 1 /\ u = y - 1
          BY <1>18, <1>21, <4>1, <4>4
        <5>2. v \in Int /\ v > u - p /\ v <= u2
          BY <1>9, <4>3, <5>1
        <5>3. QidAt(v)' = rxAxis[0].pkt
          BY <1>15, <5>1, <5>2
        <5>4. QED
          BY <4>2, <4>3, <5>2, <5>3
      <4>5. CASE s1_state # "S_S1_IDLE"
        <5>1. new = 0 /\ u = y /\ QidAt(u) = eth_payload /\ rxAxis[0].pkt = eth_payload
          BY <1>19, <1>21, <2>2, <4>1, <4>5
        <5>2. v \in 1..(u - p) /\ v + p = u /\ v <= u2
          BY <1>9, <4>3, <5>1
        <5>3. QidAt(v)' = QidAt(u)
          BY <1>15, <5>2
        <5>4. QED
          BY <4>2, <4>3, <5>1, <5>2, <5>3
      <4>6. QED
        BY <4>4, <4>5
    <3>3. QED
      BY <1>2, <1>12, <3>1, <3>2
  <2>6. PICK v \in Nat : v = w[n2 + 1] /\ v = y - p + (IF a = 1 THEN lb ELSE 0)
    <3>1. w[n2 + 1] = y - p + (IF a = 1 THEN lb ELSE 0)
      <4>1. CASE a = 1
        <5>1. n2 + 1 = n - t + 2
          BY <1>12, <4>1
        <5>2. QED
          BY <1>22, <1>16, <4>1, <5>1
      <4>2. CASE a = 0
        <5>1. n2 + 1 = n - t + 1
          BY <1>12, <4>2
        <5>2. QED
          BY <2>1, <4>2, <5>1
      <4>3. QED
        BY <4>1, <4>2
    <3>2. QED
      BY <2>1, <3>1
  <2>7. IF s1_state' = "S_S1_IDLE" THEN u2 = v - 1
        ELSE u2 = v /\ QidAt(v)' = eth_payload'
    <3>1. CASE s1_state = "S_S1_IDLE" /\ a = 0
      <4>1. s1_state' = "S_S1_IDLE" /\ new = 0
        BY <1>21, <1>27, <3>1
      <4>2. u2 = v - 1
        BY <1>9, <1>18, <2>6, <3>1, <4>1
      <4>3. QED
        BY <4>1, <4>2
    <3>2. CASE s1_state = "S_S1_IDLE" /\ a = 1
      <4>1. new = 1 /\ u = y - 1
        BY <1>18, <1>21, <3>2
      <4>2. s1_state' = "S_S1_IDLE" <=> lb = 1
        BY <1>21, <1>27, <3>2
      <4>3. u2 = u - p + 1 /\ v = u + 1 - p + lb
        BY <1>9, <2>6, <3>2, <4>1
      <4>4. eth_payload' = rxAxis[0].pkt
        BY <1>27, <4>1
      <4>5. lb = 0 => u2 = v /\ v > u - p
        BY <4>3
      <4>6. lb = 0 => QidAt(v)' = eth_payload'
        BY <1>15, <4>1, <4>4, <4>5
      <4>7. lb = 1 => u2 = v - 1
        BY <4>3
      <4>8. QED
        BY <4>2, <4>5, <4>6, <4>7
    <3>3. CASE s1_state # "S_S1_IDLE"
      <4>1. new = 0 /\ u = y /\ QidAt(u) = eth_payload
        BY <1>19, <1>21, <3>3
      <4>2. eth_payload' = eth_payload
        BY <1>27, <4>1
      <4>3. s1_state' = "S_S1_IDLE" <=> a = 1 /\ lb = 1
        <5>1. CASE s1_state = "S_S1_MORE"
          BY <1>21, <1>27, <2>3, <5>1
        <5>2. CASE s1_state = "S_S1_PASS"
          BY <1>21, <1>27, <5>2
        <5>3. QED
          BY <2>4, <3>3, <5>1, <5>2
      <4>4. u2 = u - p
        BY <1>9, <4>1
      <4>5. CASE a = 1 /\ lb = 1
        <5>1. u2 = v - 1
          BY <2>6, <4>1, <4>4, <4>5
        <5>2. QED
          BY <4>3, <4>5, <5>1
      <4>6. CASE ~(a = 1 /\ lb = 1)
        <5>1. v = u - p /\ v \in 1..(u - p) /\ v + p = u
          BY <2>1, <2>6, <4>1, <4>6
        <5>2. QidAt(v)' = QidAt(u)
          BY <1>15, <5>1
        <5>3. QED
          BY <4>1, <4>2, <4>3, <4>4, <4>6, <5>1, <5>2
      <4>7. QED
        BY <4>5, <4>6
    <3>4. QED
      BY <3>1, <3>2, <3>3
  <2>8. QED
    BY <1>11, <1>8, <2>5, <2>6, <2>7 DEF Realigned
<1>29. Timely(w)'
  <2>1. ASSUME NEW k \in 1..n2
        PROVE  /\ w[k] > d1 => n2 - k < 5
               /\ w[k] > d2 => n2 - k < 4
               /\ w[k] > d3 => n2 - k < 3
               /\ w[k] > d4 => n2 - k < 2
               /\ w[k] > d5 => n2 - k < 1
    <3>1. CASE k <= n - t
      <4>1. k \in 1..(n - t + 1) /\ k + t \in 1..n
        BY <1>2, <1>12, <3>1
      <4>2. PICK x \in Nat : x = pkt[k + t]
        BY <1>14, <4>1
      <4>3. w[k] = x - p /\ x <= u
        BY <1>17, <1>22, <4>1, <4>2
      <4>4. /\ x > c2 => n - (k + t) < 4
            /\ x > c3 => n - (k + t) < 3
            /\ x > c4 => n - (k + t) < 2
            /\ x > c5 => n - (k + t) < 1
        BY <1>20, <4>1, <4>2
      <4>5. ~(w[k] > d5)
        BY <1>2, <1>5, <1>9, <4>3
      <4>6. n2 - k <= n - (k + t) + 1
        BY <1>2, <1>12, <4>1
      <4>7. /\ w[k] > d1 => x > c2
            /\ w[k] > d2 => x > c3
            /\ w[k] > d3 => x > c4
            /\ w[k] > d4 => x > c5
        BY <1>2, <1>5, <1>9, <4>3, <4>2
      <4>8. k \in Int /\ n2 \in Int /\ n \in Int /\ t \in Int
        BY <1>2, <1>12
      <4>9. QED
        BY <4>4, <4>5, <4>6, <4>7, <4>8
    <3>2. CASE k > n - t
      <4>1. k = n2
        BY <1>2, <1>12, <3>2
      <4>2. QED
        BY <1>12, <4>1
    <3>3. QED
      BY <1>2, <1>12, <3>1, <3>2
  <2>2. QED
    BY <1>11, <1>8, <2>1 DEF Timely
<1>30. QED
  BY <1>11, <1>25, <1>26, <1>28, <1>29

\* A receiver that never stalls lets the beats go as fast as they come, once the
\* first queue ID is there.
LEMMA RxStep ==
  ASSUME Rx!RxAssumption, RxInv, Deep(setup),
         NEW tvalid \in BOOLEAN, NEW last \in BOOLEAN, Rx!Clock(tvalid, last, TRUE)
  PROVE  RxInv'
<1> USE TagNone
<1>1. RxTypes /\ OnePacket
  BY DEF RxInv
<1>2. PICK pkt \in [1..(Beats + 1) -> Nat] : Numbered(pkt) /\ Realigned(pkt) /\ Timely(pkt)
  BY DEF RxInv
<1>3. WithDin <= 7
  <2>1. PICK x \in Nat, y \in Nat : x = WithDin /\ y = UnderWay /\ x <= y /\ y <= 7
    <3>1. PICK x \in Nat, y1 \in Nat, y2 \in Nat, y3 \in Nat, z \in Nat :
            /\ x = WithDin /\ y1 = WithHash /\ y2 = WithIp4 /\ y3 = WithStage1 /\ z = UnderWay
            /\ x <= y1 /\ y1 <= y2 /\ y2 <= y3 /\ y3 <= z /\ z <= 7
      BY <1>1, <1>2, FewIds
    <3>2. QED
      BY <3>1
  <2>2. QED
    BY <2>1
<1>4. Beats' \in 0..6
  <2>1. PICK n \in 0..6, t \in {0, 1}, a \in {0, 1} :
          n = Beats /\ t = Leaves /\ a = Arrives /\ (t = 1 => n > 0)
    BY <1>1, FewBeats DEF Leaves, Arrives, Bit
  <2>2. Beats' = n - t + a
    BY <1>1, <2>1, BufferMoves
  <2>3. t = 0 /\ n # 0 => n <= 5
    <3>1. SUFFICES ASSUME t = 0, n # 0
                   PROVE  n <= 5
      OBVIOUS
    <3>2. buf_fifo # <<>>
      BY <1>1, <2>1, <3>1, FewBeats, EmptySeq
    <3>3. qid_fifo = <<>>
      BY <2>1, <3>1, <3>2 DEF Leaves, Bit
    <3>4. InFifo = 0
      BY <3>3 DEF InFifo
    <3>5. pkt[1] = 1 /\ 1 \in 1..n
      BY <1>2, <3>1 DEF Numbered
    <3>6. pkt[1] > InFifo => n - 1 < 5
      BY <1>2, <2>1, <3>5 DEF Timely
    <3>7. QED
      BY <3>4, <3>5, <3>6
  <2>4. n - t + a \in 0..6
    BY <2>1, <2>3
  <2>5. QED
    BY <2>2, <2>4
<1>5. RxTypes'
  <2>1. rxFilled' \in {0, 1} /\ rxAxis' \in [0..1 -> Rx!RxBeat] /\ tag' \in Rx!Tag
    BY <1>1, SliceMoves DEF Bit
  <2>2. buf_fifo' \in Seq(Rx!RxBeat)
    BY <1>1, BufferMoves
  <2>3. qid_fifo' \in Seq(Rx!Tag)
    BY <1>1, <1>3, FifoMoves
  <2>4. /\ s1_state' \in {"S_S1_IDLE", "S_S1_MORE", "S_S1_PASS"}
        /\ eth_payload' \in Rx!Tag /\ eth_payload_valid' \in BOOLEAN
        /\ ip4' \in Rx!Tag \cup {Rx!None} /\ hash_result' \in Rx!Tag \cup {Rx!None}
        /\ qid_din' \in Rx!Tag \cup {Rx!None}
    <3>1. rxAxis[0].pkt \in Rx!Tag
      BY <1>1 DEF RxTypes, Rx!RxBeat
    <3>2. s1_state' \in {"S_S1_IDLE", "S_S1_MORE", "S_S1_PASS"}
      BY <1>1, <1>3, StagesMove DEF RxTypes
    <3>3. eth_payload' \in Rx!Tag
      BY <1>1, <1>3, <3>1, StagesMove DEF RxTypes
    <3>4. eth_payload_valid' \in BOOLEAN
      BY <1>1, <1>3, StagesMove
    <3>5. /\ ip4' \in Rx!Tag \cup {Rx!None} /\ hash_result' \in Rx!Tag \cup {Rx!None}
          /\ qid_din' \in Rx!Tag \cup {Rx!None}
      BY <1>1, <1>3, StagesMove DEF RxTypes
    <3>6. QED
      BY <3>2, <3>3, <3>4, <3>5
  <2>5. Beats' <= 6
    <3>1. PICK x \in 0..6 : x = Beats'
      BY <1>4
    <3>2. QED
      BY <3>1
  <2>6. QED
    BY <2>1, <2>2, <2>3, <2>4, <2>5 DEF RxTypes
<1>6. OnePacket'
  <2>1. /\ rxFilled' = Bit(tvalid)
        /\ rxAxis' = IF tvalid THEN [rxAxis EXCEPT ![0] = [pkt |-> tag, last |-> last]] ELSE rxAxis
        /\ tag' = IF tvalid /\ last THEN (tag + 1) % Tags ELSE tag
    BY <1>1, SliceMoves
  <2>2. /\ s1_state = "S_S1_IDLE" =>
              s1_state' = IF Arrives = 1 /\ ~rxAxis[0].last THEN "S_S1_MORE" ELSE "S_S1_IDLE"
        /\ s1_state = "S_S1_MORE" => s1_state' = IF rxAxis[0].last THEN "S_S1_IDLE" ELSE "S_S1_PASS"
        /\ s1_state = "S_S1_PASS" =>
              s1_state' = IF Arrives = 1 /\ rxAxis[0].last THEN "S_S1_IDLE" ELSE "S_S1_PASS"
        /\ eth_payload' = IF Opens = 1 THEN rxAxis[0].pkt ELSE eth_payload
        /\ eth_payload_valid' = (s1_state = "S_S1_MORE" \/ (Opens = 1 /\ rxAxis[0].last))
    BY <1>1, <1>3, StagesMove
  <2>3. /\ rxAxis \in [0..1 -> Rx!RxBeat] /\ rxAxis[0].last \in BOOLEAN
        /\ s1_state \in {"S_S1_IDLE", "S_S1_MORE", "S_S1_PASS"} /\ rxFilled \in {0, 1}
    BY <1>1 DEF RxTypes, Rx!RxBeat
  <2>4. /\ Arrives = 1 <=> rxFilled = 1
        /\ Opens = 1 <=> s1_state = "S_S1_IDLE" /\ rxFilled = 1
    BY DEF Arrives, Opens, Bit
  <2>5. tvalid => rxAxis'[0] = [pkt |-> tag, last |-> last] /\ rxFilled' = 1
    BY <2>1, <2>3 DEF Bit
  <2>6. ~tvalid => rxAxis' = rxAxis /\ rxFilled' = 0 /\ tag' = tag
    BY <2>1 DEF Bit
  <2>7. /\ s1_state = "S_S1_MORE" => ~eth_payload_valid /\ (rxFilled = 0 => ~rxAxis[0].last)
        /\ s1_state # "S_S1_IDLE" => (IF rxFilled = 1 THEN rxAxis[0].pkt ELSE tag) = eth_payload
        /\ rxFilled = 1 /\ ~rxAxis[0].last => tag = rxAxis[0].pkt
    BY <1>1 DEF OnePacket
  <2>8. s1_state' = "S_S1_MORE" => ~eth_payload_valid' /\ (rxFilled' = 0 => ~rxAxis'[0].last)
    <3>1. SUFFICES ASSUME s1_state' = "S_S1_MORE"
                   PROVE  ~eth_payload_valid' /\ (rxFilled' = 0 => ~rxAxis'[0].last)
      OBVIOUS
    <3>2. s1_state = "S_S1_IDLE" /\ rxFilled = 1 /\ ~rxAxis[0].last
      BY <2>2, <2>3, <2>4, <3>1
    <3>3. ~eth_payload_valid'
      <4>1. eth_payload_valid' = (s1_state = "S_S1_MORE" \/ (Opens = 1 /\ rxAxis[0].last))
        BY <2>2
      <4>2. QED
        BY <3>2, <4>1
    <3>4. rxFilled' = 0 => ~rxAxis'[0].last
      BY <2>5, <2>6, <3>2
    <3>5. QED
      BY <3>3, <3>4
  \* Inside a packet after the cycle: the tag of the sender is the packet's
  <2>9. s1_state' # "S_S1_IDLE" => tag = eth_payload'
    <3>1. CASE s1_state = "S_S1_IDLE"
      BY <2>2, <2>3, <2>4, <2>7, <3>1
    <3>2. CASE s1_state = "S_S1_MORE"
      BY <2>2, <2>3, <2>4, <2>7, <3>2
    <3>3. CASE s1_state = "S_S1_PASS"
      BY <2>2, <2>3, <2>4, <2>7, <3>3
    <3>4. QED
      BY <2>3, <3>1, <3>2, <3>3
  <2>10. s1_state' # "S_S1_IDLE" => (IF rxFilled' = 1 THEN rxAxis'[0].pkt ELSE tag') = eth_payload'
    <3>1. CASE tvalid
      BY <2>5, <2>9, <3>1
    <3>2. CASE ~tvalid
      BY <2>6, <2>9, <3>2
    <3>3. QED
      BY <3>1, <3>2
  <2>11. rxFilled' = 1 /\ ~rxAxis'[0].last => tag' = rxAxis'[0].pkt
    <3>1. CASE tvalid
      BY <2>1, <2>5, <3>1
    <3>2. CASE ~tvalid
      BY <2>6, <3>2
    <3>3. QED
      BY <3>1, <3>2
  <2>12. QED
    BY <2>8, <2>10, <2>11 DEF OnePacket
<1>7. \E w \in [1..(Beats' + 1) -> Nat] : Numbered(w)' /\ Realigned(w)' /\ Timely(w)'
  BY <1>1, <1>2, NumbersMove
<1>8. QED
  BY <1>5, <1>6, <1>7 DEF RxInv

LEMMA RxStart ==
  ASSUME Rx!RxAssumption, Rx!Init
  PROVE  RxInv
<1> USE TagNone
<1>1. /\ setup \in Setups
      /\ rxFilled = 0 /\ rxAxis = [i \in 0..1 |-> [pkt |-> 0, last |-> FALSE]]
      /\ s1_state = "S_S1_IDLE" /\ eth_payload = 0 /\ eth_payload_valid = FALSE
      /\ ip4 = Rx!None /\ hash_result = Rx!None /\ qid_din = Rx!None
      /\ buf_fifo = <<>> /\ qid_fifo = <<>> /\ tag = 0
  BY DEF Rx!Init
<1>2. Beats = 0
  BY <1>1 DEF Beats
<1>3. RxTypes
  <2>1. [pkt |-> 0, last |-> FALSE] \in Rx!RxBeat
    BY DEF Rx!RxBeat
  <2>2. eth_payload_valid \in BOOLEAN
    BY <1>1
  <2>3. QED
    BY <1>1, <1>2, <2>1, <2>2 DEF RxTypes
<1>4. OnePacket
  BY <1>1 DEF OnePacket
<1>5. UnderWay = 0
  BY <1>1 DEF UnderWay, WithStage1, WithIp4, WithHash, WithDin, InFifo, Valid, Bit
<1>6. PICK w \in [1..1 -> Nat] : w = [k \in 1..1 |-> 1]
  OBVIOUS
<1>7. Numbered(w) /\ Realigned(w) /\ Timely(w)
  BY <1>1, <1>2, <1>5, <1>6 DEF Numbered, Realigned, Timely
<1>8. w \in [1..(Beats + 1) -> Nat]
  BY <1>2
<1>9. QED
  BY <1>3, <1>4, <1>7, <1>8 DEF RxInv

\* What follows for the receiver that never stalls
LEMMA RxPromise ==
  ASSUME RxInv, Deep(setup)
  PROVE  Rx!QidRealigned /\ Rx!axis_c2h_tready
<1>1. RxTypes
  BY DEF RxInv
<1>2. PICK pkt \in [1..(Beats + 1) -> Nat] : Numbered(pkt) /\ Realigned(pkt)
  BY DEF RxInv
<1>3. Rx!axis_c2h_tready
  <2>1. PICK n \in 0..6 : n = Len(buf_fifo)
    BY <1>1, FewBeats
  <2>2. QED
    BY <2>1 DEF Deep, Rx!axis_c2h_tready
<1>4. ASSUME buf_fifo # <<>>, qid_fifo # <<>>
      PROVE  Head(qid_fifo) = Head(buf_fifo).pkt
  <2>1. PICK n \in 1..6 : n = Beats
    BY <1>1, <1>4, FewBeats
  <2>2. PICK m \in Nat : m = InFifo /\ m >= 1
    BY <1>1, <1>4, LenProperties, EmptySeq DEF RxTypes, InFifo
  <2>3. buf_fifo[1].pkt = QidAt(pkt[1]) /\ pkt[1] = 1
    BY <1>2, <2>1 DEF Realigned, Numbered
  <2>4. QidAt(1) = qid_fifo[1]
    BY <2>2 DEF QidAt
  <2>5. Head(qid_fifo) = qid_fifo[1] /\ Head(buf_fifo) = buf_fifo[1]
    BY <1>4
  <2>6. QED
    BY <2>3, <2>4, <2>5
<1>5. QED
  BY <1>3, <1>4 DEF Rx!QidRealigned, Rx!m_axis_c2h_tvalid

-----------------------------------------------------------------------------
(* The types, whether or not the receiver stalls *)

LEMMA SliceTypes ==
  ASSUME Rx!Slice!TypeOK, NEW tvalid, NEW beat \in Rx!RxBeat, NEW ready,
         Rx!Slice!Clock(tvalid, beat, ready)
  PROVE  Rx!Slice!TypeOK'
BY DEF Rx!Slice!TypeOK, Rx!Slice!Clock, Rx!Slice!FillFirst, Rx!Slice!PassOn, Rx!Slice!FillSecond,
       Rx!Slice!Drain, Rx!Slice!Shift, Rx!Slice!Stall, Rx!Slice!vars

LEMMA RxTypeStep ==
  ASSUME Rx!RxAssumption, Rx!TypeOK,
         NEW tvalid \in BOOLEAN, NEW last \in BOOLEAN, NEW m_tready \in BOOLEAN,
         Rx!Clock(tvalid, last, m_tready)
  PROVE  Rx!TypeOK'
<1> USE TagNone
<1>1. /\ setup \in Setups /\ setup' = setup
      /\ setup.BufDepth \in Nat /\ setup.QidDepth \in Nat
  BY DEF Rx!TypeOK, Rx!Clock, Rx!RxAssumption
<1>2. Rx!Slice!TypeOK' /\ Rx!Beat \in Rx!RxBeat
  <2>1. [pkt |-> tag, last |-> last] \in Rx!RxBeat
    BY DEF Rx!TypeOK, Rx!RxBeat
  <2>2. Rx!Slice!TypeOK'
    BY <2>1, SliceTypes DEF Rx!TypeOK, Rx!Clock
  <2>3. QED
    BY <2>2 DEF Rx!TypeOK, Rx!Slice!TypeOK, Rx!Beat
<1>3. /\ s1_state' \in {"S_S1_IDLE", "S_S1_MORE", "S_S1_PASS"}
      /\ eth_payload' \in Rx!Tag /\ eth_payload_valid' \in BOOLEAN
  <2>1. Rx!Beat.pkt \in Rx!Tag /\ Rx!Beat.last \in BOOLEAN
    BY <1>2 DEF Rx!RxBeat
  <2>2. CASE Rx!S1Idle
    BY <2>1, <2>2 DEF Rx!S1Idle, Rx!TypeOK
  <2>3. CASE Rx!S1More
    <3>1. eth_payload_valid' = TRUE
      BY <2>3 DEF Rx!S1More
    <3>2. QED
      BY <2>1, <2>3, <3>1 DEF Rx!S1More, Rx!TypeOK
  <2>4. CASE Rx!S1Pass
    <3>1. eth_payload_valid' = FALSE
      BY <2>4 DEF Rx!S1Pass
    <3>2. QED
      BY <2>1, <2>4, <3>1 DEF Rx!S1Pass, Rx!TypeOK
  <2>5. QED
    BY <2>2, <2>3, <2>4 DEF Rx!Clock, Rx!S1Step
<1>4. {ip4, hash_result, qid_din}' \subseteq Rx!Tag \cup {Rx!None}
  BY DEF Rx!Clock, Rx!Ip4Step, Rx!HashStep, Rx!QidDinStep, Rx!TypeOK
<1>5. buf_fifo' \in Seq(Rx!RxBeat) /\ Len(buf_fifo') <= setup.BufDepth
  <2> DEFINE rest == IF Rx!Taken(m_tready) THEN Tail(buf_fifo) ELSE buf_fifo
             new == IF Rx!Accepted THEN <<Rx!Beat>> ELSE <<>>
  <2>1. buf_fifo' = rest \o new
    BY DEF Rx!Clock, Rx!BufFifoStep
  <2>2. buf_fifo \in Seq(Rx!RxBeat) /\ Len(buf_fifo) <= setup.BufDepth /\ Len(buf_fifo) \in Nat
    BY LenProperties DEF Rx!TypeOK
  <2>3. rest \in Seq(Rx!RxBeat) /\ Len(rest) <= Len(buf_fifo) /\ Len(rest) \in Nat
    BY <2>2 DEF Rx!Taken, Rx!m_axis_c2h_tvalid
  <2>4. new \in Seq(Rx!RxBeat) /\ Len(new) \in {0, 1}
           /\ (Len(new) = 1 => Len(buf_fifo) < setup.BufDepth)
    BY <1>2 DEF Rx!Accepted, Rx!axis_c2h_tready
  <2> HIDE DEF rest, new
  <2>5. Len(rest \o new) = Len(rest) + Len(new) /\ rest \o new \in Seq(Rx!RxBeat)
    BY <2>3, <2>4
  <2>6. PICK x \in Nat, y \in Nat, z \in {0, 1}, d \in Nat :
          x = Len(buf_fifo) /\ y = Len(rest) /\ z = Len(new) /\ d = setup.BufDepth
    BY <1>1, <2>2, <2>3, <2>4
  <2>7. x <= d /\ y <= x /\ (z = 1 => x < d)
    BY <2>2, <2>3, <2>4, <2>6
  <2>8. y + z <= d
    BY <2>7
  <2>9. QED
    BY <2>1, <2>5, <2>6, <2>8
<1>6. qid_fifo' \in Seq(Rx!Tag) /\ Len(qid_fifo') <= setup.QidDepth
  <2> DEFINE rest == IF Rx!qid_fifo_rd_en(m_tready) THEN Tail(qid_fifo) ELSE qid_fifo
             new == IF qid_din # Rx!None
                /\ Len(qid_fifo) < setup.QidDepth THEN <<qid_din>> ELSE <<>>
  <2>1. qid_fifo' = rest \o new
    BY DEF Rx!Clock, Rx!QidFifoStep
  <2>2. qid_fifo \in Seq(Rx!Tag) /\ Len(qid_fifo) <= setup.QidDepth /\ Len(qid_fifo) \in Nat
    BY LenProperties DEF Rx!TypeOK
  <2>3. rest \in Seq(Rx!Tag) /\ Len(rest) <= Len(qid_fifo) /\ Len(rest) \in Nat
    BY <2>2 DEF Rx!qid_fifo_rd_en, Rx!Taken, Rx!m_axis_c2h_tvalid
  <2>4. new \in Seq(Rx!Tag) /\ Len(new) \in {0, 1}
           /\ (Len(new) = 1 => Len(qid_fifo) < setup.QidDepth)
    BY DEF Rx!TypeOK
  <2> HIDE DEF rest, new
  <2>5. Len(rest \o new) = Len(rest) + Len(new) /\ rest \o new \in Seq(Rx!Tag)
    BY <2>3, <2>4
  <2>6. PICK x \in Nat, y \in Nat, z \in {0, 1}, d \in Nat :
          x = Len(qid_fifo) /\ y = Len(rest) /\ z = Len(new) /\ d = setup.QidDepth
    BY <1>1, <2>2, <2>3, <2>4
  <2>7. x <= d /\ y <= x /\ (z = 1 => x < d)
    BY <2>2, <2>3, <2>4, <2>6
  <2>8. y + z <= d
    BY <2>7
  <2>9. QED
    BY <2>1, <2>5, <2>6, <2>8
<1>7. tag' \in Rx!Tag /\ open' \in BOOLEAN
  BY DEF Rx!Clock, Rx!SendStep, Rx!TypeOK
<1>8. QED
  BY <1>1, <1>2, <1>3, <1>4, <1>5, <1>6, <1>7 DEF Rx!TypeOK

LEMMA RxTypeStart ==
  ASSUME Rx!RxAssumption, Rx!Init
  PROVE  Rx!TypeOK
<1> USE TagNone
<1>1. Rx!Slice!TypeOK
  <2>1. [pkt |-> 0, last |-> FALSE] \in Rx!RxBeat
    BY DEF Rx!RxBeat
  <2>2. QED
    BY <2>1 DEF Rx!Init, Rx!Slice!TypeOK
<1>2. /\ setup \in Setups /\ setup.BufDepth \in Nat /\ setup.QidDepth \in Nat
  BY DEF Rx!Init, Rx!RxAssumption
<1>3. /\ s1_state \in {"S_S1_IDLE", "S_S1_MORE", "S_S1_PASS"}
      /\ eth_payload \in Rx!Tag
      /\ {ip4, hash_result, qid_din} \subseteq Rx!Tag \cup {Rx!None}
      /\ tag \in Rx!Tag
  BY DEF Rx!Init
<1>4. eth_payload_valid \in BOOLEAN /\ open \in BOOLEAN
  <2>1. eth_payload_valid = FALSE /\ open = FALSE
    BY DEF Rx!Init
  <2>2. QED
    BY <2>1
<1>5. /\ buf_fifo \in Seq(Rx!RxBeat) /\ Len(buf_fifo) <= setup.BufDepth
      /\ qid_fifo \in Seq(Rx!Tag) /\ Len(qid_fifo) <= setup.QidDepth
  BY <1>2 DEF Rx!Init
<1>6. QED
  BY <1>1, <1>2, <1>3, <1>4, <1>5 DEF Rx!TypeOK

-----------------------------------------------------------------------------
(* Both directions *)

\* The depths that cover the latency of the queue ID for a receiver that never
\* stalls; C_PKT_FIFO_DEPTH and C_QID_FIFO_DEPTH are 32.
Covered == \A s \in Setups : ~s.stalls => s.BufDepth >= 7 /\ s.QidDepth >= 7

FunctionsInv ==
    /\ IInv
    /\ Rx!TypeOK
    /\ ~setup.stalls => RxInv

LEMMA FunctionsInvariance ==
  ASSUME Rx!RxAssumption, Covered
  PROVE  MCSpec => []FunctionsInv
<1>1. MCInit => FunctionsInv
  <2>1. Init => IInv
    <3>1. Init => PacketInFlight
      BY H2CAssumption DEF Init, PacketInFlight, Func
    <3>2. Init => SlicesInOrder
      BY H2CAssumption DEF Init, SlicesInOrder, Run, Continues, Func
    <3>3. QED
      BY <3>1, <3>2 DEF IInv
  <2>2. QED
    BY <2>1, RxTypeStart, RxStart DEF MCInit, FunctionsInv
<1>2. FunctionsInv /\ [MCNext]_MCVars => FunctionsInv'
  <2> SUFFICES ASSUME FunctionsInv, [MCNext]_MCVars
               PROVE  FunctionsInv'
    OBVIOUS
  <2>1. UNCHANGED vars => IInv'
    BY DEF FunctionsInv, vars, IInv, PacketInFlight, SlicesInOrder, Continues
  <2>2. UNCHANGED rxVars => Rx!TypeOK' /\ (~setup'.stalls => RxInv')
    BY DEF FunctionsInv, rxVars, Rx!TypeOK, Rx!Slice!TypeOK, RxInv, RxTypes, OnePacket, Numbered,
         Realigned, Timely,
         Beats, InFifo, WithDin, WithHash, WithIp4, WithStage1, UnderWay, QidAt
  <2>3. CASE H2C(Next)
    <3>1. Next /\ UNCHANGED rxVars
      BY <2>3 DEF H2C
    <3>2. PICK ready \in SUBSET Func, tvalid \in BOOLEAN, beat \in NextBeat :
               Clock(tvalid, beat, ready)
      BY <3>1 DEF Next, Cycle
    <3>3. IInv'
      BY <3>2, ClockKeepsPacket, ClockKeepsOrder DEF FunctionsInv, IInv
    <3>4. QED
      BY <2>2, <3>1, <3>3 DEF FunctionsInv
  <2>4. CASE Receives(Rx!Next)
    <3>1. Rx!Next /\ UNCHANGED vars
      BY <2>4 DEF Receives
    <3>2. PICK m_tready \in BOOLEAN, tvalid \in BOOLEAN, last \in BOOLEAN :
            /\ Rx!Clock(tvalid, last, m_tready)
            /\ ~setup.stalls => m_tready = TRUE
      BY <3>1 DEF Rx!Next, Rx!Cycle
    <3>3. Rx!TypeOK'
      BY <3>2, RxTypeStep DEF FunctionsInv
    <3>4. setup' = setup
      BY <3>2 DEF Rx!Clock
    <3>5. ASSUME ~setup.stalls
          PROVE  RxInv'
      <4>1. Deep(setup)
        BY <3>5 DEF FunctionsInv, Rx!TypeOK, Rx!RxAssumption, Covered, Deep
      <4>2. Rx!Clock(tvalid, last, TRUE)
        BY <3>2, <3>5
      <4>3. QED
        BY <3>5, <4>1, <4>2, RxStep DEF FunctionsInv
    <3>6. QED
      BY <2>1, <3>1, <3>3, <3>4, <3>5 DEF FunctionsInv
  <2>5. CASE UNCHANGED MCVars
    BY <2>1, <2>2, <2>5 DEF MCVars, FunctionsInv
  <2>6. QED
    BY <2>3, <2>4, <2>5 DEF MCNext
<1>3. QED
  BY <1>1, <1>2, PTL DEF MCSpec

\* A packet leaves with the queue ID computed from its own first beats, whatever
\* its length and the pauses of the sender, if the receiver never stalls
\* (qdma_subsystem_function.sv:327-330).
THEOREM FunctionsQidOfPacket ==
  ASSUME Rx!RxAssumption, Covered
  PROVE  MCSpec => []QidOfPacket
<1>1. FunctionsInv => QidOfPacket
  <2> SUFFICES ASSUME FunctionsInv, ~setup.stalls
               PROVE  Rx!QidRealigned
    BY DEF QidOfPacket, Rx!QidOfPacket
  <2>1. Deep(setup)
    BY DEF FunctionsInv, Rx!TypeOK, Rx!RxAssumption, Covered, Deep
  <2>2. QED
    BY <2>1, RxPromise DEF FunctionsInv
<1>2. QED
  BY <1>1, FunctionsInvariance, PTL

\* FIFOs of seven words cover the latency of the queue ID: a receiver that never
\* stalls never makes the path stall (qdma_subsystem_function.sv:81-82); and the
\* registers of both directions keep their types.
THEOREM FunctionsNeverStall ==
  ASSUME Rx!RxAssumption, Covered
  PROVE  MCSpec => []NeverStalls
<1>1. FunctionsInv => NeverStalls
  <2> SUFFICES ASSUME FunctionsInv
               PROVE  NeverStalls
    OBVIOUS
  <2>1. TypeOK
    BY DEF FunctionsInv, IInv, PacketInFlight, SlicesInOrder, TypeOK, Slice!TypeOK
  <2>2. ~setup.stalls => Rx!axis_c2h_tready
    <3>1. SUFFICES ASSUME ~setup.stalls
                   PROVE  Rx!axis_c2h_tready
      OBVIOUS
    <3>2. Deep(setup)
      BY <3>1 DEF FunctionsInv, Rx!TypeOK, Rx!RxAssumption, Covered, Deep
    <3>3. QED
      BY <3>1, <3>2, RxPromise DEF FunctionsInv
  <2>3. QED
    BY <2>1, <2>2 DEF NeverStalls, FunctionsInv, Rx!NeverStalls
<1>2. QED
  BY <1>1, FunctionsInvariance, PTL
==============================================================================
