---------------------------- MODULE QdmaC2HProofs ----------------------------
(***************************************************************************)
(* The card-to-host stream, for every number of functions and every depth  *)
(* of the completion FIFO: the functions are the environment the arbiter   *)
(* was proved correct in (RRArbiterProofs), and their packets never mix.   *)
(***************************************************************************)
EXTENDS QdmaC2H, TLAPS

USE C2HAssumption DEF Func

\* What the next-state relation says, once the inputs are fixed.
LEMMA NextIsCycle ==
  ASSUME Next
  PROVE  \E m_tready, cpl_tready \in BOOLEAN : \E dout \in Arb!q_doutValues :
            Cycle(m_tready, cpl_tready, dout)
  BY DEF Next

-----------------------------------------------------------------------------
(* The arbiter's environment *)

\* The functions raise a request until its fin and only the granted function
\* finishes, which is what the arbiter asks for (qdma_subsystem_c2h.sv:114-146).
THEOREM C2HArbiterContract == Spec => ArbiterContract
<1>1. Init => Arb!Init
  BY DEF Init, Arb!Init, Arb!Channel, Arb!S_IDLE
<1>2. [Next]_vars => [Arb!Next]_(Arb!vars)
  <2>1. SUFFICES ASSUME [Next]_vars
                 PROVE  [Arb!Next]_(Arb!vars)
    OBVIOUS
  <2>2. CASE UNCHANGED vars
    BY <2>2 DEF vars, arbVars, Arb!vars, Arb!arbVars
  <2>3. ASSUME NEW m_tready \in BOOLEAN, NEW cpl_tready \in BOOLEAN,
               NEW dout \in Arb!q_doutValues, Cycle(m_tready, cpl_tready, dout)
        PROVE  Arb!Next
    <3> DEFINE ready == arb_ready(m_tready)
               grant == Arb!Grant(Arb!ValidReq(arb_req, dout), ready)
               new == s_axis_c2h_tvalid \ processing
    <3>1. /\ Arb!Clock(arb_req, arb_fin(grant), ready, dout)
          /\ processing' = (processing \cup s_axis_c2h_tvalid) \ arb_fin(grant)
      BY <2>3 DEF Cycle, ProcessingStep
    <3>2. arb_req = processing \cup new
      BY DEF arb_req
    <3>3. /\ new \in SUBSET (Arb!Channel \ processing)
          /\ arb_fin(grant) \in SUBSET Arb!Channel
          /\ ready \in BOOLEAN
      BY DEF s_axis_c2h_tvalid, arb_fin, LastOffered, Arb!Channel, arb_ready, Slice!s_axis_tready
    <3>4. arb_fin(grant) \subseteq arb_req \cap grant
      BY DEF arb_fin, LastOffered, arb_req, s_axis_c2h_tvalid
    <3>5. Arb!Cycle(arb_req, arb_fin(grant), ready, dout)
      BY <3>1, <3>4 DEF Arb!Cycle, arb_req
    <3> HIDE DEF ready, grant, new
    <3>6. QED
      BY <3>2, <3>3, <3>5 DEF Arb!Next
  <2>4. QED
    BY <2>1, <2>2, <2>3, NextIsCycle
<1>3. QED
  BY <1>1, <1>2, PTL DEF Spec, ArbiterContract, Arb!Spec

-----------------------------------------------------------------------------
(* Packets stay whole *)

\* The functions inside whose packet the stream is, seen from the arbiter:
\* at the slice's output, unless the slice holds a beat that changes it.
OpenAtSlice ==
    IF filled THEN IF axis.last THEN {} ELSE {axis.func} ELSE rx_open

\* The owner of the resource is one function, and an open packet's function
\* owns it until its last beat is in the slice.
OwnerSendsPacket ==
    /\ state \in {"S_IDLE", "S_BUSY"}
    /\ filled \in BOOLEAN
    /\ state = "S_BUSY" => \E c : granted = {c}
    /\ OpenAtSlice # {} => state = "S_BUSY" /\ granted = OpenAtSlice
    /\ NoInterleaving

LEMMA ArbiterGrantsOne ==
  ASSUME OwnerSendsPacket, NEW valid, NEW ready
  PROVE  /\ Arb!Grant(valid, ready) # {} => \E c : Arb!Grant(valid, ready) = {c}
         /\ Arb!NextGranted(valid) # {} => \E c : Arb!NextGranted(valid) = {c}
         /\ state = "S_BUSY" => Arb!Grant(valid, ready) \subseteq granted
         /\ state = "S_IDLE" => Arb!Grant(valid, ready) \subseteq Arb!NextGranted(valid)
         /\ ~ready => Arb!Grant(valid, ready) = {}
  BY DEF OwnerSendsPacket, Arb!Grant, Arb!NextGranted, Arb!S_IDLE

\* The arbiter in one cycle, in the terms of the stream.
ArbiterCycle(valid, grant, fin) ==
    \/ state = "S_BUSY" /\ fin \cap grant = {} /\ UNCHANGED <<granted, state>>
    \/ state = "S_BUSY" /\ fin \cap grant # {} /\ state' = "S_IDLE"
    \/ state = "S_IDLE" /\ fin \cap grant # {} /\ state' = "S_IDLE"
    \/ /\ state = "S_IDLE" /\ fin \cap grant = {} /\ state' = "S_BUSY"
       /\ Arb!NextGranted(valid) # {}
       /\ granted' = Arb!NextGranted(valid)
    \/ state = "S_IDLE" /\ grant = {} /\ state' = "S_IDLE"

LEMMA ArbiterMoves ==
  ASSUME NEW req, NEW fin, NEW ready, NEW dout,
         Arb!Clock(req, fin, ready, dout)
  PROVE  LET valid == Arb!ValidReq(req, dout)
         IN  ArbiterCycle(valid, Arb!Grant(valid, ready), fin)
  BY DEF Arb!Clock, Arb!Rest, Arb!Start, Arb!StartAndFinish, Arb!Finish, Arb!Hold,
         Arb!Grant, Arb!S_IDLE, Arb!S_BUSY, ArbiterCycle

\* The slice takes a beat exactly when the granted function offers one.
SliceTakes(grant, m_tready) ==
    IF Selected(grant) = {}
    THEN filled' = (filled /\ ~m_tready) /\ axis' = axis
    ELSE /\ ~filled \/ m_tready
         /\ filled'
         /\ \E i \in Selected(grant) : axis' = [func |-> i, last |-> offer[i] = "last"]

LEMMA SliceMoves ==
  ASSUME OwnerSendsPacket, NEW valid, NEW m_tready \in BOOLEAN,
         SliceStep(Arb!Grant(valid, arb_ready(m_tready)), m_tready)
  PROVE  SliceTakes(Arb!Grant(valid, arb_ready(m_tready)), m_tready)
<1> DEFINE grant == Arb!Grant(valid, arb_ready(m_tready))
<1>1. filled \in BOOLEAN
  BY DEF OwnerSendsPacket
<1>2. Selected(grant) # {} => ~filled \/ m_tready
  <2>1. Selected(grant) # {} => grant # {}
    BY DEF Selected
  <2>2. grant # {} => arb_ready(m_tready)
    BY ArbiterGrantsOne
  <2>3. QED
    BY <2>1, <2>2 DEF arb_ready, Slice!s_axis_tready
<1> HIDE DEF grant
<1>3. CASE Selected(grant) = {}
  <2>1. Slice!Clock(FALSE, axis, m_tready)
    BY <1>3 DEF SliceStep, grant
  <2>2. filled' = (filled /\ ~m_tready) /\ axis' = axis
    BY <1>1, <2>1 DEF Slice!Clock, Slice!FillEmpty, Slice!Replace, Slice!Drain, Slice!Stall, Slice!vars
  <2>3. QED
    BY <1>3, <2>2 DEF SliceTakes, grant
<1>4. CASE Selected(grant) # {}
  <2>1. PICK i \in Selected(grant) :
            Slice!Clock(TRUE, [func |-> i, last |-> offer[i] = "last"], m_tready)
    BY <1>4 DEF SliceStep, grant
  <2>2. filled' /\ axis' = [func |-> i, last |-> offer[i] = "last"]
    BY <1>1, <1>2, <1>4, <2>1 DEF Slice!Clock, Slice!FillEmpty, Slice!Replace, Slice!Drain, Slice!Stall
  <2>3. QED
    BY <1>2, <1>4, <2>1, <2>2 DEF SliceTakes, grant
<1>5. QED
  BY <1>3, <1>4

LEMMA CycleKeepsOwner ==
  ASSUME OwnerSendsPacket, NEW m_tready \in BOOLEAN, NEW cpl_tready \in BOOLEAN,
         NEW dout \in Arb!q_doutValues, Cycle(m_tready, cpl_tready, dout)
  PROVE  OwnerSendsPacket'
<1> DEFINE valid == Arb!ValidReq(arb_req, dout)
           grant == Arb!Grant(valid, arb_ready(m_tready))
           fin == arb_fin(grant)
<1>1. ArbiterCycle(valid, grant, fin)
  BY ArbiterMoves DEF Cycle
<1>2. SliceTakes(grant, m_tready)
  BY SliceMoves DEF Cycle
<1>3. /\ grant # {} => \E c : grant = {c}
      /\ Arb!NextGranted(valid) # {} => \E c : Arb!NextGranted(valid) = {c}
      /\ state = "S_BUSY" => grant \subseteq granted
      /\ state = "S_IDLE" => grant \subseteq Arb!NextGranted(valid)
  BY ArbiterGrantsOne
<1>4. RxStep(m_tready)
  BY DEF Cycle
<1>5. /\ fin = LastOffered \cap grant
      /\ Selected(grant) = s_axis_c2h_tvalid \cap grant
      /\ LastOffered \subseteq s_axis_c2h_tvalid
  BY DEF arb_fin, Selected, LastOffered, s_axis_c2h_tvalid
<1> HIDE DEF valid, grant, fin
<1>6. /\ state' \in {"S_IDLE", "S_BUSY"}
      /\ state' = "S_BUSY" => \E c : granted' = {c}
  BY <1>1, <1>3 DEF ArbiterCycle, OwnerSendsPacket
<1>7. CASE Selected(grant) = {}
  <2>1. filled' = (filled /\ ~m_tready) /\ axis' = axis
    BY <1>2, <1>7 DEF SliceTakes
  <2>2. OpenAtSlice' = OpenAtSlice /\ filled' \in BOOLEAN
    BY <1>4, <2>1 DEF OpenAtSlice, RxStep, OwnerSendsPacket
  <2>3. fin = {}
    BY <1>5, <1>7
  <2>4. OpenAtSlice # {} => state' = "S_BUSY" /\ granted' = OpenAtSlice
    BY <1>1, <2>3 DEF ArbiterCycle, OwnerSendsPacket
  <2>5. NoInterleaving'
    BY <1>4, <2>1 DEF NoInterleaving, RxStep, OwnerSendsPacket
  <2>6. QED
    BY <1>6, <2>2, <2>4, <2>5 DEF OwnerSendsPacket
<1>8. CASE Selected(grant) # {}
  <2>1. PICK i \in Selected(grant) :
            filled' /\ axis' = [func |-> i, last |-> offer[i] = "last"]
    BY <1>2, <1>8 DEF SliceTakes
  <2>2. grant = {i} /\ (i \in LastOffered <=> offer[i] = "last")
    <3>1. i \in grant /\ i \in Func
      BY <1>5, <2>1 DEF s_axis_c2h_tvalid
    <3>2. QED
      BY <1>3, <3>1 DEF LastOffered
  <2>3. OpenAtSlice' = IF i \in LastOffered THEN {} ELSE {i}
    BY <2>1, <2>2 DEF OpenAtSlice
  <2>4. rx_open' = OpenAtSlice
    BY <1>2, <1>4, <1>8 DEF SliceTakes, RxStep, OpenAtSlice
  <2>5. i \notin LastOffered => state' = "S_BUSY" /\ granted' = {i}
    <3>1. i \notin LastOffered => fin \cap grant = {}
      BY <1>5, <2>2
    <3>2. CASE state = "S_BUSY"
      BY <1>1, <1>3, <2>2, <3>1, <3>2 DEF ArbiterCycle, OwnerSendsPacket
    <3>3. CASE state = "S_IDLE"
      BY <1>1, <1>3, <2>2, <3>1, <3>3 DEF ArbiterCycle
    <3>4. QED
      BY <3>2, <3>3 DEF OwnerSendsPacket
  <2>6. OpenAtSlice # {} => OpenAtSlice = {i}
    BY <1>3, <2>2 DEF OwnerSendsPacket
  <2>7. NoInterleaving'
    BY <2>1, <2>4, <2>6 DEF NoInterleaving
  <2>8. QED
    BY <1>6, <2>1, <2>3, <2>5, <2>7 DEF OwnerSendsPacket
<1>9. QED
  BY <1>7, <1>8

\* While the core is inside a packet it only sees that packet's function,
\* whatever the functions, the core and the completion FIFO do.
THEOREM C2HNoInterleaving == Spec => []NoInterleaving
<1>1. Init => OwnerSendsPacket
  BY DEF Init, OwnerSendsPacket, OpenAtSlice, NoInterleaving
<1>2. OwnerSendsPacket /\ [Next]_vars => OwnerSendsPacket'
  <2>1. SUFFICES ASSUME OwnerSendsPacket, [Next]_vars
                 PROVE  OwnerSendsPacket'
    OBVIOUS
  <2>2. CASE UNCHANGED vars
    BY <2>1, <2>2 DEF vars, arbVars, OwnerSendsPacket, OpenAtSlice, NoInterleaving
  <2>3. CASE Next
    BY <2>1, <2>3, NextIsCycle, CycleKeepsOwner
  <2>4. QED
    BY <2>1, <2>2, <2>3
<1>3. OwnerSendsPacket => NoInterleaving
  BY DEF OwnerSendsPacket
<1>4. QED
  BY <1>1, <1>2, <1>3, PTL DEF Spec
-----------------------------------------------------------------------------
(* Completions: the margin below full *)

SliceHolds == IF filled THEN 1 ELSE 0

\* prog_full is two cycles late: in each a beat may still enter the slice, and
\* the last of them may wait there.  What is in the FIFO and in the slice
\* together stays within three words above the threshold.
CompletionMargin ==
    /\ cpl_fifo \in Seq([func : Func, id : 0..(PldIdMod - 1)])
    /\ axis \in C2HBeat /\ pkt_pld_id \in 0..(PldIdMod - 1)
    /\ prog_full \in [1..2 -> BOOLEAN]
    /\ ~prog_full[2] => Len(cpl_fifo) <= ProgFullThresh
    /\ ~prog_full[1] => Len(cpl_fifo) + SliceHolds <= ProgFullThresh + 2
    /\ Len(cpl_fifo) + SliceHolds <= ProgFullThresh + 3

\* In one cycle at most one completion goes and at most one comes.
LEMMA CplFifoLength ==
  ASSUME CompletionMargin, OwnerSendsPacket, NEW m_tready \in BOOLEAN, NEW cpl_tready \in BOOLEAN,
         CplFifoStep(m_tready, cpl_tready)
  PROVE  /\ cpl_fifo' \in Seq([func : Func, id : 0..(PldIdMod - 1)])
         /\ Len(cpl_fifo') \in 0..(Len(cpl_fifo) + (IF filled /\ m_tready THEN 1 ELSE 0))
<1> DEFINE Cpl == [func : Func, id : 0..(PldIdMod - 1)]
           queue == IF cpl_fifo # <<>> /\ cpl_tready THEN Tail(cpl_fifo) ELSE cpl_fifo
<1>1. cpl_fifo \in Seq(Cpl) /\ axis \in C2HBeat /\ filled \in BOOLEAN
  BY DEF CompletionMargin, OwnerSendsPacket
<1>2. Completion \in Cpl
  BY <1>1 DEF Completion, C2HBeat, CompletionMargin
<1>3. CplPush(m_tready) \in Seq(Cpl)
      /\ Len(CplPush(m_tready)) \in 0..(IF filled /\ m_tready THEN 1 ELSE 0)
  <2>1. CASE CplPush(m_tready) = <<>>
    BY <2>1
  <2>2. CASE CplPush(m_tready) # <<>>
    <3>1. CplPush(m_tready) = <<Completion>> /\ filled /\ m_tready
      BY <2>2 DEF CplPush, cpl_fifo_wr_en
    <3>2. <<Completion>> \in Seq(Cpl) /\ Len(<<Completion>>) = 1
      BY <1>2
    <3> HIDE DEF Cpl
    <3>3. (IF filled /\ m_tready THEN 1 ELSE 0) = 1
      BY <3>1
    <3>4. CplPush(m_tready) \in Seq(Cpl) /\ Len(CplPush(m_tready)) = 1
      BY <3>1, <3>2
    <3>5. QED
      BY <3>3, <3>4
  <2>3. QED
    BY <2>1, <2>2
<1>4. queue \in Seq(Cpl) /\ Len(queue) \in 0..Len(cpl_fifo)
  BY <1>1
<1>5. cpl_fifo' = queue \o CplPush(m_tready)
  BY DEF CplFifoStep
<1> HIDE DEF queue, Cpl
<1>6. cpl_fifo' \in Seq(Cpl) /\ Len(cpl_fifo') = Len(queue) + Len(CplPush(m_tready))
  BY <1>3, <1>4, <1>5
<1>7. QED
  BY <1>1, <1>3, <1>4, <1>6 DEF Cpl

LEMMA PairOfFlags == \A a, b \in BOOLEAN : <<a, b>> \in [1..2 -> BOOLEAN]
  OBVIOUS

LEMMA CycleKeepsMargin ==
  ASSUME CompletionMargin, OwnerSendsPacket, NEW m_tready \in BOOLEAN, NEW cpl_tready \in BOOLEAN,
         NEW dout \in Arb!q_doutValues, Cycle(m_tready, cpl_tready, dout)
  PROVE  CompletionMargin'
<1> DEFINE grant == Arb!Grant(Arb!ValidReq(arb_req, dout), arb_ready(m_tready))
           sent == IF filled /\ m_tready THEN 1 ELSE 0
<1>1. /\ cpl_fifo' \in Seq([func : Func, id : 0..(PldIdMod - 1)])
      /\ Len(cpl_fifo') \in 0..(Len(cpl_fifo) + sent)
  BY CplFifoLength DEF Cycle
<1>2. SliceTakes(grant, m_tready)
  BY SliceMoves DEF Cycle
<1>3. prog_full' = <<prog_full[2], Len(cpl_fifo) >= ProgFullThresh>>
  BY DEF Cycle, CplFifoStep
<1>4. filled \in BOOLEAN /\ filled' \in BOOLEAN
  BY <1>2 DEF SliceTakes, OwnerSendsPacket
<1>5. prog_full[1] => Selected(grant) = {}
  <2>1. ~arb_ready(m_tready) => grant = {}
    BY ArbiterGrantsOne
  <2>2. QED
    BY <2>1 DEF arb_ready, Selected
<1>6. axis' \in C2HBeat /\ pkt_pld_id' \in 0..(PldIdMod - 1)
  <2>1. axis' \in C2HBeat
    <3>1. CASE Selected(grant) = {}
      BY <1>2, <3>1 DEF SliceTakes, CompletionMargin
    <3>2. CASE Selected(grant) # {}
      <4>1. PICK i \in Selected(grant) : axis' = [func |-> i, last |-> offer[i] = "last"]
        BY <1>2, <3>2 DEF SliceTakes
      <4>2. i \in Func /\ (offer[i] = "last") \in BOOLEAN
        BY DEF Selected, s_axis_c2h_tvalid
      <4>3. QED
        BY <4>1, <4>2 DEF C2HBeat
    <3>3. QED
      BY <3>1, <3>2
  <2>2. PldIdStep(m_tready)
    BY DEF Cycle
  <2>3. QED
    BY <2>1, <2>2 DEF PldIdStep, CompletionMargin
<1> HIDE DEF grant
<1> DEFINE held == SliceHolds
           holds == SliceHolds'
<1>7. /\ sent + holds <= held + 1
      /\ prog_full[1] => sent + holds <= held
      /\ sent \in 0..1 /\ held \in 0..1 /\ holds \in 0..1
      /\ sent <= held
  BY <1>2, <1>4, <1>5 DEF SliceTakes, SliceHolds
<1>8. Len(cpl_fifo) \in Nat /\ Len(cpl_fifo') \in Nat
  BY <1>1 DEF CompletionMargin
<1>9. prog_full' \in [1..2 -> BOOLEAN] /\ prog_full[2] \in BOOLEAN /\ prog_full[1] \in BOOLEAN
      /\ prog_full'[1] = prog_full[2] /\ (prog_full'[2] <=> Len(cpl_fifo) >= ProgFullThresh)
  <2>1. prog_full[2] \in BOOLEAN /\ prog_full[1] \in BOOLEAN
    BY DEF CompletionMargin
  <2>2. (Len(cpl_fifo) >= ProgFullThresh) \in BOOLEAN
    OBVIOUS
  <2>3. QED
    BY <1>3, <2>1, <2>2, PairOfFlags
<1>10. /\ ~prog_full[2] => Len(cpl_fifo) <= ProgFullThresh
       /\ ~prog_full[1] => Len(cpl_fifo) + held <= ProgFullThresh + 2
       /\ Len(cpl_fifo) + held <= ProgFullThresh + 3
  BY DEF CompletionMargin
<1> HIDE DEF sent, held, holds
<1>11. ~prog_full'[2] => Len(cpl_fifo') <= ProgFullThresh
  BY <1>1, <1>7, <1>8, <1>9
<1>12. ~prog_full'[1] => Len(cpl_fifo') + holds <= ProgFullThresh + 2
  BY <1>1, <1>7, <1>8, <1>9, <1>10
<1>13. Len(cpl_fifo') + holds <= ProgFullThresh + 3
  BY <1>1, <1>7, <1>8, <1>10
<1>14. QED
  BY <1>1, <1>6, <1>9, <1>11, <1>12, <1>13 DEF CompletionMargin, holds

\* The FIFO has the margin its threshold leaves (qdma_subsystem_c2h.sv:240-244).
Margin == CplDepth >= ProgFullThresh + 3

LEMMA MarginSuffices ==
  ASSUME CompletionMargin, Margin, filled
  PROVE  Len(cpl_fifo) < CplDepth
<1>1. Len(cpl_fifo) \in Nat
  BY DEF CompletionMargin
<1>2. QED
  BY <1>1 DEF CompletionMargin, Margin, SliceHolds

StreamInv == OwnerSendsPacket /\ CompletionMargin

LEMMA StreamInvInvariant == Spec => []StreamInv
<1>1. Init => StreamInv
  <2>1. SUFFICES ASSUME Init
                 PROVE  StreamInv
    OBVIOUS
  <2>2. OwnerSendsPacket
    BY <2>1 DEF Init, OwnerSendsPacket, OpenAtSlice, NoInterleaving
  <2>3. axis \in C2HBeat /\ SliceHolds = 0 /\ Len(cpl_fifo) = 0
    BY <2>1 DEF Init, C2HBeat, SliceHolds
  <2>4. prog_full = <<FALSE, FALSE>> /\ prog_full \in [1..2 -> BOOLEAN]
    BY <2>1, PairOfFlags DEF Init
  <2>5. cpl_fifo \in Seq([func : Func, id : 0..(PldIdMod - 1)])
        /\ pkt_pld_id \in 0..(PldIdMod - 1)
    BY <2>1 DEF Init
  <2>6. QED
    BY <2>2, <2>3, <2>4, <2>5 DEF StreamInv, CompletionMargin
<1>2. StreamInv /\ [Next]_vars => StreamInv'
  <2>1. SUFFICES ASSUME StreamInv, [Next]_vars
                 PROVE  StreamInv'
    OBVIOUS
  <2>2. CASE UNCHANGED vars
    BY <2>1, <2>2 DEF vars, arbVars, StreamInv, OwnerSendsPacket, OpenAtSlice, NoInterleaving,
                      CompletionMargin, SliceHolds
  <2>3. CASE Next
    BY <2>1, <2>3, NextIsCycle, CycleKeepsOwner, CycleKeepsMargin DEF StreamInv
  <2>4. QED
    BY <2>1, <2>2, <2>3
<1>3. QED
  BY <1>1, <1>2, PTL DEF Spec

\* A completion is never written to a full FIFO, for every depth that leaves
\* three words above the threshold of prog_full.
THEOREM C2HCompletionNeverLost ==
  ASSUME Margin
  PROVE  Spec => []CompletionNeverLost
<1>1. StreamInv => CompletionNeverLost
  <2>1. SUFFICES ASSUME StreamInv, Len(cpl_fifo) = CplDepth, filled
                 PROVE  FALSE
    BY DEF CompletionNeverLost
  <2>2. Len(cpl_fifo) < CplDepth
    BY <2>1, MarginSuffices DEF StreamInv
  <2>3. QED
    BY <2>1, <2>2
<1>2. QED
  BY <1>1, StreamInvInvariant, PTL
-----------------------------------------------------------------------------
(* Completions stay in the order of their packets *)

LEMMA DivisionIsUnique ==
  ASSUME NEW M \in Nat \ {0}, NEW p \in Int, NEW q \in Int, NEW r \in 0..(M - 1), NEW s \in 0..(M - 1),
         M * p + r = M * q + s
  PROVE  r = s
  OBVIOUS

LEMMA ModuloShift ==
  ASSUME NEW M \in Nat \ {0}, NEW y \in Int
  PROVE  (y + M) % M = y % M
<1> DEFINE z == y + M
           p == (y \div M) + 1
           q == z \div M
           r == y % M
           s == z % M
<1>1. y = M * (y \div M) + r /\ r \in 0..(M - 1) /\ y \div M \in Int
  OBVIOUS
<1>2. z = M * q + s /\ s \in 0..(M - 1) /\ q \in Int
  OBVIOUS
<1>3. M * p + r = z /\ p \in Int
  BY <1>1
<1> HIDE DEF p, q, r, s, z
<1>4. r = s
  BY <1>1, <1>2, <1>3, DivisionIsUnique
<1>5. QED
  BY <1>4 DEF r, s, z

\* The id of the packet that came back packets before the one counted last.
IdBefore(pld, back) == (pld + PldIdMod - back) % PldIdMod

LEMMA NextId ==
  ASSUME NEW pld \in 0..(PldIdMod - 1), NEW back \in Nat
  PROVE  /\ (pld + 1) % PldIdMod \in 0..(PldIdMod - 1)
         /\ IdBefore((pld + 1) % PldIdMod, back + 1) = IdBefore(pld, back)
         /\ IdBefore(pld, 0) = pld
<1>1. CASE pld + 1 < PldIdMod
  <2>1. (pld + 1) % PldIdMod = pld + 1
    BY <1>1
  <2>2. pld % PldIdMod = pld
    OBVIOUS
  <2>3. (pld + PldIdMod) % PldIdMod = pld
    BY <2>2, ModuloShift
  <2>4. (pld + 1) + PldIdMod - (back + 1) = pld + PldIdMod - back
    OBVIOUS
  <2>5. QED
    BY <2>1, <2>3, <2>4 DEF IdBefore
<1>2. CASE pld + 1 = PldIdMod
  <2>1. (pld + 1) % PldIdMod = 0
    BY <1>2
  <2>2. pld % PldIdMod = pld
    OBVIOUS
  <2>3. (pld + PldIdMod) % PldIdMod = pld
    BY <2>2, ModuloShift
  <2>4. pld + PldIdMod - back = (0 + PldIdMod - (back + 1)) + PldIdMod
    BY <1>2
  <2>5. (0 + PldIdMod - (back + 1)) \in Int
    OBVIOUS
  <2>6. (pld + PldIdMod - back) % PldIdMod = (0 + PldIdMod - (back + 1)) % PldIdMod
    BY <2>4, <2>5, ModuloShift
  <2>7. QED
    BY <2>1, <2>3, <2>6 DEF IdBefore
<1>3. QED
  BY <1>1, <1>2

InOrder(queue, pld) == \A k \in 1..Len(queue) : queue[k].id = IdBefore(pld, Len(queue) - k)

LEMMA PopKeepsOrder ==
  ASSUME NEW Cpl, NEW queue \in Seq(Cpl), queue # <<>>, NEW pld, InOrder(queue, pld)
  PROVE  Tail(queue) \in Seq(Cpl) /\ InOrder(Tail(queue), pld)
<1>1. Tail(queue) \in Seq(Cpl) /\ Len(Tail(queue)) = Len(queue) - 1
  OBVIOUS
<1>2. ASSUME NEW k \in 1..Len(Tail(queue))
      PROVE  Tail(queue)[k].id = IdBefore(pld, Len(Tail(queue)) - k)
  <2>1. k + 1 \in 1..Len(queue) /\ Tail(queue)[k] = queue[k + 1]
    BY <1>1
  <2>2. Len(Tail(queue)) - k = Len(queue) - (k + 1)
    BY <1>1
  <2>3. QED
    BY <2>1, <2>2 DEF InOrder
<1>3. QED
  BY <1>1, <1>2 DEF InOrder

LEMMA PushKeepsOrder ==
  ASSUME NEW Cpl, NEW queue \in Seq(Cpl), NEW pld \in 0..(PldIdMod - 1), InOrder(queue, pld),
         NEW cpl \in Cpl, cpl.id = (pld + 1) % PldIdMod
  PROVE  InOrder(queue \o <<cpl>>, cpl.id)
<1> DEFINE longer == queue \o <<cpl>>
<1>1. /\ Len(longer) = Len(queue) + 1
      /\ \A k \in 1..Len(queue) : longer[k] = queue[k]
      /\ longer[Len(queue) + 1] = cpl
  OBVIOUS
<1> HIDE DEF longer
<1>2. ASSUME NEW k \in 1..Len(longer)
      PROVE  longer[k].id = IdBefore(cpl.id, Len(longer) - k)
  <2>1. CASE k = Len(longer)
    <3>1. Len(longer) - k = 0 /\ longer[k] = cpl
      BY <1>1, <2>1
    <3>2. cpl.id \in 0..(PldIdMod - 1)
      BY NextId
    <3>3. IdBefore(cpl.id, 0) = cpl.id
      BY <3>2, NextId
    <3>4. QED
      BY <3>1, <3>3
  <2>2. CASE k # Len(longer)
    <3>1. k \in 1..Len(queue) /\ Len(longer) - k = (Len(queue) - k) + 1 /\ Len(queue) - k \in Nat
      BY <1>1, <2>2
    <3>2. longer[k].id = IdBefore(pld, Len(queue) - k)
      BY <1>1, <3>1 DEF InOrder
    <3>3. IdBefore(cpl.id, (Len(queue) - k) + 1) = IdBefore(pld, Len(queue) - k)
      BY <3>1, NextId
    <3>4. QED
      BY <3>1, <3>2, <3>3
  <2>3. QED
    BY <2>1, <2>2
<1>3. QED
  BY <1>2 DEF InOrder, longer

LEMMA CycleKeepsOrder ==
  ASSUME StreamInv, Margin, InOrder(cpl_fifo, pkt_pld_id),
         NEW m_tready \in BOOLEAN, NEW cpl_tready \in BOOLEAN,
         PldIdStep(m_tready), CplFifoStep(m_tready, cpl_tready)
  PROVE  InOrder(cpl_fifo, pkt_pld_id)'
<1> DEFINE Cpl == [func : Func, id : 0..(PldIdMod - 1)]
           queue == IF cpl_fifo # <<>> /\ cpl_tready THEN Tail(cpl_fifo) ELSE cpl_fifo
<1>1. /\ cpl_fifo \in Seq(Cpl) /\ axis \in C2HBeat /\ pkt_pld_id \in 0..(PldIdMod - 1)
      /\ filled \in BOOLEAN
  BY DEF StreamInv, CompletionMargin, OwnerSendsPacket
<1>2. queue \in Seq(Cpl) /\ InOrder(queue, pkt_pld_id)
  BY <1>1, PopKeepsOrder
<1>3. cpl_fifo' = queue \o CplPush(m_tready)
  BY DEF CplFifoStep
<1> HIDE DEF queue
<1>4. CASE cpl_fifo_wr_en(m_tready)
  <2>1. Len(cpl_fifo) < CplDepth
    BY <1>4, MarginSuffices DEF cpl_fifo_wr_en, StreamInv
  <2>2. CplPush(m_tready) = <<Completion>> /\ pkt_pld_id' = (pkt_pld_id + 1) % PldIdMod
    BY <1>4, <2>1 DEF CplPush, PldIdStep
  <2>3. Completion \in Cpl /\ Completion.id = (pkt_pld_id + 1) % PldIdMod
    BY <1>1 DEF Completion, C2HBeat
  <2> HIDE DEF Cpl
  <2>4. InOrder(queue \o <<Completion>>, Completion.id)
    BY <1>1, <1>2, <2>3, PushKeepsOrder
  <2>5. QED
    BY <1>3, <2>2, <2>3, <2>4
<1>5. CASE ~cpl_fifo_wr_en(m_tready)
  <2>1. CplPush(m_tready) = <<>> /\ pkt_pld_id' = pkt_pld_id
    BY <1>5 DEF CplPush, PldIdStep
  <2>2. queue \o <<>> = queue
    BY <1>2
  <2>3. QED
    BY <1>2, <1>3, <2>1, <2>2
<1>6. QED
  BY <1>4, <1>5

\* Completions leave in the order of their packets and with consecutive ids,
\* for every range of the packet counter (qdma_subsystem_c2h.sv:272-290).
THEOREM C2HCompletionsInOrder ==
  ASSUME Margin
  PROVE  Spec => []CompletionsInOrder
<1>1. Init => InOrder(cpl_fifo, pkt_pld_id)
  BY DEF Init, InOrder
<1>2. InOrder(cpl_fifo, pkt_pld_id) /\ StreamInv /\ [Next]_vars => InOrder(cpl_fifo, pkt_pld_id)'
  <2>1. SUFFICES ASSUME InOrder(cpl_fifo, pkt_pld_id), StreamInv, [Next]_vars
                 PROVE  InOrder(cpl_fifo, pkt_pld_id)'
    OBVIOUS
  <2>2. CASE UNCHANGED vars
    BY <2>1, <2>2 DEF vars
  <2>3. ASSUME NEW m_tready \in BOOLEAN, NEW cpl_tready \in BOOLEAN,
               NEW dout \in Arb!q_doutValues, Cycle(m_tready, cpl_tready, dout)
        PROVE  InOrder(cpl_fifo, pkt_pld_id)'
    BY <2>1, <2>3, CycleKeepsOrder DEF Cycle
  <2>4. QED
    BY <2>1, <2>2, <2>3, NextIsCycle
<1>3. InOrder(cpl_fifo, pkt_pld_id) => CompletionsInOrder
  BY DEF InOrder, IdBefore, CompletionsInOrder
<1>4. QED
  BY <1>1, <1>2, <1>3, StreamInvInvariant, PTL DEF Spec
=============================================================================
