-------------------------- MODULE RRArbiterProofs --------------------------
(***************************************************************************)
(* The round-robin arbiter remembers every request exactly once and serves *)
(* them as FairArbiter does, for every number of channels that fills its   *)
(* queue pointers (PtrMod = N, which is to say that N is a power of two).  *)
(* For other N a pointer reaches words that q_mem does not have, and the   *)
(* theorems do not hold.                                                   *)
(***************************************************************************)
EXTENDS RRArbiter, FiniteSetTheorems, SequenceTheorems, WellFoundedInduction, TLAPS

USE NAssumption DEF Channel, S_IDLE, S_BUSY

-----------------------------------------------------------------------------
(* The inductive invariant *)

\* Every channel has a place in the priority order.
EveryChannelRanked == \A c \in Channel : \E k \in Channel : prio[k] = c

\* The pointers delimit q_cnt words, none of them empty: a word is written
\* only for a request.
QueueWellFormed ==
    /\ q_wptr = Slot(q_cnt)
    /\ \A i \in 0..(q_cnt - 1) : Entry(i) # {}

\* While the resource is taken its owner is one of the pending requests.
OwnerIsPending == state = S_BUSY => \E c \in pending : granted = {c}

IInv ==
    /\ TypeOK
    /\ EveryChannelRanked
    /\ QueueWellFormed
    /\ OwnerIsPending
    /\ NoLostRequest
    /\ OneTurnEach

\* The words of the queue as the proofs use them.
InEntries(c) == \E i \in 0..(q_cnt - 1) : c \in Entry(i)

QueueFacts ==
    /\ \A i \in 0..N : Slot(i) \in Channel
    /\ \A i \in 0..N : Entry(i) \in SUBSET Channel
    /\ Entries = 0..(q_cnt - 1)
    /\ \A c : c \in InQueue <=> InEntries(c)

LEMMA QueueTypes == PtrMod = N /\ TypeOK => QueueFacts
<1> SUFFICES ASSUME PtrMod = N, TypeOK
             PROVE  QueueFacts
  OBVIOUS
<1>1. \A i \in 0..N : Slot(i) \in Channel
  BY DEF TypeOK, Slot
<1>2. \A i \in 0..N : Entry(i) \in SUBSET Channel
  BY <1>1 DEF TypeOK, Entry
<1>3. Entries = 0..(q_cnt - 1)
  <2>1. ASSUME NEW i \in 0..(q_cnt - 1)
        PROVE  Slot(i) < N
    <3>1. i \in 0..N
      BY DEF TypeOK
    <3>2. Slot(i) \in Channel
      BY <1>1, <3>1
    <3>3. QED
      BY <3>2
  <2>2. QED
    BY <2>1 DEF Entries
<1>4. QED
  BY <1>1, <1>2, <1>3 DEF QueueFacts, InQueue, InEntries

-----------------------------------------------------------------------------
(* Arbitration *)

\* Among valid requests there is a least recently used one.
LEMMA WinnerHasRank ==
  ASSUME TypeOK, EveryChannelRanked, NEW valid \in SUBSET Channel, valid # {}
  PROVE  \E k \in Channel :
             prio[k] \in valid /\ \A j \in 0..(k - 1) : prio[j] \notin valid
<1> DEFINE T == {k \in Channel : prio[k] \in valid}
<1>1. T \subseteq Nat /\ T # {}
  <2>1. PICK c \in valid : c \in Channel
    OBVIOUS
  <2>2. PICK j \in Channel : prio[j] = c
    BY <2>1 DEF EveryChannelRanked
  <2>3. j \in T
    BY <2>1, <2>2
  <2>4. QED
    BY <2>3
<1>2. PICK k \in T : \A j \in T : ~ (<<j, k>> \in OpToRel(<, Nat))
  BY <1>1, NatLessThanWellFounded, WFMin
<1>3. \A j \in T : ~ (j < k)
  BY <1>1, <1>2 DEF OpToRel
<1>4. prio[k] \in valid /\ \A j \in 0..(k - 1) : prio[j] \notin valid
  BY <1>3
<1>5. QED
  BY <1>4

LEMMA WinnerExists ==
  ASSUME TypeOK, EveryChannelRanked, NEW valid \in SUBSET Channel, valid # {}
  PROVE  /\ Winner(valid) \in Channel
         /\ prio[Winner(valid)] \in valid
BY WinnerHasRank DEF Winner

\* Moving one channel to the end of the order keeps every channel in it.
LEMMA RotationRanksAll ==
  ASSUME TypeOK, EveryChannelRanked, NEW k \in Channel
  PROVE  /\ RotatePrio(k) \in [Channel -> Channel]
         /\ \A c \in Channel : \E j \in Channel : RotatePrio(k)[j] = c
<1>1. RotatePrio(k) \in [Channel -> Channel]
  BY DEF TypeOK, RotatePrio
<1>2. ASSUME NEW c \in Channel
      PROVE  \E j \in Channel : RotatePrio(k)[j] = c
  <2>1. PICK p \in Channel : prio[p] = c
    BY DEF EveryChannelRanked
  <2>2. CASE p < k
    BY <2>1, <2>2 DEF RotatePrio
  <2>3. CASE p = k
    <3>1. N - 1 \in Channel /\ RotatePrio(k)[N - 1] = c
      BY <2>1, <2>3 DEF RotatePrio
    <3>2. QED
      BY <3>1
  <2>4. CASE p > k
    <3>1. p - 1 \in Channel /\ RotatePrio(k)[p - 1] = c
      BY <2>1, <2>4 DEF RotatePrio
    <3>2. QED
      BY <3>1
  <2>5. QED
    BY <2>2, <2>3, <2>4
<1>3. QED
  BY <1>1, <1>2

-----------------------------------------------------------------------------
(* One clock edge *)

\* The group of requests the arbiter serves in a cycle with the arrivals new.
Group(new) ==
    IF pending # {} THEN pending ELSE IF q_cnt > 0 THEN Entry(0) ELSE new

\* A cycle, in the terms the proofs need.
Inputs(new, fin, ready, dout) ==
    /\ new \in SUBSET (Channel \ outstanding)
    /\ fin \in SUBSET Channel
    /\ ready \in BOOLEAN
    /\ dout \in q_doutValues
    /\ Cycle(outstanding \cup new, fin, ready, dout)

LEMMA Signals ==
  ASSUME PtrMod = N, IInv, NEW new, NEW fin, NEW ready, NEW dout,
         Inputs(new, fin, ready, dout)
  PROVE  LET req == outstanding \cup new
             valid == ValidReq(req, dout)
             grant == Grant(valid, ready)
         IN  /\ QDin(req) = new
             /\ valid = Group(new)
             /\ valid \in SUBSET Channel
             /\ grant \subseteq valid
             /\ fin \subseteq grant
             /\ q_cnt > 0 => Entry(0) # {}
             /\ valid # {} => \E c \in valid : NextGranted(valid) = {c}
             /\ valid = {} => NextGranted(valid) = {}
<1> DEFINE req == outstanding \cup new
           valid == ValidReq(req, dout)
           grant == Grant(valid, ready)
<1>1. QDin(req) = new
  BY DEF IInv, OneTurnEach, QDin, Inputs
<1>2. q_cnt > 0 => dout = Entry(0) /\ Entry(0) # {}
  <2>1. q_rptr < N /\ Slot(0) = q_rptr
    BY DEF IInv, TypeOK, Slot
  <2>2. dout = Entry(0)
    BY <2>1 DEF Inputs, q_doutValues, Entry
  <2>3. q_cnt > 0 => 0 \in 0..(q_cnt - 1)
    BY DEF IInv, TypeOK
  <2>4. QED
    BY <2>2, <2>3 DEF IInv, QueueWellFormed
<1>3. valid = Group(new)
  BY <1>1, <1>2 DEF ValidReq, Group, q_empty, IInv, TypeOK
<1>4. valid \in SUBSET Channel
  <2>1. Entry(0) \in SUBSET Channel
    BY QueueTypes DEF QueueFacts, IInv
  <2>2. pending \in SUBSET Channel /\ new \in SUBSET Channel
    BY DEF IInv, TypeOK, Inputs
  <2> HIDE DEF valid, Channel
  <2>3. QED
    BY <1>3, <2>1, <2>2 DEF Group
<1>5. valid # {} => \E c \in valid : NextGranted(valid) = {c}
  BY <1>4, WinnerExists DEF NextGranted, IInv
<1>6. valid = {} => NextGranted(valid) = {}
  BY DEF NextGranted
<1>7. grant \subseteq valid
  <2>1. CASE state = S_IDLE
    BY <2>1, <1>5, <1>6 DEF Grant
  <2>2. CASE state = S_BUSY
    BY <2>2, <1>3 DEF Grant, IInv, OwnerIsPending, Group
  <2>3. QED
    BY <2>1, <2>2 DEF IInv, TypeOK
<1>8. fin \subseteq grant
  BY DEF Inputs, Cycle
<1>9. QED
  BY <1>1, <1>2, <1>3, <1>4, <1>5, <1>6, <1>7, <1>8

\* The arbiter turns to its group, less what finishes in the cycle, and
\* takes the resource for a member of it.
LEMMA ArbitrationStep ==
  ASSUME PtrMod = N, IInv, NEW new, NEW fin, NEW ready, NEW dout,
         Inputs(new, fin, ready, dout)
  PROVE  /\ pending' = Group(new) \ fin
         /\ fin \subseteq Group(new)
         /\ Group(new) \in SUBSET Channel
         /\ state' \in {S_IDLE, S_BUSY}
         /\ granted' \in SUBSET Channel
         /\ prio' \in [Channel -> Channel]
         /\ EveryChannelRanked'
         /\ OwnerIsPending'
<1> DEFINE req == outstanding \cup new
           valid == ValidReq(req, dout)
           grant == Grant(valid, ready)
<1>1. /\ valid = Group(new)
      /\ valid \in SUBSET Channel
      /\ grant \subseteq valid
      /\ fin \subseteq grant
      /\ valid # {} => \E c \in valid : NextGranted(valid) = {c}
      /\ valid = {} => NextGranted(valid) = {}
  BY Signals
<1>2. TypeOK /\ EveryChannelRanked /\ OwnerIsPending
  BY DEF IInv
<1>3. ASSUME NextGranted(valid) # {}, prio' = RotatePrio(Winner(valid))
      PROVE  prio' \in [Channel -> Channel] /\ EveryChannelRanked'
  <2>1. Winner(valid) \in Channel
    BY <1>1, <1>2, <1>3, WinnerExists
  <2>2. QED
    BY <1>2, <1>3, <2>1, RotationRanksAll DEF EveryChannelRanked
<1>4. state = S_BUSY => valid = pending
  BY <1>1, <1>2 DEF OwnerIsPending, Group
<1>5. \/ Rest(valid, fin)
      \/ Start(valid, grant, fin)
      \/ StartAndFinish(valid, grant, fin)
      \/ Finish(valid, grant, fin)
      \/ Hold(valid, grant, fin)
  BY DEF Inputs, Cycle, Clock
<1> HIDE DEF req, valid, grant
<1>6. CASE Rest(valid, fin)
  <2>1. valid = {} /\ fin = {} /\ pending = {}
    BY <1>1, <1>6 DEF Rest, Group
  <2>2. QED
    BY <1>1, <1>2, <1>6, <2>1 DEF Rest, TypeOK, EveryChannelRanked, OwnerIsPending
<1>7. CASE Start(valid, grant, fin)
  BY <1>1, <1>2, <1>3, <1>7 DEF Start, TypeOK, OwnerIsPending
<1>8. CASE StartAndFinish(valid, grant, fin)
  <2>1. SymDiff(valid, fin) = valid \ fin
    BY <1>1 DEF SymDiff
  <2>2. QED
    BY <1>1, <1>2, <1>3, <1>8, <2>1 DEF StartAndFinish, TypeOK, OwnerIsPending
<1>9. CASE Finish(valid, grant, fin)
  <2>1. SymDiff(pending, fin) = valid \ fin
    BY <1>1, <1>4, <1>9 DEF SymDiff, Finish
  <2>2. QED
    BY <1>1, <1>2, <1>9, <2>1 DEF Finish, TypeOK, EveryChannelRanked, OwnerIsPending
<1>10. CASE Hold(valid, grant, fin)
  BY <1>1, <1>2, <1>4, <1>10 DEF Hold, TypeOK, EveryChannelRanked, OwnerIsPending
<1>11. QED
  BY <1>5, <1>6, <1>7, <1>8, <1>9, <1>10

-----------------------------------------------------------------------------
(* The queue *)

\* There is always room for a group that has to wait: the queue and the new
\* group are disjoint non-empty sets of channels, so there are at most N.
LEMMA NeverFull ==
  ASSUME PtrMod = N, IInv, NEW new \in SUBSET (Channel \ outstanding), new # {}
  PROVE  q_cnt < N
<1> DEFINE Part(i) == IF i < N THEN Entry(i) ELSE new
           f == [i \in 0..N |-> CHOOSE c : c \in Part(i)]
<1> SUFFICES ASSUME q_cnt = N
             PROVE  FALSE
  BY DEF IInv, TypeOK
<1>1. ASSUME NEW i \in 0..(N - 1)
      PROVE  Entry(i) \in SUBSET Channel /\ Entry(i) # {}
  <2>1. i \in 0..N /\ i \in 0..(q_cnt - 1)
    OBVIOUS
  <2>2. QED
    BY <2>1, QueueTypes DEF QueueFacts, IInv, QueueWellFormed
<1>2. ASSUME NEW i \in 0..(N - 1), NEW j \in 0..(N - 1), i # j
      PROVE  Entry(i) \cap Entry(j) = {}
  BY <1>2, QueueTypes DEF QueueFacts, IInv, OneTurnEach
<1>3. ASSUME NEW i \in 0..(N - 1)
      PROVE  Entry(i) \cap new = {}
  BY QueueTypes DEF QueueFacts, IInv, NoLostRequest, InEntries
<1>4. ASSUME NEW i \in 0..N
      PROVE  f[i] \in Part(i) /\ f[i] \in Channel
  <2>1. Part(i) \in SUBSET Channel /\ Part(i) # {}
    BY <1>1
  <2>2. f[i] = CHOOSE c : c \in Part(i)
    OBVIOUS
  <2> HIDE DEF f, Part, Channel
  <2>3. QED
    BY <2>1, <2>2
<1>5. ASSUME NEW i \in 0..N, NEW j \in 0..N, i # j
      PROVE  f[i] # f[j]
  <2>1. Part(i) \cap Part(j) = {}
    BY <1>2, <1>3, <1>5
  <2>2. QED
    BY <1>4, <2>1
<1>6. f \in [0..N -> Channel]
  BY <1>4
<1>7. /\ IsFiniteSet(0..N) /\ Cardinality(0..N) = N + 1
      /\ IsFiniteSet(Channel) /\ Cardinality(Channel) = N
  BY FS_Interval
<1>8. \E i, j \in 0..N : i # j /\ f[i] = f[j]
  <2>1. Cardinality(Channel) < Cardinality(0..N)
    BY <1>7
  <2> HIDE DEF f, Part, Channel
  <2>2. QED
    BY <1>6, <1>7, <2>1, FS_PigeonHole
<1> HIDE DEF f, Part
<1>9. QED
  BY <1>5, <1>8

\* What a cycle does to the queue: the group served from it leaves, the new
\* group enters behind the others unless it is served itself.
Popped == state = S_IDLE /\ pending = {} /\ q_cnt > 0
Pushed(new) == new # {} /\ (q_cnt > 0 \/ pending # {})

QueueMoves(new) ==
    LET out == IF Popped THEN 1 ELSE 0
        in == IF Pushed(new) THEN 1 ELSE 0
    IN  /\ q_cnt' = q_cnt - out + in
        /\ \A i \in 0..(q_cnt - out - 1) : Entry(i)' = Entry(i + out)
        /\ Pushed(new) => \A i \in Nat : i = q_cnt - out => Entry(i)' = new

LEMMA QueueMotion ==
  ASSUME PtrMod = N, IInv, NEW new, NEW fin, NEW ready, NEW dout,
         Inputs(new, fin, ready, dout)
  PROVE  /\ q_wptr' \in Channel /\ q_rptr' \in Channel /\ q_cnt' \in 0..N
         /\ q_mem' \in [Channel -> SUBSET Channel]
         /\ q_wptr' = Slot(q_cnt)'
         /\ QueueMoves(new)
<1> DEFINE req == outstanding \cup new
<1>1. /\ QDin(req) = new
      /\ new \in SUBSET Channel
      /\ new # {} => q_cnt < N
  BY Signals, NeverFull DEF Inputs
<1>2. /\ QWrEn(req) <=> Pushed(new)
      /\ q_rd_en <=> Popped
  BY <1>1 DEF QWrEn, Pushed, q_rd_en, Popped, q_empty, IInv, TypeOK
<1>3. /\ q_rptr \in Channel /\ q_wptr \in Channel /\ q_cnt \in 0..N
      /\ q_mem \in [Channel -> SUBSET Channel]
      /\ q_wptr = Slot(q_cnt)
  BY DEF IInv, TypeOK, QueueWellFormed
<1>4. /\ Popped => q_cnt > 0
      /\ Pushed(new) => new # {}
      /\ (q_empty <=> q_cnt = 0) /\ (q_full <=> q_cnt = N)
  BY DEF Popped, Pushed, q_empty, q_full
<1>5. QueueStep(req)
  BY DEF Inputs, Cycle, Clock
<1> HIDE DEF req
<1>6. CASE Pushed(new) /\ ~Popped
  <2>1. /\ q_wptr' = NextPtr(q_wptr)
        /\ q_mem' = [i \in Channel |-> IF i = q_wptr THEN new ELSE q_mem[i]]
        /\ q_cnt' = q_cnt + 1 /\ q_rptr' = q_rptr /\ q_cnt < N
    BY <1>1, <1>2, <1>4, <1>5, <1>6 DEF QueueStep, QWrite
  <2>2. /\ q_wptr' \in Channel
        /\ q_mem' \in [Channel -> SUBSET Channel]
        /\ q_wptr' = Slot(q_cnt)'
    BY <1>1, <1>3, <2>1 DEF NextPtr, Slot
  <2>3. ASSUME NEW i \in 0..(q_cnt - 1)
        PROVE  Entry(i)' = Entry(i)
    BY <1>3, <2>1 DEF Entry, Slot
  <2>4. ASSUME NEW i \in Nat, i = q_cnt
        PROVE  Entry(i)' = new
    BY <1>3, <2>1, <2>4 DEF Entry, Slot
  <2>5. QED
    BY <1>3, <1>6, <2>1, <2>2, <2>3, <2>4 DEF QueueMoves
<1>7. CASE Popped /\ ~Pushed(new)
  <2>1. /\ q_rptr' = NextPtr(q_rptr)
        /\ q_cnt' = q_cnt - 1 /\ q_cnt > 0
        /\ q_wptr' = q_wptr /\ q_mem' = q_mem
    BY <1>2, <1>4, <1>5, <1>7 DEF QueueStep
  <2>2. q_rptr' \in Channel /\ q_wptr' = Slot(q_cnt)'
    BY <1>3, <2>1 DEF NextPtr, Slot
  <2>3. ASSUME NEW i \in 0..(q_cnt - 2)
        PROVE  Entry(i)' = Entry(i + 1)
    BY <1>3, <2>1 DEF Entry, Slot, NextPtr
  <2>4. QED
    BY <1>3, <1>7, <2>1, <2>2, <2>3 DEF QueueMoves
<1>8. CASE Pushed(new) /\ Popped
  <2>1. /\ q_wptr' = NextPtr(q_wptr)
        /\ q_mem' = [i \in Channel |-> IF i = q_wptr THEN new ELSE q_mem[i]]
        /\ q_rptr' = NextPtr(q_rptr)
        /\ q_cnt' = q_cnt /\ q_cnt > 0
    BY <1>1, <1>2, <1>4, <1>5, <1>8 DEF QueueStep, QWrite
  <2>2. /\ q_wptr' \in Channel /\ q_rptr' \in Channel
        /\ q_mem' \in [Channel -> SUBSET Channel]
        /\ q_wptr' = Slot(q_cnt)'
    BY <1>1, <1>3, <2>1 DEF NextPtr, Slot
  <2>3. ASSUME NEW i \in 0..(q_cnt - 2)
        PROVE  Entry(i)' = Entry(i + 1)
    BY <1>3, <2>1 DEF Entry, Slot, NextPtr
  <2>4. ASSUME NEW i \in Nat, i = q_cnt - 1
        PROVE  Entry(i)' = new
    BY <1>3, <2>1, <2>4 DEF Entry, Slot, NextPtr
  <2>5. QED
    BY <1>3, <1>8, <2>1, <2>2, <2>3, <2>4 DEF QueueMoves
<1>9. CASE ~Pushed(new) /\ ~Popped
  <2>1. UNCHANGED <<q_wptr, q_rptr, q_cnt, q_mem>>
    BY <1>2, <1>5, <1>9 DEF QueueStep
  <2>2. q_wptr' = Slot(q_cnt)' /\ \A i \in Nat : Entry(i)' = Entry(i)
    BY <1>3, <2>1 DEF Entry, Slot
  <2>3. QED
    BY <1>3, <1>9, <2>1, <2>2 DEF QueueMoves
<1>10. QED
  BY <1>6, <1>7, <1>8, <1>9

-----------------------------------------------------------------------------
(* Every clock edge keeps the invariant *)

\* The group being served is disjoint from whatever waits afterwards.
LEMMA WaitingAfter ==
  ASSUME PtrMod = N, IInv, NEW new \in SUBSET (Channel \ outstanding),
         QueueMoves(new), q_cnt' \in 0..N,
         NEW i \in 0..(q_cnt' - 1)
  PROVE  /\ Entry(i)' # {}
         /\ Entry(i)' \subseteq outstanding \cup new
         /\ Entry(i)' \cap Group(new) = {}
         /\ \A j \in 0..(q_cnt' - 1) : i # j => Entry(i)' \cap Entry(j)' = {}
<1> DEFINE out == IF Popped THEN 1 ELSE 0
<1>1. /\ q_cnt \in 0..N
      /\ \A k \in 0..(q_cnt - 1) : Entry(k) # {}
      /\ \A k \in 0..(q_cnt - 1) : Entry(k) \subseteq outstanding
      /\ \A k \in 0..(q_cnt - 1) : Entry(k) \cap pending = {}
      /\ \A k, l \in 0..(q_cnt - 1) : k # l => Entry(k) \cap Entry(l) = {}
  <2>1. TypeOK /\ QueueWellFormed /\ NoLostRequest /\ OneTurnEach
    BY DEF IInv
  <2>2. QueueFacts
    BY <2>1, QueueTypes
  <2>3. QED
    BY <2>1, <2>2 DEF QueueFacts, InEntries, TypeOK, QueueWellFormed,
                      NoLostRequest, OneTurnEach
<1>2. ASSUME NEW k \in 0..(q_cnt' - 1)
      PROVE  \/ /\ k \in 0..(q_cnt - out - 1)
                /\ k + out \in 0..(q_cnt - 1)
                /\ Entry(k)' = Entry(k + out)
             \/ /\ k = q_cnt - out
                /\ Pushed(new)
                /\ Entry(k)' = new
  BY <1>1 DEF QueueMoves, Popped
<1>3. ASSUME NEW k \in 0..(q_cnt - 1), k >= out
      PROVE  Entry(k) \cap Group(new) = {}
  <2>1. CASE pending # {}
    BY <1>1, <2>1 DEF Group
  <2>2. CASE pending = {}
    <3>1. Popped
      BY <1>1, <2>2 DEF Popped, IInv, OwnerIsPending, TypeOK
    <3>2. Group(new) = Entry(0) /\ k # 0 /\ 0 \in 0..(q_cnt - 1)
      BY <1>1, <1>3, <2>2, <3>1 DEF Group
    <3>3. QED
      BY <1>1, <3>2
  <2>3. QED
    BY <2>1, <2>2
<1>4. Pushed(new) => new # {} /\ new \cap Group(new) = {}
  <2>1. q_cnt > 0 => Entry(0) \subseteq outstanding
    BY <1>1
  <2>2. pending \subseteq outstanding
    BY DEF IInv, NoLostRequest
  <2>3. QED
    BY <2>1, <2>2 DEF Pushed, Group
<1>5. Entry(i)' # {} /\ Entry(i)' \subseteq outstanding \cup new
  <2>1. CASE Pushed(new) /\ Entry(i)' = new
    BY <1>4, <2>1
  <2>2. CASE i + out \in 0..(q_cnt - 1) /\ Entry(i)' = Entry(i + out)
    BY <1>1, <2>2
  <2>3. QED
    BY <1>2, <2>1, <2>2
<1>6. Entry(i)' \cap Group(new) = {}
  <2>1. CASE i = q_cnt - out /\ Pushed(new) /\ Entry(i)' = new
    BY <1>4, <2>1
  <2>2. CASE i + out \in 0..(q_cnt - 1) /\ Entry(i)' = Entry(i + out)
    <3>1. i + out >= out
      OBVIOUS
    <3>2. QED
      BY <1>3, <2>2, <3>1
  <2>3. QED
    BY <1>2, <2>1, <2>2
<1>7. ASSUME NEW j \in 0..(q_cnt' - 1), i # j
      PROVE  Entry(i)' \cap Entry(j)' = {}
  <2>1. \A k \in 0..(q_cnt - 1) : Entry(k) \cap new = {}
    BY <1>1
  <2>2. i + out # j + out
    BY <1>7
  <2> HIDE DEF out
  <2>3. CASE Entry(i)' = new
    BY <1>2, <1>7, <2>1, <2>3
  <2>4. CASE Entry(j)' = new
    BY <1>2, <1>7, <2>1, <2>4
  <2>5. CASE Entry(i)' # new /\ Entry(j)' # new
    BY <1>1, <1>2, <2>2, <2>5
  <2>6. QED
    BY <2>3, <2>4, <2>5
<1>8. QED
  BY <1>5, <1>6, <1>7

LEMMA ClockKeepsIInv ==
  ASSUME PtrMod = N, IInv, NEW new, NEW fin, NEW ready, NEW dout,
         Inputs(new, fin, ready, dout)
  PROVE  IInv'
<1> DEFINE req == outstanding \cup new
           grant == Grant(ValidReq(req, dout), ready)
<1>1. /\ new \in SUBSET (Channel \ outstanding)
      /\ fin \subseteq req \cap grant
      /\ outstanding' = req \ fin
      /\ queued' = (queued \cup req) \ (req \cap grant \cap fin)
  BY DEF Inputs, Cycle, Clock, QueuedStep
<1>2. /\ TypeOK /\ OwnerIsPending /\ NoLostRequest
      /\ queued = outstanding
  BY DEF IInv, OneTurnEach
<1>3. queued' = outstanding'
  BY <1>1, <1>2
<1> HIDE DEF grant
<1>4. /\ pending' = Group(new) \ fin
      /\ fin \subseteq Group(new)
      /\ Group(new) \in SUBSET Channel
  BY ArbitrationStep
<1>5. QueueMoves(new) /\ q_cnt' \in 0..N
  BY QueueMotion
<1>6. TypeOK'
  <2>1. outstanding' \in SUBSET Channel /\ pending' \in SUBSET Channel
    BY <1>1, <1>2, <1>4 DEF TypeOK
  <2>2. QED
    BY <1>3, <2>1, ArbitrationStep, QueueMotion DEF TypeOK
<1>7. QueueFacts'
  BY <1>6, QueueTypes, PTL
<1>8. ASSUME NEW i \in 0..(q_cnt' - 1)
      PROVE  /\ Entry(i)' # {}
             /\ Entry(i)' \subseteq req
             /\ Entry(i)' \cap Group(new) = {}
             /\ \A j \in 0..(q_cnt' - 1) : i # j => Entry(i)' \cap Entry(j)' = {}
  BY <1>1, <1>5, WaitingAfter
<1>9. QueueWellFormed'
  BY <1>8, QueueMotion DEF QueueWellFormed
<1>10. \A c : c \in InQueue' <=> \E i \in 0..(q_cnt' - 1) : c \in Entry(i)'
  BY <1>7 DEF QueueFacts, InEntries
<1>11. Group(new) \subseteq req
  <2>1. q_cnt > 0 => Entry(0) \subseteq outstanding
    <3>1. q_cnt > 0 => 0 \in 0..(q_cnt - 1)
      BY <1>2 DEF TypeOK
    <3>2. QED
      BY <1>2, <3>1, QueueTypes DEF QueueFacts, InEntries, NoLostRequest
  <2>2. QED
    BY <1>2, <2>1 DEF Group, NoLostRequest
<1>12. ASSUME NEW c \in req, c \notin Group(new)
       PROVE  c \in InQueue'
  <2>1. CASE \E i \in 0..(q_cnt - 1) : c \in Entry(i)
    <3>1. PICK i \in 0..(q_cnt - 1) : c \in Entry(i)
      BY <2>1
    <3>2. CASE Popped
      <4>1. i # 0
        BY <1>12, <3>1, <3>2 DEF Popped, Group
      <4>2. i - 1 \in 0..(q_cnt - 2) /\ i - 1 \in 0..(q_cnt' - 1)
        BY <1>2, <1>5, <3>2, <4>1 DEF QueueMoves, TypeOK
      <4>3. Entry(i - 1)' = Entry(i)
        BY <1>2, <1>5, <3>2, <4>2 DEF QueueMoves, TypeOK
      <4>4. QED
        BY <1>10, <3>1, <4>2, <4>3
    <3>3. CASE ~Popped
      <4>1. i \in 0..(q_cnt' - 1) /\ Entry(i)' = Entry(i)
        BY <1>2, <1>5, <3>3 DEF QueueMoves, TypeOK
      <4>2. QED
        BY <1>10, <3>1, <4>1
    <3>4. QED
      BY <3>2, <3>3
  <2>2. CASE c \in pending
    BY <1>12, <2>2 DEF Group
  <2>3. CASE c \in new
    <3>1. Pushed(new)
      BY <1>2, <1>12, <2>3 DEF Group, Pushed, TypeOK
    <3>2. \E k \in Nat : k = q_cnt - (IF Popped THEN 1 ELSE 0)
      <4>1. q_cnt \in Nat /\ (Popped => q_cnt - 1 \in Nat)
        BY <1>2 DEF Popped, TypeOK
      <4>2. CASE Popped
        BY <4>1, <4>2
      <4>3. CASE ~Popped
        BY <4>1, <4>3
      <4>4. QED
        BY <4>2, <4>3
    <3>3. PICK k \in Nat : k = q_cnt - (IF Popped THEN 1 ELSE 0)
      BY <3>2
    <3>4. k \in 0..(q_cnt' - 1) /\ Entry(k)' = new
      BY <1>2, <1>5, <3>1, <3>3 DEF QueueMoves, TypeOK
    <3>5. QED
      BY <1>10, <2>3, <3>4
  <2>4. QED
    BY <1>2, <1>12, <2>1, <2>2, <2>3, QueueTypes DEF QueueFacts, InEntries, NoLostRequest
<1>13. NoLostRequest'
  <2>1. InQueue' \subseteq outstanding'
    BY <1>1, <1>4, <1>8, <1>10
  <2>2. QED
    BY <1>1, <1>4, <1>11, <1>12, <2>1 DEF NoLostRequest
<1>14. OneTurnEach'
  <2>1. Entries' = 0..(q_cnt' - 1)
    BY <1>7 DEF QueueFacts
  <2>2. QED
    BY <1>3, <1>4, <1>8, <2>1 DEF OneTurnEach
<1>15. QED
  BY <1>6, <1>9, <1>13, <1>14, ArbitrationStep DEF IInv

LEMMA InitIInv == PtrMod = N /\ Init => IInv
<1> SUFFICES ASSUME PtrMod = N, Init
             PROVE  IInv
  OBVIOUS
<1>1. TypeOK
  BY DEF Init, TypeOK
<1>2. Entries = {} /\ InQueue = {}
  BY <1>1, QueueTypes DEF QueueFacts, InEntries, Init
<1>3. QED
  BY <1>1, <1>2 DEF Init, IInv, EveryChannelRanked, QueueWellFormed, Slot,
                    OwnerIsPending, NoLostRequest, OneTurnEach

LEMMA NextKeepsIInv == PtrMod = N /\ IInv /\ [Next]_vars => IInv'
<1> SUFFICES ASSUME PtrMod = N, IInv, [Next]_vars
             PROVE  IInv'
  OBVIOUS
<1>1. CASE Next
  <2>1. PICK new \in SUBSET (Channel \ outstanding), fin \in SUBSET Channel,
             ready \in BOOLEAN, dout \in q_doutValues :
             Inputs(new, fin, ready, dout)
    BY <1>1 DEF Next, Inputs
  <2>2. QED
    BY <2>1, ClockKeepsIInv
<1>2. CASE UNCHANGED vars
  <2>1. UNCHANGED <<arbVars, outstanding>>
    BY <1>2 DEF vars
  <2>2. TypeOK' /\ EveryChannelRanked' /\ OwnerIsPending'
    BY <2>1 DEF arbVars, IInv, TypeOK, EveryChannelRanked, OwnerIsPending
  <2>3. \A i \in Int : Slot(i)' = Slot(i) /\ Entry(i)' = Entry(i)
    BY <2>1 DEF arbVars, Slot, Entry
  <2>4. q_cnt' = q_cnt /\ q_cnt \in Int
    BY <2>1 DEF arbVars, IInv, TypeOK
  <2>5. QueueWellFormed'
    BY <2>1, <2>3, <2>4 DEF arbVars, IInv, QueueWellFormed
  <2>6. Entries' = Entries /\ InQueue' = InQueue
    <3>1. Entries' = Entries
      BY <2>3, <2>4 DEF Entries
    <3>2. QED
      BY <2>3, <3>1 DEF InQueue, Entries
  <2>7. NoLostRequest' /\ OneTurnEach'
    BY <2>1, <2>3, <2>6 DEF arbVars, IInv, NoLostRequest, OneTurnEach, Entries
  <2>8. QED
    BY <2>2, <2>5, <2>7 DEF IInv
<1>3. QED
  BY <1>1, <1>2

LEMMA Invariance == PtrMod = N => (Spec => []IInv)
<1>1. SUFFICES ASSUME PtrMod = N
               PROVE  Spec => []IInv
  OBVIOUS
<1>2. Init => IInv
  BY <1>1, InitIInv
<1>3. IInv /\ [Next]_vars => IInv'
  BY <1>1, NextKeepsIInv
<1>4. QED
  BY <1>2, <1>3, PTL DEF Spec

-----------------------------------------------------------------------------
(* The arbiter serves the requests in the order of its header comment *)

\* The requests in line and the owner of the resource, as FairArbiter sees
\* them in the registers.
Behind == [i \in 1..q_cnt |-> Entry(i - 1)]
Line == (IF pending = {} THEN <<>> ELSE <<pending>>) \o Behind
Owner == IF state = S_BUSY THEN CHOOSE c \in granted : TRUE ELSE N
Arrived(new) == IF new = {} THEN Line ELSE Append(Line, new)

LEMMA ConcatShape ==
  ASSUME NEW T, NEW a \in Seq(T), NEW n \in Nat, NEW f \in [1..n -> T]
  PROVE  /\ f \in Seq(T) /\ Len(f) = n
         /\ a \o f \in Seq(T)
         /\ Len(a \o f) = Len(a) + n
         /\ \A i \in 1..(Len(a) + n) :
               (a \o f)[i] = IF i <= Len(a) THEN a[i] ELSE f[i - Len(a)]
<1>1. f \in Seq(T) /\ Len(f) = n
  OBVIOUS
<1>2. QED
  BY <1>1

\* The line as a function: the pending group first, the queue behind it.
Ahead == IF pending = {} THEN 0 ELSE 1

LineFacts ==
    /\ Line \in Seq(SUBSET Channel)
    /\ Behind \in Seq(SUBSET Channel)
    /\ Len(Behind) = q_cnt
    /\ \A i \in 1..q_cnt : Behind[i] = Entry(i - 1)
    /\ Len(Line) = Ahead + q_cnt
    /\ Ahead = 1 => Line[1] = pending
    /\ \A i \in 1..q_cnt : Line[i + Ahead] = Entry(i - 1)

LEMMA LineShape == PtrMod = N /\ IInv => LineFacts
<1> DEFINE a == IF pending = {} THEN <<>> ELSE <<pending>>
<1> SUFFICES ASSUME PtrMod = N, IInv
             PROVE  LineFacts
  OBVIOUS
<1>1. q_cnt \in 0..N
  BY DEF IInv, TypeOK
<1>2. pending \in SUBSET Channel
  BY DEF IInv, TypeOK
<1>3. \A i \in 1..q_cnt : Entry(i - 1) \in SUBSET Channel
  <2>1. ASSUME NEW i \in 1..q_cnt
        PROVE  i - 1 \in 0..N
    BY <1>1
  <2>2. \A i \in 0..N : Entry(i) \in SUBSET Channel
    BY QueueTypes DEF QueueFacts, IInv
  <2>3. QED
    BY <2>1, <2>2
<1>4. Behind \in [1..q_cnt -> SUBSET Channel]
  BY <1>3 DEF Behind
<1>5. a \in Seq(SUBSET Channel) /\ Len(a) = Ahead /\ (Ahead = 1 => a[1] = pending)
  <2>1. CASE pending = {}
    BY <2>1 DEF Ahead
  <2>2. CASE pending # {}
    <3>1. a = <<pending>> /\ Ahead = 1
      BY <2>2 DEF Ahead
    <3> HIDE DEF a, Channel
    <3>2. QED
      BY <1>2, <3>1
  <2>3. QED
    BY <2>1, <2>2
<1>6. Line = a \o Behind
  BY DEF Line
<1>7. Ahead \in {0, 1}
  BY DEF Ahead
<1> HIDE DEF a
<1>8. /\ Behind \in Seq(SUBSET Channel) /\ Len(Behind) = q_cnt
      /\ Line \in Seq(SUBSET Channel) /\ Len(Line) = Ahead + q_cnt
      /\ \A i \in 1..(Ahead + q_cnt) :
            Line[i] = IF i <= Ahead THEN a[i] ELSE Behind[i - Ahead]
  <2>1. q_cnt \in Nat
    BY <1>1
  <2>2. QED
    BY <1>4, <1>5, <1>6, <2>1, ConcatShape
<1>9. Ahead = 1 => Line[1] = pending
  BY <1>1, <1>5, <1>8
<1>10. ASSUME NEW i \in 1..q_cnt
       PROVE  Behind[i] = Entry(i - 1) /\ Line[i + Ahead] = Entry(i - 1)
  <2>1. Behind[i] = Entry(i - 1)
    BY DEF Behind
  <2>2. i + Ahead \in 1..(Ahead + q_cnt) /\ ~ (i + Ahead <= Ahead)
        /\ (i + Ahead) - Ahead = i
    BY <1>1, <1>7
  <2>3. QED
    BY <1>8, <2>1, <2>2
<1>11. QED
  BY <1>8, <1>9, <1>10 DEF LineFacts

\* FairArbiter's waiting channels are the unfinished requests.
LEMMA WaitingIsOutstanding ==
  ASSUME PtrMod = N, IInv
  PROVE  UNION {Line[i] : i \in 1..Len(Line)} = outstanding
<1>1. q_cnt \in 0..N /\ Ahead \in {0, 1}
  BY DEF IInv, TypeOK, Ahead
<1>2. /\ Len(Line) = Ahead + q_cnt
      /\ Ahead = 1 => Line[1] = pending
      /\ \A i \in 1..q_cnt : Line[i + Ahead] = Entry(i - 1)
  BY LineShape DEF LineFacts
<1>3. /\ outstanding = pending \cup InQueue
      /\ \A c : c \in InQueue <=> \E i \in 0..(q_cnt - 1) : c \in Entry(i)
  BY QueueTypes DEF QueueFacts, InEntries, IInv, NoLostRequest
<1>4. ASSUME NEW i \in 1..Len(Line)
      PROVE  Line[i] \subseteq outstanding
  <2>1. CASE i <= Ahead
    <3>1. i = 1 /\ Ahead = 1
      BY <1>1, <1>2, <2>1
    <3>2. QED
      BY <1>2, <1>3, <3>1
  <2>2. CASE i > Ahead
    <3>1. PICK j \in 1..q_cnt : j + Ahead = i /\ j - 1 \in 0..(q_cnt - 1)
      <4>1. /\ i - Ahead \in 1..q_cnt /\ (i - Ahead) + Ahead = i
            /\ (i - Ahead) - 1 \in 0..(q_cnt - 1)
        BY <1>1, <1>2, <2>2
      <4>2. QED
        BY <4>1
    <3>2. Line[i] = Entry(j - 1)
      BY <1>2, <3>1
    <3>3. QED
      BY <1>3, <3>1, <3>2
  <2>3. QED
    BY <1>1, <1>2, <2>1, <2>2
<1>5. ASSUME NEW c \in outstanding
      PROVE  \E i \in 1..Len(Line) : c \in Line[i]
  <2>1. CASE c \in pending
    <3>1. 1 \in 1..Len(Line) /\ Line[1] = pending
      BY <1>1, <1>2, <2>1 DEF Ahead
    <3>2. QED
      BY <2>1, <3>1
  <2>2. CASE c \in InQueue
    <3>1. PICK i \in 0..(q_cnt - 1) : c \in Entry(i)
      BY <1>3, <2>2
    <3>2. PICK j \in 1..q_cnt : j - 1 = i
      <4>1. i + 1 \in 1..q_cnt /\ (i + 1) - 1 = i
        BY <1>1
      <4>2. QED
        BY <4>1
    <3>3. Line[j + Ahead] = Entry(i)
      BY <1>2, <3>2
    <3>4. j + Ahead \in 1..Len(Line)
      BY <1>1, <1>2
    <3>5. QED
      BY <3>1, <3>3, <3>4
  <2>3. QED
    BY <1>3, <2>1, <2>2
<1>6. QED
  BY <1>4, <1>5

\* The arrivals close the line, and its head is the group the arbiter turns to.
LEMMA LineAfterArrivals ==
  ASSUME PtrMod = N, IInv, IInv', NEW new \in SUBSET (Channel \ outstanding),
         QueueMoves(new), Group(new) # {}
  PROVE  Arrived(new) = <<Group(new)>> \o Behind'
<1> DEFINE out == IF Popped THEN 1 ELSE 0
           in == IF Pushed(new) THEN 1 ELSE 0
           g == Group(new)
           B == Behind'
           L == Arrived(new)
           R == <<g>> \o B
           n == q_cnt'
<1>1. /\ q_cnt \in 0..N /\ n \in 0..N
      /\ Ahead \in {0, 1} /\ out \in {0, 1} /\ in \in {0, 1}
  BY DEF IInv, TypeOK, Ahead
<1>2. /\ state = S_BUSY => pending # {}
      /\ state \in {S_IDLE, S_BUSY}
  BY DEF IInv, TypeOK, OwnerIsPending
<1>3. /\ n = q_cnt - out + in
      /\ \A i \in 0..(q_cnt - out - 1) : Entry(i)' = Entry(i + out)
      /\ in = 1 => \A i \in Nat : i = q_cnt - out => Entry(i)' = new
  BY DEF QueueMoves
<1>4. /\ q_cnt > 0 => out = 1 - Ahead
      /\ q_cnt = 0 => out = 0
      /\ in = 1 <=> new # {} /\ (q_cnt > 0 \/ Ahead = 1)
      /\ Ahead = 1 => g = pending
      /\ Ahead = 0 /\ q_cnt > 0 => g = Entry(0)
      /\ Ahead = 0 /\ q_cnt = 0 => g = new /\ new # {}
  BY <1>1, <1>2 DEF Popped, Pushed, Ahead, Group
<1>5. B \in Seq(SUBSET Channel) /\ Len(B) = n
  <2>1. LineFacts'
    BY LineShape, PTL
  <2>2. QED
    BY <2>1 DEF LineFacts
<1>6. \A i \in 1..n : B[i] = Entry(i - 1)'
  <2>1. LineFacts'
    BY LineShape, PTL
  <2>2. QED
    BY <2>1 DEF LineFacts
<1>7. g \in SUBSET Channel
  <2>1. pending \in SUBSET Channel /\ Entry(0) \in SUBSET Channel
    <3>1. 0 \in 0..N /\ pending \in SUBSET Channel
      BY DEF IInv, TypeOK
    <3>2. \A i \in 0..N : Entry(i) \in SUBSET Channel
      BY QueueTypes DEF QueueFacts, IInv
    <3>3. QED
      BY <3>1, <3>2
  <2> HIDE DEF Channel
  <2>2. QED
    BY <2>1 DEF Group, Channel
<1>8. /\ Line \in Seq(SUBSET Channel) /\ Len(Line) = Ahead + q_cnt
      /\ Ahead = 1 => Line[1] = pending
      /\ \A i \in 1..q_cnt : Line[i + Ahead] = Entry(i - 1)
  BY LineShape DEF LineFacts
<1> HIDE DEF out, in, g, B, n
<1>9. R \in Seq(SUBSET Channel) /\ Len(R) = 1 + n
      /\ R[1] = g /\ \A i \in 1..n : R[i + 1] = B[i]
  <2>1. <<g>> \in Seq(SUBSET Channel) /\ Len(<<g>>) = 1 /\ <<g>>[1] = g
    BY <1>7
  <2> HIDE DEF Channel
  <2>2. n \in Nat
    BY <1>1
  <2>3. QED
    BY <1>5, <2>1, <2>2
<1>10. /\ L \in Seq(SUBSET Channel) /\ Len(L) = 1 + n
       /\ \A i \in 1..Len(Line) : L[i] = Line[i]
       /\ new # {} => L[1 + n] = new
  <2>1. new \in SUBSET Channel
    OBVIOUS
  <2>2. CASE new = {}
    <3>1. L = Line
      BY <2>2 DEF Arrived
    <3>2. QED
      BY <1>1, <1>3, <1>4, <1>8, <2>2, <3>1
  <2>3. CASE new # {}
    <3>1. L = Append(Line, new)
      BY <2>3 DEF Arrived
    <3>2. Len(Line) = n
      BY <1>1, <1>3, <1>4, <1>8, <2>3
    <3> HIDE DEF Channel, L
    <3>3. QED
      BY <1>8, <2>1, <2>3, <3>1, <3>2
  <2>4. QED
    BY <2>2, <2>3
<1> HIDE DEF L, R
<1>11. L[1] = g
  <2>1. CASE Ahead = 1
    BY <1>1, <1>4, <1>8, <1>10, <2>1
  <2>2. CASE Ahead = 0 /\ q_cnt > 0
    <3>1. 1 \in 1..q_cnt /\ 1 \in 1..Len(Line) /\ 1 + Ahead = 1 /\ 1 - 1 = 0
      BY <1>1, <1>8, <2>2
    <3>2. L[1] = Line[1] /\ Line[1] = Entry(0)
      BY <1>8, <1>10, <3>1
    <3>3. QED
      BY <1>4, <2>2, <3>2
  <2>3. CASE Ahead = 0 /\ q_cnt = 0
    <3>1. n = 0
      BY <1>1, <1>3, <1>4, <2>3
    <3>2. QED
      BY <1>4, <1>10, <2>3, <3>1
  <2>4. QED
    BY <1>1, <2>1, <2>2, <2>3
<1>12. ASSUME NEW i \in 1..n
       PROVE  L[i + 1] = B[i]
  <2>1. CASE i + 1 \in 1..Len(Line)
    <3>1. q_cnt > 0 /\ out = 1 - Ahead
      BY <1>1, <1>3, <1>4, <1>8, <2>1
    <3>2. PICK j \in 1..q_cnt : j + Ahead = i + 1 /\ j - 1 = (i - 1) + out
      <4>1. /\ (i + 1) - Ahead \in 1..q_cnt
            /\ ((i + 1) - Ahead) + Ahead = i + 1
            /\ ((i + 1) - Ahead) - 1 = (i - 1) + out
        BY <1>1, <1>8, <2>1, <3>1
      <4>2. QED
        BY <4>1
    <3>3. i - 1 \in 0..(q_cnt - out - 1)
      BY <1>1, <3>1, <3>2
    <3>4. Entry(i - 1)' = Entry(j - 1)
      BY <1>3, <3>2, <3>3
    <3>5. L[i + 1] = Entry(j - 1)
      BY <1>8, <1>10, <2>1, <3>2
    <3>6. QED
      BY <1>6, <3>4, <3>5
  <2>2. CASE i + 1 \notin 1..Len(Line)
    <3>1. new # {} /\ i = n /\ in = 1 /\ i - 1 \in Nat /\ i - 1 = q_cnt - out
      BY <1>1, <1>3, <1>4, <1>8, <1>10, <2>2
    <3>2. Entry(i - 1)' = new
      BY <1>3, <3>1
    <3>3. QED
      BY <1>6, <1>10, <3>1, <3>2
  <2>3. QED
    BY <2>1, <2>2
<1>13. \A i \in 1..(1 + n) : L[i] = R[i]
  <2>1. ASSUME NEW i \in 1..(1 + n), i # 1
        PROVE  L[i] = R[i]
    <3>1. i - 1 \in 1..n /\ (i - 1) + 1 = i
      BY <1>1, <2>1
    <3>2. QED
      BY <1>9, <1>12, <3>1
  <2>2. QED
    BY <1>9, <1>11, <2>1
<1>14. L = R
  BY <1>9, <1>10, <1>13, SeqEqual
<1>15. QED
  BY <1>14 DEF L, R, B, g

\* Both ways to choose among the requests name the least recently used one.
LEMMA WinnerIsOldest ==
  ASSUME IInv, NEW S \in SUBSET Channel, S # {}
  PROVE  /\ Fair!Oldest(S) = Winner(S)
         /\ Winner(S) \in Channel
         /\ Fair!MoveToBack(Winner(S)) = RotatePrio(Winner(S))
<1> DEFINE Least(k) == prio[k] \in S /\ \A j \in Channel : prio[j] \in S => k <= j
<1> DEFINE First(k) == prio[k] \in S /\ \A j \in 0..(k - 1) : prio[j] \notin S
<1>1. Winner(S) \in Channel /\ First(Winner(S))
  <2>1. Winner(S) = CHOOSE k \in Channel : First(k)
    BY DEF Winner
  <2>2. \E k \in Channel : First(k)
    BY WinnerHasRank DEF IInv
  <2> HIDE DEF First
  <2>3. QED
    BY <2>1, <2>2
<1>2. Least(Winner(S))
  BY <1>1
<1>3. \A k \in Channel : Least(k) => k = Winner(S)
  BY <1>1, <1>2
<1>4. Fair!Oldest(S) = CHOOSE k \in Channel : Least(k)
  BY DEF Fair!Oldest, Fair!Channel
<1>5. Fair!Oldest(S) \in Channel /\ Least(Fair!Oldest(S))
  <2> HIDE DEF Least
  <2>1. QED
    BY <1>1, <1>2, <1>4
<1>6. Fair!MoveToBack(Winner(S)) = RotatePrio(Winner(S))
  BY <1>1 DEF Fair!MoveToBack, Fair!Channel, RotatePrio
<1>7. QED
  BY <1>1, <1>3, <1>5, <1>6

\* What leaving does to a line: its head loses a channel, and goes when it
\* has no other.
LEMMA HeadAndRest ==
  ASSUME NEW T, NEW g \in SUBSET T, NEW b \in Seq(SUBSET T)
  PROVE  /\ (<<g>> \o b)[1] = g
         /\ <<g>> \o b # <<>>
         /\ <<>> \o b = b
         /\ Tail(<<g>> \o b) = b
<1> DEFINE L == <<g>> \o b
<1>1. /\ L \in Seq(SUBSET T) /\ Len(L) = 1 + Len(b) /\ L[1] = g
      /\ \A i \in 2..Len(L) : L[i] = b[i - 1]
  OBVIOUS
<1>2. L # <<>> /\ <<>> \o b = b
  BY <1>1
<1>3. Tail(L) = b
  <2>1. Tail(L) \in Seq(SUBSET T) /\ Len(Tail(L)) = Len(b)
    BY <1>1
  <2>2. \A i \in 1..Len(b) : Tail(L)[i] = b[i]
    BY <1>1
  <2> HIDE DEF L
  <2>3. QED
    BY <2>1, <2>2, SeqEqual
<1>4. QED
  BY <1>1, <1>2, <1>3

\* The registers hold the line that FairArbiter computes.
LEMMA LineMoves ==
  ASSUME PtrMod = N, IInv, IInv', NEW new \in SUBSET (Channel \ outstanding),
         QueueMoves(new), Group(new) # {},
         NEW fin, pending' = Group(new) \ fin
  PROVE  /\ Arrived(new) # <<>>
         /\ Arrived(new)[1] = Group(new)
         /\ fin = {} => Line' = Arrived(new)
         /\ \A c \in Group(new) :
               fin = {c} => Line' = Fair!Leave(Arrived(new), c)
<1> DEFINE g == Group(new)
           B == Behind'
<1>1. Arrived(new) = <<g>> \o B
  BY LineAfterArrivals
<1>2. B \in Seq(SUBSET Channel)
  <2>1. LineFacts'
    BY LineShape, PTL
  <2>2. QED
    BY <2>1 DEF LineFacts
<1>3. g \in SUBSET Channel
  <2>1. 0 \in 0..N /\ pending \in SUBSET Channel
    BY DEF IInv, TypeOK
  <2>2. Entry(0) \in SUBSET Channel
    BY <2>1, QueueTypes DEF QueueFacts, IInv
  <2> HIDE DEF Channel
  <2>3. QED
    BY <2>1, <2>2 DEF Group, Channel
<1>4. Line' = (IF g \ fin = {} THEN <<>> ELSE <<g \ fin>>) \o B
  BY DEF Line
<1>5. g # {}
  OBVIOUS
<1> HIDE DEF g, B, Channel
<1>6. /\ (<<g>> \o B)[1] = g
      /\ <<g>> \o B # <<>>
      /\ <<>> \o B = B
      /\ Tail(<<g>> \o B) = B
  BY <1>2, <1>3, HeadAndRest
<1>7. fin = {} => Line' = Arrived(new)
  <2>1. g \ {} = g
    OBVIOUS
  <2>2. QED
    BY <1>1, <1>4, <1>5, <2>1
<1>8. ASSUME NEW c \in g, fin = {c}
      PROVE  Line' = Fair!Leave(Arrived(new), c)
  <2>1. g \ {c} = {} <=> g = {c}
    BY <1>8
  <2>2. PICK s \in SUBSET Channel : s = g
    BY <1>3
  <2>3. PICK b \in Seq(SUBSET Channel) : b = B
    BY <1>2
  <2>4. PICK L : L = <<s>> \o b
    OBVIOUS
  <2>5. PICK h \in SUBSET Channel : h = s \ {c}
    OBVIOUS
  <2>6. PICK M : M = [L EXCEPT ![1] = h]
    OBVIOUS
  <2>7. L \in Seq(SUBSET Channel) /\ 1 \in 1..Len(L)
    BY <2>4
  <2>8. /\ M \in Seq(SUBSET Channel) /\ Len(M) = Len(L) /\ M[1] = h
        /\ \A i \in 1..Len(M) : i # 1 => M[i] = L[i]
    BY ONLY <2>6, <2>7, h \in SUBSET Channel, ExceptSeq
  <2>9. M = <<h>> \o b
    <3> DEFINE R == <<h>> \o b
    <3>1. R \in Seq(SUBSET Channel) /\ Len(R) = 1 + Len(b) /\ R[1] = h
          /\ \A i \in 2..Len(R) : R[i] = b[i - 1]
      OBVIOUS
    <3>2. /\ Len(L) = 1 + Len(b)
          /\ \A i \in 2..Len(L) : L[i] = b[i - 1]
      BY <2>4
    <3> HIDE DEF R
    <3>3. ASSUME NEW i \in 1..Len(M)
          PROVE  M[i] = R[i]
      <4>1. CASE i = 1
        BY <2>8, <3>1, <4>1
      <4>2. CASE i # 1
        <5>1. i \in 2..Len(L) /\ i \in 2..Len(R)
          BY <2>7, <2>8, <3>1, <3>2, <4>2
        <5>2. QED
          BY <2>8, <3>1, <3>2, <4>2, <5>1
      <4>3. QED
        BY <4>1, <4>2
    <3>4. M = R
      BY <2>7, <2>8, <3>1, <3>2, <3>3, SeqEqual
    <3>5. QED
      BY <3>4 DEF R
  <2>10. Fair!Leave(L, c) = IF g = {c} THEN B ELSE <<h>> \o B
    BY <1>6, <2>2, <2>3, <2>4, <2>5, <2>6, <2>9 DEF Fair!Leave
  <2>11. QED
    BY <1>1, <1>4, <1>6, <1>8, <2>1, <2>2, <2>3, <2>4, <2>5, <2>10
<1>9. QED
  BY <1>1, <1>6, <1>7, <1>8 DEF g

LEMMA ClockIsFair ==
  ASSUME PtrMod = N, IInv, IInv', NEW new, NEW fin, NEW ready, NEW dout,
         Inputs(new, fin, ready, dout)
  PROVE  [Fair!Next]_(Fair!vars)
<1> DEFINE req == outstanding \cup new
           valid == ValidReq(req, dout)
           grant == Grant(valid, ready)
           L == Arrived(new)
           k == Winner(Group(new))
<1>1. /\ valid = Group(new)
      /\ valid \in SUBSET Channel
      /\ grant \subseteq valid
      /\ fin \subseteq grant
      /\ valid = {} => NextGranted(valid) = {}
  BY Signals
<1>2. /\ new \in SUBSET (Channel \ outstanding)
      /\ pending' = Group(new) \ fin
      /\ QueueMoves(new)
  BY ArbitrationStep, QueueMotion DEF Inputs
<1>3. /\ state = S_BUSY => \E c \in pending : granted = {c} /\ Owner = c
      /\ state = S_IDLE => Owner = N
      /\ state' = S_IDLE => Owner' = N
      /\ \A c : state' = S_BUSY /\ granted' = {c} => Owner' = c
  BY DEF IInv, OwnerIsPending, Owner
<1>4. new \in SUBSET (Channel \ Fair!Waiting)
  <2>1. Fair!Waiting = outstanding
    BY WaitingIsOutstanding DEF Fair!Waiting, Line, Behind
  <2>2. QED
    BY <1>2, <2>1
<1>5. ASSUME Group(new) # {}
      PROVE  /\ L # <<>>
             /\ L[1] = Group(new)
             /\ fin = {} => Line' = L
             /\ \A c \in Group(new) : fin = {c} => Line' = Fair!Leave(L, c)
             /\ Fair!Oldest(L[1]) = k
             /\ k \in Channel
             /\ prio[k] \in Group(new)
             /\ Fair!MoveToBack(k) = RotatePrio(k)
             /\ NextGranted(Group(new)) = {prio[k]}
  <2>1. /\ L # <<>>
        /\ L[1] = Group(new)
        /\ fin = {} => Line' = L
        /\ \A c \in Group(new) : fin = {c} => Line' = Fair!Leave(L, c)
    BY <1>2, <1>5, LineMoves
  <2>2. Group(new) \in SUBSET Channel
    BY <1>1
  <2>3. /\ Fair!Oldest(Group(new)) = k
        /\ k \in Channel
        /\ Fair!MoveToBack(k) = RotatePrio(k)
    BY <1>5, <2>2, WinnerIsOldest
  <2>4. prio[k] \in Group(new)
    BY <1>5, <2>2, WinnerExists DEF IInv
  <2>5. NextGranted(Group(new)) = {prio[k]}
    BY <1>5 DEF NextGranted
  <2>6. QED
    BY <2>1, <2>3, <2>4, <2>5
<1>6. ASSUME NEW done \in BOOLEAN, Owner = N, L # <<>>,
             prio' = Fair!MoveToBack(Fair!Oldest(L[1])),
             Owner' = IF done THEN N ELSE prio[Fair!Oldest(L[1])],
             Line' = IF done THEN Fair!Leave(L, prio[Fair!Oldest(L[1])]) ELSE L
      PROVE  Fair!Next
  <2>1. Fair!Take(new, done)
    BY <1>6 DEF Fair!Take, Fair!Arrive, Line, Behind, Owner, Arrived
  <2>2. QED
    BY <1>4, <2>1 DEF Fair!Next, Fair!Channel
<1>7. ASSUME NEW done \in BOOLEAN, Owner # N, prio' = prio,
             Owner' = IF done THEN N ELSE Owner,
             Line' = IF done THEN Fair!Leave(L, Owner) ELSE L
      PROVE  Fair!Next
  <2>1. Fair!Keep(new, done)
    BY <1>7 DEF Fair!Keep, Fair!Arrive, Line, Behind, Owner, Arrived
  <2>2. QED
    BY <1>4, <2>1 DEF Fair!Next, Fair!Channel
<1>8. \/ Rest(valid, fin)
      \/ Start(valid, grant, fin)
      \/ StartAndFinish(valid, grant, fin)
      \/ Finish(valid, grant, fin)
      \/ Hold(valid, grant, fin)
  BY DEF Inputs, Cycle, Clock
<1>9. /\ state = S_IDLE => grant \subseteq NextGranted(valid)
      /\ state = S_BUSY => grant \subseteq granted
  BY DEF Grant
<1>10. state = S_BUSY => Group(new) = pending /\ pending # {}
  BY <1>3 DEF Group
<1> HIDE DEF req, valid, grant, L, k
<1>11. CASE Rest(valid, fin)
  <2>1. Group(new) = {}
    BY <1>1, <1>5, <1>11 DEF Rest
  <2>2. Line = <<>> /\ Line' = <<>>
    <3>1. pending = {} /\ pending' = {} /\ q_cnt = 0 /\ new = {}
      <4>1. q_cnt > 0 => Entry(0) # {}
        BY Signals
      <4>2. pending = {}
        BY <2>1 DEF Group
      <4>3. q_cnt \in 0..N
        BY DEF IInv, TypeOK
      <4>4. ~ (q_cnt > 0)
        BY <2>1, <4>1, <4>2 DEF Group
      <4>5. new = {}
        BY <2>1, <4>2, <4>4 DEF Group
      <4>6. pending' = {} \ fin
        BY <1>2, <2>1
      <4>7. QED
        BY <4>2, <4>3, <4>4, <4>5, <4>6
    <3>2. q_cnt' = 0
      BY <3>1, <1>2 DEF QueueMoves, Popped, Pushed
    <3>3. Len(Line) = 0 /\ Line \in Seq(SUBSET Channel)
      BY <3>1, LineShape DEF LineFacts, Ahead
    <3>4. Len(Line') = 0 /\ Line' \in Seq(SUBSET Channel)
      <4>1. LineFacts'
        BY LineShape, PTL
      <4>2. QED
        BY <3>1, <3>2, <4>1 DEF LineFacts, Ahead
    <3> HIDE DEF Channel
    <3>5. Line = <<>>
      BY <3>3
    <3>6. Line' = <<>>
      BY <3>4
    <3>7. QED
      BY <3>5, <3>6
  <2>3. Owner' = Owner /\ prio' = prio
    BY <1>3, <1>11 DEF Rest
  <2>4. UNCHANGED <<Line, Owner, prio>>
    BY <2>2, <2>3
  <2>5. QED
    BY <2>4 DEF Fair!vars, Line, Behind, Owner
<1>12. CASE Start(valid, grant, fin)
  <2>1. Group(new) # {} /\ fin = {}
    BY <1>1, <1>12 DEF Start
  <2>2. /\ Owner = N /\ Owner' = prio[k] /\ prio' = RotatePrio(k)
    BY <1>1, <1>3, <1>5, <1>12, <2>1 DEF Start, k
  <2>3. QED
    BY <1>5, <1>6, <2>1, <2>2
<1>13. CASE StartAndFinish(valid, grant, fin)
  <2>1. Group(new) # {} /\ fin = {prio[k]}
    BY <1>1, <1>5, <1>9, <1>13 DEF StartAndFinish
  <2>2. /\ Owner = N /\ Owner' = N /\ prio' = RotatePrio(k)
    BY <1>1, <1>3, <1>13 DEF StartAndFinish, k
  <2>3. QED
    BY <1>5, <1>6, <2>1, <2>2
<1>14. CASE Finish(valid, grant, fin)
  <2>1. PICK c \in pending : granted = {c} /\ Owner = c
    BY <1>3, <1>14 DEF Finish
  <2>2. fin = {c} /\ Group(new) = pending
    BY <1>1, <1>9, <1>10, <1>14, <2>1 DEF Finish
  <2>3. Owner # N
    BY <2>1 DEF IInv, TypeOK
  <2>4. Owner' = N /\ prio' = prio
    BY <1>3, <1>14 DEF Finish
  <2>5. QED
    BY <1>5, <1>7, <2>1, <2>2, <2>3, <2>4
<1>15. CASE Hold(valid, grant, fin)
  <2>1. PICK c \in pending : granted = {c} /\ Owner = c
    BY <1>3, <1>15 DEF Hold
  <2>2. fin = {} /\ Group(new) = pending
    BY <1>1, <1>9, <1>10, <1>15, <2>1 DEF Hold
  <2>3. Owner # N
    BY <2>1 DEF IInv, TypeOK
  <2>4. Owner' = Owner /\ prio' = prio
    BY <1>3, <1>15, <2>1 DEF Hold
  <2>5. QED
    BY <1>5, <1>7, <2>1, <2>2, <2>3, <2>4
<1>16. QED
  BY <1>8, <1>11, <1>12, <1>13, <1>14, <1>15

-----------------------------------------------------------------------------
(* Results *)

\* The registers of the arbiter keep their types: no pointer leaves the
\* queue's memory and its count stays between 0 and N.
THEOREM ArbiterTypeOK == PtrMod = N => (Spec => []TypeOK)
<1>1. IInv => TypeOK
  BY DEF IInv
<1>2. QED
  BY <1>1, Invariance, PTL

\* A request that has not finished is pending or in the queue.
THEOREM ArbiterLosesNothing == PtrMod = N => (Spec => []NoLostRequest)
<1>1. IInv => NoLostRequest
  BY DEF IInv
<1>2. QED
  BY <1>1, Invariance, PTL

\* A request is in one place only, so it is granted once.
THEOREM ArbiterGrantsOnce == PtrMod = N => (Spec => []OneTurnEach)
<1>1. IInv => OneTurnEach
  BY DEF IInv
<1>2. QED
  BY <1>1, Invariance, PTL

\* The resource is first come first served, least recently used first among
\* simultaneous requests, and kept until its owner finishes: the arbiter
\* implements what its header comment promises.
THEOREM ArbiterFirstComeFirstServed ==
  PtrMod = N => (Spec => FirstComeFirstServed)
<1> SUFFICES ASSUME PtrMod = N
             PROVE  Spec => FirstComeFirstServed
  OBVIOUS
<1>1. Init => Fair!Init
  <2> SUFFICES ASSUME Init
               PROVE  Fair!Init
    OBVIOUS
  <2>1. Line = <<>>
    <3>1. Len(Line) = 0 /\ Line \in Seq(SUBSET Channel)
      BY InitIInv, LineShape DEF LineFacts, Ahead, Init
    <3> HIDE DEF Channel
    <3>2. QED
      BY <3>1
  <2>2. Owner = N
    BY DEF Init, Owner
  <2>3. prio \in {f \in [Channel -> Channel] :
                     \A c \in Channel : \E k \in Channel : f[k] = c}
    BY InitIInv DEF IInv, TypeOK, EveryChannelRanked
  <2>4. QED
    BY <2>1, <2>2, <2>3 DEF Fair!Init, Fair!Channel, Line, Behind, Owner
<1>2. IInv /\ IInv' /\ [Next]_vars => [Fair!Next]_(Fair!vars)
  <2> SUFFICES ASSUME IInv, IInv', [Next]_vars
               PROVE  [Fair!Next]_(Fair!vars)
    OBVIOUS
  <2>1. CASE Next
    <3>1. PICK new \in SUBSET (Channel \ outstanding), fin \in SUBSET Channel,
               ready \in BOOLEAN, dout \in q_doutValues :
               Inputs(new, fin, ready, dout)
      BY <2>1 DEF Next, Inputs
    <3>2. QED
      BY <3>1, ClockIsFair
  <2>2. CASE UNCHANGED vars
    <3>1. UNCHANGED <<arbVars, outstanding>>
      BY <2>2 DEF vars
    <3>2. \A i \in Int : Entry(i)' = Entry(i)
      BY <3>1 DEF arbVars, Slot, Entry
    <3>3. q_cnt' = q_cnt /\ pending' = pending /\ q_cnt \in Int
      BY <3>1 DEF arbVars, IInv, TypeOK
    <3>4. Behind' = Behind
      BY <3>2, <3>3 DEF Behind
    <3>5. UNCHANGED <<Line, Owner, prio>>
      BY <3>1, <3>3, <3>4 DEF arbVars, Line, Owner
    <3>6. QED
      BY <3>5 DEF Fair!vars, Line, Behind, Owner
  <2>3. QED
    BY <2>1, <2>2
<1>3. QED
  BY <1>1, <1>2, Invariance, PTL DEF Spec, FirstComeFirstServed, Fair!Spec
=============================================================================
