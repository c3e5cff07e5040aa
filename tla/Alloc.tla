-------------------------------- MODULE Alloc --------------------------------
(***************************************************************************)
(* plugin_src/source/alloc.sv: the allocator of the value memory.  A bit   *)
(* map in block RAM tells which boxes of a class are in use; a cache of    *)
(* pointers taken from it, refilled one half at a time, answers requests;  *)
(* a ring of freed pointers answers them first, and frees that find it     *)
(* full go back to the bit map.                                            *)
(*                                                                         *)
(* One step is one edge of clk.  The rings, read between their pointers,   *)
(* are sequences; a bit map word is the set of its bits that are 1.  The   *)
(* block RAM is a vendor macro whose output shows the addressed word, as   *)
(* the code's read states expect.                                          *)
(*                                                                         *)
(* Definitions named Fault... are deliberate mistakes for mutation runs.   *)
(***************************************************************************)
EXTENDS Integers, Sequences, FiniteSets

CONSTANTS
    ClassCount,     \* CLASS_COUNT
    CacheDepth,     \* cache_depth
    MemoryWidth,    \* MEMORY_WIDTH
    Depth,          \* BRAM_DEPTH of class 0; each class has half the words of the one before
    MaxHeld         \* bound on the boxes of each class in use

Class == 0..(ClassCount - 1)
Half == CacheDepth \div 2
Bit == 0..(MemoryWidth - 1)
BRAM_DEPTH(c) == Depth \div (2^c)
Index(c) == 0..(MemoryWidth * BRAM_DEPTH(c) - 1)

\* Every class has a word of the bit map, and the first words of the cache fit in one.
AllocAssumption ==
    /\ ClassCount \in Nat \ {0} /\ MemoryWidth \in Nat /\ Depth \in Nat
    /\ CacheDepth \in 4..MemoryWidth /\ CacheDepth % 2 = 0 /\ MemoryWidth % Half = 0
    /\ \A c \in Class : 2^c \in 1..Depth
    /\ MaxHeld \in [Class -> Nat]

\* Pointers count in boxes of the smallest size.
neededsize(c) == 2^c
CLASS_BASE(c) == c * MemoryWidth * Depth
PointerTo(c, i) == neededsize(c) * i + CLASS_BASE(c)
Pointer == 0..(ClassCount * MemoryWidth * Depth - 1)
ClassOf(p) == p \div (MemoryWidth * Depth)
IndexOf(p) == (p - CLASS_BASE(ClassOf(p))) \div neededsize(ClassOf(p))

None == [none |-> TRUE]         \* no request, no free

VARIABLES
    alloc_state, in_class, req_ready, alloc_valid, alloc_pointer,
    cache_counter_alloc,        \* modulo CacheDepth
    clear_has_recycled,
    free_state, free_ready, free_pointer_buf,
    free_ring,                  \* cache_pointer_free
    recycle_ring,               \* recycle_cache_pointer_free
    refill,                     \* the registers of recyclors_alloc, one record for each class
    recycle,                    \* the registers of its other half
    bram,
    alloc_busy,                 \* front_end_transit.sv: a request waits for its answer
    held,                       \* boxes in use
    overflowed                  \* the classes with a free that did not fit the ring

allocVars == <<alloc_state, in_class, req_ready, alloc_valid, alloc_pointer, cache_counter_alloc,
               clear_has_recycled>>
vars == <<allocVars, free_state, free_ready, free_pointer_buf, free_ring, recycle_ring, refill,
          recycle, bram, alloc_busy, held, overflowed>>

-----------------------------------------------------------------------------
(* Requests *)

Taken(ready) == alloc_valid /\ ready

\* A slot of the cache may be handed out if its half has been filled.
SlotReady(c) ==
    IF cache_counter_alloc[c] < Half THEN refill[c].front_ready ELSE refill[c].back_ready

FromRing(ready) == alloc_state = "ST_ALLOC_DECIDE" /\ ready /\ free_ring[in_class] # <<>>
FromCache(ready) ==
    alloc_state = "ST_ALLOC_DECIDE" /\ ready /\ free_ring[in_class] = <<>> /\ SlotReady(in_class)

\* The output register keeps an answer until it is taken.
KeepAnswer(ready) ==
    /\ alloc_valid' = (alloc_valid /\ ~ready)
    /\ alloc_pointer' = IF Taken(ready) THEN 0 ELSE alloc_pointer
    /\ cache_counter_alloc' = cache_counter_alloc
    /\ clear_has_recycled' = [c \in Class |-> FALSE]

AllocIdle(ready) ==
    LET start == \A c \in Class : refill[c].ready
    IN  /\ alloc_state = "ST_ALLOC_IDLE"
        /\ alloc_state' = IF start THEN "ST_ALLOC_BEGIN" ELSE alloc_state
        /\ req_ready' = (start \/ req_ready)
        /\ KeepAnswer(ready)
        /\ UNCHANGED in_class

AllocBegin(request, ready) ==
    /\ alloc_state = "ST_ALLOC_BEGIN"
    /\ IF request # None /\ req_ready
       THEN /\ in_class' = request.class
            /\ req_ready' = FALSE
            /\ alloc_state' = "ST_ALLOC_DECIDE"
       ELSE UNCHANGED <<in_class, req_ready, alloc_state>>
    /\ KeepAnswer(ready)

Answer(pointer) ==
    /\ alloc_valid' = TRUE
    /\ alloc_pointer' = pointer
    /\ req_ready' = TRUE
    /\ alloc_state' = "ST_ALLOC_BEGIN"
    /\ UNCHANGED in_class

DecideRing(ready) ==
    /\ FromRing(ready)
    /\ Answer(PointerTo(in_class, Head(free_ring[in_class])))
    /\ cache_counter_alloc' = cache_counter_alloc
    /\ clear_has_recycled' = [c \in Class |-> FALSE]

DecideCache(ready) ==
    /\ FromCache(ready)
    /\ Answer(PointerTo(in_class, refill[in_class].cache[cache_counter_alloc[in_class]]))
    /\ cache_counter_alloc' = [cache_counter_alloc EXCEPT ![in_class] = (@ + 1) % CacheDepth]
    /\ clear_has_recycled' = [c \in Class |-> c = in_class]

DecideWait(ready) ==
    /\ alloc_state = "ST_ALLOC_DECIDE"
    /\ ~FromRing(ready) /\ ~FromCache(ready)
    /\ KeepAnswer(ready)
    /\ UNCHANGED <<alloc_state, in_class, req_ready>>

AllocStep(request, ready) ==
    \/ AllocIdle(ready)
    \/ AllocBegin(request, ready)
    \/ DecideRing(ready)
    \/ DecideCache(ready)
    \/ DecideWait(ready)

-----------------------------------------------------------------------------
(* Frees *)

FreeBegin(free) ==
    /\ free_state = "ST_FREE_BEGIN"
    /\ IF free # None /\ free_ready
       THEN /\ free_ready' = FALSE
            /\ free_pointer_buf' = free.pointer
            /\ free_state' = "ST_FREE_DECIDE_QUEUE"
       ELSE UNCHANGED <<free_ready, free_pointer_buf, free_state>>

Deciding == free_state = "ST_FREE_DECIDE_QUEUE"
free_class == ClassOf(free_pointer_buf)
ToRing == Deciding /\ Len(free_ring[free_class]) < CacheDepth - 1
ToRecycle == Deciding /\ ~ToRing /\ Len(recycle_ring[free_class]) < CacheDepth - 1

FreeDecide ==
    /\ Deciding
    /\ IF ToRing \/ ToRecycle
       THEN free_state' = "ST_FREE_BEGIN" /\ free_ready' = TRUE
       ELSE UNCHANGED <<free_state, free_ready>>
    /\ UNCHANGED free_pointer_buf

FreeStep(free) == FreeBegin(free) \/ FreeDecide

\* Both ends of the rings, each moved by another process.
Pops(c) == recycle[c].state = "ST_FREE_RECYCLE_BEGIN" /\ recycle_ring[c] # <<>>
RingStep(ready) ==
    /\ free_ring' = [c \in Class |->
         (IF FromRing(ready) /\ c = in_class THEN Tail(free_ring[c]) ELSE free_ring[c])
         \o (IF ToRing /\ c = free_class THEN <<IndexOf(free_pointer_buf)>> ELSE <<>>)]
    /\ recycle_ring' = [c \in Class |->
         (IF Pops(c) THEN Tail(recycle_ring[c]) ELSE recycle_ring[c])
         \o (IF ToRecycle /\ c = free_class THEN <<IndexOf(free_pointer_buf)>> ELSE <<>>)]

-----------------------------------------------------------------------------
(* The refill of the cache from the bit map, one process for each class    *)

\* The window of bits that is searched, from alloc_exe_ptr; beyond the end of
\* the word all bits count as used.
Window(r) == {b \in r.exe_ptr..(r.exe_ptr + CacheDepth - 1) : b < MemoryWidth /\ b \notin r.buf}

\* The k-th free bit of the window, from 0.
FreeBit(r, k) == CHOOSE b \in Window(r) : Cardinality({a \in Window(r) : a < b}) = k
cnt(r) == IF Cardinality(Window(r)) < Half THEN Cardinality(Window(r)) ELSE Half
limit(r) == IF cnt(r) + r.got > Half THEN Half - r.got ELSE cnt(r)

ClearBitMap(c, r) ==
    IF r.clear_counter < BRAM_DEPTH(c)
    THEN [r EXCEPT !.clear_counter = @ + 1, !.addra = r.clear_counter, !.dina = {}, !.wea = TRUE]
    ELSE [r EXCEPT !.clear_counter = 0, !.wea = FALSE, !.state = "ST_ALLOC_RECYCLE_IDLE"]

FaultFirstFill(r) ==
    [r EXCEPT !.cache = [j \in 0..(CacheDepth - 1) |-> j],
              !.front_ready = TRUE, !.back_ready = TRUE, !.ready = TRUE,
              !.exe_ptr = (@ + Half) % MemoryWidth, !.state = "ST_ALLOC_RECYCLE_BEGIN"]
FirstFill(r) ==
    [r EXCEPT !.cache = [j \in 0..(CacheDepth - 1) |-> j], !.buf = @ \cup 0..(CacheDepth - 1),
              !.front_ready = TRUE, !.back_ready = TRUE, !.ready = TRUE,
              !.exe_ptr = (@ + Half) % MemoryWidth, !.state = "ST_ALLOC_RECYCLE_BEGIN"]

\* The half to refill is the one just used up.
RefillBegin(r, counter, has_recycled) ==
    LET begin == counter \in {Half, CacheDepth - 1} /\ ~has_recycled
    IN  [r EXCEPT !.wea = FALSE,
                  !.back = IF begin THEN counter = CacheDepth - 1 ELSE @,
                  !.state = IF begin THEN "ST_ALLOC_RECYCLE_EXE" ELSE @]

HalfReady(r, b) ==
    IF r.back THEN [r EXCEPT !.back_ready = b] ELSE [r EXCEPT !.front_ready = b]

\* Each search of the window fills the half from its first slot on.
Fill(r) ==
    LET first == IF r.back THEN Half ELSE 0
    IN  [HalfReady(r, FALSE) EXCEPT
          !.not_first = TRUE,
          !.cache = [j \in 0..(CacheDepth - 1) |->
                       IF j \in first..(first + limit(r) - 1)
                       THEN FreeBit(r, j - first) + r.addr_counter * MemoryWidth ELSE @[j]],
          !.buf = @ \cup {FreeBit(r, k) : k \in 0..(limit(r) - 1)},
          !.exe_ptr = IF r.got + cnt(r) > Half THEN @ ELSE (@ + Half) % MemoryWidth,
          !.got = @ + cnt(r)]

EndOfWord(r) ==
    [HalfReady(r, FALSE) EXCEPT
        !.state = "ST_ALLOC_RECYCLE_EXE_WRITE_BACK", !.exe_ptr = 0, !.not_first = FALSE]

FaultRefillDone(r) ==
    [r EXCEPT !.has_recycled = TRUE, !.got = 0, !.state = "ST_ALLOC_RECYCLE_BEGIN"]
RefillDone(r) ==
    [HalfReady(r, TRUE) EXCEPT
        !.has_recycled = TRUE, !.got = 0, !.state = "ST_ALLOC_RECYCLE_BEGIN"]

\* The refill pauses while the last slot waits to be handed out.
Exe(r, counter) ==
    IF counter = CacheDepth - 1 THEN r
    ELSE IF r.got >= Half THEN RefillDone(r)
    ELSE IF r.exe_ptr = 0 /\ r.not_first THEN EndOfWord(r)
    ELSE Fill(r)

FaultWriteBack(c, r) ==
    [r EXCEPT !.wea = TRUE, !.addra = r.addr_counter, !.dina = {},
              !.addr_counter = (@ + 1) % BRAM_DEPTH(c), !.state = "ST_ALLOC_RECYCLE_EXE_READ"]
WriteBack(c, r) ==
    [r EXCEPT !.wea = TRUE, !.addra = r.addr_counter, !.dina = r.buf,
              !.addr_counter = (@ + 1) % BRAM_DEPTH(c), !.state = "ST_ALLOC_RECYCLE_EXE_READ"]

ExeRead(r) == [r EXCEPT !.wea = FALSE, !.addra = r.addr_counter, !.state = "ST_ALLOC_RECYCLE_EXE_READ_GET"]

ExeReadGet(c, r) == [r EXCEPT !.buf = bram[c][r.addra], !.state = "ST_ALLOC_RECYCLE_EXE"]

RefillState(c, r) ==
    CASE r.state = "ST_CLEAR_BIT_MAP"                -> ClearBitMap(c, r)
      [] r.state = "ST_ALLOC_RECYCLE_IDLE"           -> FirstFill(r)
      [] r.state = "ST_ALLOC_RECYCLE_BEGIN"          -> RefillBegin(r, cache_counter_alloc[c], refill[c].has_recycled)
      [] r.state = "ST_ALLOC_RECYCLE_EXE"            -> Exe(r, cache_counter_alloc[c])
      [] r.state = "ST_ALLOC_RECYCLE_EXE_WRITE_BACK" -> WriteBack(c, r)
      [] r.state = "ST_ALLOC_RECYCLE_EXE_READ"       -> ExeRead(r)
      [] r.state = "ST_ALLOC_RECYCLE_EXE_READ_GET"   -> ExeReadGet(c, r)

\* clear_has_recycled comes before the case statement, the bit of a freed
\* pointer after it.
RefillStep ==
    refill' = [c \in Class |->
        LET r == RefillState(c, [refill[c] EXCEPT !.has_recycled = @ /\ ~clear_has_recycled[c]])
        IN  [r EXCEPT !.buf = IF recycle[c].hit THEN @ \ {recycle[c].bit} ELSE @]]

-----------------------------------------------------------------------------
(* The return of recycled pointers to the bit map, one for each class      *)

RecycleBegin(c, f) ==
    IF recycle_ring[c] = <<>> THEN [f EXCEPT !.web = FALSE]
    ELSE [f EXCEPT !.web = FALSE, !.pointer = Head(recycle_ring[c]), !.state = "ST_FREE_RECYCLE_DECIDE_READ"]

\* A pointer of the word that the refill works on is marked there.
RecycleRead(c, f) ==
    LET word == f.pointer \div MemoryWidth
    IN  IF word = refill[c].addr_counter
        THEN [f EXCEPT !.hit = TRUE, !.bit = f.pointer % MemoryWidth, !.state = "ST_FREE_RECYCLE_BEGIN"]
        ELSE [f EXCEPT !.addrb = word, !.state = "ST_FREE_RECYCLE_WRITE_BUF"]

RecycleBuf(c, f) == [f EXCEPT !.buf = bram[c][f.addrb], !.state = "ST_FREE_RECYCLE_WRITE_BACK"]

RecycleWrite(f) ==
    [f EXCEPT !.web = TRUE, !.dinb = f.buf \ {f.pointer % MemoryWidth}, !.state = "ST_FREE_RECYCLE_BEGIN"]

RecycleStep ==
    recycle' = [c \in Class |->
        LET f == [recycle[c] EXCEPT !.hit = FALSE]
        IN  CASE f.state = "ST_FREE_RECYCLE_BEGIN"       -> RecycleBegin(c, f)
              [] f.state = "ST_FREE_RECYCLE_DECIDE_READ" -> RecycleRead(c, f)
              [] f.state = "ST_FREE_RECYCLE_WRITE_BUF"   -> RecycleBuf(c, f)
              [] f.state = "ST_FREE_RECYCLE_WRITE_BACK"  -> RecycleWrite(f)]

BramStep ==
    bram' = [c \in Class |-> [w \in DOMAIN bram[c] |->
        IF recycle[c].web /\ recycle[c].addrb = w THEN recycle[c].dinb
        ELSE IF refill[c].wea /\ refill[c].addra = w THEN refill[c].dina
        ELSE bram[c][w]]]

-----------------------------------------------------------------------------
(* The client: front_end_transit.sv asks for one box at a time; the hash   *)
(* table frees boxes in any order.                                         *)

ClientStep(request, ready, free) ==
    /\ alloc_busy' = IF request # None /\ req_ready THEN TRUE ELSE alloc_busy /\ ~Taken(ready)
    /\ held' = (held \cup (IF Taken(ready) THEN {alloc_pointer} ELSE {}))
               \ (IF free # None /\ free_ready THEN {free.pointer} ELSE {})
    /\ overflowed' = overflowed \cup (IF ToRecycle THEN {free_class} ELSE {})

Clock(request, ready, free) ==
    /\ AllocStep(request, ready)
    /\ FreeStep(free)
    /\ RingStep(ready)
    /\ RefillStep
    /\ RecycleStep
    /\ BramStep
    /\ ClientStep(request, ready, free)

Init ==
    /\ alloc_state = "ST_ALLOC_IDLE" /\ in_class = 0 /\ req_ready = TRUE
    /\ alloc_valid = FALSE /\ alloc_pointer = 0
    /\ cache_counter_alloc = [c \in Class |-> 0]
    /\ clear_has_recycled = [c \in Class |-> FALSE]
    /\ free_state = "ST_FREE_BEGIN" /\ free_ready = TRUE /\ free_pointer_buf = 0
    /\ free_ring = [c \in Class |-> <<>>] /\ recycle_ring = [c \in Class |-> <<>>]
    /\ refill = [c \in Class |->
         [state |-> "ST_CLEAR_BIT_MAP", clear_counter |-> 0, addr_counter |-> 0, back |-> FALSE,
          got |-> 0, not_first |-> FALSE, exe_ptr |-> 0, buf |-> {},
          cache |-> [j \in 0..(CacheDepth - 1) |-> 0], front_ready |-> FALSE, back_ready |-> FALSE,
          ready |-> FALSE, has_recycled |-> FALSE, addra |-> 0, dina |-> {}, wea |-> FALSE]]
    /\ recycle = [c \in Class |->
         [state |-> "ST_FREE_RECYCLE_BEGIN", pointer |-> 0, buf |-> {}, addrb |-> 0, dinb |-> {},
          web |-> FALSE, hit |-> FALSE, bit |-> 0]]
    /\ bram = [c \in Class |-> [w \in 0..(BRAM_DEPTH(c) - 1) |-> {}]]
    /\ alloc_busy = FALSE /\ held = {} /\ overflowed = {}

\* The refill of a class has nothing to do, or waits for the last slot to go.
Quiet(c) ==
    \/ /\ refill[c].state = "ST_ALLOC_RECYCLE_BEGIN"
       /\ cache_counter_alloc[c] \in {Half, CacheDepth - 1} => refill[c].has_recycled
    \/ refill[c].state = "ST_ALLOC_RECYCLE_EXE" /\ cache_counter_alloc[c] = CacheDepth - 1

\* Requests begin after start-up, keep a pace the refill can follow, hold at
\* most MaxHeld boxes of a class, and stop for a class once a free of it has overflowed
\* the ring.
Requests ==
    {None} \cup {[class |-> c] : c \in
        {c \in Class : /\ alloc_state # "ST_ALLOC_IDLE" /\ ~alloc_busy
                       /\ Quiet(c) /\ c \notin overflowed
                       /\ Cardinality({p \in held : ClassOf(p) = c}) < MaxHeld[c]}}
\* Frees come at any time, of the lowest or the highest box in use.
Frees ==
    {None} \cup {[pointer |-> p] : p \in
        {p \in held : (\A q \in held : q <= p) \/ (\A q \in held : p <= q)}}

\* alloc_ready waits for a request (front_end_transit.sv:110).
Cycle(ready) == \E request \in Requests, free \in Frees : Clock(request, ready /\ alloc_busy, free)

Next == \E ready \in BOOLEAN : Cycle(ready)

Spec == Init /\ [][Next]_vars

\* The clock runs and the stages behind the allocator take an answer again and
\* again, but nobody has to ask or to free: the behaviour may end where a
\* cycle without either would change nothing.
Pause == Clock(None, alloc_busy, None)
LiveSpec == Spec /\ ([]<><<Cycle(TRUE)>>_vars \/ []<>~ENABLED <<Pause>>_vars)

-----------------------------------------------------------------------------
(* Properties *)

TypeOK ==
    /\ in_class \in Class /\ req_ready \in BOOLEAN /\ alloc_valid \in BOOLEAN
    /\ alloc_pointer \in Pointer /\ free_pointer_buf \in Pointer /\ held \subseteq Pointer
    /\ \A c \in Class :
         /\ cache_counter_alloc[c] \in 0..(CacheDepth - 1)
         /\ free_ring[c] \in Seq(Index(c)) /\ Len(free_ring[c]) < CacheDepth
         /\ recycle_ring[c] \in Seq(Index(c)) /\ Len(recycle_ring[c]) < CacheDepth
         /\ refill[c].exe_ptr \in Bit /\ refill[c].buf \subseteq Bit
         /\ refill[c].got < 2 * Half /\ refill[c].cache \in [0..(CacheDepth - 1) -> Index(c)]

\* The boxes of a class that are in use or on their way: held, offered,
\* being freed, or in the ring.
InUse(c) ==
    held \cup (IF alloc_valid THEN {alloc_pointer} ELSE {})
         \cup (IF Deciding THEN {free_pointer_buf} ELSE {})
         \cup {PointerTo(c, free_ring[c][k]) : k \in 1..Len(free_ring[c])}

\* A box is never given to two keys: what is offered is not in use, being
\* freed or waiting in the ring.
NoDoubleAlloc ==
    alloc_valid =>
        /\ alloc_pointer \notin held
        /\ Deciding => alloc_pointer # free_pointer_buf
        /\ \A k \in 1..Len(free_ring[ClassOf(alloc_pointer)]) :
             alloc_pointer # PointerTo(ClassOf(alloc_pointer), free_ring[ClassOf(alloc_pointer)][k])

\* The answer is there two cycles after the request whenever the front end is
\* ready for it, which is when front_end_transit.sv looks for it: neither the
\* ring and the half of the cache whose turn it is are ever both empty.
AnswerOnTime ==
    alloc_state = "ST_ALLOC_DECIDE" => free_ring[in_class] # <<>> \/ SlotReady(in_class)

\* The bit map as it will be when the writes under way are done.
Marked(c, w) ==
    LET r == refill[c]
    IN  IF r.wea /\ r.addra = w THEN r.dina
        ELSE IF w = r.addr_counter /\ r.state \notin
                    {"ST_ALLOC_RECYCLE_EXE_READ", "ST_ALLOC_RECYCLE_EXE_READ_GET"} THEN r.buf
        ELSE bram[c][w]

\* The bit map knows every box in use, in the word at work and in those
\* written back, so that a later pass over it does not find them free.
UseIsMarked ==
    \A c \in Class : \A p \in InUse(c) :
      ClassOf(p) = c => IndexOf(p) % MemoryWidth \in Marked(c, IndexOf(p) \div MemoryWidth)

\* Every request is answered and every free is taken: ring, cache, refill
\* and bit map never wait for each other.
RequestAnswered == alloc_busy ~> ~alloc_busy
FreeTaken == []<>free_ready

\* What the next states depend on: registers that are written before they are
\* read are left out.
LiveRefill(r) ==
    [r EXCEPT !.addra = IF r.wea \/ r.state = "ST_ALLOC_RECYCLE_EXE_READ_GET" THEN @ ELSE 0,
              !.dina = IF r.wea THEN @ ELSE {},
              !.buf = IF r.state \in {"ST_ALLOC_RECYCLE_EXE_READ", "ST_ALLOC_RECYCLE_EXE_READ_GET"}
                      THEN {} ELSE @]
LiveRecycle(f) ==
    [f EXCEPT !.pointer = IF f.state = "ST_FREE_RECYCLE_BEGIN" THEN 0 ELSE @,
              !.buf = IF f.state = "ST_FREE_RECYCLE_WRITE_BACK" THEN @ ELSE {},
              !.addrb = IF f.web \/ f.state \in {"ST_FREE_RECYCLE_WRITE_BUF", "ST_FREE_RECYCLE_WRITE_BACK"}
                        THEN @ ELSE 0,
              !.dinb = IF f.web THEN @ ELSE {},
              !.bit = IF f.hit THEN @ ELSE 0]
LiveState ==
    <<alloc_state, IF alloc_state = "ST_ALLOC_DECIDE" THEN in_class ELSE 0, req_ready, alloc_valid,
      alloc_pointer, cache_counter_alloc, clear_has_recycled, free_state, free_ready,
      IF Deciding THEN free_pointer_buf ELSE 0, free_ring, recycle_ring,
      [c \in Class |-> LiveRefill(refill[c])], [c \in Class |-> LiveRecycle(recycle[c])],
      bram, alloc_busy, held, overflowed>>
=============================================================================
