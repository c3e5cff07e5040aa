------------------------------ MODULE RRArbiter ------------------------------
(***************************************************************************)
(* src/utility/rr_arbiter.sv: a round-robin arbiter with an arrival queue. *)
(* One step is one rising clock edge.  N-bit vectors are sets of channels, *)
(* and the one-hot register prio[k] is the channel whose bit is set.       *)
(*                                                                         *)
(* `outstanding' is the environment's side of the contract in the header   *)
(* comment: a channel keeps req asserted until its transaction finishes,   *)
(* and fin is only raised for a channel that has the grant.                *)
(*                                                                         *)
(* Definitions named Fault... are deliberate mistakes for mutation runs;   *)
(* nothing else uses them.                                                 *)
(***************************************************************************)
EXTENDS Integers, Sequences, FiniteSetsExt

CONSTANT N              \* number of channels

ASSUME NAssumption == N \in Nat \ {0}

Channel == 0..(N - 1)

S_IDLE == "S_IDLE"
S_BUSY == "S_BUSY"

\* q_wptr and q_rptr are $clog2(N) bits wide: they count modulo the least
\* power of two that is at least N, while q_mem has only N words.
PtrMod == CHOOSE w \in {2^m : m \in 0..N} :
             w >= N /\ \A m \in 0..N : 2^m >= N => w <= 2^m

VARIABLES
    granted, pending, prio, state,          \* arbitration FSM
    queued,                                 \* channels already in line
    q_mem, q_wptr, q_rptr, q_cnt,           \* the arrival queue
    outstanding                             \* req of the previous cycle, unfinished

arbVars == <<granted, pending, prio, state, queued, q_mem, q_wptr, q_rptr, q_cnt>>
vars == <<arbVars, outstanding>>

-----------------------------------------------------------------------------
(* Combinational signals *)

q_empty == q_cnt = 0
q_full == q_cnt = N

\* A read past the last word returns an undefined value.
q_doutValues == IF q_rptr < N THEN {q_mem[q_rptr]} ELSE SUBSET Channel

QDin(req) == req \ queued

FaultQWrEn(req) == QDin(req) # {} /\ ~q_empty
QWrEn(req) == QDin(req) # {} /\ (~q_empty \/ pending # {})

q_rd_en == state = S_IDLE /\ pending = {} /\ ~q_empty

FaultValidReq(req, dout) ==
    IF pending # {} THEN pending
    ELSE IF QDin(req) # {} THEN QDin(req) ELSE IF q_empty THEN {} ELSE dout
ValidReq(req, dout) ==
    IF pending # {} THEN pending
    ELSE IF q_empty THEN QDin(req) ELSE dout

\* Index of the least recently used channel among the valid requests.
Winner(valid) ==
    CHOOSE k \in Channel : prio[k] \in valid /\ \A j \in 0..(k - 1) : prio[j] \notin valid

NextGranted(valid) == IF valid = {} THEN {} ELSE {prio[Winner(valid)]}

RotatePrio(k) ==
    [j \in Channel |-> IF j < k THEN prio[j]
                       ELSE IF j < N - 1 THEN prio[j + 1] ELSE prio[k]]

Grant(valid, ready) ==
    IF ~ready THEN {}
    ELSE IF state = S_IDLE THEN NextGranted(valid) ELSE granted

-----------------------------------------------------------------------------
(* Registers *)

NextPtr(p) == IF p + 1 = PtrMod THEN 0 ELSE p + 1

\* A write past the last word of q_mem has no effect.
QWrite(req) ==
    /\ q_wptr' = NextPtr(q_wptr)
    /\ q_mem' = [i \in Channel |-> IF i = q_wptr THEN QDin(req) ELSE q_mem[i]]

QueueStep(req) ==
    \/ /\ QWrEn(req) /\ ~q_rd_en /\ ~q_full
       /\ QWrite(req)
       /\ q_cnt' = q_cnt + 1
       /\ UNCHANGED q_rptr
    \/ /\ q_rd_en /\ ~QWrEn(req) /\ ~q_empty
       /\ q_rptr' = NextPtr(q_rptr)
       /\ q_cnt' = q_cnt - 1
       /\ UNCHANGED <<q_wptr, q_mem>>
    \/ /\ QWrEn(req) /\ q_rd_en
       /\ QWrite(req)
       /\ q_rptr' = IF q_empty THEN q_rptr ELSE NextPtr(q_rptr)
       /\ q_cnt' = IF q_empty THEN q_cnt + 1 ELSE q_cnt
    \/ /\ ~q_rd_en /\ (QWrEn(req) => q_full)
       /\ UNCHANGED <<q_wptr, q_rptr, q_cnt, q_mem>>

FaultQueuedStep(req, grant, fin) == queued' = (queued \cup req) \ grant
FaultQueuedStepSticky(req, grant, fin) == queued' = queued \cup req
QueuedStep(req, grant, fin) ==
    queued' = (queued \cup req) \ (req \cap grant \cap fin)

\* S_IDLE and nobody asks.
Rest(valid, fin) ==
    /\ state = S_IDLE
    /\ NextGranted(valid) = {}
    /\ granted' = {}
    /\ UNCHANGED <<pending, prio, state>>

\* S_IDLE: a channel wins; it keeps the resource whether or not `ready' let
\* the grant out in this cycle.
Start(valid, grant, fin) ==
    /\ state = S_IDLE
    /\ NextGranted(valid) # {}
    /\ fin \cap grant = {}
    /\ granted' = NextGranted(valid)
    /\ prio' = RotatePrio(Winner(valid))
    /\ pending' = valid
    /\ state' = S_BUSY

\* S_IDLE: a one-beat transaction, granted and finished in the same cycle.
StartAndFinish(valid, grant, fin) ==
    /\ state = S_IDLE
    /\ NextGranted(valid) # {}
    /\ fin \cap grant # {}
    /\ granted' = NextGranted(valid)
    /\ prio' = RotatePrio(Winner(valid))
    /\ pending' = SymDiff(valid, fin)
    /\ UNCHANGED state

Finish(valid, grant, fin) ==
    /\ state = S_BUSY
    /\ fin \cap grant # {}
    /\ pending' = SymDiff(pending, fin)
    /\ granted' = {}
    /\ state' = S_IDLE
    /\ UNCHANGED prio

Hold(valid, grant, fin) ==
    /\ state = S_BUSY
    /\ fin \cap grant = {}
    /\ UNCHANGED <<granted, pending, prio, state>>

\* One clock edge, for the inputs req, fin and ready of the cycle it ends.
Clock(req, fin, ready, dout) ==
    LET valid == ValidReq(req, dout)
        grant == Grant(valid, ready)
    IN  /\ QueueStep(req)
        /\ QueuedStep(req, grant, fin)
        /\ \/ Rest(valid, fin)
           \/ Start(valid, grant, fin)
           \/ StartAndFinish(valid, grant, fin)
           \/ Finish(valid, grant, fin)
           \/ Hold(valid, grant, fin)

-----------------------------------------------------------------------------
(* Reset state and the documented environment *)

Init ==
    /\ granted = {} /\ pending = {} /\ queued = {}
    /\ prio = [k \in Channel |-> k]
    /\ state = S_IDLE
    /\ q_mem = [i \in Channel |-> {}]
    /\ q_wptr = 0 /\ q_rptr = 0 /\ q_cnt = 0
    /\ outstanding = {}

Cycle(req, fin, ready, dout) ==
    /\ fin \subseteq req \cap Grant(ValidReq(req, dout), ready)
    /\ Clock(req, fin, ready, dout)
    /\ outstanding' = req \ fin

Next ==
    \E new \in SUBSET (Channel \ outstanding), fin \in SUBSET Channel,
       ready \in BOOLEAN, dout \in q_doutValues :
        Cycle(outstanding \cup new, fin, ready, dout)

Spec == Init /\ [][Next]_vars

-----------------------------------------------------------------------------
(* Properties *)

TypeOK ==
    /\ granted \in SUBSET Channel
    /\ pending \in SUBSET Channel
    /\ prio \in [Channel -> Channel]
    /\ state \in {S_IDLE, S_BUSY}
    /\ queued \in SUBSET Channel
    /\ q_mem \in [Channel -> SUBSET Channel]
    /\ q_wptr \in 0..(PtrMod - 1)
    /\ q_rptr \in 0..(PtrMod - 1)
    /\ q_cnt \in 0..N
    /\ outstanding \in SUBSET Channel

\* The i-th oldest entry of the queue, counting from 0.
Slot(i) == IF q_rptr + i < PtrMod THEN q_rptr + i ELSE q_rptr + i - PtrMod
Entry(i) == q_mem[Slot(i)]
Entries == {i \in 0..(q_cnt - 1) : Slot(i) < N}
InQueue == UNION {Entry(i) : i \in Entries}

\* Every request that has not finished is remembered: it is pending or in
\* the queue, whatever arrived while the resource was busy or not ready.
NoLostRequest == outstanding = pending \cup InQueue

\* No request is remembered twice, so one request never gets two grants.
OneTurnEach ==
    /\ queued = outstanding
    /\ \A i, j \in Entries : i # j => Entry(i) \cap Entry(j) = {}
    /\ \A i \in Entries : Entry(i) \cap pending = {}

\* The resource is first come first served, least recently used first among
\* simultaneous requests, and kept until fin (rr_arbiter.sv:18-36).
Fair == INSTANCE FairArbiter WITH
            NoOwner <- N,
            line    <- (IF pending = {} THEN <<>> ELSE <<pending>>)
                         \o [i \in 1..q_cnt |-> Entry(i - 1)],
            owner   <- IF state = S_BUSY THEN CHOOSE c \in granted : TRUE ELSE N,
            recency <- prio
FirstComeFirstServed == Fair!Spec

-----------------------------------------------------------------------------
(* Fairness: the clock runs, and the owner of the resource is not blocked   *)
(* for ever: `ready' and its last beat keep coming until it finishes.       *)

Served(c) == \E new \in SUBSET (Channel \ outstanding), dout \in q_doutValues :
                 Cycle(outstanding \cup new, {c}, TRUE, dout)

LiveSpec == Spec /\ WF_vars(Next) /\ SF_vars(\E c \in Channel : Served(c))

\* Every request is granted and finished, whatever the other channels ask.
EveryRequestServed == \A c \in Channel : c \in outstanding ~> c \notin outstanding

-----------------------------------------------------------------------------
(***************************************************************************)
(* What the next states depend on, as a view for TLC: the words of q_mem   *)
(* outside the queue and the value left in `granted' while the arbiter is  *)
(* idle are written before they are read, so states that differ only there *)
(* are the same.                                                           *)
(***************************************************************************)
LiveState ==
    <<state, IF state = S_BUSY THEN granted ELSE {}, pending, prio, queued,
      q_rptr, q_wptr, q_cnt, [i \in 0..(q_cnt - 1) |-> Entry(i)], outstanding>>
=============================================================================
