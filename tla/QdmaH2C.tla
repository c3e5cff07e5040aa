------------------------------- MODULE QdmaH2C -------------------------------
(***************************************************************************)
(* src/qdma_subsystem/qdma_subsystem_h2c.sv and the transmit path of       *)
(* qdma_subsystem_function.sv: packets of the host cross a forward slice   *)
(* and are shown to every physical function; the function that has the     *)
(* packet's queue ID in its range takes it, into a slice of its own.       *)
(*                                                                         *)
(* One step is one edge of axis_aclk.  The functions' slices are fully     *)
(* registered: queues of two beats (ProcessStackProofs).                   *)
(*                                                                         *)
(* Definitions named Fault... are deliberate mistakes for mutation runs.   *)
(***************************************************************************)
EXTENDS Integers, Sequences

CONSTANTS
    NumPhysFunc,        \* NUM_PHYS_FUNC
    Qid,                \* the queue IDs the host uses
    q_base, num_q       \* each function's range of queue IDs

Func == 0..(NumPhysFunc - 1)
Queues(i) == q_base[i]..(q_base[i] + num_q[i] - 1)

\* The driver gives the functions disjoint ranges and uses no other queue.
ASSUME H2CAssumption ==
    /\ NumPhysFunc \in Nat \ {0}
    /\ Qid \subseteq Nat
    /\ q_base \in [Func -> Nat] /\ num_q \in [Func -> Nat]
    /\ \A qid \in Qid : \E i \in Func :
          qid \in Queues(i) /\ \A j \in Func : qid \in Queues(j) => j = i

H2CBeat == [qid : Qid, first : BOOLEAN, last : BOOLEAN]

VARIABLES
    filled, axis,               \* slice_inst
    h2c_started, h2c_matched,   \* sets of functions
    h2c_slice,                  \* h2c_slice_inst of each function
    inside                      \* {} or the queue ID of the packet the host is sending

vars == <<filled, axis, h2c_started, h2c_matched, h2c_slice, inside>>

Slice == INSTANCE ForwardSlice WITH Beat <- H2CBeat

FaultQInRange(i) == q_base[i] <= axis.qid /\ axis.qid <= q_base[i] + num_q[i]
h2c_q_in_range(i) == q_base[i] <= axis.qid /\ axis.qid < q_base[i] + num_q[i]
h2c_match(i) ==
    \/ i \notin h2c_started /\ filled /\ h2c_q_in_range(i)
    \/ i \in h2c_started /\ i \in h2c_matched

\* The functions that raise s_axis_h2c_tready, and what the stream sees of it.
Takers == {i \in Func : Len(h2c_slice[i]) < 2 /\ h2c_match(i)}
axis_h2c_tready == Takers # {}

TakesBeat(i) == filled /\ i \in Takers

FaultStartedStep ==
    h2c_started' = {i \in Func : IF TakesBeat(i) THEN ~axis.last
                                 ELSE i \in h2c_started /\ filled}
StartedStep ==
    h2c_started' = {i \in Func : IF TakesBeat(i) THEN ~axis.last ELSE i \in h2c_started}

FaultMatchedStep ==
    h2c_matched' = {i \in Func : TakesBeat(i) /\ ~axis.last /\ h2c_q_in_range(i)}
MatchedStep ==
    h2c_matched' =
        {i \in Func : \/ i \in h2c_matched /\ ~(TakesBeat(i) /\ axis.last)
                      \/ i \notin h2c_matched /\ TakesBeat(i) /\ ~axis.last /\ h2c_q_in_range(i)}

SlicesStep(ready) ==
    h2c_slice' =
        [i \in Func |->
            (IF i \in ready /\ h2c_slice[i] # <<>> THEN Tail(h2c_slice[i]) ELSE h2c_slice[i])
            \o (IF TakesBeat(i) THEN <<axis>> ELSE <<>>)]

\* The host: packets of any length, one queue ID each.
NextBeat ==
    {b \in H2CBeat : /\ b.first <=> inside = {}
                     /\ inside = {} \/ b.qid \in inside}
SendStep(tvalid, beat) ==
    inside' = IF ~(tvalid /\ Slice!s_axis_tready(axis_h2c_tready)) THEN inside
              ELSE IF beat.last THEN {} ELSE {beat.qid}

Clock(tvalid, beat, ready) ==
    /\ Slice!Clock(tvalid, beat, axis_h2c_tready)
    /\ StartedStep
    /\ MatchedStep
    /\ SlicesStep(ready)
    /\ SendStep(tvalid, beat)

Init ==
    /\ filled = FALSE /\ axis \in {b \in H2CBeat : ~b.first /\ ~b.last}
    /\ h2c_started = {} /\ h2c_matched = {}
    /\ h2c_slice = [i \in Func |-> <<>>]
    /\ inside = {}

Cycle(ready) == \E tvalid \in BOOLEAN, beat \in NextBeat : Clock(tvalid, beat, ready)

Next == \E ready \in SUBSET Func : Cycle(ready)

Spec == Init /\ [][Next]_vars

\* The clock runs and every function takes a beat again and again, but the host
\* need not send: the behaviour may end where a cycle without input would
\* change nothing.
Pause == \E beat \in NextBeat : Clock(FALSE, beat, Func)
Ready(i) == \E ready \in SUBSET Func : i \in ready /\ Cycle(ready)
LiveSpec == Spec /\ \A i \in Func : []<><<Ready(i)>>_vars \/ []<>~ENABLED <<Pause>>_vars

-----------------------------------------------------------------------------
(* Properties *)

TypeOK ==
    /\ Slice!TypeOK
    /\ h2c_started \in SUBSET Func /\ h2c_matched \in SUBSET Func
    /\ h2c_slice \in [Func -> Seq(H2CBeat)]
    /\ \A i \in Func : Len(h2c_slice[i]) <= 2
    /\ inside \in SUBSET Qid

\* Only the owner of its queue takes a beat: the OR of the functions' treadys
\* (qdma_subsystem_h2c.sv:119) neither lets a beat go that its owner cannot
\* take nor hands it out twice.
OnlyOwnerTakes == filled => \A i \in Takers : axis.qid \in Queues(i)

\* A function receives whole packets: a first beat exactly when it is not
\* inside one (qdma_subsystem_function.sv:157-173).
WholePackets == \A i \in Func : TakesBeat(i) => (axis.first <=> i \notin h2c_started)

\* Of two neighbouring beats that a function holds, the second starts a packet
\* exactly when the first ends one; otherwise both are of one queue.
InOrder ==
    \A i \in Func : \A k \in 1..(Len(h2c_slice[i]) - 1) :
        /\ h2c_slice[i][k].last <=> h2c_slice[i][k + 1].first
        /\ ~h2c_slice[i][k].last => h2c_slice[i][k].qid = h2c_slice[i][k + 1].qid

\* The host's stream is never blocked for good while the functions drain.
BeatTaken == filled ~> axis_h2c_tready
=============================================================================
