----------------------------- MODULE LookupPath -----------------------------
(***************************************************************************)
(* The way of a lookup through the card: the peer's packet, the request    *)
(* parser of the peers and its FIFO (transmission_subsystem.sv), the hash  *)
(* table and the FIFO behind it (hashtable_subsystem.sv), the value memory *)
(* (storage_subsystem.sv), the register slice that process_stack.sv puts   *)
(* behind it, and the reply.  One step is one edge of the 250 MHz clock.   *)
(*                                                                         *)
(* FIFOs are sequences (ProcessStackProofs), and the hash table is a map   *)
(* (HashTable) that updates change between lookups.  A box of the memory   *)
(* is not used again while a reply with its value is under way, so that    *)
(* the value behind a pointer is a constant.                               *)
(*                                                                         *)
(* The peers together have at most MaxAsked lookups under way, and the     *)
(* network behind the card takes a reply's last beat at once (tlast is     *)
(* high for one cycle only).                                               *)
(*                                                                         *)
(* Definitions named Fault... are deliberate mistakes for mutation runs.   *)
(***************************************************************************)
EXTENDS LookupReply

CONSTANTS
    FifoDepth,      \* FIFO_DEPTH
    Keys,
    Pointers,       \* boxes of the memory
    Length,         \* the length of the value in each
    NoPointer,      \* an address that the memory does not answer
    MissAddresses,  \* addresses that the answer of a miss may hold
    MaxAsked

LookupPathAssumption ==
    /\ FifoDepth \in Nat \ {0}
    /\ NoPointer \notin Pointers
    /\ MissAddresses # {} /\ MissAddresses \subseteq Pointers \cup {NoPointer}
    /\ Length \in [Pointers -> Nat \ {0}]
    /\ MaxAsked \in 1..FifoDepth

VARIABLES
    asked,          \* lookups without a complete reply, each with its answer once served
    offered,        \* the peers' packet at the parser
    parser,         \* registers of request_parser.sv
    fifo_peer_request,
    hash,           \* hash_table_ip: the request it has read, the answer it offers
    fifo_lup_rsp,
    split, reply,   \* registers of hb_lup_rep_parser.sv and lkp_rep_parser.sv
    bram,           \* bram_storage: the words it has still to send
    slice,          \* axis_register_slice_528
    received,       \* beats of the first reply that have left the card
    table,          \* the pointer of each key
    strayed         \* for the properties only: a miss has been answered with the address of a box

vars == <<asked, offered, parser, fifo_peer_request, hash, fifo_lup_rsp, split, reply, bram,
          slice, received, table, strayed>>

-----------------------------------------------------------------------------
(* Ready signals, and what stands at the head of each queue *)

key_ready == Len(fifo_peer_request) < FifoDepth
parser_ready == [meta |-> TRUE, key |-> key_ready, value |-> TRUE, malloc |-> TRUE]
lup_req_ready == hash.request = None
lup_res_ready == Len(fifo_lup_rsp) < FifoDepth
addr_ready(works) == works /\ bram = <<>>
slice_ready == Len(slice) < 2
meta_ready(tready) == s_axis_meta_ready(reply, tready)
ram_ready(tready) == s_axis_ram_ready(reply, tready)
rsp_ready(tready, works) == s_axis_lup_rsp_ready(split, meta_ready(tready), addr_ready(works))

First(queue) == IF queue = <<>> THEN None ELSE Head(queue)
Rest(queue, take) == IF take /\ queue # <<>> THEN Tail(queue) ELSE queue
Put(valid, data) == IF valid THEN <<data>> ELSE <<>>

-----------------------------------------------------------------------------
(* The peers: packets of one beat, an operation that is not an insert *)

Packet(key) ==
    [head |-> [op |-> 0, key |-> key, len |-> 0], val |-> None, part |-> 1, last |-> TRUE, keep |-> 32]
Taken == Accepts(parser, offered, parser_ready)
AskedWith(key) == <<[key |-> key, answer |-> None]>>

ReplyLeaves(tready) == reply.tvalid /\ tready
Answered(tready) == ReplyLeaves(tready) /\ reply.tlast

Unserved == {n \in 1..Len(asked) : asked[n].answer = None}
MayServe == hash.request # None /\ hash.answer = None
Serves(serve) == serve /\ MayServe
Hit(key) == table[key] # NoPointer
AnswerTo(key, pointer) == [key |-> key, hit |-> Hit(key), pointer |-> pointer]
\* The table serves the oldest lookup that waits.
Noted(serve) ==
    [n \in 1..Len(asked) |->
        IF Serves(serve) /\ n \in Unserved /\ \A m \in Unserved : n <= m
        THEN [asked[n] EXCEPT !.answer = AnswerTo(hash.request, table[hash.request])] ELSE asked[n]]

MayAsk == Len(asked) < MaxAsked /\ (offered = None \/ Taken)

PeerStep(key, tready, serve) ==
    LET left == Rest(Noted(serve), Answered(tready))
    IN  /\ asked' = left \o (IF key # None THEN AskedWith(key) ELSE <<>>)
        /\ offered' = IF key # None THEN Packet(key) ELSE IF Taken THEN None ELSE offered
        /\ received' = IF Answered(tready) THEN 0
                       ELSE IF ReplyLeaves(tready) THEN received + 1 ELSE received

-----------------------------------------------------------------------------
(* The card *)

ParserClock == parser' = ParserStep(parser, offered, parser_ready)

FifoClock(tready, works) ==
    /\ fifo_peer_request' = Rest(fifo_peer_request, lup_req_ready)
                            \o Put(parser.key_valid /\ key_ready, parser.key)
    /\ fifo_lup_rsp' = Rest(fifo_lup_rsp, rsp_ready(tready, works))
                       \o Put(hash.answer # None /\ lup_res_ready, hash.answer)

\* The kernel serves one request a time, a lookup or an update.  lookup leaves
\* the pointer of a miss uninitialized, so that it may be the address of a box.
Astray(key, pointer) == ~Hit(key) /\ pointer # NoPointer
ServeLookup(serve) ==
    /\ Serves(serve)
    /\ \E pointer \in IF Hit(hash.request) THEN {table[hash.request]} ELSE MissAddresses :
        /\ hash' = [request |-> None, answer |-> AnswerTo(hash.request, pointer)]
        /\ strayed' = (strayed \/ Astray(hash.request, pointer))
    /\ UNCHANGED table
\* What updates make of the table between two lookups, seen when the kernel reads the
\* second one; no two keys have the same box.
Tables ==
    {now \in [Keys -> Pointers \cup {NoPointer}] :
        \A k, l \in Keys : now[k] = now[l] /\ now[k] # NoPointer => k = l}
Updated == IF lup_req_ready /\ fifo_peer_request # <<>> THEN Tables ELSE {table}
ReadLookup(serve, now) ==
    /\ ~Serves(serve)
    /\ hash' = [request |-> IF lup_req_ready THEN First(fifo_peer_request) ELSE hash.request,
                answer |-> IF lup_res_ready THEN None ELSE hash.answer]
    /\ table' = now
    /\ UNCHANGED strayed
HashClock(serve, now) == ServeLookup(serve) \/ ReadLookup(serve, now)

SplitClock(tready, works) ==
    split' = SplitStep(split, First(fifo_lup_rsp), meta_ready(tready), addr_ready(works))

\* The memory sends the words of a value one by one, each with its length, in the cycles in
\* which it works.
Words(p) ==
    IF p = NoPointer THEN <<>>
    ELSE [n \in 1..((Length[p] + 63) \div 64) |-> [len |-> Length[p], part |-> <<p, n>>]]
BramClock(works) ==
    bram' = IF bram # <<>> THEN Rest(bram, works /\ slice_ready)
            ELSE IF split.addr_valid /\ addr_ready(works) THEN Words(split.addr) ELSE <<>>
SliceClock(tready, works) ==
    slice' = Rest(slice, ram_ready(tready))
             \o (IF bram # <<>> /\ works /\ slice_ready THEN <<Head(bram)>> ELSE <<>>)

Meta == IF split.result_valid THEN [key |-> split.key, hit |-> split.hit] ELSE None
ReplyClock(tready) == reply' = ReplyStep(reply, Meta, First(slice), tready)

Clock(key, now, tready, serve, works) ==
    /\ reply.tvalid /\ reply.tlast => tready
    /\ PeerStep(key, tready, serve)
    /\ ParserClock
    /\ FifoClock(tready, works)
    /\ HashClock(serve, now)
    /\ SplitClock(tready, works)
    /\ BramClock(works)
    /\ SliceClock(tready, works)
    /\ ReplyClock(tready)

Init ==
    /\ asked = <<>> /\ offered = None /\ received = 0
    /\ parser = ParserReset /\ split = SplitReset /\ reply = ReplyReset
    /\ fifo_peer_request = <<>> /\ fifo_lup_rsp = <<>> /\ slice = <<>> /\ bram = <<>>
    /\ hash = [request |-> None, answer |-> None]
    /\ table = [k \in Keys |-> NoPointer]
    /\ strayed = FALSE

\* An input has more than one value only where it makes a difference.
Next ==
    \E key \in {None} \cup (IF MayAsk THEN Keys ELSE {}),
       now \in Updated,
       tready \in (IF reply.tvalid THEN BOOLEAN ELSE {TRUE}),
       serve \in (IF MayServe THEN BOOLEAN ELSE {TRUE}),
       works \in (IF bram # <<>> \/ split.addr_valid THEN BOOLEAN ELSE {TRUE}) :
        Clock(key, now, tready, serve, works)

Spec == Init /\ [][Next]_vars

\* The clock runs, the kernel and the memory work again and again, and so
\* does the network behind the card.  The peers need not ask.
Pause == \E now \in Updated : Clock(None, now, TRUE, TRUE, TRUE)
LiveSpec == Spec /\ WF_vars(Pause)

-----------------------------------------------------------------------------
(* Properties *)

\* The reply to a lookup with this answer: header and value, with the bytes
\* that count in its last beat.
ReplyTo(answer) ==
    LET len == IF answer.hit THEN Length[answer.pointer] ELSE 0
        total == HEADER_BYTES + len
        last == (total + 63) \div 64
        words == (len + 63) \div 64
        part(n) == <<answer.pointer, n>>
    IN  [n \in 1..last |->
            [low  |-> IF n = 1 THEN header(answer.key, len, answer.hit) ELSE part(n - 1),
             high |-> IF n <= words THEN part(n) ELSE Nothing,
             keep |-> IF n = last THEN total - 64 * (last - 1) ELSE 64,
             tlast |-> n = last, size |-> total]]

Shown == [low |-> reply.low, high |-> reply.high, keep |-> reply.keep, tlast |-> reply.tlast,
          size |-> reply.size]

\* Replies go out in the order in which the lookups were asked, whatever the
\* table sends along with a miss: each begins with the key that was asked for and with
\* what the table found for it, and the reply to a miss is complete with that.  The
\* memory is asked for the words of a miss all the same, and lkp_rep_parser.sv must
\* take none of them for the reply.
ReplyNamesLookup ==
    reply.tvalid =>
        /\ asked # <<>> /\ asked[1].answer # None
        /\ IF asked[1].answer.hit
           THEN received = 0 =>
                    \E len \in {Length[p] : p \in Pointers} :
                        reply.low = header(asked[1].answer.key, len, TRUE)
           ELSE received = 0 /\ Shown = ReplyTo(asked[1].answer)[1]

\* Lookups are answered in the order in which they were asked, and beat for
\* beat with what the table had for their key when it served them: key, hit and value
\* take three ways through the card and meet again.  It is so until a miss comes with the
\* address of a box, whose words nobody takes.
ReplyIsAnswer ==
    reply.tvalid /\ ~strayed =>
        /\ asked # <<>> /\ asked[1].answer # None
        /\ received + 1 \in DOMAIN ReplyTo(asked[1].answer)
        /\ Shown = ReplyTo(asked[1].answer)[received + 1]

\* A reply leaves nothing behind that could get into the next one: no request, no
\* answer and, until a miss comes with the address of a box, no word and no address.
NothingLeft ==
    asked = <<>> =>
        /\ parser.state # "ST_DROP" /\ ~parser.key_valid
        /\ fifo_peer_request = <<>> /\ fifo_lup_rsp = <<>>
        /\ hash = [request |-> None, answer |-> None]
        /\ ~split.result_valid /\ reply.state = "ST_IDLE" /\ ~reply.tvalid
        /\ ~strayed => slice = <<>> /\ bram = <<>> /\ (split.addr_valid => split.addr = NoPointer)

\* Every lookup is answered: with at most FIFO_DEPTH of them under way none
\* is thrown away, and words and answers never wait for each other.  Words that nobody
\* takes, of a miss with the address of a box, stop the memory.
LookupAnswered == asked # <<>> ~> (reply.tvalid /\ reply.tlast) \/ strayed

-----------------------------------------------------------------------------
(* What the next states depend on (a VIEW for TLC): registers that are written before     *)
(* they are read are left out, and all of the table but the key that waits to be looked   *)
(* up, because updates may make anything of it before the next one is read.               *)

LiveSplit ==
    [split EXCEPT !.key = IF split.result_valid THEN @ ELSE None,
                  !.hit = @ /\ split.result_valid,
                  !.addr = IF split.addr_valid THEN @ ELSE NoPointer]
LiveReply ==
    [reply EXCEPT !.meta_key_r = IF reply.state = "ST_WAIT_FIRST" THEN @ ELSE None,
                  !.packet_buffer = IF reply.state = "ST_SEND" THEN @ ELSE Nothing,
                  !.low = IF reply.tvalid THEN @ ELSE Nothing,
                  !.high = IF reply.tvalid THEN @ ELSE Nothing,
                  !.keep = IF reply.tvalid THEN @ ELSE 0,
                  !.size = IF reply.tvalid THEN @ ELSE 0]
LiveState ==
    <<asked, offered, parser, fifo_peer_request, hash, fifo_lup_rsp, LiveSplit, LiveReply, bram,
      slice, received, strayed, IF hash.request = None THEN NoPointer ELSE table[hash.request]>>
=============================================================================
